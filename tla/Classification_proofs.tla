------------------------ MODULE Classification_proofs ------------------------
(* The matcher's answer and its time for patterns and values of any length,   *)
(* and what the rules do to a site's cookies for any number of cookies, rules *)
(* and saves.                                                                *)
EXTENDS Classification, SequenceTheorems, TLAPS

-----------------------------------------------------------------------------
(* The matcher.                                                              *)

LEMMA MatchBegins == MatchInit => MatchTypeOK
<1>. SUFFICES ASSUME MatchInit  PROVE MatchTypeOK
  OBVIOUS
<1>1. ASSUME NEW t \in Texts  PROVE t \in Seq(Letters \cup {Star}) /\ Len(t) \in Nat
  <2>1. PICK n \in Nat : t \in [1..n -> Letters \cup {Star}]
    BY LettersAssumption DEF Texts, BoundedSeq, SeqOf
  <2>2. t \in Seq(Letters \cup {Star})
    BY <2>1
  <2>. QED  BY <2>2, LenProperties
<1>. QED  BY <1>1 DEF MatchInit, MatchTypeOK

\* The positions stay in the pattern and the value, and the last star is one.
LEMMA MatchTyped ==
  ASSUME MatchTypeOK, [MatchNext]_matchVars
  PROVE  MatchTypeOK'
<1>0. /\ Len(pattern) \in Nat /\ Len(value) \in Nat
      /\ atPattern \in 0..Len(pattern) /\ atValue \in 0..Len(value) /\ lastStar \in 0..atPattern
      /\ (lastStar # 0 => pattern[lastStar] = Star) /\ resume \in 0..atValue /\ turns \in Nat
      /\ answer \in {"none", "yes", "no"}
      /\ pattern \in Seq(Letters \cup {Star}) /\ value \in Seq(Letters \cup {Star})
  BY LenProperties DEF MatchTypeOK
<1>. USE <1>0 DEF MatchTypeOK, Turn
<1>1. CASE TakeStar
  BY <1>1 DEF TakeStar, AtStar
<1>2. CASE TakeLetter
  BY <1>2 DEF TakeLetter, AtLetter
<1>3. CASE Retry
  BY <1>3 DEF Retry, Resumed
<1>4. CASE Mismatch
  BY <1>4 DEF Mismatch
<1>5. CASE SkipStar
  BY <1>5 DEF SkipStar, AtStar
<1>6. CASE Return
  BY <1>6 DEF Return
<1>7. CASE UNCHANGED matchVars
  BY <1>7 DEF matchVars
<1>. QED  BY <1>1, <1>2, <1>3, <1>4, <1>5, <1>6, <1>7 DEF MatchNext

\* A pass takes the match one position further in the pattern, or lets the
\* last star swallow one character more.
Passes == resume * (Len(pattern) + 1) + atPattern

TimeInv ==
  /\ MatchTypeOK
  /\ turns <= Passes + 1
  /\ answer = "none" => turns <= Passes

LEMMA TimesMonotone ==
  ASSUME NEW a \in Nat, NEW b \in Nat, NEW k \in Nat, a <= b
  PROVE  a * k \in Nat /\ b * k \in Nat /\ a * k <= b * k
<1>1. b = a + (b - a) /\ b - a \in Nat
  OBVIOUS
<1>2. b * k = a * k + (b - a) * k
  BY <1>1
<1>3. a * k \in Nat /\ (b - a) * k \in Nat
  BY <1>1
<1>. QED  BY <1>2, <1>3

LEMMA TimesNext ==
  ASSUME NEW a \in Nat, NEW k \in Nat
  PROVE  (a + 1) * k = a * k + k
OBVIOUS

LEMMA TimeKept ==
  ASSUME TimeInv, [MatchNext]_matchVars
  PROVE  TimeInv'
<1>0. MatchTypeOK /\ MatchTypeOK'
  BY MatchTyped DEF TimeInv
<1>. DEFINE K == Len(pattern) + 1
<1>1. /\ Len(pattern) \in Nat /\ Len(value) \in Nat /\ K \in Nat
      /\ atPattern \in Nat /\ atPattern <= Len(pattern) /\ lastStar \in Nat
      /\ resume \in Nat /\ atValue \in Nat /\ resume <= atValue /\ turns \in Nat
      /\ answer \in {"none", "yes", "no"}
  BY <1>0, LenProperties DEF MatchTypeOK
<1>. HIDE DEF K
<1>9. /\ resume * K \in Nat /\ atValue * K \in Nat /\ resume * K <= atValue * K
      /\ (resume + 1) * K = resume * K + K
  BY <1>1, TimesMonotone, TimesNext
<1>. USE DEF K
<1>2. turns <= resume * K + atPattern + 1
  BY <1>1 DEF TimeInv, Passes
<1>3. CASE UNCHANGED matchVars
  BY <1>0, <1>3 DEF matchVars, TimeInv, Passes
<1>4. ASSUME MatchNext
      PROVE  /\ turns <= resume * K + atPattern /\ turns' = turns + 1
             /\ K' = K /\ answer = "none"
  BY <1>1, <1>9, <1>4 DEF MatchNext, TakeStar, TakeLetter, Retry, Mismatch, SkipStar, Return, Turn, TimeInv, Passes
<1>5. CASE TakeStar
  <2>1. resume' = atValue /\ atPattern' = atPattern + 1 /\ turns' <= resume' * K + atPattern'
    BY <1>1, <1>9, <1>4, <1>5 DEF TakeStar, MatchNext
  <2>2. K' = K /\ resume' * K \in Nat /\ atPattern' \in Nat /\ turns' \in Nat
    BY <1>1, <1>9, <1>4, <1>5, <2>1 DEF MatchNext
  <2>. HIDE DEF K
  <2>3. turns' <= resume' * K' + atPattern' + 1 /\ turns' <= resume' * K' + atPattern'
    BY <2>1, <2>2
  <2>. QED  BY <1>0, <2>3 DEF TimeInv, Passes, K
<1>6. CASE TakeLetter \/ SkipStar
  <2>0. turns <= resume * K + atPattern /\ turns' = turns + 1
    BY <1>4, <1>6 DEF MatchNext
  <2>a. resume' = resume /\ atPattern' = atPattern + 1
    BY <1>6 DEF TakeLetter, SkipStar
  <2>1. resume' = resume /\ atPattern' = atPattern + 1 /\ turns' <= resume' * K + atPattern'
    BY <1>1, <1>9, <2>0, <2>a
  <2>2. K' = K /\ resume' * K \in Nat /\ atPattern' \in Nat /\ turns' \in Nat
    BY <1>1, <1>9, <1>4, <1>6, <2>1 DEF MatchNext
  <2>. HIDE DEF K
  <2>3. turns' <= resume' * K' + atPattern' + 1 /\ turns' <= resume' * K' + atPattern'
    BY <2>1, <2>2
  <2>. QED  BY <1>0, <2>3 DEF TimeInv, Passes, K
<1>7. CASE Retry
  <2>1. resume' = resume + 1 /\ atPattern' = lastStar
    BY <1>7 DEF Retry, Resumed
  <2>2. resume' * K = resume * K + K /\ K' = K /\ turns' = turns + 1 /\ turns <= resume * K + atPattern
    BY <1>1, <1>9, <1>4, <1>7, <2>1 DEF MatchNext
  <2>3. turns' <= resume' * K + atPattern'
    BY <1>1, <1>9, <2>1, <2>2
  <2>4. K' = K /\ resume' * K \in Nat /\ atPattern' \in Nat /\ turns' \in Nat
    BY <1>1, <1>9, <2>1, <2>2
  <2>. HIDE DEF K
  <2>5. turns' <= resume' * K' + atPattern' + 1 /\ turns' <= resume' * K' + atPattern'
    BY <2>3, <2>4
  <2>. QED  BY <1>0, <2>5 DEF TimeInv, Passes, K
<1>8. CASE Mismatch \/ Return
  <2>1. /\ resume' = resume /\ atPattern' = atPattern /\ answer' # "none"
    BY <1>8 DEF Mismatch, Return
  <2>2. turns' <= resume' * K + atPattern' + 1 /\ K' = K
    BY <1>1, <1>9, <1>4, <1>8, <2>1 DEF MatchNext
  <2>. HIDE DEF K
  <2>3. turns' <= resume' * K' + atPattern' + 1
    BY <2>2
  <2>. QED  BY <1>0, <2>1, <2>3 DEF TimeInv, Passes, K
<1>. QED  BY <1>3, <1>5, <1>6, <1>7, <1>8 DEF MatchNext

\* The matcher's positions never leave the pattern and the value, and the
\* star it goes back to is one.
THEOREM MatchTypeCorrect == MatchSpec => []MatchTypeOK
<1>1. MatchInit => MatchTypeOK
  BY MatchBegins
<1>2. MatchTypeOK /\ [MatchNext]_matchVars => MatchTypeOK'
  BY MatchTyped
<1>. QED  BY <1>1, <1>2, PTL DEF MatchSpec

\* However many stars the pattern contains, the two loops pass no more often
\* than the lengths multiplied.
THEOREM TimeBounded == MatchSpec => []TimeIsProduct
<1>1. MatchInit => TimeInv
  <2>. SUFFICES ASSUME MatchInit  PROVE TimeInv
    OBVIOUS
  <2>1. MatchTypeOK /\ Len(pattern) \in Nat
    BY MatchBegins, LenProperties DEF MatchTypeOK
  <2>2. Passes = 0 /\ turns = 0
    BY <2>1 DEF MatchInit, Passes
  <2>. QED  BY <2>1, <2>2 DEF TimeInv
<1>2. TimeInv /\ [MatchNext]_matchVars => TimeInv'
  BY TimeKept
<1>3. TimeInv => TimeIsProduct
  <2>. SUFFICES ASSUME TimeInv  PROVE TimeIsProduct
    OBVIOUS
  <2>. DEFINE K == Len(pattern) + 1
              L == Len(value) + 1
  <2>1. /\ K \in Nat /\ L \in Nat /\ resume \in Nat /\ resume <= L /\ turns \in Nat
        /\ atPattern \in Nat /\ atPattern <= Len(pattern) /\ Len(pattern) \in Nat
    BY LenProperties DEF TimeInv, MatchTypeOK
  <2>2. resume * K \in Nat /\ L * K \in Nat /\ resume * K <= L * K /\ K * L = L * K
    BY <2>1, TimesMonotone
  <2>3. turns <= resume * K + atPattern + 1
    BY DEF TimeInv, Passes
  <2>4. turns <= K * L + Len(pattern) + 1
    BY <2>1, <2>2, <2>3
  <2>. QED  BY <2>4 DEF TimeIsProduct
<1>. QED  BY <1>1, <1>2, <1>3, PTL DEF MatchSpec

-----------------------------------------------------------------------------
(* The matcher's answer.                                                     *)

\* How much of the value is behind the first i characters of the pattern.
At(cut, i) == IF i = 0 THEN 0 ELSE cut[i]

\* The first n characters of pattern p have the first j of value v, cut so.
Covers(p, v, cut, n, j) ==
  /\ cut \in [1..Len(p) -> 0..Len(v)]
  /\ \A i \in 1..n :
       IF p[i] = Star THEN At(cut, i - 1) <= At(cut, i)
       ELSE At(cut, i) = At(cut, i - 1) + 1 /\ p[i] = v[At(cut, i)]
  /\ At(cut, n) = j

LEMMA GlobCovers ==
  ASSUME Len(pattern) \in Nat
  PROVE  Glob <=> \E cut : Covers(pattern, value, cut, Len(pattern), Len(value))
<1>1. ASSUME NEW cut \in [1..Len(pattern) -> 0..Len(value)]
      PROVE  /\ \A i \in 1..Len(pattern) :
                  /\ At(cut, i) = cut[i]
                  /\ At(cut, i - 1) = IF i = 1 THEN 0 ELSE cut[i - 1]
             /\ At(cut, Len(pattern)) =
                  IF Len(pattern) + 1 = 1 THEN 0 ELSE cut[Len(pattern) + 1 - 1]
  BY DEF At
<1>2. ASSUME Glob  PROVE \E cut : Covers(pattern, value, cut, Len(pattern), Len(value))
  BY <1>1, <1>2 DEF Glob, Covers
<1>3. ASSUME NEW cut, Covers(pattern, value, cut, Len(pattern), Len(value))  PROVE Glob
  BY <1>1, <1>3 DEF Glob, Covers
<1>. QED  BY <1>2, <1>3

\* One character more: a star with what it is given, a letter with itself.
LEMMA CoversMore ==
  ASSUME NEW p, NEW v, Len(p) \in Nat, Len(v) \in Nat,
         NEW n \in 0..Len(p), n < Len(p), NEW j \in 0..Len(v), NEW k \in 0..Len(v),
         NEW cut, Covers(p, v, cut, n, j),
         IF p[n + 1] = Star THEN j <= k ELSE k = j + 1 /\ p[n + 1] = v[k]
  PROVE  \E other : Covers(p, v, other, n + 1, k)
<1>. DEFINE other == [cut EXCEPT ![n + 1] = k]
<1>1. other \in [1..Len(p) -> 0..Len(v)] /\ n + 1 \in 1..Len(p)
  BY DEF Covers
<1>2. At(other, n + 1) = k /\ \A i \in 0..n : At(other, i) = At(cut, i)
  BY <1>1 DEF Covers, At
<1>. HIDE DEF other
<1>3. ASSUME NEW i \in 1..(n + 1)
      PROVE  IF p[i] = Star THEN At(other, i - 1) <= At(other, i)
             ELSE At(other, i) = At(other, i - 1) + 1 /\ p[i] = v[At(other, i)]
  <2>1. CASE i = n + 1
    <3>1. At(other, i - 1) = j /\ At(other, i) = k
      BY <1>2, <2>1 DEF Covers
    <3>. QED  BY <2>1, <3>1
  <2>2. CASE i # n + 1
    <3>1. i \in 1..n /\ At(other, i) = At(cut, i) /\ At(other, i - 1) = At(cut, i - 1)
      BY <1>2, <2>2
    <3>. QED  BY <3>1 DEF Covers
  <2>. QED  BY <2>1, <2>2
<1>. QED  BY <1>1, <1>2, <1>3 DEF Covers

\* A star that is the last of some characters may have any number more.
LEMMA CoversStar ==
  ASSUME NEW p, NEW v, Len(p) \in Nat, Len(v) \in Nat,
         NEW n \in 1..Len(p), p[n] = Star, NEW j \in 0..Len(v), NEW k \in 0..Len(v), j <= k,
         NEW cut, Covers(p, v, cut, n, j)
  PROVE  \E other : Covers(p, v, other, n, k)
<1>. DEFINE other == [cut EXCEPT ![n] = k]
<1>1. other \in [1..Len(p) -> 0..Len(v)]
  BY DEF Covers
<1>2. At(other, n) = k /\ \A i \in 0..(n - 1) : At(other, i) = At(cut, i)
  BY <1>1 DEF Covers, At
<1>. HIDE DEF other
<1>3. At(cut, n - 1) \in 0..j
  <2>1. cut \in [1..Len(p) -> 0..Len(v)] /\ At(cut, n - 1) <= At(cut, n) /\ At(cut, n) = j
    BY DEF Covers
  <2>. QED  BY <2>1 DEF At
<1>4. ASSUME NEW i \in 1..n
      PROVE  IF p[i] = Star THEN At(other, i - 1) <= At(other, i)
             ELSE At(other, i) = At(other, i - 1) + 1 /\ p[i] = v[At(other, i)]
  <2>1. CASE i = n
    <3>1. At(other, i - 1) \in 0..j /\ At(other, i) = k
      BY <1>2, <1>3, <2>1
    <3>. QED  BY <2>1, <3>1
  <2>2. CASE i # n
    <3>1. i \in 1..n /\ At(other, i) = At(cut, i) /\ At(other, i - 1) = At(cut, i - 1)
      BY <1>2, <2>2
    <3>. QED  BY <3>1 DEF Covers
  <2>. QED  BY <2>1, <2>2
<1>. QED  BY <1>1, <1>2, <1>4 DEF Covers

\* What the matcher has dealt with fits, and so does all before the last star
\* where it was taken up again.
Sound ==
  /\ \E cut : Covers(pattern, value, cut, atPattern, atValue)
  /\ lastStar # 0 => \E cut : Covers(pattern, value, cut, lastStar, resume)

\* No way to match is lost: any cut has the last star end where the value was
\* taken up again or later, and the matcher at its place as far behind that
\* star, or farther once the value is at its end.
Ahead(cut) ==
  /\ At(cut, lastStar) >= resume
  /\ At(cut, atPattern) >= At(cut, lastStar) + (atValue - resume)
  /\ atValue < Len(value) => At(cut, atPattern) = At(cut, lastStar) + (atValue - resume)

Matches(cut) == Covers(pattern, value, cut, Len(pattern), Len(value))

GlobInv ==
  /\ MatchTypeOK
  /\ lastStar = 0 => resume = 0
  /\ Sound
  /\ \A cut : Matches(cut) => Ahead(cut)
  /\ answer = "yes" => Glob
  /\ answer = "no" => ~Glob

LEMMA SoundKept ==
  ASSUME GlobInv, MatchNext
  PROVE  Sound'
<1>1. /\ pattern' = pattern /\ value' = value /\ Len(pattern) \in Nat /\ Len(value) \in Nat
      /\ atPattern \in 0..Len(pattern) /\ atValue \in 0..Len(value) /\ resume \in 0..atValue
      /\ lastStar \in 0..atPattern /\ (lastStar # 0 => pattern[lastStar] = Star)
  BY LenProperties
     DEF GlobInv, MatchTypeOK, MatchNext, TakeStar, TakeLetter, Retry, Mismatch, SkipStar, Return, Turn
<1>2. PICK cut : Covers(pattern, value, cut, atPattern, atValue)
  BY DEF GlobInv, Sound
<1>3. CASE TakeStar \/ SkipStar
  <2>1. atPattern < Len(pattern) /\ pattern[atPattern + 1] = Star /\ atPattern' = atPattern + 1 /\ atValue' = atValue
    BY <1>3 DEF TakeStar, SkipStar, AtStar
  <2>2. \E other : Covers(pattern, value, other, atPattern + 1, atValue)
    BY <1>1, <1>2, <2>1, CoversMore
  <2>3. \/ lastStar' = lastStar /\ resume' = resume
        \/ lastStar' = atPattern' /\ resume' = atValue'
    BY <1>3 DEF TakeStar, SkipStar
  <2>. QED  BY <1>1, <2>1, <2>2, <2>3 DEF GlobInv, Sound
<1>4. CASE TakeLetter
  <2>1. /\ atPattern < Len(pattern) /\ atPattern' = atPattern + 1 /\ atValue' = atValue + 1
        /\ pattern[atPattern + 1] # Star /\ pattern[atPattern + 1] = value[atValue + 1]
        /\ atValue < Len(value) /\ lastStar' = lastStar /\ resume' = resume
    BY <1>4 DEF TakeLetter, AtLetter, AtStar
  <2>2. \E other : Covers(pattern, value, other, atPattern + 1, atValue + 1)
    BY <1>1, <1>2, <2>1, CoversMore
  <2>. QED  BY <1>1, <2>1, <2>2 DEF GlobInv, Sound
<1>5. CASE Retry
  <2>1. /\ lastStar # 0 /\ atPattern' = lastStar /\ atValue' = resume + 1 /\ resume' = resume + 1
        /\ lastStar' = lastStar /\ atValue < Len(value)
    BY <1>5 DEF Retry, Resumed
  <2>2. PICK c : Covers(pattern, value, c, lastStar, resume)
    BY <2>1 DEF GlobInv, Sound
  <2>3. \E other : Covers(pattern, value, other, lastStar, resume + 1)
    BY <1>1, <2>1, <2>2, CoversStar
  <2>. QED  BY <1>1, <2>1, <2>3 DEF Sound
<1>6. CASE Mismatch \/ Return
  BY <1>1, <1>6 DEF Mismatch, Return, GlobInv, Sound
<1>. QED  BY <1>3, <1>4, <1>5, <1>6 DEF MatchNext

\* Where no star is next, a cut that has the matcher at its place has its
\* letter next too.
LEMMA MustBeLetter ==
  ASSUME MatchTypeOK, ~AtStar, atValue < Len(value),
         NEW cut, Matches(cut), At(cut, atPattern) = atValue
  PROVE  AtLetter
<1>1. /\ Len(pattern) \in Nat /\ Len(value) \in Nat
      /\ atPattern \in 0..Len(pattern) /\ atValue \in 0..Len(value)
  BY LenProperties DEF MatchTypeOK
<1>2. atPattern < Len(pattern)
  BY <1>1 DEF Matches, Covers
<1>3. atPattern + 1 \in 1..Len(pattern) /\ (atPattern + 1) - 1 = atPattern /\ pattern[atPattern + 1] # Star
  BY <1>1, <1>2 DEF AtStar
<1>4. At(cut, atPattern + 1) = atValue + 1 /\ pattern[atPattern + 1] = value[atValue + 1]
  BY <1>1, <1>3 DEF Matches, Covers
<1>. QED  BY <1>2, <1>4 DEF AtLetter

\* The next character of a cut: a star ends no earlier than it begins, a
\* letter is one.
LEMMA NextCut ==
  ASSUME MatchTypeOK, NEW cut, Matches(cut), atPattern < Len(pattern)
  PROVE  /\ At(cut, atPattern) \in 0..Len(value) /\ At(cut, atPattern + 1) \in 0..Len(value)
         /\ pattern[atPattern + 1] = Star => At(cut, atPattern) <= At(cut, atPattern + 1)
         /\ pattern[atPattern + 1] # Star => At(cut, atPattern + 1) = At(cut, atPattern) + 1
<1>1. /\ Len(pattern) \in Nat /\ Len(value) \in Nat /\ atPattern \in 0..Len(pattern)
      /\ cut \in [1..Len(pattern) -> 0..Len(value)]
  BY LenProperties DEF MatchTypeOK, Matches, Covers
<1>2. atPattern + 1 \in 1..Len(pattern) /\ (atPattern + 1) - 1 = atPattern
  BY <1>1
<1>3. At(cut, atPattern) \in 0..Len(value) /\ At(cut, atPattern + 1) \in 0..Len(value)
  BY <1>1, <1>2 DEF At
<1>. QED  BY <1>2, <1>3 DEF Matches, Covers

LEMMA AheadKept ==
  ASSUME GlobInv, MatchNext, NEW cut, Matches(cut)
  PROVE  Ahead(cut)'
<1>1. /\ pattern' = pattern /\ value' = value /\ Len(pattern) \in Nat /\ Len(value) \in Nat
      /\ atPattern \in 0..Len(pattern) /\ atValue \in 0..Len(value) /\ resume \in 0..atValue
      /\ lastStar \in 0..atPattern /\ MatchTypeOK
  BY LenProperties
     DEF GlobInv, MatchTypeOK, MatchNext, TakeStar, TakeLetter, Retry, Mismatch, SkipStar, Return, Turn
<1>2. /\ At(cut, atPattern) \in 0..Len(value) /\ At(cut, lastStar) \in 0..Len(value)
  BY <1>1 DEF Matches, Covers, At
<1>3. /\ At(cut, lastStar) >= resume
      /\ At(cut, atPattern) >= At(cut, lastStar) + (atValue - resume)
      /\ atValue < Len(value) => At(cut, atPattern) = At(cut, lastStar) + (atValue - resume)
  BY DEF GlobInv, Ahead
<1>4. CASE TakeStar
  <2>1. /\ atPattern < Len(pattern) /\ pattern[atPattern + 1] = Star /\ atPattern' = atPattern + 1
        /\ atValue' = atValue /\ lastStar' = atPattern + 1 /\ resume' = atValue
    BY <1>4 DEF TakeStar, AtStar
  <2>2. At(cut, atPattern) <= At(cut, atPattern + 1) /\ At(cut, atPattern + 1) \in 0..Len(value)
    BY <1>1, <2>1, NextCut
  <2>. QED  BY <1>1, <1>2, <1>3, <2>1, <2>2 DEF Ahead
<1>5. CASE TakeLetter
  <2>1. /\ atPattern < Len(pattern) /\ pattern[atPattern + 1] # Star /\ atPattern' = atPattern + 1
        /\ atValue' = atValue + 1 /\ atValue < Len(value) /\ lastStar' = lastStar /\ resume' = resume
    BY <1>5 DEF TakeLetter, AtLetter, AtStar
  <2>2. At(cut, atPattern + 1) = At(cut, atPattern) + 1
    BY <1>1, <2>1, NextCut
  <2>. QED  BY <1>1, <1>2, <1>3, <2>1, <2>2 DEF Ahead
<1>6. CASE Retry
  <2>1. /\ atPattern' = lastStar /\ atValue' = resume + 1 /\ resume' = resume + 1
        /\ lastStar' = lastStar /\ atValue < Len(value) /\ ~AtStar /\ ~AtLetter
    BY <1>6 DEF Retry, Resumed
  <2>2. At(cut, atPattern) # atValue
    BY <1>1, <2>1, MustBeLetter
  <2>3. At(cut, lastStar) >= resume + 1
    BY <1>1, <1>2, <1>3, <2>1, <2>2
  <2>. QED  BY <1>1, <1>2, <2>1, <2>3 DEF Ahead
<1>7. CASE SkipStar
  <2>1. /\ atPattern < Len(pattern) /\ pattern[atPattern + 1] = Star /\ atPattern' = atPattern + 1
        /\ atValue' = atValue /\ lastStar' = lastStar /\ resume' = resume /\ atValue = Len(value)
    BY <1>7 DEF SkipStar, AtStar
  <2>2. At(cut, atPattern) <= At(cut, atPattern + 1) /\ At(cut, atPattern + 1) \in 0..Len(value)
    BY <1>1, <2>1, NextCut
  <2>. QED  BY <1>1, <1>2, <1>3, <2>1, <2>2 DEF Ahead
<1>8. CASE Mismatch \/ Return
  BY <1>1, <1>3, <1>8 DEF Mismatch, Return, Ahead
<1>. QED  BY <1>4, <1>5, <1>6, <1>7, <1>8 DEF MatchNext

LEMMA AnswerRight ==
  ASSUME GlobInv, MatchNext
  PROVE  (answer' = "yes" => Glob) /\ (answer' = "no" => ~Glob)
<1>1. /\ Len(pattern) \in Nat /\ Len(value) \in Nat /\ MatchTypeOK
      /\ atPattern \in 0..Len(pattern) /\ atValue \in 0..Len(value) /\ resume \in 0..atValue
      /\ lastStar \in 0..atPattern
  BY LenProperties DEF GlobInv, MatchTypeOK
<1>2. Glob <=> \E cut : Matches(cut)
  BY <1>1, GlobCovers DEF Matches
<1>3. ASSUME NEW cut, Matches(cut)
      PROVE  /\ At(cut, atPattern) \in 0..Len(value) /\ At(cut, lastStar) \in 0..Len(value)
             /\ At(cut, lastStar) >= resume
             /\ At(cut, atPattern) >= At(cut, lastStar) + (atValue - resume)
             /\ atValue < Len(value) => At(cut, atPattern) = At(cut, lastStar) + (atValue - resume)
  <2>1. At(cut, atPattern) \in 0..Len(value) /\ At(cut, lastStar) \in 0..Len(value)
    BY <1>1, <1>3 DEF Matches, Covers, At
  <2>. QED  BY <1>3, <2>1 DEF GlobInv, Ahead
<1>4. CASE TakeStar \/ TakeLetter \/ Retry \/ SkipStar
  BY <1>4 DEF TakeStar, TakeLetter, Retry, SkipStar, Turn
<1>5. CASE Mismatch
  <2>1. lastStar = 0 /\ resume = 0 /\ ~AtStar /\ ~AtLetter /\ atValue < Len(value) /\ answer' = "no"
    BY <1>5 DEF Mismatch, GlobInv
  <2>2. ASSUME NEW cut, Matches(cut)  PROVE FALSE
    <3>1. At(cut, lastStar) = 0
      BY <2>1 DEF At
    <3>2. At(cut, atPattern) = atValue
      BY <1>1, <1>3, <2>1, <2>2, <3>1
    <3>. QED  BY <1>1, <2>1, <2>2, <3>2, MustBeLetter
  <2>. QED  BY <1>2, <2>1, <2>2
<1>6. CASE Return
  <2>1. /\ atValue = Len(value) /\ ~AtStar
        /\ answer' = IF atPattern = Len(pattern) THEN "yes" ELSE "no"
    BY <1>6 DEF Return
  <2>2. CASE atPattern = Len(pattern)
    BY <1>2, <2>1, <2>2 DEF GlobInv, Sound, Matches
  <2>3. CASE atPattern # Len(pattern)
    <3>1. atPattern < Len(pattern) /\ pattern[atPattern + 1] # Star
      BY <1>1, <2>1, <2>3 DEF AtStar
    <3>2. ASSUME NEW cut, Matches(cut)  PROVE FALSE
      <4>1. At(cut, atPattern + 1) = At(cut, atPattern) + 1 /\ At(cut, atPattern + 1) \in 0..Len(value)
        BY <1>1, <3>1, <3>2, NextCut
      <4>. QED  BY <1>1, <1>3, <2>1, <3>2, <4>1
    <3>. QED  BY <1>2, <2>1, <2>3, <3>2
  <2>. QED  BY <2>2, <2>3
<1>. QED  BY <1>4, <1>5, <1>6 DEF MatchNext

LEMMA GlobKept ==
  ASSUME GlobInv, [MatchNext]_matchVars
  PROVE  GlobInv'
<1>1. MatchTypeOK'
  BY MatchTyped DEF GlobInv
<1>2. ASSUME MatchNext  PROVE GlobInv'
  <2>1. pattern' = pattern /\ value' = value
    BY <1>2 DEF MatchNext, TakeStar, TakeLetter, Retry, Mismatch, SkipStar, Return, Turn
  <2>2. (Glob' <=> Glob) /\ \A cut : Matches(cut)' <=> Matches(cut)
    BY <2>1 DEF Glob, Matches
  <2>3. (lastStar = 0 => resume = 0)'
    BY <1>2 DEF MatchNext, TakeStar, TakeLetter, Retry, Mismatch, SkipStar, Return, GlobInv, MatchTypeOK
  <2>4. Sound'
    BY <1>2, SoundKept
  <2>5. \A cut : Matches(cut)' => Ahead(cut)'
    BY <1>2, <2>2, AheadKept
  <2>6. (answer' = "yes" => Glob') /\ (answer' = "no" => ~Glob')
    BY <1>2, <2>2, AnswerRight
  <2>. QED  BY <1>1, <2>3, <2>4, <2>5, <2>6 DEF GlobInv
<1>3. CASE UNCHANGED matchVars
  BY <1>1, <1>3 DEF matchVars, GlobInv, Sound, Matches, Ahead, Glob
<1>. QED  BY <1>2, <1>3

\* For any pattern and any value, the one pass that goes back to the last star
\* alone gives the answer that the pattern means (_wildcard_match).
THEOREM MatchDecides == MatchSpec => []MatchIsGlob
<1>1. MatchInit => GlobInv
  <2>. SUFFICES ASSUME MatchInit  PROVE GlobInv
    OBVIOUS
  <2>1. /\ MatchTypeOK /\ Len(pattern) \in Nat /\ Len(value) \in Nat
        /\ atPattern = 0 /\ atValue = 0 /\ lastStar = 0 /\ resume = 0 /\ answer = "none"
    BY MatchBegins, LenProperties DEF MatchTypeOK, MatchInit
  <2>2. Covers(pattern, value, [i \in 1..Len(pattern) |-> 0], 0, 0)
    BY <2>1 DEF Covers, At
  <2>. QED  BY <2>1, <2>2 DEF GlobInv, Sound, Ahead, At
<1>2. GlobInv /\ [MatchNext]_matchVars => GlobInv'
  BY GlobKept
<1>3. GlobInv => MatchIsGlob
  BY DEF GlobInv, MatchIsGlob, MatchTypeOK
<1>. QED  BY <1>1, <1>2, <1>3, PTL DEF MatchSpec

-----------------------------------------------------------------------------
(* What the rules do to the site's cookies.                                 *)

Row == [category : Categories \cup {None}, review : Reviews \cup {"none"},
        by : {"nobody", "rule", "editor"}]

Partial(S) == UNION {[D -> S] : D \in SUBSET Names}

RequestSteps == {"idle", "allow", "rules", "write"}
ScanSteps == {"idle", "store", "known", "sync", "flush"}

ClassifyTypeOK ==
  /\ rows \in [Names -> Row] /\ rules \subseteq Rules /\ lasting \subseteq rules
  /\ request \in [step : RequestSteps, loaded : SUBSET Rules, writes : Partial(Categories),
                  batched : SUBSET Names, held : SUBSET Names, lost : SUBSET Names]
  /\ scan \in [step : ScanSteps, todo : SUBSET Names, loaded : SUBSET Rules, cookie : Names \cup {None},
               saw : Row, verdicts : Partial(Categories \cup {None}), held : SUBSET Names,
               lost : BOOLEAN]

\* The allow-list entries that have stood all along.
Standing == {r \in lasting : r.kind = "allow"}

\* A category that a rule may give cookie c.
Allowed(c, category) ==
  (\E r \in Standing : c \in r.fits) =>
    \E r \in Rules : r.kind = "allow" /\ c \in r.fits /\ r.category = category

\* Everyone who is about to classify has the standing entries at hand, and
\* what is waiting to be written is what they allow.
ReaderInv ==
  /\ request.step \in {"allow", "rules"} => Standing \subseteq request.loaded
  /\ scan.step = "known" => Standing \subseteq scan.loaded /\ scan.cookie \in Names
  /\ \A c \in DOMAIN request.writes \ Own : Allowed(c, request.writes[c])
  /\ \A c \in DOMAIN scan.verdicts \ Own : scan.verdicts[c] = None \/ Allowed(c, scan.verdicts[c])

\* Sync goes through what the scan stored and locks no other row.
ScanInv ==
  /\ scan.held \subseteq DOMAIN scan.verdicts
  /\ scan.step \in {"sync", "flush"} => scan.todo \subseteq DOMAIN scan.verdicts
  /\ scan.step = "flush" => scan.cookie \in DOMAIN scan.verdicts
  /\ scan.step \in {"store", "known"} => scan.held = {}

\* A row that the request is to write is there, or its loss is known.
WriteInv ==
  /\ request.held \subseteq DOMAIN request.writes
  /\ request.step # "write" => request.writes = <<>>
  /\ request.held \cap request.lost = {}
  /\ \A c \in DOMAIN request.writes : c \in request.lost \/ Present(c)

ClassifyInv ==
  ClassifyTypeOK /\ ReaderInv /\ ScanInv /\ WriteInv /\ OverrideWins

LEMMA EmptyPartial ==
  ASSUME NEW S
  PROVE  <<>> \in Partial(S) /\ DOMAIN <<>> = {}
<1>1. <<>> \in [{} -> S] /\ DOMAIN <<>> = {}
  OBVIOUS
<1>. QED  BY <1>1 DEF Partial

LEMMA PartialFunction ==
  ASSUME NEW S, NEW f \in Partial(S)
  PROVE  DOMAIN f \subseteq Names /\ f \in [DOMAIN f -> S]
BY DEF Partial

LEMMA PartialBuilt ==
  ASSUME NEW S, NEW D \in SUBSET Names, NEW f \in [D -> S]
  PROVE  f \in Partial(S)
BY DEF Partial

LEMMA VerdictTyped ==
  ASSUME NEW c, NEW loaded \in SUBSET Rules, NEW v \in Verdicts(c, loaded)
  PROVE  v \in Categories \cup {None}
<1>1. \A r \in loaded : r.category \in Categories
  BY RulesAssumption
<1>. QED  BY <1>1, RulesAssumption DEF Verdicts

\* Nothing outranks an allow-list entry, and one outranks all else.
LEMMA VerdictAllowed ==
  ASSUME NEW c \in Names \ Own, NEW loaded \in SUBSET Rules, Standing \subseteq loaded,
         NEW v \in Verdicts(c, loaded)
  PROVE  Allowed(c, v)
<1>. SUFFICES ASSUME NEW s \in Standing, c \in s.fits
     PROVE  \E r \in Rules : r.kind = "allow" /\ c \in r.fits /\ r.category = v
  BY DEF Allowed
<1>. DEFINE fitting == {r \in loaded : c \in r.fits}
            first == {r \in fitting : \A o \in fitting : ~Outranks(o, r)}
<1>1. s \in fitting /\ s.kind = "allow"
  BY DEF Standing
<1>2. Rank("allow") = 1 /\ Rank("exact") = 2 /\ Rank("regex") = 3
  BY DEF Rank
<1>3. \A r \in fitting : r.kind \in {"allow", "exact", "regex"}
  BY RulesAssumption DEF Kinds
<1>4. s \in first
  <2>1. \A o \in fitting : ~Outranks(o, s)
    BY <1>1, <1>2, <1>3 DEF Outranks
  <2>. QED  BY <1>1, <2>1
<1>5. \A r \in first : r.kind = "allow"
  BY <1>1, <1>2, <1>3 DEF Outranks
<1>6. v \in {r.category : r \in first}
  BY <1>4 DEF Verdicts
<1>. QED  BY <1>5, <1>6

\* A rule that goes leaves fewer cookies decided.
LEMMA AllowedStays ==
  ASSUME lasting' \subseteq lasting
  PROVE  /\ Standing' \subseteq Standing
         /\ \A c, v : Allowed(c, v) => Allowed(c, v)'
BY DEF Standing, Allowed

LEMMA StandingSaved ==
  ASSUME ClassifyTypeOK
  PROVE  Standing \subseteq OfKind({"allow"}) /\ OfKind({"allow"}) \subseteq Rules
         /\ OfKind({"exact", "regex"}) \subseteq Rules
BY DEF Standing, OfKind, ClassifyTypeOK

LEMMA ClassifyBegins == ClassifyInit \/ NoSite => ClassifyInv
<1>. SUFFICES ASSUME ClassifyInit \/ NoSite  PROVE ClassifyInv
  OBVIOUS
<1>1. rows \in [Names -> Row] /\ \A c \in Names : rows[c].by = "nobody"
  BY DEF ClassifyInit, NoSite, Row, Absent, Reviews
<1>2. rules \subseteq Rules /\ lasting \subseteq rules /\ request = NoRequest /\ scan = NoScan
  BY DEF ClassifyInit, NoSite
<1>3. NoRequest.writes = <<>> /\ NoScan.verdicts = <<>> /\ DOMAIN <<>> = {}
  BY EmptyPartial DEF NoRequest, NoScan
<1>4. ClassifyTypeOK
  BY <1>1, <1>2, EmptyPartial DEF ClassifyTypeOK, NoRequest, NoScan, RequestSteps, ScanSteps, Row, Absent, Reviews
<1>5. ReaderInv /\ ScanInv /\ WriteInv
  BY <1>2, <1>3 DEF ReaderInv, ScanInv, WriteInv, NoRequest, NoScan
<1>6. OverrideWins
  BY <1>1 DEF OverrideWins
<1>. QED  BY <1>4, <1>5, <1>6 DEF ClassifyInv

-----------------------------------------------------------------------------
(* A step of the request.                                                   *)

Requests == [step : RequestSteps, loaded : SUBSET Rules, writes : Partial(Categories),
             batched : SUBSET Names, held : SUBSET Names, lost : SUBSET Names]

\* While the rows, the rules and the scan stay as they are, what the request
\* turns into is all there is to look at.
LEMMA RequestKept ==
  ASSUME ClassifyInv, UNCHANGED <<rows, rules, lasting, scan>>, request' \in Requests,
         request'.step \in {"allow", "rules"} => Standing \subseteq request'.loaded,
         \A c \in DOMAIN request'.writes \ Own : Allowed(c, request'.writes[c]),
         WriteInv'
  PROVE  ClassifyInv'
<1>1. ClassifyTypeOK'
  BY DEF ClassifyInv, ClassifyTypeOK, Requests
<1>2. Standing' = Standing /\ \A c, v : Allowed(c, v)' <=> Allowed(c, v)
  BY DEF Standing, Allowed
<1>3. ReaderInv'
  BY <1>2 DEF ClassifyInv, ReaderInv
<1>4. ScanInv' /\ OverrideWins'
  BY DEF ClassifyInv, ScanInv, OverrideWins
<1>. QED  BY <1>1, <1>3, <1>4 DEF ClassifyInv

LEMMA RequestEnds ==
  ASSUME ClassifyInv, request' = NoRequest
  PROVE  /\ request' \in Requests /\ request'.writes = <<>> /\ DOMAIN request'.writes = {}
         /\ request'.step = "idle" /\ WriteInv'
<1>1. NoRequest.writes = <<>> /\ NoRequest.held = {} /\ NoRequest.step = "idle"
      /\ NoRequest.loaded = {} /\ NoRequest.lost = {} /\ NoRequest \in Requests
      /\ DOMAIN <<>> = {}
  BY EmptyPartial DEF NoRequest, Requests, RequestSteps
<1>. QED  BY <1>1 DEF WriteInv

LEMMA RequestLoads ==
  ASSUME ClassifyInv, LoadAllowList \/ LoadKnown
  PROVE  ClassifyInv'
<1>1. request \in Requests /\ Standing \subseteq OfKind({"allow"})
      /\ OfKind({"allow"}) \subseteq Rules /\ OfKind({"exact", "regex"}) \subseteq Rules
  BY StandingSaved DEF ClassifyInv, ClassifyTypeOK, Requests
<1>2. NoRequest \in Requests /\ NoRequest.writes = <<>> /\ NoRequest.held = {} /\ NoRequest.lost = {}
      /\ DOMAIN <<>> = {}
  BY EmptyPartial DEF NoRequest, Requests, RequestSteps
<1>3. UNCHANGED <<rows, rules, lasting, scan>>
  BY DEF LoadAllowList, LoadKnown
<1>4. CASE LoadAllowList
  <2>1. request' \in Requests /\ request'.writes = <<>> /\ request'.held = {} /\ request'.lost = {}
        /\ request'.step = "allow" /\ Standing \subseteq request'.loaded
    BY <1>1, <1>2, <1>4 DEF LoadAllowList, Requests, RequestSteps
  <2>2. WriteInv'
    BY <1>2, <2>1 DEF WriteInv
  <2>. QED  BY <1>2, <1>3, <2>1, <2>2, RequestKept
<1>5. CASE LoadKnown
  <2>1. request.writes = <<>> /\ request.held = {} /\ Standing \subseteq request.loaded
    BY <1>2, <1>5 DEF LoadKnown, ClassifyInv, WriteInv, ReaderInv
  <2>2. request' \in Requests /\ request'.writes = <<>> /\ request'.held = {}
        /\ request'.step = "rules" /\ Standing \subseteq request'.loaded
    BY <1>1, <1>5, <2>1 DEF LoadKnown, Requests, RequestSteps
  <2>3. WriteInv'
    BY <1>2, <2>2 DEF WriteInv
  <2>. QED  BY <1>2, <1>3, <2>2, <2>3, RequestKept
<1>. QED  BY <1>4, <1>5

LEMMA RequestReads ==
  ASSUME ClassifyInv, ReadRows
  PROVE  ClassifyInv'
<1>1. PICK verdict \in [Unclassified -> Categories \cup {None}], batched \in SUBSET Unclassified :
        /\ \A c \in Unclassified : verdict[c] \in Verdicts(c, request.loaded)
        /\ request' = [request EXCEPT !.step = "write",
                         !.writes = [c \in {d \in Unclassified : verdict[d] # None} |-> verdict[c]],
                         !.batched = batched]
  BY DEF ReadRows
<1>. DEFINE D == {d \in Unclassified : verdict[d] # None}
            W == [c \in D |-> verdict[c]]
<1>2. request \in Requests /\ request.step = "rules"
  BY DEF ReadRows, ClassifyInv, ClassifyTypeOK, Requests
<1>3. D \subseteq Names /\ batched \subseteq Names /\ \A c \in D : rows[c].review = "pending"
  BY DEF Unclassified
<1>4. W \in [D -> Categories] /\ DOMAIN W = D
  OBVIOUS
<1>5. W \in Partial(Categories)
  BY <1>3, <1>4, PartialBuilt
<1>. HIDE DEF W
<1>6. request' = [request EXCEPT !.step = "write", !.writes = W, !.batched = batched]
  BY <1>1 DEF W
<1>7. request' \in Requests /\ request'.writes = W /\ request'.held = request.held
      /\ request'.step = "write"
  BY <1>2, <1>3, <1>5, <1>6 DEF Requests, RequestSteps
<1>8. request'.held = {}
  BY <1>2, <1>7, EmptyPartial DEF ClassifyInv, WriteInv
<1>9. WriteInv'
  <2>1. \A c \in D : Present(c)'
    BY <1>3 DEF ReadRows, Present, Absent
  <2>. QED  BY <1>4, <1>7, <1>8, <2>1 DEF WriteInv
<1>10. \A c \in D \ Own : Allowed(c, W[c])
  <2>1. Standing \subseteq request.loaded /\ request.loaded \subseteq Rules
    BY <1>2 DEF ClassifyInv, ReaderInv, Requests
  <2>. QED  BY <1>1, <1>3, <2>1, VerdictAllowed DEF W
<1>11. UNCHANGED <<rows, rules, lasting, scan>>
  BY DEF ReadRows
<1>. QED  BY <1>4, <1>7, <1>9, <1>10, <1>11, RequestKept

LEMMA RequestUpdates ==
  ASSUME ClassifyInv, NEW c \in Names, UpdateRow(c)
  PROVE  ClassifyInv'
<1>1. UNCHANGED <<rows, rules, lasting, scan>> /\ request \in Requests
  BY DEF UpdateRow, ClassifyInv, ClassifyTypeOK, Requests
<1>2. CASE Found(c)
  <2>1. request' = [request EXCEPT !.held = @ \cup {c}] /\ c \in DOMAIN request.writes
        /\ c \notin request.lost /\ request.step = "write"
    BY <1>2 DEF UpdateRow, Found
  <2>2. request' \in Requests /\ request'.writes = request.writes /\ request'.step = "write"
        /\ request'.held = request.held \cup {c} /\ request'.lost = request.lost
    BY <1>1, <2>1 DEF Requests
  <2>3. WriteInv'
    BY <1>1, <2>1, <2>2 DEF ClassifyInv, WriteInv, Present
  <2>4. \A d \in DOMAIN request'.writes \ Own : Allowed(d, request'.writes[d])
    BY <2>2 DEF ClassifyInv, ReaderInv
  <2>. QED  BY <1>1, <2>2, <2>3, <2>4, RequestKept
<1>3. CASE ~Found(c)
  <2>1. request' = NoRequest
    BY <1>3 DEF UpdateRow
  <2>. QED  BY <1>1, <2>1, RequestEnds, RequestKept
<1>. QED  BY <1>2, <1>3

LEMMA SavedRow ==
  ASSUME NEW row \in Row, NEW category \in Categories \cup {None}
  PROVE  /\ Saved(row, category) \in Row /\ Saved(row, category).category = category
         /\ Saved(row, category).by = "rule" /\ Saved(row, category).review = row.review
BY DEF Saved, Row

\* OverrideWins, in the terms of the invariant.
LEMMA OverrideAllowed ==
  OverrideWins <=> \A c \in Names \ Own : rows[c].by = "rule" => Allowed(c, rows[c].category)
BY DEF OverrideWins, Allowed, Standing

\* A change of the rows, with the rules as they are.
LEMMA RowsChange ==
  ASSUME ClassifyInv, UNCHANGED <<rules, lasting>>,
         rows' \in [Names -> Row],
         \A c \in Names \ Own : rows'[c].by = "rule" =>
           \/ rows[c].by = "rule" /\ rows'[c].category = rows[c].category
           \/ Allowed(c, rows'[c].category)
  PROVE  OverrideWins'
<1>1. \A c \in Names \ Own : rows[c].by = "rule" => Allowed(c, rows[c].category)
  BY OverrideAllowed DEF ClassifyInv
<1>2. \A c \in Names \ Own : rows'[c].by = "rule" => Allowed(c, rows'[c].category)
  BY <1>1
<1>. QED  BY <1>2 DEF OverrideWins, Allowed, Standing

LEMMA RequestCommits ==
  ASSUME ClassifyInv, CommitRequest
  PROVE  ClassifyInv'
<1>1. /\ request' = NoRequest /\ UNCHANGED <<rules, lasting, scan>>
      /\ request.held \subseteq DOMAIN request.writes
      /\ rows' = [c \in Names |-> IF c \in request.held THEN Saved(rows[c], request.writes[c])
                                  ELSE rows[c]]
  BY DEF CommitRequest, ClassifyInv, WriteInv
<1>2. /\ rows \in [Names -> Row]
      /\ \A c \in request.held : request.writes[c] \in Categories
      /\ \A c \in request.held \ Own : Allowed(c, request.writes[c])
  BY <1>1, PartialFunction DEF ClassifyInv, ClassifyTypeOK, ReaderInv
<1>3. rows' \in [Names -> Row]
  BY <1>1, <1>2, SavedRow
<1>4. OverrideWins'
  <2>1. ASSUME NEW c \in Names \ Own, rows'[c].by = "rule"
        PROVE  (rows[c].by = "rule" /\ rows'[c].category = rows[c].category) \/ Allowed(c, rows'[c].category)
    <3>1. CASE c \in request.held
      <4>1. rows'[c].category = request.writes[c]
        BY <1>1, <1>2, <3>1, SavedRow
      <4>. QED  BY <1>2, <3>1, <4>1
    <3>2. CASE c \notin request.held
      BY <1>1, <2>1, <3>2
    <3>. QED  BY <3>1, <3>2
  <2>. QED  BY <1>1, <1>3, <2>1, RowsChange
<1>5. ClassifyTypeOK'
  BY <1>1, <1>3, RequestEnds DEF ClassifyInv, ClassifyTypeOK, Requests
<1>6. ReaderInv'
  <2>1. \A c, v : Allowed(c, v)' <=> Allowed(c, v)
    BY <1>1 DEF Allowed, Standing
  <2>2. Standing' = Standing
    BY <1>1 DEF Standing
  <2>. QED  BY <1>1, <2>1, <2>2, RequestEnds DEF ClassifyInv, ReaderInv
<1>7. ScanInv' /\ WriteInv'
  BY <1>1, RequestEnds DEF ClassifyInv, ScanInv
<1>. QED  BY <1>4, <1>5, <1>6, <1>7 DEF ClassifyInv

-----------------------------------------------------------------------------
(* A step of the scan.                                                      *)

Scans == [step : ScanSteps, todo : SUBSET Names, loaded : SUBSET Rules, cookie : Names \cup {None},
          saw : Row, verdicts : Partial(Categories \cup {None}), held : SUBSET Names, lost : BOOLEAN]

LEMMA ScanKept ==
  ASSUME ClassifyInv, UNCHANGED <<rows, rules, lasting, request>>, scan' \in Scans,
         scan'.step = "known" => Standing \subseteq scan'.loaded /\ scan'.cookie \in Names,
         \A c \in DOMAIN scan'.verdicts \ Own : scan'.verdicts[c] = None \/ Allowed(c, scan'.verdicts[c]),
         ScanInv'
  PROVE  ClassifyInv'
<1>1. ClassifyTypeOK'
  BY DEF ClassifyInv, ClassifyTypeOK, Scans
<1>2. Standing' = Standing /\ \A c, v : Allowed(c, v)' <=> Allowed(c, v)
  BY DEF Standing, Allowed
<1>3. ReaderInv'
  BY <1>2 DEF ClassifyInv, ReaderInv
<1>4. WriteInv' /\ OverrideWins'
  BY DEF ClassifyInv, WriteInv, OverrideWins, Present
<1>. QED  BY <1>1, <1>3, <1>4 DEF ClassifyInv

LEMMA ScanFresh ==
  NoScan \in Scans /\ NoScan.verdicts = <<>> /\ NoScan.held = {} /\ NoScan.step = "idle"
  /\ NoScan.todo = {} /\ DOMAIN <<>> = {}
BY EmptyPartial DEF NoScan, Scans, ScanSteps, Row, Absent, Reviews

LEMMA ScanFails ==
  ASSUME ClassifyInv, UNCHANGED <<rows, rules, lasting, request>>, scan' = [NoScan EXCEPT !.held = Released]
  PROVE  ClassifyInv'
<1>1. scan' \in Scans /\ scan'.verdicts = <<>> /\ scan'.held = {} /\ scan'.step = "idle"
  BY ScanFresh DEF Scans, Released
<1>2. ScanInv'
  BY <1>1, ScanFresh DEF ScanInv
<1>. QED  BY <1>1, <1>2, ScanFresh, ScanKept

LEMMA ScanStarts ==
  ASSUME ClassifyInv, StartScan
  PROVE  ClassifyInv'
<1>1. PICK found \in SUBSET Names : scan' = [NoScan EXCEPT !.step = "store", !.todo = found]
  BY DEF StartScan
<1>2. scan' \in Scans /\ scan'.verdicts = <<>> /\ scan'.held = {} /\ scan'.step = "store"
  BY <1>1, ScanFresh DEF Scans, ScanSteps
<1>3. ScanInv'
  BY <1>2, ScanFresh DEF ScanInv
<1>. QED  BY <1>2, <1>3, ScanFresh, ScanKept DEF StartScan

LEMMA ScanLoads ==
  ASSUME ClassifyInv, NEW c \in Names, ScanAllowList(c)
  PROVE  ClassifyInv'
<1>1. scan \in Scans /\ scan.step = "store" /\ UNCHANGED <<rows, rules, lasting, request>>
      /\ Standing \subseteq OfKind({"allow"}) /\ OfKind({"allow"}) \subseteq Rules
  BY StandingSaved DEF ClassifyInv, ClassifyTypeOK, Scans, ScanAllowList
<1>2. scan' = [scan EXCEPT !.step = "known", !.cookie = c, !.loaded = OfKind({"allow"})]
  BY DEF ScanAllowList
<1>3. scan' \in Scans /\ scan'.verdicts = scan.verdicts /\ scan'.held = scan.held
      /\ scan'.step = "known" /\ scan'.loaded = OfKind({"allow"}) /\ scan'.cookie = c
  BY <1>1, <1>2 DEF Scans, ScanSteps
<1>4. ScanInv'
  BY <1>1, <1>3 DEF ClassifyInv, ScanInv
<1>5. \A d \in DOMAIN scan'.verdicts \ Own : scan'.verdicts[d] = None \/ Allowed(d, scan'.verdicts[d])
  BY <1>3 DEF ClassifyInv, ReaderInv
<1>. QED  BY <1>1, <1>3, <1>4, <1>5, ScanKept

LEMMA ScanStores ==
  ASSUME ClassifyInv, AddResult
  PROVE  ClassifyInv'
<1>. DEFINE L == scan.loaded \cup OfKind({"exact", "regex"})
<1>1. PICK verdict \in Verdicts(scan.cookie, L) :
        scan' = [scan EXCEPT !.step = "store", !.todo = @ \ {scan.cookie}, !.cookie = None, !.loaded = {},
                   !.verdicts = [c \in {scan.cookie} \cup DOMAIN @ |->
                                   IF c = scan.cookie THEN verdict ELSE @[c]]]
  BY DEF AddResult
<1>2. /\ scan \in Scans /\ scan.step = "known" /\ scan.cookie \in Names /\ Standing \subseteq L
      /\ L \subseteq Rules /\ UNCHANGED <<rows, rules, lasting, request>>
  BY StandingSaved DEF ClassifyInv, ClassifyTypeOK, ReaderInv, Scans, AddResult
<1>. DEFINE D == {scan.cookie} \cup DOMAIN scan.verdicts
            V == [c \in D |-> IF c = scan.cookie THEN verdict ELSE scan.verdicts[c]]
<1>. HIDE DEF L
<1>3. verdict \in Categories \cup {None}
  BY <1>2, VerdictTyped
<1>4. DOMAIN scan.verdicts \subseteq Names /\ scan.verdicts \in [DOMAIN scan.verdicts -> Categories \cup {None}]
  BY <1>2, PartialFunction DEF Scans
<1>5. V \in [D -> Categories \cup {None}] /\ D \subseteq Names
  BY <1>2, <1>3, <1>4
<1>6. V \in Partial(Categories \cup {None}) /\ DOMAIN V = D
  BY <1>5, PartialBuilt
<1>7. \A c \in D \ Own : V[c] = None \/ Allowed(c, V[c])
  <2>1. scan.cookie \notin Own => Allowed(scan.cookie, verdict)
    BY <1>2, VerdictAllowed
  <2>2. \A c \in DOMAIN scan.verdicts \ Own : scan.verdicts[c] = None \/ Allowed(c, scan.verdicts[c])
    BY DEF ClassifyInv, ReaderInv
  <2>. QED  BY <2>1, <2>2
<1>8. scan' = [scan EXCEPT !.step = "store", !.todo = scan.todo \ {scan.cookie}, !.cookie = None,
                 !.loaded = {}, !.verdicts = V]
  BY <1>1
<1>. HIDE DEF V, D
<1>9. scan' \in Scans /\ scan'.verdicts = V /\ scan'.held = scan.held /\ scan'.step = "store"
  BY <1>2, <1>6, <1>8 DEF Scans, ScanSteps
<1>10. ScanInv'
  BY <1>2, <1>9 DEF ClassifyInv, ScanInv
<1>. QED  BY <1>2, <1>6, <1>7, <1>9, <1>10, ScanKept

LEMMA ScanMoves ==
  ASSUME ClassifyInv, CommitResults \/ (\E c \in Names : SyncRead(c))
  PROVE  ClassifyInv'
<1>1. scan \in Scans /\ UNCHANGED <<rows, rules, lasting, request>> /\ rows \in [Names -> Row]
      /\ DOMAIN scan.verdicts \subseteq Names
  BY PartialFunction DEF ClassifyInv, ClassifyTypeOK, Scans, CommitResults, SyncRead
<1>2. \A c \in DOMAIN scan.verdicts \ Own : scan.verdicts[c] = None \/ Allowed(c, scan.verdicts[c])
  BY DEF ClassifyInv, ReaderInv
<1>3. CASE CommitResults
  <2>1. scan' = [scan EXCEPT !.step = "sync", !.todo = DOMAIN scan.verdicts]
    BY <1>3 DEF CommitResults
  <2>2. scan' \in Scans /\ scan'.verdicts = scan.verdicts /\ scan'.held = scan.held
        /\ scan'.step = "sync" /\ scan'.todo = DOMAIN scan.verdicts
    BY <1>1, <2>1 DEF Scans, ScanSteps
  <2>3. ScanInv'
    BY <2>2 DEF ClassifyInv, ScanInv
  <2>. QED  BY <1>1, <1>2, <2>2, <2>3, ScanKept
<1>4. ASSUME NEW c \in Names, SyncRead(c)  PROVE ClassifyInv'
  <2>1. scan' = [scan EXCEPT !.step = "flush", !.cookie = c, !.saw = rows[c], !.lost = FALSE]
        /\ scan.step = "sync" /\ c \in scan.todo
    BY <1>4 DEF SyncRead
  <2>2. scan' \in Scans /\ scan'.verdicts = scan.verdicts /\ scan'.held = scan.held
        /\ scan'.step = "flush" /\ scan'.todo = scan.todo /\ scan'.cookie = c
    BY <1>1, <2>1 DEF Scans, ScanSteps
  <2>3. ScanInv'
    BY <2>1, <2>2 DEF ClassifyInv, ScanInv
  <2>. QED  BY <1>1, <1>2, <2>2, <2>3, ScanKept
<1>. QED  BY <1>3, <1>4

LEMMA ScanFlushes ==
  ASSUME ClassifyInv, SyncFlush
  PROVE  ClassifyInv'
<1>1. scan \in Scans /\ UNCHANGED <<rows, rules, lasting, request>> /\ scan.step = "flush"
  BY DEF ClassifyInv, ClassifyTypeOK, Scans, SyncFlush
<1>2. CASE scan' = [NoScan EXCEPT !.held = Released]
  BY <1>1, <1>2, ScanFails
<1>. DEFINE c == scan.cookie
            V == [scan.verdicts EXCEPT ![c] = IF scan.saw.category = None THEN scan.verdicts[c] ELSE None]
<1>3. CASE scan' = [scan EXCEPT !.step = "sync", !.todo = scan.todo \ {c}, !.cookie = None,
                      !.saw = Absent, !.held = scan.held \cup {c}, !.verdicts = V]
  <2>1. c \in DOMAIN scan.verdicts /\ DOMAIN scan.verdicts \subseteq Names
        /\ scan.verdicts \in [DOMAIN scan.verdicts -> Categories \cup {None}]
        /\ scan.held \subseteq DOMAIN scan.verdicts
    BY <1>1, PartialFunction DEF Scans, ClassifyInv, ScanInv
  <2>2. V \in [DOMAIN scan.verdicts -> Categories \cup {None}]
    BY <2>1
  <2>3. V \in Partial(Categories \cup {None}) /\ DOMAIN V = DOMAIN scan.verdicts
    BY <2>1, <2>2, PartialBuilt
  <2>4. \A d \in DOMAIN V \ Own : V[d] = None \/ Allowed(d, V[d])
    BY <2>1 DEF ClassifyInv, ReaderInv
  <2>. HIDE DEF V
  <2>5. Absent \in Row
    BY DEF Absent, Row, Reviews
  <2>6. scan' \in Scans /\ scan'.verdicts = V /\ scan'.held = scan.held \cup {c}
        /\ scan'.step = "sync" /\ scan'.todo = scan.todo \ {c}
    BY <1>1, <1>3, <2>1, <2>3, <2>5 DEF Scans, ScanSteps
  <2>7. ScanInv'
    <3>1. DOMAIN V = DOMAIN scan.verdicts
      BY <2>3
    <3>2. scan.held \cup {c} \subseteq DOMAIN V
      BY <2>1, <3>1
    <3>3. scan.todo \subseteq DOMAIN scan.verdicts
      BY <1>1 DEF ClassifyInv, ScanInv
    <3>. QED  BY <2>6, <3>1, <3>2, <3>3 DEF ScanInv
  <2>. QED  BY <1>1, <2>4, <2>6, <2>7, ScanKept
<1>. QED  BY <1>2, <1>3 DEF SyncFlush

LEMMA SyncedRow ==
  ASSUME NEW row \in Row, NEW verdict \in Categories \cup {None}
  PROVE  /\ Synced(row, verdict) \in Row
         /\ row # Absent => Synced(row, verdict) # Absent
         /\ Synced(row, verdict).by = "rule" =>
              \/ row.by = "rule" /\ Synced(row, verdict).category = row.category
              \/ verdict # None /\ Synced(row, verdict).category = verdict
<1>1. CASE row = Absent
  BY <1>1 DEF Synced, Row, Reviews
<1>2. CASE row # Absent /\ verdict = None
  BY <1>2 DEF Synced
<1>3. CASE row # Absent /\ verdict # None
  <2>1. Synced(row, verdict) = Saved(row, verdict)
    BY <1>3 DEF Synced
  <2>2. Saved(row, verdict).by # Absent.by
    BY SavedRow DEF Absent
  <2>. QED  BY <1>3, <2>1, <2>2, SavedRow
<1>. QED  BY <1>1, <1>2, <1>3

LEMMA ScanCommits ==
  ASSUME ClassifyInv, CommitSync
  PROVE  ClassifyInv'
<1>1. /\ scan' = NoScan /\ UNCHANGED <<rules, lasting, request>>
      /\ rows' = [c \in Names |-> IF c \in scan.held THEN Synced(rows[c], scan.verdicts[c]) ELSE rows[c]]
  BY DEF CommitSync
<1>2. /\ rows \in [Names -> Row] /\ scan.held \subseteq DOMAIN scan.verdicts
      /\ \A c \in scan.held : scan.verdicts[c] \in Categories \cup {None}
      /\ \A c \in scan.held \ Own : scan.verdicts[c] = None \/ Allowed(c, scan.verdicts[c])
  <2>1. scan.verdicts \in [DOMAIN scan.verdicts -> Categories \cup {None}]
    BY PartialFunction DEF ClassifyInv, ClassifyTypeOK
  <2>. QED  BY <2>1 DEF ClassifyInv, ClassifyTypeOK, ReaderInv, ScanInv
<1>3. rows' \in [Names -> Row] /\ \A c \in Names : rows[c] # Absent => rows'[c] # Absent
  BY <1>1, <1>2, SyncedRow
<1>4. OverrideWins'
  <2>1. ASSUME NEW c \in Names \ Own, rows'[c].by = "rule"
        PROVE  (rows[c].by = "rule" /\ rows'[c].category = rows[c].category) \/ Allowed(c, rows'[c].category)
    <3>1. CASE c \in scan.held
      <4>1. rows'[c] = Synced(rows[c], scan.verdicts[c])
        BY <1>1, <3>1
      <4>. QED  BY <1>2, <2>1, <3>1, <4>1, SyncedRow
    <3>2. CASE c \notin scan.held
      BY <1>1, <2>1, <3>2
    <3>. QED  BY <3>1, <3>2
  <2>. QED  BY <1>1, <1>3, <2>1, RowsChange
<1>5. ClassifyTypeOK'
  BY <1>1, <1>3, ScanFresh DEF ClassifyInv, ClassifyTypeOK, Scans
<1>6. ReaderInv'
  <2>1. Standing' = Standing /\ \A c, v : Allowed(c, v)' <=> Allowed(c, v)
    BY <1>1 DEF Allowed, Standing
  <2>. QED  BY <1>1, <2>1, ScanFresh DEF ClassifyInv, ReaderInv
<1>7. ScanInv'
  BY <1>1, ScanFresh DEF ScanInv
<1>8. WriteInv'
  <2>1. DOMAIN request.writes \subseteq Names
    BY PartialFunction DEF ClassifyInv, ClassifyTypeOK
  <2>. QED  BY <1>1, <1>3, <2>1 DEF ClassifyInv, WriteInv, Present
<1>. QED  BY <1>4, <1>5, <1>6, <1>7, <1>8 DEF ClassifyInv

-----------------------------------------------------------------------------
(* Editors and administrators.                                              *)

LEMMA CookieSaved ==
  ASSUME ClassifyInv, NEW c \in Names, SaveCookie(c)
  PROVE  ClassifyInv'
<1>1. PICK category \in Categories \cup {None}, review \in Reviews :
        rows' = [rows EXCEPT ![c] = [category |-> category, review |-> review, by |-> By(rows[c], category)]]
  BY DEF SaveCookie
<1>2. UNCHANGED <<rules, lasting, request, scan>> /\ rows \in [Names -> Row]
  BY DEF SaveCookie, ClassifyInv, ClassifyTypeOK
<1>3. By(rows[c], category) \in {"nobody", "rule", "editor"}
      /\ (By(rows[c], category) = "rule" => rows[c].by = "rule" /\ category = rows[c].category)
  BY <1>2 DEF By, Row
<1>4. rows'[c] \in Row /\ rows'[c].review # "none"
  BY <1>1, <1>2, <1>3 DEF Row, Reviews
<1>5. rows' \in [Names -> Row] /\ \A d \in Names : rows[d] # Absent => rows'[d] # Absent
  BY <1>1, <1>2, <1>4 DEF Absent
<1>6. OverrideWins'
  <2>1. ASSUME NEW d \in Names \ Own, rows'[d].by = "rule"
        PROVE  rows[d].by = "rule" /\ rows'[d].category = rows[d].category
    <3>1. CASE d = c
      BY <1>1, <1>2, <1>3, <2>1, <3>1
    <3>2. CASE d # c
      BY <1>1, <1>2, <2>1, <3>2
    <3>. QED  BY <3>1, <3>2
  <2>. QED  BY <1>2, <1>5, <2>1, RowsChange
<1>7. ClassifyTypeOK'
  BY <1>2, <1>5 DEF ClassifyInv, ClassifyTypeOK
<1>8. ReaderInv'
  <2>1. Standing' = Standing /\ \A d, v : Allowed(d, v)' <=> Allowed(d, v)
    BY <1>2 DEF Allowed, Standing
  <2>. QED  BY <1>2, <2>1 DEF ClassifyInv, ReaderInv
<1>9. ScanInv'
  BY <1>2 DEF ClassifyInv, ScanInv
<1>10. WriteInv'
  <2>1. DOMAIN request.writes \subseteq Names
    BY PartialFunction DEF ClassifyInv, ClassifyTypeOK
  <2>. QED  BY <1>2, <1>5, <2>1 DEF ClassifyInv, WriteInv, Present
<1>. QED  BY <1>6, <1>7, <1>8, <1>9, <1>10 DEF ClassifyInv

LEMMA CookieDeleted ==
  ASSUME ClassifyInv, NEW c \in Names, DeleteCookie(c)
  PROVE  ClassifyInv'
<1>1. /\ rows' = [rows EXCEPT ![c] = Absent] /\ UNCHANGED <<rules, lasting>>
      /\ request' = IF request.step = "write" THEN [request EXCEPT !.lost = request.lost \cup {c}] ELSE request
      /\ scan' = IF scan.cookie = c /\ scan.saw # Absent THEN [scan EXCEPT !.lost = TRUE] ELSE scan
      /\ c \notin request.held /\ rows \in [Names -> Row] /\ request \in Requests /\ scan \in Scans
  BY DEF DeleteCookie, Unlocked, ClassifyInv, ClassifyTypeOK, Requests, Scans
<1>2. Absent \in Row /\ Absent.by = "nobody"
  BY DEF Absent, Row, Reviews
<1>3. rows' \in [Names -> Row] /\ \A d \in Names : d # c => rows'[d] = rows[d]
  BY <1>1, <1>2
<1>4. OverrideWins'
  <2>1. ASSUME NEW d \in Names \ Own, rows'[d].by = "rule"
        PROVE  rows[d].by = "rule" /\ rows'[d].category = rows[d].category
    <3>1. d # c
      BY <1>1, <1>2, <2>1
    <3>. QED  BY <1>3, <2>1, <3>1
  <2>. QED  BY <1>1, <1>3, <2>1, RowsChange
<1>5. /\ scan' \in Scans /\ scan'.step = scan.step /\ scan'.held = scan.held /\ scan'.todo = scan.todo
      /\ scan'.verdicts = scan.verdicts /\ scan'.cookie = scan.cookie /\ scan'.loaded = scan.loaded
  <2>1. CASE scan' = scan
    BY <1>1, <2>1
  <2>2. CASE scan' = [scan EXCEPT !.lost = TRUE]
    BY <1>1, <2>2 DEF Scans
  <2>. QED  BY <1>1, <2>1, <2>2
<1>6. /\ request' \in Requests /\ request'.step = request.step /\ request'.held = request.held
      /\ request'.writes = request.writes /\ request'.loaded = request.loaded
      /\ request.step = "write" => request'.lost = request.lost \cup {c}
      /\ request.step # "write" => request'.lost = request.lost
  <2>1. CASE request.step # "write"
    BY <1>1, <2>1
  <2>2. CASE request.step = "write"
    <3>1. request' = [request EXCEPT !.lost = request.lost \cup {c}]
      BY <1>1, <2>2
    <3>. QED  BY <1>1, <2>2, <3>1 DEF Requests
  <2>. QED  BY <2>1, <2>2
<1>7. ClassifyTypeOK'
  BY <1>1, <1>3, <1>5, <1>6 DEF ClassifyInv, ClassifyTypeOK, Requests, Scans
<1>8. ReaderInv'
  <2>1. Standing' = Standing /\ \A d, v : Allowed(d, v)' <=> Allowed(d, v)
    BY <1>1 DEF Allowed, Standing
  <2>. QED  BY <1>5, <1>6, <2>1 DEF ClassifyInv, ReaderInv
<1>9. ScanInv'
  BY <1>5 DEF ClassifyInv, ScanInv
<1>10. WriteInv'
  <2>1. DOMAIN request.writes \subseteq Names
    BY PartialFunction DEF ClassifyInv, ClassifyTypeOK
  <2>2. CASE request.step = "write"
    BY <1>1, <1>3, <1>6, <2>1, <2>2 DEF ClassifyInv, WriteInv, Present
  <2>3. CASE request.step # "write"
    <3>1. request.writes = <<>> /\ DOMAIN <<>> = {} /\ request.held = {}
      BY <2>3, EmptyPartial DEF ClassifyInv, WriteInv
    <3>. QED  BY <1>6, <2>3, <3>1 DEF WriteInv
  <2>. QED  BY <2>2, <2>3
<1>. QED  BY <1>4, <1>7, <1>8, <1>9, <1>10 DEF ClassifyInv

LEMMA RuleSaved ==
  ASSUME ClassifyInv, SaveRule
  PROVE  ClassifyInv'
<1>1. PICK old \in SUBSET rules, new \in SUBSET Rules :
        rules' = (rules \ old) \cup new /\ lasting' = lasting \ old
  BY DEF SaveRule
<1>2. UNCHANGED <<rows, request, scan>> /\ lasting' \subseteq lasting
  BY <1>1 DEF SaveRule
<1>3. ClassifyTypeOK'
  BY <1>1, <1>2 DEF ClassifyInv, ClassifyTypeOK
<1>4. Standing' \subseteq Standing /\ \A c, v : Allowed(c, v) => Allowed(c, v)'
  BY <1>2, AllowedStays
<1>5. ReaderInv'
  BY <1>2, <1>4 DEF ClassifyInv, ReaderInv
<1>6. ScanInv' /\ WriteInv'
  BY <1>2 DEF ClassifyInv, ScanInv, WriteInv, Present
<1>7. OverrideWins'
  BY <1>2, <1>4 DEF ClassifyInv, OverrideWins, Standing
<1>. QED  BY <1>3, <1>5, <1>6, <1>7 DEF ClassifyInv

LEMMA ClassifyKept ==
  ASSUME ClassifyInv, [ClassificationNext]_classificationVars
  PROVE  ClassifyInv'
<1>1. CASE ClassifyNext
  <2>1. CASE LoadAllowList \/ Request
    BY <2>1, RequestLoads, RequestReads, RequestUpdates, RequestCommits DEF Request
  <2>2. CASE StartScan \/ Scan
    BY <2>2, ScanStarts, ScanLoads, ScanStores, ScanMoves, ScanFlushes, ScanCommits DEF Scan
  <2>3. CASE BreakDeadlock
    <3>1. CASE request' = NoRequest /\ UNCHANGED scan
      BY <2>3, <3>1, RequestEnds, RequestKept DEF BreakDeadlock
    <3>2. CASE scan' = [NoScan EXCEPT !.held = Released] /\ UNCHANGED request
      BY <2>3, <3>2, ScanFails DEF BreakDeadlock
    <3>. QED  BY <2>3, <3>1, <3>2 DEF BreakDeadlock
  <2>4. CASE (\E c \in Names : SaveCookie(c) \/ DeleteCookie(c)) \/ SaveRule
    BY <2>4, CookieSaved, CookieDeleted, RuleSaved
  <2>. QED  BY <1>1, <2>1, <2>2, <2>3, <2>4 DEF ClassifyNext
<1>2. CASE UNCHANGED classifyVars
  BY <1>2 DEF classifyVars, ClassifyInv, ClassifyTypeOK, ReaderInv, ScanInv, WriteInv, OverrideWins,
              Standing, Allowed, Present
<1>. QED  BY <1>1, <1>2 DEF ClassificationNext, classificationVars

\* An allow-list entry that has stood all along decides, in any number of
\* scans and requests of any number of cookies and rules (_load_allow_list).
THEOREM OverrideHolds == ClassificationSpec => []OverrideWins
<1>1. ClassificationInit => ClassifyInv
  BY ClassifyBegins DEF ClassificationInit
<1>2. ClassifyInv /\ [ClassificationNext]_classificationVars => ClassifyInv'
  BY ClassifyKept
<1>3. ClassifyInv => OverrideWins
  BY DEF ClassifyInv
<1>. QED  BY <1>1, <1>2, <1>3, PTL DEF ClassificationSpec

\* A request writes to every row it chose that is still there, or to none, and
\* to no row that has taken the name of a deleted one, for any number of cookies,
\* in batches of any size (classify_site_cookies).
THEOREM WholeRequests == ClassificationSpec => ClassifyIsWhole
<1>1. ClassificationInit => ClassifyInv
  BY ClassifyBegins DEF ClassificationInit
<1>2. ClassifyInv /\ [ClassificationNext]_classificationVars => ClassifyInv'
  BY ClassifyKept
<1>3. ClassifyInv /\ [ClassificationNext]_classificationVars =>
        [request.step = "write" /\ request'.step = "idle" =>
           \/ rows' = rows
           \/ \A c \in DOMAIN request.writes :
                IF c \in request.lost THEN c \in request.batched /\ rows'[c] = rows[c]
                ELSE Present(c) /\ rows'[c].category = request.writes[c]]_classifyVars
  <2>. SUFFICES ASSUME ClassifyInv, ClassifyNext,
                       request.step = "write", request'.step = "idle", rows' # rows
       PROVE  \A c \in DOMAIN request.writes :
                IF c \in request.lost THEN c \in request.batched /\ rows'[c] = rows[c]
                ELSE Present(c) /\ rows'[c].category = request.writes[c]
    BY DEF ClassificationNext, classificationVars, classifyVars
  <2>1. request' # request
    OBVIOUS
  <2>2. ~\E c \in Names : DeleteCookie(c)
    <3>1. request \in Requests
      BY DEF ClassifyInv, ClassifyTypeOK, Requests
    <3>2. ASSUME NEW c \in Names, DeleteCookie(c)  PROVE FALSE
      <4>1. request' = [request EXCEPT !.lost = request.lost \cup {c}]
        BY <3>2 DEF DeleteCookie
      <4>2. request'.step = request.step
        BY <3>1, <4>1 DEF Requests
      <4>. QED  BY <4>2
    <3>. QED  BY <3>2
  <2>3. CommitRequest
    BY <2>1, <2>2 DEF ClassifyNext, LoadAllowList, Request, LoadKnown, ReadRows, UpdateRow, StartScan, Scan,
         ScanAllowList, SyncRead, AddResult, CommitResults, SyncFlush, CommitSync, BreakDeadlock,
         SaveCookie, SaveRule
  <2>4. /\ rows \in [Names -> Row] /\ DOMAIN request.writes \subseteq Names
        /\ request.writes \in [DOMAIN request.writes -> Categories]
        /\ request.held \subseteq DOMAIN request.writes /\ request.held \cap request.lost = {}
        /\ \A c \in DOMAIN request.writes : c \in request.lost \/ Present(c)
        /\ \A c \in DOMAIN request.writes \ request.held : c \in request.lost \cap request.batched
    BY <2>3, PartialFunction
       DEF CommitRequest, Flushed, Unnoticed, Found, ClassifyInv, ClassifyTypeOK, WriteInv
  <2>5. ASSUME NEW c \in DOMAIN request.writes
        PROVE  IF c \in request.lost THEN c \in request.batched /\ rows'[c] = rows[c]
               ELSE Present(c) /\ rows'[c].category = request.writes[c]
    <3>1. CASE c \in request.held
      <4>1. rows'[c] = Saved(rows[c], request.writes[c])
        BY <2>3, <2>4, <3>1 DEF CommitRequest
      <4>. QED  BY <2>4, <3>1, <4>1, SavedRow
    <3>2. CASE c \notin request.held
      BY <2>3, <2>4, <3>2 DEF CommitRequest
    <3>. QED  BY <3>1, <3>2
  <2>. QED  BY <2>5
<1>. QED  BY <1>1, <1>2, <1>3, PTL DEF ClassificationSpec, ClassifyIsWhole
=============================================================================
