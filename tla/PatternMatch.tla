---------------------------- MODULE PatternMatch ----------------------------
(* _wildcard_match: one pass over a value that, on a mismatch, goes back to *)
(* the last star of the pattern and lets it swallow one character more.     *)
EXTENDS Naturals, Sequences, SequencesExt

CONSTANTS
  Letters,   \* characters, after lower()
  Star,      \* the wildcard, which a value may contain too
  MaxLength  \* bound on patterns and values

ASSUME LettersAssumption == Star \notin Letters /\ MaxLength \in Nat

VARIABLES
  pattern, value,  \* the arguments
  atPattern,       \* how many characters of the pattern are dealt with
  atValue,         \* how many of the value are
  lastStar,        \* position of the last star met, 0 if none
  resume,          \* characters of the value that were behind that star's own
  answer,          \* "none" until the function returns
  turns            \* passes of the two loops

matchVars == <<pattern, value, atPattern, atValue, lastStar, resume, answer, turns>>

Texts == BoundedSeq(Letters \cup {Star}, MaxLength)

MatchTypeOK ==
  /\ pattern \in Seq(Letters \cup {Star}) /\ value \in Seq(Letters \cup {Star})
  /\ atPattern \in 0..Len(pattern) /\ atValue \in 0..Len(value)
  /\ lastStar \in 0..atPattern /\ (lastStar # 0 => pattern[lastStar] = Star)
  /\ resume \in 0..atValue /\ answer \in {"none", "yes", "no"} /\ turns \in Nat

MatchInit ==
  /\ pattern \in Texts /\ value \in Texts
  /\ atPattern = 0 /\ atValue = 0 /\ lastStar = 0 /\ resume = 0 /\ answer = "none" /\ turns = 0

-----------------------------------------------------------------------------

AtStar == atPattern < Len(pattern) /\ pattern[atPattern + 1] = Star

\* Mutation of AtLetter: a character is passed over without a look at it.
AtLetterAny == atPattern < Len(pattern) /\ ~AtStar

AtLetter == atPattern < Len(pattern) /\ ~AtStar /\ pattern[atPattern + 1] = value[atValue + 1]

Turn == answer = "none" /\ turns' = turns + 1 /\ UNCHANGED <<pattern, value>>

\* Mutation of Resumed: the star swallows nothing more.
ResumedSame == resume

\* Where the value is taken up again once the last star took one more.
Resumed == resume + 1

TakeStar ==
  /\ Turn /\ atValue < Len(value) /\ AtStar
  /\ lastStar' = atPattern + 1 /\ resume' = atValue /\ atPattern' = atPattern + 1
  /\ UNCHANGED <<atValue, answer>>

TakeLetter ==
  /\ Turn /\ atValue < Len(value) /\ AtLetter
  /\ atPattern' = atPattern + 1 /\ atValue' = atValue + 1
  /\ UNCHANGED <<lastStar, resume, answer>>

Retry ==
  /\ Turn /\ atValue < Len(value) /\ ~AtStar /\ ~AtLetter /\ lastStar # 0
  /\ atPattern' = lastStar /\ resume' = Resumed /\ atValue' = Resumed
  /\ UNCHANGED <<lastStar, answer>>

Mismatch ==
  /\ Turn /\ atValue < Len(value) /\ ~AtStar /\ ~AtLetter /\ lastStar = 0
  /\ answer' = "no"
  /\ UNCHANGED <<atPattern, atValue, lastStar, resume>>

\* The stars that are left match nothing.
SkipStar ==
  /\ Turn /\ atValue = Len(value) /\ AtStar
  /\ atPattern' = atPattern + 1
  /\ UNCHANGED <<atValue, lastStar, resume, answer>>

Return ==
  /\ Turn /\ atValue = Len(value) /\ ~AtStar
  /\ answer' = IF atPattern = Len(pattern) THEN "yes" ELSE "no"
  /\ UNCHANGED <<atPattern, atValue, lastStar, resume>>

MatchNext == TakeStar \/ TakeLetter \/ Retry \/ Mismatch \/ SkipStar \/ Return

MatchSpec == MatchInit /\ [][MatchNext]_matchVars

-----------------------------------------------------------------------------

\* What a pattern means: the value is cut behind each character of the pattern,
\* so that a star has any run of characters and a letter has itself.
Glob ==
  \E cut \in [1..Len(pattern) -> 0..Len(value)] :
    LET cutBefore(i) == IF i = 1 THEN 0 ELSE cut[i - 1]
    IN  /\ cutBefore(Len(pattern) + 1) = Len(value)
        /\ \A i \in 1..Len(pattern) :
             IF pattern[i] = Star THEN cutBefore(i) <= cut[i]
             ELSE cut[i] = cutBefore(i) + 1 /\ pattern[i] = value[cut[i]]

\* The one pass, which never tries an earlier star again, decides as the
\* meaning of the pattern does.
MatchIsGlob == answer # "none" => (answer = "yes" <=> Glob)

\* "time stays proportional to the pattern and value lengths multiplied,
\* however many * the pattern contains"
TimeIsProduct == turns <= (Len(pattern) + 1) * (Len(value) + 1) + Len(pattern) + 1
=============================================================================
