----------------------- MODULE ScannerService_proofs ------------------------
(* What a validation reports of its two visits, and what the worker reads of *)
(* a crawl, for any site and any number of cookies, trackers and pages.       *)
EXTENDS ScannerService, FiniteSetTheorems, SequenceTheorems, WellFoundedInduction, TLAPS

-----------------------------------------------------------------------------
(* The validation's report.                                                  *)

Things == Trackers \cup Necessary \cup Tracking
Eras == {"unasked", "first", "cleared", "leaving", "second", "rejected", "judged"}
Signals == {"missing_reject_button", "pre_ticked_checkboxes", "cookie_wall", "scroll_dismissal"}

Reports ==
  [pre : SUBSET (Things \cup {"tcf"}), dark : SUBSET Signals, accept : SUBSET {"tcf"},
   reject : SUBSET Things, found : BOOLEAN, rejected : BOOLEAN, error : BOOLEAN]

ValidationTypeOK ==
  /\ step \in Steps /\ cmp \in {"absent", "granted", "unsuccessful", "silent"}
  /\ look \in SUBSET Signals /\ banner \in BOOLEAN
  /\ jar \in SUBSET (Necessary \cup Tracking) /\ requests \in SUBSET Trackers
  /\ report \in Reports /\ past \in SUBSET [what : Things, when : Eras]

Early == {"launch", "load", "pre", "hits", "signals", "dark", "scroll", "accept"}
Calls == {"leaving", "second", "rejected"}
Late == {"cleared", "leaving", "second", "rejected", "judged"}
Unclicked == Steps \ {"settle", "judge", "close", "done"}

\* Where each cookie and request that a later step reads comes from, and which
\* calls made after the click are still to be reported.
VisitInv ==
  /\ step \in Early => \A x \in jar \cup requests : Happened(x, {"unasked"})
  /\ \A x \in report.pre \ {"tcf"} : Happened(x, {"unasked"})
  /\ step \in {"cleared", "leave", "reload", "reject", "settle", "judge"} =>
       \A x \in jar : Happened(x, Late)
  /\ step \in {"leave", "reload", "reject", "settle"} => \A x \in requests : Happened(x, Calls)
  /\ \A x \in report.reject \cap Trackers : Happened(x, Calls)
  /\ \A x \in report.reject \ Trackers : Happened(x, Late)

VerdictInv ==
  /\ step \in Unclicked => ~report.rejected /\ \A p \in past : p.when # "rejected"
  /\ step = "settle" => \A t \in Trackers : Happened(t, {"rejected"}) => t \in requests
  /\ step \in {"judge", "close", "done"} /\ report.rejected /\ ~report.error =>
       \A t \in Trackers : Happened(t, {"rejected"}) => t \in report.reject

ValidationInv == ValidationTypeOK /\ VisitInv /\ VerdictInv

LEMMA ValidationBegins ==
  ASSUME ValidationInit \/ NoValidation
  PROVE  ValidationInv
<1>1. /\ step \in {"launch", "done"} /\ cmp \in {"absent", "granted", "unsuccessful", "silent"}
      /\ look \subseteq Signals /\ banner = FALSE /\ jar = {} /\ requests = {} /\ past = {}
      /\ report = NoReport
  BY DEF ValidationInit, NoValidation, Signals
<1>2. /\ report \in Reports /\ report.pre = {} /\ report.reject = {} /\ report.rejected = FALSE
  BY <1>1 DEF NoReport, Reports
<1>3. ValidationTypeOK
  BY <1>1, <1>2 DEF ValidationTypeOK, Steps
<1>4. VisitInv
  BY <1>1, <1>2 DEF VisitInv
<1>5. VerdictInv
  BY <1>1, <1>2 DEF VerdictInv, Unclicked
<1>. QED  BY <1>3, <1>4, <1>5 DEF ValidationInv

LEMMA ValidationTyped ==
  ASSUME ValidationTypeOK, ValidationNext
  PROVE  ValidationTypeOK'
<1>. USE DEF ValidationTypeOK
<1>1. CASE Fails
  BY <1>1 DEF Fails, Failed, Reports, Steps
<1>2. CASE BannerGoes
  BY <1>2 DEF BannerGoes
<1>3. ASSUME NEW t \in Trackers, Fires(t)  PROVE ValidationTypeOK'
  <2>1. Era \in Eras
    BY DEF Era, Eras
  <2>. QED  BY <1>3, <2>1 DEF Fires, Did, Things
<1>4. ASSUME NEW c \in Necessary \cup Tracking, SetsCookie(c)  PROVE ValidationTypeOK'
  <2>1. Era \in Eras
    BY DEF Era, Eras
  <2>. QED  BY <1>4, <2>1 DEF SetsCookie, Did, Things
<1>. USE DEF Goes, Steps
<1>5. CASE Launched \/ FirstLoad \/ ClickAccept \/ Accepted \/ ClearCookies \/ Reload
         \/ Replaced \/ SecondLoad \/ Closed
  BY <1>5 DEF Launched, FirstLoad, ClickAccept, Accepted, ClearCookies, Reload, Replaced, SecondLoad, Closed, Kept
<1>. USE DEF Reports, Things, Signals
<1>6. CASE PreCookies \/ PreTrackers \/ PreSignals
  BY <1>6 DEF PreCookies, PreTrackers, PreSignals
<1>7. CASE DarkPatterns \/ Scrolled
  BY <1>7 DEF DarkPatterns, Scrolled
<1>8. CASE PostAccept
  BY <1>8 DEF PostAccept
<1>9. CASE ClickReject
  BY <1>9 DEF ClickReject, CollectedAt
<1>10. CASE CollectTrackers \/ PostReject
  BY <1>10 DEF CollectTrackers, PostReject, CollectedAt
<1>. QED  BY <1>1, <1>2, <1>3, <1>4, <1>5, <1>6, <1>7, <1>8, <1>9, <1>10 DEF ValidationNext, Validation

\* What has happened stays so.
LEMMA HappenedStays ==
  ASSUME past \subseteq past', NEW what, NEW times, Happened(what, times)
  PROVE  Happened(what, times)'
BY DEF Happened

\* What the page does now, it does in the present era.
LEMMA HappensNow ==
  ASSUME NEW what, Did(what)
  PROVE  /\ past \subseteq past'
         /\ \A times : Era \in times => Happened(what, times)'
         /\ \A x, times : Happened(x, times)' => Happened(x, times) \/ (x = what /\ Era \in times)
<1>1. past' = past \cup {[what |-> what, when |-> Era]}
  BY DEF Did
<1>. HIDE DEF Era
<1>2. past \subseteq past' /\ [what |-> what, when |-> Era] \in past'
  BY <1>1
<1>3. ASSUME NEW times, Era \in times  PROVE Happened(what, times)'
  BY <1>2, <1>3 DEF Happened
<1>4. ASSUME NEW x, NEW times, Happened(x, times)'
      PROVE  Happened(x, times) \/ (x = what /\ Era \in times)
  <2>1. PICK p \in past' : p.what = x /\ p.when \in times
    BY <1>4 DEF Happened
  <2>2. CASE p \in past
    BY <2>1, <2>2 DEF Happened
  <2>3. CASE p = [what |-> what, when |-> Era]
    BY <2>1, <2>3
  <2>. QED  BY <1>1, <2>1, <2>2, <2>3
<1>. QED  BY <1>2, <1>3, <1>4

\* A step of the page changes what it has done and one of the two lists.
LEMMA ActKept ==
  ASSUME ValidationInv, NEW x, Did(x),
         NEW c \in BOOLEAN,
         jar' = IF c THEN jar \cup {x} ELSE jar,
         requests' = IF c THEN requests ELSE requests \cup {x},
         x \in Trackers => ~c
  PROVE  VisitInv' /\ VerdictInv'
<1>. DEFINE Now(y, times) == Happened(y, times) \/ (y = x /\ Era \in times)
<1>1. /\ step' = step /\ report' = report /\ step \in Acting /\ step \in Steps
      /\ past' = past \cup {[what |-> x, when |-> Era]}
  BY DEF Did, ValidationInv, ValidationTypeOK
<1>2. /\ past \subseteq past'
      /\ \A times : Era \in times => Happened(x, times)'
      /\ \A y, times : Happened(y, times)' => Now(y, times)
      /\ \A y, times : Happened(y, times) => Happened(y, times)'
  BY HappensNow, HappenedStays
<1>3. /\ step \in Early => Era = "unasked"
      /\ step \in {"cleared", "leave", "reload", "reject", "settle", "judge"} => Era \in Late
      /\ step \in {"leave", "reload", "reject", "settle"} => Era \in Calls
      /\ Era = "rejected" <=> step = "settle"
  BY <1>1 DEF Era, Acting, Steps, Early, Late, Calls
<1>. HIDE DEF Era
<1>4. VisitInv'
  <2>1. ASSUME NEW times, NEW S, \A y \in S : Happened(y, times), Era \in times
        PROVE  \A y \in S \cup {x} : Happened(y, times)'
    BY <1>2, <2>1
  <2>2. \A y \in report.pre \ {"tcf"} : Happened(y, {"unasked"})'
    BY <1>2 DEF ValidationInv, VisitInv
  <2>3. /\ \A y \in report.reject \cap Trackers : Happened(y, Calls)'
        /\ \A y \in report.reject \ Trackers : Happened(y, Late)'
    BY <1>2 DEF ValidationInv, VisitInv
  <2>4. step \in Early => \A y \in jar' \cup requests' : Happened(y, {"unasked"})'
    BY <1>3, <2>1 DEF ValidationInv, VisitInv
  <2>5. step \in {"cleared", "leave", "reload", "reject", "settle", "judge"} => \A y \in jar' : Happened(y, Late)'
    BY <1>2, <1>3 DEF ValidationInv, VisitInv
  <2>6. step \in {"leave", "reload", "reject", "settle"} => \A y \in requests' : Happened(y, Calls)'
    BY <1>2, <1>3 DEF ValidationInv, VisitInv
  <2>. QED  BY <1>1, <2>2, <2>3, <2>4, <2>5, <2>6 DEF VisitInv
<1>5. VerdictInv'
  <2>1. CASE step \in Unclicked
    <3>1. Era # "rejected"
      BY <1>3, <2>1 DEF Unclicked
    <3>2. \A p \in past' : p.when # "rejected"
      BY <1>1, <2>1, <3>1 DEF ValidationInv, VerdictInv
    <3>3. step' \notin {"settle", "judge", "close", "done"} /\ ~report'.rejected
      BY <1>1, <2>1 DEF ValidationInv, VerdictInv, Unclicked
    <3>. QED  BY <3>2, <3>3 DEF VerdictInv
  <2>2. CASE step = "settle"
    <3>1. ASSUME NEW t \in Trackers, Happened(t, {"rejected"})'  PROVE t \in requests'
      <4>1. Now(t, {"rejected"})
        BY <1>2, <3>1
      <4>. QED  BY <2>2, <4>1 DEF ValidationInv, VerdictInv
    <3>. QED  BY <1>1, <2>2, <3>1 DEF VerdictInv, Unclicked
  <2>3. CASE step \in {"judge", "close", "done"}
    <3>1. ASSUME NEW t \in Trackers, Happened(t, {"rejected"})'  PROVE Happened(t, {"rejected"})
      <4>1. Now(t, {"rejected"}) /\ Era # "rejected"
        BY <1>2, <1>3, <2>3, <3>1
      <4>. QED  BY <4>1
    <3>. QED  BY <1>1, <2>3, <3>1 DEF ValidationInv, VerdictInv, Unclicked
  <2>. QED  BY <1>1, <2>1, <2>2, <2>3 DEF Unclicked
<1>. QED  BY <1>4, <1>5

\* The validation's own steps add nothing to what the page has done.
LEMMA VisitKept ==
  ASSUME ValidationInv, Validation \/ Fails \/ BannerGoes
  PROVE  VisitInv'
<1>1. past' = past /\ step \in Steps /\ report \in Reports
  BY DEF ValidationInv, ValidationTypeOK, Validation, Fails, BannerGoes, Launched, FirstLoad, PreCookies,
         PreTrackers, PreSignals, DarkPatterns, Scrolled, ClickAccept, Accepted, PostAccept, ClearCookies,
         Reload, Replaced, SecondLoad, ClickReject, CollectTrackers, PostReject, Closed
<1>2. \A y, times : Happened(y, times)' <=> Happened(y, times)
  BY <1>1 DEF Happened
<1>. USE DEF Early, VisitInv, ValidationInv, Goes, Failed, Reports
<1>3. CASE \/ Launched \/ FirstLoad \/ ClickAccept \/ Accepted \/ Replaced \/ SecondLoad
        \/ Closed \/ Fails \/ BannerGoes
  BY <1>1, <1>2, <1>3
     DEF Launched, FirstLoad, ClickAccept, Accepted, Replaced, SecondLoad, Closed, Fails, BannerGoes
<1>4. CASE PreCookies \/ PreTrackers
  BY <1>1, <1>2, <1>4 DEF PreCookies, PreTrackers
<1>5. CASE PreSignals \/ DarkPatterns \/ Scrolled \/ PostAccept
  BY <1>1, <1>2, <1>5 DEF PreSignals, DarkPatterns, Scrolled, PostAccept
<1>6. CASE ClearCookies \/ Reload
  BY <1>1, <1>2, <1>6 DEF ClearCookies, Reload, Kept
<1>7. CASE ClickReject \/ CollectTrackers
  BY <1>1, <1>2, <1>7 DEF ClickReject, CollectTrackers, CollectedAt, ValidationTypeOK
<1>8. CASE PostReject
  <2>1. jar \cap Trackers = {}
    BY ValidationAssumption DEF ValidationTypeOK
  <2>. QED  BY <1>1, <1>2, <1>8, <2>1 DEF PostReject
<1>. QED  BY <1>3, <1>4, <1>5, <1>6, <1>7, <1>8 DEF Validation

LEMMA VerdictKept ==
  ASSUME ValidationInv, Validation \/ Fails \/ BannerGoes
  PROVE  VerdictInv'
<1>1. past' = past /\ step \in Steps /\ report \in Reports
  BY DEF ValidationInv, ValidationTypeOK, Validation, Fails, BannerGoes, Launched, FirstLoad, PreCookies,
         PreTrackers, PreSignals, DarkPatterns, Scrolled, ClickAccept, Accepted, PostAccept, ClearCookies,
         Reload, Replaced, SecondLoad, ClickReject, CollectTrackers, PostReject, Closed
<1>2. \A y, times : Happened(y, times)' <=> Happened(y, times)
  BY <1>1 DEF Happened
<1>3. (\A p \in past : p.when # "rejected") => \A y : ~Happened(y, {"rejected"})
  BY DEF Happened
<1>. USE DEF VerdictInv, ValidationInv, Goes, Failed, Reports, Unclicked, Steps
<1>4. CASE \/ Launched \/ FirstLoad \/ ClickAccept \/ Accepted \/ Replaced \/ SecondLoad
        \/ Closed \/ BannerGoes
  BY <1>1, <1>2, <1>4 DEF Launched, FirstLoad, ClickAccept, Accepted, Replaced, SecondLoad, Closed, BannerGoes
<1>5. CASE PreCookies \/ PreTrackers \/ PreSignals \/ DarkPatterns \/ Scrolled \/ PostAccept
  BY <1>1, <1>2, <1>5 DEF PreCookies, PreTrackers, PreSignals, DarkPatterns, Scrolled, PostAccept
<1>6. CASE ClearCookies \/ Reload \/ Fails
  BY <1>1, <1>2, <1>6 DEF ClearCookies, Reload, Fails
<1>7. CASE ClickReject
  <2>1. ~report.rejected /\ \A y : ~Happened(y, {"rejected"})'
    BY <1>2, <1>3, <1>7 DEF ClickReject
  <2>. QED  BY <1>1, <1>7, <2>1 DEF ClickReject
<1>8. CASE CollectTrackers
  BY <1>1, <1>2, <1>8 DEF CollectTrackers, CollectedAt
<1>9. CASE PostReject
  BY <1>1, <1>2, <1>9 DEF PostReject
<1>. QED  BY <1>4, <1>5, <1>6, <1>7, <1>8, <1>9 DEF Validation

LEMMA ValidationKept ==
  ASSUME ValidationInv, [ServiceNext]_serviceVars
  PROVE  ValidationInv'
<1>1. CASE ValidationNext
  <2>1. ValidationTypeOK'
    BY <1>1, ValidationTyped DEF ValidationInv
  <2>2. ASSUME NEW t \in Trackers, Fires(t)  PROVE VisitInv' /\ VerdictInv'
    BY <2>2, ActKept DEF Fires
  <2>3. ASSUME NEW c \in Necessary \cup Tracking, SetsCookie(c)  PROVE VisitInv' /\ VerdictInv'
    BY <2>3, ActKept, ValidationAssumption DEF SetsCookie
  <2>4. CASE Validation \/ Fails \/ BannerGoes
    BY <2>1, <2>4, VisitKept, VerdictKept DEF ValidationInv
  <2>. QED  BY <1>1, <2>1, <2>2, <2>3, <2>4 DEF ValidationNext, ValidationInv
<1>2. CASE UNCHANGED validationVars
  BY <1>2 DEF validationVars, ValidationInv, ValidationTypeOK, VisitInv, VerdictInv, Happened
<1>. QED  BY <1>1, <1>2 DEF ServiceNext, serviceVars

\* The two visits share a browser context, but nothing from before it was cleared
\* for the second is reported of that (run_validation).
THEOREM VisitsKeptApart == ServiceSpec => []VisitsApart
<1>1. ServiceInit => ValidationInv
  BY ValidationBegins DEF ServiceInit
<1>2. ValidationInv /\ [ServiceNext]_serviceVars => ValidationInv'
  BY ValidationKept
<1>3. ValidationInv => VisitsApart
  BY DEF ValidationInv, VisitInv, VisitsApart, Calls, Late
<1>. QED  BY <1>1, <1>2, <1>3, PTL DEF ServiceSpec

\* No tracker called in the two seconds after the click is left out of the
\* verdict, however many there are (post_reject_trackers).
THEOREM NothingMissed == ServiceSpec => []RejectMissesNothing
<1>1. ServiceInit => ValidationInv
  BY ValidationBegins DEF ServiceInit
<1>2. ValidationInv /\ [ServiceNext]_serviceVars => ValidationInv'
  BY ValidationKept
<1>3. ValidationInv => RejectMissesNothing
  BY DEF ValidationInv, VerdictInv, RejectMissesNothing
<1>. QED  BY <1>1, <1>2, <1>3, PTL DEF ServiceSpec

-----------------------------------------------------------------------------
(* Sequences and finite sets.                                                *)

\* A sequence, of whatever.
IsSeq(s) == \E S : s \in Seq(S)

LEMMA SeqIs ==
  ASSUME NEW s, IsSeq(s)
  PROVE  Len(s) \in Nat /\ DOMAIN s = 1..Len(s) /\ (s = <<>> <=> Len(s) = 0)
BY LenProperties, EmptySeq DEF IsSeq

LEMMA AppendIs ==
  ASSUME NEW s, NEW e, IsSeq(s)
  PROVE  /\ IsSeq(Append(s, e)) /\ Len(s) \in Nat /\ Len(Append(s, e)) = Len(s) + 1
         /\ DOMAIN s = 1..Len(s) /\ DOMAIN Append(s, e) = 1..(Len(s) + 1)
         /\ \A i \in 1..Len(s) : Append(s, e)[i] = s[i]
         /\ Append(s, e)[Len(s) + 1] = e
<1>1. PICK S : s \in Seq(S)
  BY DEF IsSeq
<1>2. s \in Seq(S \cup {e})
  BY <1>1
<1>. QED  BY <1>2, AppendProperties DEF IsSeq

LEMMA TailIs ==
  ASSUME NEW s, IsSeq(s), s # <<>>
  PROVE  /\ IsSeq(Tail(s)) /\ Len(s) \in Nat \ {0} /\ Len(Tail(s)) = Len(s) - 1
         /\ DOMAIN s = 1..Len(s) /\ DOMAIN Tail(s) = 1..(Len(s) - 1)
         /\ \A i \in 1..(Len(s) - 1) : Tail(s)[i] = s[i + 1]
         /\ Head(s) = s[1]
<1>1. PICK S : s \in Seq(S)
  BY DEF IsSeq
<1>. QED  BY <1>1, HeadTailProperties DEF IsSeq

\* The first n elements of a sequence.
LEMMA PrefixIs ==
  ASSUME NEW s, IsSeq(s), NEW n \in 0..Len(s)
  PROVE  /\ IsSeq(SubSeq(s, 1, n)) /\ Len(SubSeq(s, 1, n)) = n /\ DOMAIN SubSeq(s, 1, n) = 1..n
         /\ \A i \in 1..n : SubSeq(s, 1, n)[i] = s[i]
         /\ SubSeq(s, 1, Len(s)) = s
<1>1. PICK S : s \in Seq(S)
  BY DEF IsSeq
<1>2. Len(s) \in Nat /\ n \in Nat /\ n <= Len(s)
  BY <1>1, LenProperties
<1>3. /\ SubSeq(s, 1, n) \in Seq(S) /\ Len(SubSeq(s, 1, n)) = n
      /\ \A i \in 1..n : SubSeq(s, 1, n)[i] = s[i]
  BY <1>1, <1>2, SubSeqProperties
<1>4. DOMAIN SubSeq(s, 1, n) = 1..n
  BY <1>3, LenProperties
<1>5. SubSeq(s, 1, Len(s)) = s
  BY <1>1, SubSeqFull
<1>. QED  BY <1>3, <1>4, <1>5 DEF IsSeq

LEMMA PrefixOfAppend ==
  ASSUME NEW s, NEW e, IsSeq(s), NEW n \in 0..Len(s)
  PROVE  SubSeq(Append(s, e), 1, n) = SubSeq(s, 1, n)
<1>. DEFINE t == Append(s, e)
<1>1. /\ IsSeq(t) /\ Len(s) \in Nat /\ Len(t) = Len(s) + 1 /\ \A i \in 1..Len(s) : t[i] = s[i]
  BY AppendIs
<1>. HIDE DEF t
<1>2. SubSeq(t, 1, n) = [i \in 1..n |-> t[i]]
  BY <1>1
<1>3. SubSeq(s, 1, n) = [i \in 1..n |-> s[i]]
  BY <1>1
<1>. QED  BY <1>1, <1>2, <1>3 DEF t

LEMMA FirstOfLen ==
  ASSUME NEW s, NEW n \in Nat
  PROVE  Len(FirstOf(s, n)) \in 0..n /\ (FirstOf(s, n) # <<>> => Len(FirstOf(s, n)) > 0)
<1>. DEFINE m == IF Len(s) \in 0..n THEN Len(s) ELSE n
<1>1. m \in 0..n
  OBVIOUS
<1>. HIDE DEF m
<1>2. SubSeq(s, 1, m) = [i \in 1..m |-> s[i]]
  BY <1>1
<1>. QED  BY <1>1, <1>2 DEF FirstOf, m

LEMMA ImageFinite ==
  ASSUME NEW f, IsFiniteSet(DOMAIN f)
  PROVE  IsFiniteSet({f[x] : x \in DOMAIN f})
<1>. DEFINE T == {f[x] : x \in DOMAIN f}
            g == [x \in DOMAIN f |-> f[x]]
<1>1. g \in Surjection(DOMAIN f, T)
  BY DEF Surjection
<1>. QED  BY <1>1, FS_Surjection

\* A set of numbers that has any has a least one: of its members up to each of
\* them, a finite set that has no smaller one below it.
LEMMA Least ==
  ASSUME NEW T, T \subseteq Nat, T # {}
  PROVE  \E k \in T : \A j \in T : k <= j
<1>. DEFINE UpTo(k) == {j \in T : j <= k}
            R == StrictSubsetOrdering(Nat)
            F == {UpTo(k) : k \in T}
<1>0. \A x \in T : x \in Nat
  OBVIOUS
<1>1. ASSUME NEW k \in T  PROVE UpTo(k) \in FiniteSubsetsOf(Nat)
  <2>1. ASSUME NEW j \in UpTo(k)  PROVE j \in 0..k
    <3>1. j \in T /\ j <= k /\ j \in Nat /\ k \in Nat
      BY <1>0
    <3>. QED  BY <3>1
  <2>2. IsFiniteSet(0..k)
    BY FS_Interval
  <2>3. IsFiniteSet(UpTo(k))
    <3>1. UpTo(k) \in SUBSET (0..k)
      BY <2>1
    <3>. HIDE DEF UpTo
    <3>. QED  BY <2>2, <3>1, FS_Subset
  <2>. QED  BY <2>3 DEF FiniteSubsetsOf
<1>2. F \subseteq FiniteSubsetsOf(Nat) /\ F # {}
  BY <1>1
<1>3. PICK D \in F : \A E \in F : <<E, D>> \notin R
  <2>. HIDE DEF F, R
  <2>1. IsWellFoundedOn(R, FiniteSubsetsOf(Nat))
    BY FS_StrictSubsetOrderingWellFounded DEF R
  <2>. QED  BY <1>2, <2>1, WFMin
<1>4. PICK k \in T : D = UpTo(k)
  BY <1>3
<1>5. ASSUME NEW j \in T, ~(k <= j)  PROVE FALSE
  <2>1. j \in Nat /\ k \in Nat
    BY <1>0
  <2>2. k \in UpTo(k) /\ k \notin UpTo(j)
    BY <1>5, <2>1
  <2>3. \A x \in UpTo(j) : x \in UpTo(k)
    BY <1>5, <1>0, <2>1
  <2>4. /\ UpTo(j) \subseteq UpTo(k) /\ UpTo(j) # UpTo(k)
        /\ UpTo(j) \in SUBSET Nat /\ UpTo(k) \in SUBSET Nat
    BY <2>2, <2>3, <1>0
  <2>5. <<UpTo(j), UpTo(k)>> \in R
    BY <2>4 DEF StrictSubsetOrdering
  <2>. QED  BY <1>3, <1>4, <2>5
<1>. QED  BY <1>5

-----------------------------------------------------------------------------
(* What several pages have found.                                            *)

FirstAt(ps, i, k) == i \in ps[k].found /\ \A j \in 1..(k - 1) : i \notin ps[j].found

\* An item that some page has is reported on exactly one, the first.
LEMMA FirstExists ==
  ASSUME NEW ps, IsSeq(ps), NEW n \in DOMAIN ps, NEW i \in ps[n].found
  PROVE  \E k \in DOMAIN ps : FirstAt(ps, i, k)
<1>. DEFINE T == {k \in DOMAIN ps : i \in ps[k].found}
<1>1. DOMAIN ps = 1..Len(ps) /\ Len(ps) \in Nat
  BY SeqIs
<1>2. T \subseteq Nat /\ T # {}
  BY <1>1
<1>3. PICK k \in T : \A j \in T : k <= j
  <2>. HIDE DEF T
  <2>. QED  BY <1>2, Least
<1>4. ASSUME NEW j \in 1..(k - 1)  PROVE i \notin ps[j].found
  <2>1. k \in 1..Len(ps) /\ j \in DOMAIN ps /\ ~(k <= j)
    BY <1>1, <1>3
  <2>. QED  BY <1>3, <2>1
<1>. QED  BY <1>3, <1>4 DEF FirstAt

LEMMA FirstIsOne ==
  ASSUME NEW ps, IsSeq(ps), NEW i, NEW k \in DOMAIN ps, NEW l \in DOMAIN ps,
         FirstAt(ps, i, k), FirstAt(ps, i, l)
  PROVE  k = l
<1>1. DOMAIN ps = 1..Len(ps) /\ Len(ps) \in Nat
  BY SeqIs
<1>. QED  BY <1>1 DEF FirstAt

LEMMA UniqueCookie ==
  ASSUME NEW ps, IsSeq(ps), NEW c
  PROVE  c \in UniqueCookies(ps) <=>
           \E k \in DOMAIN ps : \E i \in ps[k].found :
             FirstAt(ps, i, k) /\ c = [item |-> i, url |-> ps[k].url]
<1>. DEFINE Seen == UNION {ps[k].found : k \in DOMAIN ps}
            At1(i) == CHOOSE k \in DOMAIN ps : FirstAt(ps, i, k)
<1>1. UniqueCookies(ps) = {[item |-> i, url |-> ps[At1(i)].url] : i \in Seen}
  BY DEF UniqueCookies, FirstAt
<1>2. ASSUME NEW i, NEW k \in DOMAIN ps, FirstAt(ps, i, k)
      PROVE  At1(i) = k
  BY <1>2, FirstIsOne
<1>3. ASSUME NEW i \in Seen  PROVE \E k \in DOMAIN ps : FirstAt(ps, i, k) /\ At1(i) = k
  <2>1. PICK n \in DOMAIN ps : i \in ps[n].found
    OBVIOUS
  <2>2. PICK k \in DOMAIN ps : FirstAt(ps, i, k)
    BY <2>1, FirstExists
  <2>. QED  BY <1>2, <2>2
<1>4. ASSUME c \in UniqueCookies(ps)
      PROVE  \E k \in DOMAIN ps : \E i \in ps[k].found :
               FirstAt(ps, i, k) /\ c = [item |-> i, url |-> ps[k].url]
  <2>1. PICK i \in Seen : c = [item |-> i, url |-> ps[At1(i)].url]
    BY <1>1, <1>4
  <2>2. PICK k \in DOMAIN ps : FirstAt(ps, i, k) /\ At1(i) = k
    BY <1>3
  <2>3. i \in ps[k].found
    BY <2>2 DEF FirstAt
  <2>. HIDE DEF At1
  <2>. QED  BY <2>1, <2>2, <2>3
<1>5. ASSUME NEW k \in DOMAIN ps, NEW i \in ps[k].found, FirstAt(ps, i, k),
             c = [item |-> i, url |-> ps[k].url]
      PROVE  c \in UniqueCookies(ps)
  <2>1. i \in Seen /\ At1(i) = k
    BY <1>2, <1>5
  <2>. HIDE DEF At1, Seen
  <2>. QED  BY <1>1, <1>5, <2>1
<1>. QED  BY <1>4, <1>5

\* More pages have no fewer cookies, and those of the first pages unchanged.
LEMMA UniqueGrows ==
  ASSUME NEW ps, IsSeq(ps), NEW m \in 0..Len(ps), NEW n \in 0..m
  PROVE  UniqueCookies(SubSeq(ps, 1, n)) \subseteq UniqueCookies(SubSeq(ps, 1, m))
<1>. DEFINE a == SubSeq(ps, 1, n)
            b == SubSeq(ps, 1, m)
<1>1. Len(ps) \in Nat /\ n \in 0..Len(ps)
  BY SeqIs
<1>2. /\ IsSeq(a) /\ IsSeq(b) /\ DOMAIN a = 1..n /\ DOMAIN b = 1..m
      /\ \A k \in 1..n : a[k] = ps[k] /\ b[k] = ps[k]
  BY <1>1, PrefixIs
<1>. HIDE DEF a, b
<1>3. ASSUME NEW c \in UniqueCookies(a)  PROVE c \in UniqueCookies(b)
  <2>0. PICK k \in DOMAIN a :
          \E i \in a[k].found : FirstAt(a, i, k) /\ c = [item |-> i, url |-> a[k].url]
    BY <1>2, UniqueCookie
  <2>1. PICK i \in a[k].found : FirstAt(a, i, k) /\ c = [item |-> i, url |-> a[k].url]
    BY <2>0
  <2>2. k \in DOMAIN b /\ b[k] = a[k] /\ \A j \in 1..(k - 1) : b[j] = a[j]
    BY <1>2
  <2>3. FirstAt(b, i, k)
    BY <2>1, <2>2 DEF FirstAt
  <2>4. i \in b[k].found /\ c = [item |-> i, url |-> b[k].url]
    BY <2>1, <2>2
  <2>. QED  BY <1>2, <2>2, <2>3, <2>4, UniqueCookie
<1>. QED  BY <1>3 DEF a, b

LEMMA UniqueFinite ==
  ASSUME NEW ps, IsSeq(ps), \A k \in DOMAIN ps : IsFiniteSet(ps[k].found)
  PROVE  IsFiniteSet(UniqueCookies(ps))
<1>. DEFINE all == [k \in DOMAIN ps |-> ps[k].found]
            Seen == UNION {ps[k].found : k \in DOMAIN ps}
            cookie == [i \in Seen |->
              [item |-> i, url |-> ps[CHOOSE k \in DOMAIN ps :
                             i \in ps[k].found /\ \A j \in 1..(k - 1) : i \notin ps[j].found].url]]
<1>1. IsFiniteSet(DOMAIN ps)
  BY SeqIs, FS_Interval
<1>2. IsFiniteSet({all[k] : k \in DOMAIN all})
  BY <1>1, ImageFinite
<1>3. {all[k] : k \in DOMAIN all} = {ps[k].found : k \in DOMAIN ps}
  OBVIOUS
<1>4. IsFiniteSet(Seen)
  BY <1>2, <1>3, FS_UNION
<1>5. IsFiniteSet({cookie[i] : i \in DOMAIN cookie})
  BY <1>4, ImageFinite
<1>6. {cookie[i] : i \in DOMAIN cookie} = UniqueCookies(ps)
  BY DEF UniqueCookies
<1>. QED  BY <1>5, <1>6

-----------------------------------------------------------------------------
(* The crawl.                                                                *)

PageFields == {"url", "step", "changes", "jar", "store", "first", "unread", "headers", "found", "made"}

\* Finite, and set by the page, other than the planted cookie.
Own(S, made) == IsFiniteSet(S) /\ S \subseteq made \cup {Planted}

PageInv ==
  /\ DOMAIN page = PageFields
  /\ Own(page.jar, page.made) /\ Own(page.store, page.made) /\ Own(page.first, page.made)
  /\ Own(page.unread, page.made) /\ Own(page.headers, page.made)
  /\ IsFiniteSet(page.found) /\ \A i \in page.found : i.name \in page.made \cup {Planted}
  /\ page.step # "closed" => task = "crawl" /\ Len(pages) < Len(urls)

\* The pages that are done, and where the crawl is.
PagesInv ==
  /\ IsSeq(pages) /\ Len(urls) \in Nat /\ Len(pages) <= Len(urls)
  /\ \A k \in DOMAIN pages :
       /\ IsFiniteSet(pages[k].found)
       /\ \A i \in pages[k].found : i.name \in pages[k].made \cup {Planted}
  /\ task \in {"prepare", "launch", "crawl", "done"}
  /\ task \in {"prepare", "launch"} => pages = <<>>
  /\ task = "prepare" => lines = <<>> /\ events = <<>>
  /\ task \in {"launch", "crawl"} => Len(urls) > 0

\* on_page's line after the pages ps, of so many.
ProgressLine(ps, of) ==
  [type |-> "progress", pages |-> Len(ps), of |-> of, found |-> Cardinality(UniqueCookies(ps))]

\* What the nth line of a stream is, given the pages that are done, the number
\* of addresses and where the crawl is.
InStream(e, n, ps, of, at) ==
  /\ e.type = "progress" => n <= Len(ps) /\ e = ProgressLine(SubSeq(ps, 1, n), of)
  /\ e.type = "result" => n = Len(ps) + 1 /\ Len(ps) = of /\ of > 0 /\ at = "done" /\ e = Result(ps)

\* The lines and, while they are read, the queue behind them.
StreamInv ==
  /\ IsSeq(lines) /\ IsSeq(events)
  /\ client \in {"waiting", "reading", "gone"} /\ (client = "waiting" => task = "prepare")
  /\ \A i \in DOMAIN lines :
       /\ InStream(lines[i], i, pages, Len(urls), task)
       /\ lines[i].type # "progress" => i = Len(lines) /\ client = "gone"
  /\ client = "reading" => \A j \in DOMAIN events : InStream(events[j], Len(lines) + j, pages, Len(urls), task)
  /\ client = "reading" /\ task # "done" => Len(lines) + Len(events) = Len(pages)

CrawlInv == PageInv /\ PagesInv /\ StreamInv

LEMMA CrawlBegins ==
  ASSUME CrawlInit \/ NoCrawl
  PROVE  CrawlInv
<1>1. /\ task \in {"prepare", "done"} /\ urls = <<>> /\ page = NoPage /\ pages = <<>>
      /\ events = <<>> /\ lines = <<>> /\ client \in {"waiting", "gone"}
      /\ (client = "waiting" => task = "prepare")
  BY DEF CrawlInit, NoCrawl
<1>2. IsSeq(<<>>) /\ Len(<<>>) = 0 /\ DOMAIN <<>> = {}
  BY EmptySeq DEF IsSeq
<1>3. IsFiniteSet({})
  BY FS_EmptySet
<1>4. PageInv
  BY <1>1, <1>3 DEF PageInv, NoPage, PageFields, Own
<1>5. PagesInv
  BY <1>1, <1>2 DEF PagesInv
<1>6. StreamInv
  BY <1>1, <1>2 DEF StreamInv
<1>. QED  BY <1>4, <1>5, <1>6 DEF CrawlInv

\* Steps on the page alone.
PageStep ==
  \/ OpenPage \/ Loaded \/ FirstPass \/ SecondPass \/ ReadLocal \/ ReadSession
  \/ PageActs \/ (\E c \in Cookies : HeaderRead(c)) \/ PageFails

LEMMA PageStepIs ==
  ASSUME PageStep
  PROVE  task = "crawl" /\ UNCHANGED <<source, task, urls, pages, events, lines, client>>
BY DEF PageStep, OpenPage, Loaded, FirstPass, SecondPass, ReadLocal, ReadSession, PageActs, HeaderRead,
       PageFails, OnPage

\* One more thing of the page's own, and one fewer.
LEMMA OwnMore ==
  ASSUME NEW S, NEW made, Own(S, made), NEW c
  PROVE  /\ Own(S, made \cup {c}) /\ Own(S \cup {c}, made \cup {c}) /\ Own(S \ {c}, made)
         /\ c \in made \cup {Planted} => Own(S \cup {c}, made)
BY FS_AddElement, FS_RemoveElement DEF Own

LEMMA PageActsKept ==
  ASSUME PageInv, PageActs
  PROVE  PageInv'
<1>. USE DEF PageInv, PageFields
<1>1. task = "crawl" /\ UNCHANGED <<task, urls, pages>> /\ page.step # "closed"
  BY DEF PageActs, OnPage, Open
<1>2. ASSUME NEW c \in Cookies, NEW sent \in BOOLEAN, NEW kept \in BOOLEAN,
             page' = [page EXCEPT !.made = page.made \cup {c}, !.changes = page.changes + 1,
                        !.jar = IF kept THEN page.jar \cup {c} ELSE page.jar,
                        !.unread = IF sent THEN page.unread \cup {c} ELSE page.unread]
      PROVE  PageInv'
  <2>1. /\ DOMAIN page' = PageFields /\ page'.made = page.made \cup {c} /\ page'.step = page.step
        /\ page'.jar = (IF kept THEN page.jar \cup {c} ELSE page.jar)
        /\ page'.unread = (IF sent THEN page.unread \cup {c} ELSE page.unread)
        /\ page'.store = page.store /\ page'.first = page.first /\ page'.headers = page.headers
        /\ page'.found = page.found
    BY <1>2
  <2>2. \A S : Own(S, page.made) => Own(S, page'.made) /\ Own(S \cup {c}, page'.made)
    <3>1. \A S : Own(S, page.made) => Own(S, page.made \cup {c}) /\ Own(S \cup {c}, page.made \cup {c})
      BY OwnMore
    <3>. QED  BY <2>1, <3>1
  <2>3. /\ Own(page'.jar, page'.made) /\ Own(page'.store, page'.made) /\ Own(page'.first, page'.made)
        /\ Own(page'.unread, page'.made) /\ Own(page'.headers, page'.made)
    BY <2>1, <2>2
  <2>. QED  BY <1>1, <2>1, <2>3
<1>3. ASSUME NEW c \in page.jar \cap Cookies,
             page' = [page EXCEPT !.jar = page.jar \ {c}, !.changes = page.changes + 1]
      PROVE  PageInv'
  <2>1. /\ DOMAIN page' = PageFields /\ page'.made = page.made /\ page'.step = page.step
        /\ page'.jar = page.jar \ {c} /\ page'.unread = page.unread
        /\ page'.store = page.store /\ page'.first = page.first /\ page'.headers = page.headers
        /\ page'.found = page.found /\ c \in page.made \cup {Planted}
    BY <1>3 DEF Own
  <2>2. \A S : Own(S, page.made) => Own(S, page'.made) /\ Own(S \ {c}, page'.made)
    BY <2>1, OwnMore
  <2>3. /\ Own(page'.jar, page'.made) /\ Own(page'.store, page'.made) /\ Own(page'.first, page'.made)
        /\ Own(page'.unread, page'.made) /\ Own(page'.headers, page'.made)
    BY <2>1, <2>2
  <2>. QED  BY <1>1, <2>1, <2>3
<1>4. ASSUME NEW i \in Local \cup Session,
             page' = [page EXCEPT !.store = page.store \cup {i}, !.made = page.made \cup {i},
                                  !.changes = page.changes + 1]
      PROVE  PageInv'
  <2>1. /\ DOMAIN page' = PageFields /\ page'.made = page.made \cup {i} /\ page'.step = page.step
        /\ page'.store = page.store \cup {i} /\ page'.unread = page.unread /\ page'.jar = page.jar
        /\ page'.first = page.first /\ page'.headers = page.headers /\ page'.found = page.found
    BY <1>4
  <2>2. \A S : Own(S, page.made) => Own(S, page'.made) /\ Own(S \cup {i}, page'.made)
    <3>1. \A S : Own(S, page.made) => Own(S, page.made \cup {i}) /\ Own(S \cup {i}, page.made \cup {i})
      BY OwnMore
    <3>. QED  BY <2>1, <3>1
  <2>3. /\ Own(page'.jar, page'.made) /\ Own(page'.store, page'.made) /\ Own(page'.first, page'.made)
        /\ Own(page'.unread, page'.made) /\ Own(page'.headers, page'.made)
    BY <2>1, <2>2
  <2>. QED  BY <1>1, <2>1, <2>3
<1>. QED  BY <1>2, <1>3, <1>4 DEF PageActs

LEMMA ListedOwn ==
  ASSUME NEW S, Own(S, page.made)
  PROVE  /\ IsFiniteSet({Listed(c) : c \in S}) /\ IsFiniteSet({InHeader(c) : c \in S})
         /\ \A i \in {Listed(c) : c \in S} \cup {InHeader(c) : c \in S} : i.name \in page.made \cup {Planted}
<1>. DEFINE f == [c \in S |-> Listed(c)]
            g == [c \in S |-> InHeader(c)]
<1>1. IsFiniteSet({f[c] : c \in DOMAIN f}) /\ IsFiniteSet({g[c] : c \in DOMAIN g})
  BY ImageFinite DEF Own
<1>2. {f[c] : c \in DOMAIN f} = {Listed(c) : c \in S} /\ {g[c] : c \in DOMAIN g} = {InHeader(c) : c \in S}
  OBVIOUS
<1>. QED  BY <1>1, <1>2 DEF Own, Listed, InHeader

LEMMA PageStepKept ==
  ASSUME PageInv, PagesInv, PageStep
  PROVE  PageInv'
<1>0. task = "crawl" /\ UNCHANGED <<task, urls, pages>>
  BY PageStepIs
<1>. USE DEF PageInv, PageFields
<1>1. CASE OpenPage
  <2>1. /\ Len(pages) < Len(urls) /\ page' = FreshPage(urls[Len(pages) + 1])
    BY <1>1 DEF OpenPage
  <2>2. /\ DOMAIN page' = PageFields /\ page'.jar = {Planted} /\ page'.store = {} /\ page'.first = {}
        /\ page'.unread = {} /\ page'.headers = {} /\ page'.found = {} /\ page'.made = {}
        /\ page'.step = "load"
    BY <2>1 DEF FreshPage, NoPage
  <2>3. IsFiniteSet({}) /\ IsFiniteSet({Planted})
    BY FS_EmptySet, FS_Singleton
  <2>. QED  BY <1>0, <2>1, <2>2, <2>3 DEF Own
<1>2. CASE Loaded \/ PageFails
  BY <1>0, <1>2 DEF Loaded, PageFails, OnPage, Open, Own
<1>3. CASE FirstPass
  BY <1>0, <1>3 DEF FirstPass, OnPage, Own
<1>4. CASE SecondPass
  <2>1. Own(page.first \cup page.jar, page.made)
    BY FS_Union DEF Own
  <2>2. IsFiniteSet(Merged) /\ \A i \in Merged : i.name \in page.made \cup {Planted}
    <3>1. /\ IsFiniteSet({Listed(c) : c \in page.first \cup page.jar})
          /\ IsFiniteSet({InHeader(c) : c \in page.headers})
      BY <2>1, ListedOwn
    <3>2. IsFiniteSet(Merged)
      BY <3>1, FS_Union DEF Merged
    <3>. QED  BY <2>1, <3>2, ListedOwn DEF Merged
  <2>. QED  BY <1>0, <1>4, <2>2 DEF SecondPass, OnPage, Own
<1>5. CASE ReadLocal \/ ReadSession
  <2>1. PICK S \in {Local, Session} : \E next \in {"session", "read"} :
          page' = [page EXCEPT !.step = next, !.found = page.found \cup {Listed(i) : i \in page.store \cap S}]
    BY <1>5 DEF ReadLocal, ReadSession
  <2>2. Own(page.store \cap S, page.made)
    BY FS_Intersection DEF Own
  <2>3. IsFiniteSet({Listed(i) : i \in page.store \cap S})
    BY <2>2, ListedOwn
  <2>4. IsFiniteSet(page.found \cup {Listed(i) : i \in page.store \cap S})
    BY <2>3, FS_Union
  <2>5. \A i \in page.found \cup {Listed(c) : c \in page.store \cap S} : i.name \in page.made \cup {Planted}
    BY <2>2, ListedOwn
  <2>6. page.step # "closed"
    BY <1>5 DEF ReadLocal, ReadSession, OnPage
  <2>. QED  BY <1>0, <2>1, <2>4, <2>5, <2>6 DEF Own
<1>6. CASE PageActs
  BY <1>6, PageActsKept
<1>7. ASSUME NEW c \in Cookies, HeaderRead(c)  PROVE PageInv'
  <2>1. /\ c \in page.unread /\ page.step # "closed"
        /\ page' = [page EXCEPT !.unread = page.unread \ {c}, !.headers = page.headers \cup {c}]
    BY <1>7 DEF HeaderRead, OnPage, Open
  <2>2. /\ DOMAIN page' = PageFields /\ page'.made = page.made /\ page'.step = page.step
        /\ page'.unread = page.unread \ {c} /\ page'.headers = page.headers \cup {c}
        /\ page'.jar = page.jar /\ page'.store = page.store /\ page'.first = page.first
        /\ page'.found = page.found /\ c \in page.made \cup {Planted}
    BY <2>1 DEF Own
  <2>3. \A S : Own(S, page.made) =>
               Own(S, page'.made) /\ Own(S \ {c}, page'.made) /\ Own(S \cup {c}, page'.made)
    BY <2>2, OwnMore
  <2>4. /\ Own(page'.jar, page'.made) /\ Own(page'.store, page'.made) /\ Own(page'.first, page'.made)
        /\ Own(page'.unread, page'.made) /\ Own(page'.headers, page'.made)
    BY <2>2, <2>3
  <2>. QED  BY <1>0, <2>1, <2>2, <2>4
<1>. QED  BY <1>1, <1>2, <1>3, <1>4, <1>5, <1>6, <1>7 DEF PageStep

LEMMA PageStepInv ==
  ASSUME CrawlInv, PageStep
  PROVE  CrawlInv'
<1>1. task = "crawl" /\ UNCHANGED <<source, task, urls, pages, events, lines, client>>
  BY PageStepIs
<1>2. PageInv'
  BY PageStepKept DEF CrawlInv
<1>3. PagesInv'
  BY <1>1 DEF CrawlInv, PagesInv
<1>4. \A e, n : InStream(e, n, pages, Len(urls), task) => InStream(e, n, pages', Len(urls'), task')
  BY <1>1
<1>5. StreamInv'
  BY <1>1, <1>4 DEF CrawlInv, StreamInv
<1>. QED  BY <1>2, <1>3, <1>5 DEF CrawlInv

LEMMA PrepareKept ==
  ASSUME CrawlInv, Prepare
  PROVE  CrawlInv'
<1>1. /\ task = "prepare" /\ pages = <<>> /\ lines = <<>> /\ events = <<>> /\ page.step = "closed"
      /\ UNCHANGED <<page, pages, events, lines>>
  BY DEF Prepare, CrawlInv, PagesInv, PageInv
<1>2. Len(urls') \in Nat /\ (urls' # <<>> => Len(urls') > 0)
  <2>1. PICK s : urls' = FirstOf(s, MaxPages)
    BY DEF Prepare, ToCrawl
  <2>. QED  BY <2>1, FirstOfLen, CrawlAssumption
<1>3. /\ task' = IF urls' = <<>> THEN "done" ELSE "launch"
      /\ client' = IF urls' = <<>> THEN "gone" ELSE "reading"
  BY DEF Prepare
<1>4. Len(<<>>) = 0 /\ DOMAIN <<>> = {}
  BY EmptySeq
<1>5. PageInv'
  BY <1>1 DEF CrawlInv, PageInv
<1>6. PagesInv'
  BY <1>1, <1>2, <1>3, <1>4 DEF CrawlInv, PagesInv
<1>7. StreamInv'
  BY <1>1, <1>3, <1>4 DEF CrawlInv, StreamInv
<1>. QED  BY <1>5, <1>6, <1>7 DEF CrawlInv

\* Two events that end the crawl.
LEMMA ConcatTwo ==
  ASSUME NEW s, NEW e, NEW f, IsSeq(s)
  PROVE  /\ IsSeq(s \o <<e, f>>) /\ Len(s) \in Nat /\ Len(s \o <<e, f>>) = Len(s) + 2
         /\ DOMAIN s = 1..Len(s) /\ DOMAIN (s \o <<e, f>>) = 1..(Len(s) + 2)
         /\ \A i \in 1..Len(s) : (s \o <<e, f>>)[i] = s[i]
         /\ (s \o <<e, f>>)[Len(s) + 1] = e /\ (s \o <<e, f>>)[Len(s) + 2] = f
<1>1. PICK S : s \in Seq(S)
  BY DEF IsSeq
<1>2. s \in Seq(S \cup {e, f}) /\ <<e, f>> \in Seq(S \cup {e, f}) /\ Len(<<e, f>>) = 2
  BY <1>1
<1>3. s \o <<e, f>> \in Seq(S \cup {e, f}) /\ Len(s \o <<e, f>>) = Len(s) + 2
  BY <1>2, ConcatProperties
<1>. QED  BY <1>2, <1>3, ConcatProperties, LenProperties DEF IsSeq

\* An error line may come after any number of progress lines, and nothing after it.
LEMMA FailureKept ==
  ASSUME StreamInv, task # "prepare", task' = "done", events' = events \o Failure,
         UNCHANGED <<urls, pages, lines, client>>
  PROVE  StreamInv'
<1>1. \A e, n : InStream(e, n, pages, Len(urls), task) => InStream(e, n, pages', Len(urls'), task')
  BY DEF InStream
<1>2. /\ IsSeq(events') /\ DOMAIN events = 1..Len(events) /\ Len(events) \in Nat
      /\ DOMAIN events' = 1..(Len(events) + 2)
      /\ \A j \in 1..Len(events) : events'[j] = events[j]
      /\ events'[Len(events) + 1].type = "error" /\ events'[Len(events) + 2].type = "end"
  BY ConcatTwo DEF Failure, End, StreamInv
<1>3. /\ \A n : InStream(events'[Len(events) + 1], n, pages', Len(urls'), task')
      /\ \A n : InStream(events'[Len(events) + 2], n, pages', Len(urls'), task')
  BY <1>2 DEF InStream
<1>4. ASSUME client = "reading", NEW j \in DOMAIN events'
      PROVE  InStream(events'[j], Len(lines) + j, pages', Len(urls'), task')
  <2>1. j \in 1..Len(events) \/ j = Len(events) + 1 \/ j = Len(events) + 2
    BY <1>2
  <2>2. j \in 1..Len(events) => InStream(events[j], Len(lines) + j, pages, Len(urls), task)
    BY <1>2, <1>4 DEF StreamInv
  <2>. QED  BY <1>1, <1>2, <1>3, <2>1, <2>2
<1>5. /\ \A i \in DOMAIN lines' :
           /\ InStream(lines'[i], i, pages', Len(urls'), task')
           /\ lines'[i].type # "progress" => i = Len(lines') /\ client' = "gone"
  BY <1>1 DEF StreamInv
<1>. QED  BY <1>2, <1>4, <1>5 DEF StreamInv

LEMMA LaunchKept ==
  ASSUME CrawlInv, Launch
  PROVE  CrawlInv'
<1>1. /\ task = "launch" /\ pages = <<>> /\ page.step = "closed" /\ task' \in {"crawl", "done"}
      /\ UNCHANGED <<source, urls, page, pages, lines, client>>
      /\ IsSeq(events) /\ Len(lines) \in Nat /\ Len(pages) = 0
  BY SeqIs DEF Launch, CrawlInv, PagesInv, PageInv, StreamInv
<1>2. \A e, n : InStream(e, n, pages, Len(urls), task) => InStream(e, n, pages', Len(urls'), task')
  BY <1>1 DEF InStream
<1>3. PageInv' /\ PagesInv'
  BY <1>1 DEF CrawlInv, PageInv, PagesInv
<1>4. CASE events' = events /\ task' = "crawl"
  BY <1>1, <1>2, <1>3, <1>4 DEF CrawlInv, StreamInv
<1>5. CASE events' = events \o Failure /\ task' = "done"
  BY <1>1, <1>3, <1>5, FailureKept DEF CrawlInv
<1>. QED  BY <1>4, <1>5 DEF Launch

LEMMA CloseFailsKept ==
  ASSUME CrawlInv, CloseFails
  PROVE  CrawlInv'
<1>1. /\ task = "crawl" /\ task' = "done" /\ page' = [page EXCEPT !.step = "closed"]
      /\ events' = events \o Failure /\ UNCHANGED <<source, urls, pages, lines, client>>
  BY DEF CloseFails
<1>2. PageInv'
  <2>1. /\ DOMAIN page' = PageFields /\ page'.step = "closed" /\ page'.made = page.made
        /\ page'.jar = page.jar /\ page'.store = page.store /\ page'.first = page.first
        /\ page'.unread = page.unread /\ page'.headers = page.headers /\ page'.found = page.found
    BY <1>1 DEF CrawlInv, PageInv, PageFields
  <2>. QED  BY <2>1 DEF CrawlInv, PageInv
<1>3. PagesInv'
  BY <1>1 DEF CrawlInv, PagesInv
<1>4. StreamInv'
  BY <1>1, FailureKept DEF CrawlInv
<1>. QED  BY <1>2, <1>3, <1>4 DEF CrawlInv

LEMMA ClosePageKept ==
  ASSUME CrawlInv, ClosePage
  PROVE  CrawlInv'
<1>. DEFINE done == [url |-> page.url, found |-> page.found, made |-> page.made]
<1>1. /\ task = "crawl" /\ page.step = "read" /\ pages' = Append(pages, done)
      /\ page' = [page EXCEPT !.step = "closed"] /\ events' = Append(events, ProgressLine(pages', Len(urls)))
      /\ UNCHANGED <<source, task, urls, lines, client>>
  BY DEF ClosePage, Progress, ProgressLine
<1>2. /\ IsSeq(pages') /\ Len(pages) \in Nat /\ Len(pages') = Len(pages) + 1
      /\ DOMAIN pages = 1..Len(pages) /\ DOMAIN pages' = 1..(Len(pages) + 1)
      /\ \A k \in 1..Len(pages) : pages'[k] = pages[k]
      /\ pages'[Len(pages) + 1] = done
  BY <1>1, AppendIs DEF CrawlInv, PagesInv
<1>3. /\ IsSeq(events') /\ Len(events) \in Nat /\ Len(events') = Len(events) + 1
      /\ DOMAIN events = 1..Len(events) /\ DOMAIN events' = 1..(Len(events) + 1)
      /\ \A j \in 1..Len(events) : events'[j] = events[j]
      /\ events'[Len(events) + 1] = ProgressLine(pages', Len(urls))
  BY <1>1, AppendIs DEF CrawlInv, StreamInv
<1>4. PageInv'
  <2>1. /\ DOMAIN page' = PageFields /\ page'.step = "closed" /\ page'.made = page.made
        /\ page'.jar = page.jar /\ page'.store = page.store /\ page'.first = page.first
        /\ page'.unread = page.unread /\ page'.headers = page.headers /\ page'.found = page.found
    BY <1>1 DEF CrawlInv, PageInv, PageFields
  <2>. QED  BY <2>1 DEF CrawlInv, PageInv
<1>5. PagesInv'
  <2>1. Len(pages) < Len(urls) /\ Len(urls) \in Nat
    BY <1>1 DEF CrawlInv, PageInv, PagesInv
  <2>2. ASSUME NEW k \in 1..(Len(pages) + 1)
        PROVE  /\ IsFiniteSet(pages'[k].found)
               /\ \A i \in pages'[k].found : i.name \in pages'[k].made \cup {Planted}
    <3>1. CASE k = Len(pages) + 1
      BY <1>2, <3>1 DEF CrawlInv, PageInv
    <3>2. CASE k # Len(pages) + 1
      <4>1. k \in DOMAIN pages /\ pages'[k] = pages[k]
        BY <1>2, <3>2
      <4>. QED  BY <4>1 DEF CrawlInv, PagesInv
    <3>. QED  BY <3>1, <3>2
  <2>. HIDE DEF done
  <2>. QED  BY <1>1, <1>2, <2>1, <2>2 DEF CrawlInv, PagesInv
<1>a. Len(pages) \in Nat /\ Len(pages') = Len(pages) + 1
  BY <1>2
<1>b. urls' = urls
  BY <1>1
<1>. HIDE DEF done
<1>6. ASSUME NEW e, NEW n \in Nat, InStream(e, n, pages, Len(urls), task)
      PROVE InStream(e, n, pages', Len(urls'), task')
  <2>1. e.type # "result"
    BY <1>1, <1>6 DEF InStream
  <2>2. CASE e.type # "progress"
    BY <2>1, <2>2 DEF InStream
  <2>3. CASE e.type = "progress"
    <3>1. n \in 0..Len(pages) /\ e = ProgressLine(SubSeq(pages, 1, n), Len(urls))
      BY <1>2, <1>6, <2>3 DEF InStream
    <3>2. SubSeq(pages', 1, n) = SubSeq(pages, 1, n)
      BY <1>1, <3>1, PrefixOfAppend DEF CrawlInv, PagesInv
    <3>3. n <= Len(pages')
      <4>1. n \in 0..Len(pages)
        BY <3>1
      <4>. QED  BY <1>a, <4>1
    <3>4. e = ProgressLine(SubSeq(pages', 1, n), Len(urls'))
      BY <1>b, <3>1, <3>2
    <3>. QED  BY <2>1, <3>3, <3>4 DEF InStream
  <2>. QED  BY <2>2, <2>3
<1>7. InStream(events'[Len(events) + 1], Len(pages) + 1, pages', Len(urls'), task')
  <2>1. SubSeq(pages', 1, Len(pages) + 1) = pages'
    BY <1>2, PrefixIs
  <2>2. events'[Len(events) + 1].type = "progress"
    BY <1>3 DEF ProgressLine
  <2>3. Len(pages) + 1 <= Len(pages')
    BY <1>a
  <2>4. events'[Len(events) + 1] = ProgressLine(pages', Len(urls))
    BY <1>3
  <2>5. events'[Len(events) + 1] = ProgressLine(SubSeq(pages', 1, Len(pages) + 1), Len(urls'))
    BY <1>b, <2>1, <2>4
  <2>. QED  BY <2>2, <2>3, <2>5 DEF InStream
<1>8. StreamInv'
  <2>1. \A i \in DOMAIN lines : InStream(lines[i], i, pages', Len(urls'), task')
    <3>1. DOMAIN lines \subseteq Nat
      BY SeqIs DEF CrawlInv, StreamInv
    <3>. QED  BY <1>6, <3>1 DEF CrawlInv, StreamInv
  <2>2. ASSUME client = "reading"
        PROVE  /\ Len(lines) + Len(events') = Len(pages')
               /\ \A j \in DOMAIN events' : InStream(events'[j], Len(lines) + j, pages', Len(urls'), task')
    <3>1. Len(lines) \in Nat /\ Len(lines) + Len(events) = Len(pages)
      BY <1>1, <2>2, SeqIs DEF CrawlInv, StreamInv
    <3>2. ASSUME NEW j \in DOMAIN events'  PROVE InStream(events'[j], Len(lines) + j, pages', Len(urls'), task')
      <4>1. CASE j = Len(events) + 1
        <5>1. Len(lines) + j = Len(pages) + 1
          BY <1>2, <1>3, <3>1, <4>1
        <5>. QED  BY <1>7, <4>1, <5>1
      <4>2. CASE j # Len(events) + 1
        <5>1. j \in DOMAIN events /\ events'[j] = events[j] /\ Len(lines) + j \in Nat
          BY <1>3, <3>1, <3>2, <4>2
        <5>2. InStream(events[j], Len(lines) + j, pages, Len(urls), task)
          BY <2>2, <5>1 DEF CrawlInv, StreamInv
        <5>. QED  BY <1>6, <5>1, <5>2
      <4>. QED  BY <4>1, <4>2
    <3>. QED  BY <1>2, <1>3, <3>1, <3>2
  <2>. QED  BY <1>1, <1>3, <2>1, <2>2 DEF CrawlInv, StreamInv
<1>. QED  BY <1>4, <1>5, <1>8 DEF CrawlInv

LEMMA FinishKept ==
  ASSUME CrawlInv, Finish
  PROVE  CrawlInv'
<1>1. /\ task = "crawl" /\ task' = "done" /\ page.step = "closed" /\ Len(pages) = Len(urls)
      /\ events' = events \o <<Result(pages), End>>
      /\ UNCHANGED <<source, urls, page, pages, lines, client>>
      /\ IsSeq(events) /\ Len(lines) \in Nat /\ Len(pages) \in Nat /\ Len(urls) > 0
  BY SeqIs DEF Finish, CrawlInv, PagesInv, PageInv, StreamInv
<1>2. \A e, n : InStream(e, n, pages, Len(urls), task) => InStream(e, n, pages', Len(urls'), task')
  BY <1>1 DEF InStream
<1>3. PageInv' /\ PagesInv'
  BY <1>1 DEF CrawlInv, PageInv, PagesInv
<1>4. /\ IsSeq(events') /\ DOMAIN events = 1..Len(events) /\ Len(events) \in Nat
      /\ DOMAIN events' = 1..(Len(events) + 2)
      /\ \A j \in 1..Len(events) : events'[j] = events[j]
      /\ events'[Len(events) + 1] = Result(pages) /\ events'[Len(events) + 2] = End
  BY <1>1, ConcatTwo
<1>5. /\ InStream(events'[Len(events) + 1], Len(pages) + 1, pages', Len(urls'), task')
      /\ \A n : InStream(events'[Len(events) + 2], n, pages', Len(urls'), task')
  BY <1>1, <1>4 DEF InStream, Result, End
<1>6. ASSUME client = "reading", NEW j \in DOMAIN events'
      PROVE  InStream(events'[j], Len(lines) + j, pages', Len(urls'), task')
  <2>1. j \in 1..Len(events) \/ j = Len(events) + 1 \/ j = Len(events) + 2
    BY <1>4
  <2>2. j \in 1..Len(events) => InStream(events[j], Len(lines) + j, pages, Len(urls), task)
    BY <1>4, <1>6 DEF CrawlInv, StreamInv
  <2>3. Len(lines) + Len(events) = Len(pages)
    BY <1>1, <1>6 DEF CrawlInv, StreamInv
  <2>4. j = Len(events) + 1 => Len(lines) + j = Len(pages) + 1
    BY <1>1, <1>4, <2>3
  <2>. QED  BY <1>2, <1>4, <1>5, <2>1, <2>2, <2>4
<1>7. StreamInv'
  BY <1>1, <1>2, <1>4, <1>6 DEF CrawlInv, StreamInv
<1>. QED  BY <1>3, <1>7 DEF CrawlInv

LEMMA CancelledKept ==
  ASSUME CrawlInv, Cancelled
  PROVE  CrawlInv'
<1>1. /\ client = "gone" /\ task \in {"launch", "crawl"} /\ task' = "done"
      /\ page' = [page EXCEPT !.step = "closed"] /\ events' = Append(events, End)
      /\ UNCHANGED <<source, urls, pages, lines, client>>
  BY DEF Cancelled
<1>2. \A e, n : InStream(e, n, pages, Len(urls), task) => InStream(e, n, pages', Len(urls'), task')
  BY <1>1 DEF InStream
<1>3. PageInv'
  <2>1. /\ DOMAIN page' = PageFields /\ page'.step = "closed" /\ page'.made = page.made
        /\ page'.jar = page.jar /\ page'.store = page.store /\ page'.first = page.first
        /\ page'.unread = page.unread /\ page'.headers = page.headers /\ page'.found = page.found
    BY <1>1 DEF CrawlInv, PageInv, PageFields
  <2>. QED  BY <2>1 DEF CrawlInv, PageInv
<1>4. PagesInv'
  BY <1>1 DEF CrawlInv, PagesInv
<1>5. StreamInv'
  BY <1>1, <1>2, AppendIs DEF CrawlInv, StreamInv
<1>. QED  BY <1>3, <1>4, <1>5 DEF CrawlInv

LEMMA ReadLineKept ==
  ASSUME CrawlInv, ReadLine
  PROVE  CrawlInv'
<1>. DEFINE e == Head(events)
<1>1. /\ client = "reading" /\ events # <<>> /\ events' = Tail(events)
      /\ lines' = IF e = End THEN lines ELSE Append(lines, e)
      /\ client' = IF e.type = "progress" THEN "reading" ELSE "gone"
      /\ UNCHANGED <<source, task, urls, page, pages>>
  BY DEF ReadLine
<1>2. /\ IsSeq(events') /\ Len(events) \in Nat \ {0} /\ Len(events') = Len(events) - 1
      /\ DOMAIN events = 1..Len(events) /\ DOMAIN events' = 1..(Len(events) - 1)
      /\ \A j \in 1..(Len(events) - 1) : events'[j] = events[j + 1]
      /\ e = events[1]
  BY <1>1, TailIs DEF CrawlInv, StreamInv
<1>. HIDE DEF e
<1>3. /\ Len(lines) \in Nat /\ DOMAIN lines = 1..Len(lines) /\ Len(pages) \in Nat
  BY SeqIs DEF CrawlInv, StreamInv, PagesInv
<1>4. \A d, n : InStream(d, n, pages, Len(urls), task) => InStream(d, n, pages', Len(urls'), task')
  BY <1>1
<1>5. PageInv'
  BY <1>1 DEF CrawlInv, PageInv
<1>6. task # "prepare"
  <2>1. Len(<<>>) = 0
    BY EmptySeq
  <2>. QED  BY <1>1 DEF CrawlInv, PagesInv
<1>7. PagesInv'
  BY <1>1, <1>6 DEF CrawlInv, PagesInv
<1>8. InStream(e, Len(lines) + 1, pages, Len(urls), task) /\ \A i \in DOMAIN lines :
          InStream(lines[i], i, pages, Len(urls), task) /\ lines[i].type = "progress"
  BY <1>1, <1>2 DEF CrawlInv, StreamInv
<1>9. CASE e = End
  <2>1. client' = "gone" /\ lines' = lines
    BY <1>1, <1>9 DEF End
  <2>. QED  BY <1>1, <1>2, <1>4, <1>5, <1>7, <1>8, <2>1 DEF CrawlInv, StreamInv
<1>10. CASE e # End
  <2>1. /\ IsSeq(lines') /\ Len(lines') = Len(lines) + 1 /\ DOMAIN lines' = 1..(Len(lines) + 1)
        /\ \A i \in 1..Len(lines) : lines'[i] = lines[i]
        /\ lines'[Len(lines) + 1] = e
    BY <1>1, <1>10, AppendIs DEF CrawlInv, StreamInv
  <2>2. ASSUME NEW i \in DOMAIN lines'
        PROVE  /\ InStream(lines'[i], i, pages', Len(urls'), task')
               /\ lines'[i].type # "progress" => i = Len(lines') /\ client' = "gone"
    <3>1. CASE i = Len(lines) + 1
      BY <1>1, <1>4, <1>8, <2>1, <3>1
    <3>2. CASE i # Len(lines) + 1
      <4>1. i \in DOMAIN lines /\ lines'[i] = lines[i]
        BY <1>3, <2>1, <3>2
      <4>. QED  BY <1>4, <1>8, <4>1
    <3>. QED  BY <3>1, <3>2
  <2>3. ASSUME NEW j \in DOMAIN events'  PROVE InStream(events'[j], Len(lines') + j, pages', Len(urls'), task')
    <3>0. j \in 1..(Len(events) - 1) /\ j \in Nat
      BY <1>2, <2>3
    <3>a. j + 1 \in DOMAIN events
      BY <1>2, <3>0
    <3>b. events'[j] = events[j + 1]
      BY <1>2, <3>0
    <3>c. Len(lines) \in Nat /\ Len(lines') = Len(lines) + 1
      BY <1>3, <2>1
    <3>1. Len(lines') + j = Len(lines) + (j + 1)
      BY <3>0, <3>c
    <3>2. InStream(events[j + 1], Len(lines) + (j + 1), pages, Len(urls), task)
      BY <1>1, <3>a DEF CrawlInv, StreamInv
    <3>. QED  BY <1>4, <3>b, <3>1, <3>2
  <2>4. task' # "done" => Len(lines') + Len(events') = Len(pages')
    BY <1>1, <1>2, <1>3, <2>1 DEF CrawlInv, StreamInv
  <2>5. StreamInv'
    BY <1>1, <1>2, <2>1, <2>2, <2>3, <2>4 DEF StreamInv
  <2>. QED  BY <1>5, <1>7, <2>5 DEF CrawlInv
<1>. QED  BY <1>9, <1>10

LEMMA CrawlKept ==
  ASSUME CrawlInv, [ServiceNext]_serviceVars
  PROVE  CrawlInv'
<1>1. CASE Disconnect
  <2>1. \A e, n : InStream(e, n, pages, Len(urls), task) => InStream(e, n, pages', Len(urls'), task')
    BY <1>1 DEF Disconnect
  <2>. QED  BY <1>1, <2>1 DEF Disconnect, CrawlInv, PageInv, PagesInv, StreamInv
<1>2. CASE UNCHANGED crawlVars
  <2>1. \A e, n : InStream(e, n, pages, Len(urls), task) => InStream(e, n, pages', Len(urls'), task')
    BY <1>2 DEF crawlVars
  <2>. QED  BY <1>2, <2>1 DEF crawlVars, CrawlInv, PageInv, PagesInv, StreamInv
<1>3. CASE CrawlNext
  <2>1. \/ PageStep \/ Prepare \/ Launch \/ ClosePage \/ CloseFails \/ Finish \/ Cancelled
        \/ ReadLine \/ Disconnect
    BY <1>3 DEF CrawlNext, Crawler, PageStep
  <2>. QED  BY <1>1, <2>1, PageStepInv, PrepareKept, LaunchKept, ClosePageKept, CloseFailsKept, FinishKept,
               CancelledKept, ReadLineKept
<1>. QED  BY <1>2, <1>3 DEF ServiceNext, serviceVars

LEMMA CrawlAlways == ServiceSpec => []CrawlInv
<1>1. ServiceInit => CrawlInv
  BY CrawlBegins DEF ServiceInit
<1>2. CrawlInv /\ [ServiceNext]_serviceVars => CrawlInv'
  BY CrawlKept
<1>. QED  BY <1>1, <1>2, PTL DEF ServiceSpec

\* Whatever the queue and the crawl do meanwhile, the worker reads one line per
\* page, never fewer cookies than before, and a result that agrees with the last
\* of them (stream_scan, unique_cookies).
THEOREM StreamIsTrue == ServiceSpec => []StreamAddsUp
<1>1. CrawlInv => StreamAddsUp
  <2>. SUFFICES ASSUME CrawlInv, NEW i \in DOMAIN lines
       PROVE  LET l == lines[i] before == lines[i - 1] IN
              /\ l.type # "progress" => i = Len(lines)
              /\ l.type = "progress" =>
                   /\ l.pages = i /\ l.of = Len(urls) /\ l.pages <= l.of
                   /\ i > 1 => l.found >= before.found
              /\ l.type = "result" =>
                   /\ i = Len(urls) + 1 /\ l.pages = before.pages
                   /\ Cardinality(l.cookies) = before.found
    BY DEF StreamAddsUp
  <2>1. /\ DOMAIN lines = 1..Len(lines) /\ Len(lines) \in Nat /\ i \in 1..Len(lines)
        /\ IsSeq(pages) /\ Len(pages) \in Nat /\ Len(urls) \in Nat /\ Len(pages) <= Len(urls)
    BY SeqIs DEF CrawlInv, StreamInv, PagesInv
  <2>2. InStream(lines[i], i, pages, Len(urls), task) /\ (lines[i].type # "progress" => i = Len(lines))
    BY DEF CrawlInv, StreamInv
  <2>3. i > 1 => i - 1 \in DOMAIN lines /\ lines[i - 1].type = "progress"
    BY <2>1 DEF CrawlInv, StreamInv
  <2>4. i > 1 => /\ i - 1 <= Len(pages)
                 /\ lines[i - 1] = ProgressLine(SubSeq(pages, 1, i - 1), Len(urls))
    BY <2>3 DEF CrawlInv, StreamInv, InStream
  <2>5. CASE lines[i].type = "progress"
    <3>1. i \in 0..Len(pages) /\ lines[i] = ProgressLine(SubSeq(pages, 1, i), Len(urls))
      BY <2>1, <2>2, <2>5 DEF InStream
    <3>2. Len(SubSeq(pages, 1, i)) = i
      BY <2>1, <3>1, PrefixIs
    <3>3. i > 1 => Cardinality(UniqueCookies(SubSeq(pages, 1, i))) >=
                     Cardinality(UniqueCookies(SubSeq(pages, 1, i - 1)))
      <4>. SUFFICES ASSUME i > 1
           PROVE  Cardinality(UniqueCookies(SubSeq(pages, 1, i))) >=
                    Cardinality(UniqueCookies(SubSeq(pages, 1, i - 1)))
        OBVIOUS
      <4>1. /\ i - 1 \in 0..i
            /\ UniqueCookies(SubSeq(pages, 1, i - 1)) \subseteq UniqueCookies(SubSeq(pages, 1, i))
        BY <2>1, <3>1, UniqueGrows
      <4>2. IsSeq(SubSeq(pages, 1, i)) /\ \A k \in DOMAIN SubSeq(pages, 1, i) :
              k \in DOMAIN pages /\ SubSeq(pages, 1, i)[k] = pages[k]
        BY <2>1, <3>1, PrefixIs, SeqIs
      <4>3. IsFiniteSet(UniqueCookies(SubSeq(pages, 1, i)))
        BY <4>2, UniqueFinite DEF CrawlInv, PagesInv
      <4>4. /\ Cardinality(UniqueCookies(SubSeq(pages, 1, i - 1)))
               <= Cardinality(UniqueCookies(SubSeq(pages, 1, i)))
            /\ Cardinality(UniqueCookies(SubSeq(pages, 1, i))) \in Nat
            /\ Cardinality(UniqueCookies(SubSeq(pages, 1, i - 1))) \in Nat
        BY <4>1, <4>3, FS_Subset, FS_CardinalityType
      <4>. QED  BY <4>4
    <3>4. lines[i].pages = i /\ lines[i].of = Len(urls) /\ lines[i].pages <= lines[i].of
      BY <2>1, <3>1, <3>2 DEF ProgressLine
    <3>5. i > 1 => lines[i].found >= lines[i - 1].found
      BY <2>4, <3>1, <3>3 DEF ProgressLine
    <3>. QED  BY <2>5, <3>4, <3>5
  <2>6. CASE lines[i].type = "result"
    <3>1. i = Len(pages) + 1 /\ Len(pages) = Len(urls) /\ Len(urls) > 0 /\ lines[i] = Result(pages)
      BY <2>2, <2>6 DEF InStream
    <3>2. i > 1 /\ i - 1 = Len(pages) /\ SubSeq(pages, 1, i - 1) = pages
      BY <2>1, <3>1, PrefixIs
    <3>3. lines[i - 1] = ProgressLine(pages, Len(urls))
      BY <2>4, <3>2
    <3>. QED  BY <2>2, <2>6, <3>1, <3>3 DEF ProgressLine, Result
  <2>. QED  BY <2>2, <2>5, <2>6
<1>. QED  BY <1>1, CrawlAlways, PTL

\* The cookies that a result reports were set by the page they are reported on
\* and by no page before it (unique_cookies, _crawl_page).
THEOREM FoundIsSet == ServiceSpec => []FoundWhereSet
<1>1. CrawlInv => FoundWhereSet
  <2>. SUFFICES ASSUME CrawlInv, NEW i \in DOMAIN lines, lines[i].type = "result",
                       NEW c \in lines[i].cookies, c.item.name # Planted
       PROVE  \E k \in DOMAIN pages :
                /\ pages[k].url = c.url /\ c.item.name \in pages[k].made
                /\ \A j \in 1..(k - 1) : c.item \notin pages[j].found
    BY DEF FoundWhereSet
  <2>1. lines[i] = Result(pages) /\ IsSeq(pages)
    BY DEF CrawlInv, StreamInv, InStream, PagesInv
  <2>2. c \in UniqueCookies(pages)
    BY <2>1 DEF Result
  <2>3. PICK k \in DOMAIN pages :
          \E d \in pages[k].found : FirstAt(pages, d, k) /\ c = [item |-> d, url |-> pages[k].url]
    BY <2>1, <2>2, UniqueCookie
  <2>4. c.item \in pages[k].found /\ FirstAt(pages, c.item, k) /\ c.url = pages[k].url
    BY <2>3
  <2>5. c.item.name \in pages[k].made
    BY <2>4 DEF CrawlInv, PagesInv
  <2>. QED  BY <2>4, <2>5 DEF FirstAt
<1>. QED  BY <1>1, CrawlAlways, PTL

-----------------------------------------------------------------------------
(* Which pages are crawled: what joining and cutting sequences gives, what a *)
(* site's sitemaps list, and what is fetched of it.                          *)

\* Induction up to n, for a set.
LEMMA UpToAll ==
  ASSUME NEW n \in Nat, NEW T, 0 \in T, \A k \in 1..n : k - 1 \in T => k \in T
  PROVE  \A k \in 0..n : k \in T
<1>. DEFINE B == {k \in 0..n : k \notin T}
<1>1. SUFFICES ASSUME B # {}  PROVE FALSE
  OBVIOUS
<1>2. PICK k \in B : \A j \in B : k <= j
  <2>1. B \subseteq Nat
    OBVIOUS
  <2>. HIDE DEF B
  <2>. QED  BY <1>1, <2>1, Least
<1>3. k \in 1..n /\ k - 1 \in 0..n /\ ~(k <= k - 1) /\ k \notin T
  BY <1>2
<1>. QED  BY <1>2, <1>3

\* f joins the sequences ss one after the other, up to the kth.
Joins(f, ss, k) == f[0] = <<>> /\ \A j \in 1..k : f[j] = f[j - 1] \o ss[j]

\* A recursive definition over the positions of ss has a function that obeys it.
LEMMA JoinsExists ==
  ASSUME NEW X, NEW ss \in Seq(Seq(X))
  PROVE  \E f \in [0..Len(ss) -> Seq(X)] : Joins(f, ss, Len(ss))
<1>. DEFINE T == {k \in 0..Len(ss) : \E f \in [0..k -> Seq(X)] : Joins(f, ss, k)}
<1>0. Len(ss) \in Nat /\ \A k \in 1..Len(ss) : ss[k] \in Seq(X)
  BY LenProperties
<1>1. 0 \in T
  <2>. DEFINE f == [i \in 0..0 |-> <<>>]
  <2>1. f \in [0..0 -> Seq(X)] /\ Joins(f, ss, 0)
    BY DEF Joins
  <2>. HIDE DEF f
  <2>. QED  BY <1>0, <2>1
<1>2. ASSUME NEW k \in 1..Len(ss), k - 1 \in T  PROVE k \in T
  <2>1. PICK f \in [0..(k - 1) -> Seq(X)] : Joins(f, ss, k - 1)
    BY <1>2
  <2>. DEFINE g == [j \in 0..k |-> IF j = k THEN f[k - 1] \o ss[k] ELSE f[j]]
  <2>2. k \in Nat /\ k - 1 \in 0..(k - 1)
    BY <1>0
  <2>3. f[k - 1] \o ss[k] \in Seq(X)
    BY <1>0, <2>2, ConcatProperties
  <2>4. g \in [0..k -> Seq(X)]
    BY <2>2, <2>3
  <2>5. g[0] = <<>>
    BY <2>1, <2>2 DEF Joins
  <2>6. ASSUME NEW j \in 1..k  PROVE g[j] = g[j - 1] \o ss[j]
    <3>1. j - 1 \in 0..k /\ j - 1 # k
      BY <2>2
    <3>2. g[j - 1] = f[j - 1]
      BY <3>1
    <3>3. CASE j = k
      <4>0. k \in 0..k
        BY <2>2
      <4>1. g[k] = f[k - 1] \o ss[k]
        BY <4>0, Zenon
      <4>. HIDE DEF g
      <4>. QED  BY <3>2, <3>3, <4>1
    <3>4. CASE j # k
      <4>1. j \in 1..(k - 1) /\ j \in 0..k
        BY <2>2, <3>4
      <4>2. g[j] = f[j]
        BY <3>4, <4>1
      <4>3. f[j] = f[j - 1] \o ss[j]
        BY <2>1, <4>1 DEF Joins
      <4>. HIDE DEF g
      <4>. QED  BY <3>2, <4>2, <4>3
    <3>. QED  BY <3>3, <3>4
  <2>7. Joins(g, ss, k)
    BY <2>5, <2>6 DEF Joins
  <2>8. k \in 0..Len(ss)
    BY <1>0
  <2>. HIDE DEF g
  <2>. QED  BY <2>4, <2>7, <2>8
<1>3. Len(ss) \in 0..Len(ss)
  BY <1>0
<1>4. Len(ss) \in T
  <2>. HIDE DEF T
  <2>. QED  BY <1>0, <1>1, <1>2, <1>3, UpToAll
<1>. QED  BY <1>4

\* FlattenSeq is where such a function ends.
LEMMA FlattenIs ==
  ASSUME NEW X, NEW ss \in Seq(Seq(X)), NEW f \in [0..Len(ss) -> Seq(X)], Joins(f, ss, Len(ss))
  PROVE  FlattenSeq(ss) = f[Len(ss)]
<1>. DEFINE L == Len(ss)
            Body(h) == [i \in 1..L |-> IF i = 1 THEN ss[i] ELSE h[i - 1] \o ss[i]]
            H == CHOOSE h : h = Body(h)
            h0 == [i \in 1..L |-> f[i]]
            T == {k \in 0..L : k = 0 \/ H[k] = f[k]}
<1>1. L \in Nat /\ \A k \in 1..L : ss[k] \in Seq(X)
  BY LenProperties
<1>2. CASE L = 0
  BY <1>2, EmptySeq DEF FlattenSeq, Joins
<1>3. CASE L # 0
  <2>1. h0 = Body(h0)
    <3>1. ASSUME NEW i \in 1..L  PROVE h0[i] = Body(h0)[i]
      <4>1. f[i] = f[i - 1] \o ss[i] /\ h0[i] = f[i]
        BY DEF Joins
      <4>0. Body(h0)[i] = IF i = 1 THEN ss[i] ELSE h0[i - 1] \o ss[i]
        OBVIOUS
      <4>2. CASE i = 1
        <5>1. f[0] = <<>> /\ ss[1] \in Seq(X) /\ <<>> \o ss[1] = ss[1]
          BY <1>1, <1>3, ConcatEmptySeq DEF Joins
        <5>2. i - 1 = 0
          BY <4>2
        <5>. HIDE DEF h0, Body
        <5>. QED  BY <4>0, <4>1, <4>2, <5>1, <5>2
      <4>3. CASE i # 1
        <5>1. i - 1 \in 1..L
          BY <1>1, <4>3
        <5>2. h0[i - 1] = f[i - 1]
          BY <5>1
        <5>. HIDE DEF h0, Body
        <5>. QED  BY <4>0, <4>1, <4>3, <5>2
      <4>. QED  BY <4>2, <4>3
    <3>. QED  BY <3>1
  <2>2. H = Body(H)
    <3>. HIDE DEF h0, Body
    <3>. QED  BY <2>1
  <2>3. FlattenSeq(ss) = H[L]
    BY <1>3 DEF FlattenSeq
  <2>. HIDE DEF H
  <2>4. 0 \in T
    BY <1>1
  <2>5. ASSUME NEW k \in 1..L, k - 1 \in T  PROVE k \in T
    <3>1. H[k] = IF k = 1 THEN ss[k] ELSE H[k - 1] \o ss[k]
      BY <2>2
    <3>0. k \in 0..L /\ ss[k] \in Seq(X)
      BY <1>1
    <3>2. f[k] = f[k - 1] \o ss[k] /\ f[0] = <<>>
      BY DEF Joins
    <3>3. CASE k = 1
      <4>1. <<>> \o ss[k] = ss[k]
        BY <3>0, ConcatEmptySeq
      <4>2. k - 1 = 0
        BY <3>3
      <4>. QED  BY <3>0, <3>1, <3>2, <3>3, <4>1, <4>2
    <3>4. CASE k # 1
      <4>1. H[k - 1] = f[k - 1]
        BY <1>1, <2>5, <3>4
      <4>. QED  BY <3>0, <3>1, <3>2, <3>4, <4>1
    <3>. QED  BY <3>3, <3>4
  <2>6. L \in T
    <3>1. L \in 0..L
      BY <1>1
    <3>. HIDE DEF T
    <3>. QED  BY <1>1, <2>4, <2>5, <3>1, UpToAll
  <2>. QED  BY <1>3, <2>3, <2>6
<1>. QED  BY <1>2, <1>3

LEMMA FlattenType ==
  ASSUME NEW X, NEW ss \in Seq(Seq(X))
  PROVE  FlattenSeq(ss) \in Seq(X)
<1>1. PICK f \in [0..Len(ss) -> Seq(X)] : Joins(f, ss, Len(ss))
  BY JoinsExists
<1>2. Len(ss) \in 0..Len(ss)
  BY LenProperties
<1>. QED  BY <1>1, <1>2, FlattenIs

LEMMA OnSiteType ==
  ASSUME NEW s, IsSeq(s)
  PROVE  OnSite(s) \in Seq(SitePages)
<1>. DEFINE ss == [i \in DOMAIN s |-> IF s[i] \in SitePages THEN <<s[i]>> ELSE <<>>]
<1>1. Len(s) \in Nat /\ DOMAIN s = 1..Len(s)
  BY SeqIs
<1>2. \A i \in DOMAIN s : ss[i] \in Seq(SitePages)
  OBVIOUS
<1>3. ss \in [1..Len(s) -> Seq(SitePages)]
  BY <1>1, <1>2
<1>4. ss \in Seq(Seq(SitePages))
  <2>. HIDE DEF ss
  <2>. QED  BY <1>1, <1>3, SeqDef
<1>5. OnSite(s) = FlattenSeq(ss)
  BY DEF OnSite
<1>. HIDE DEF ss
<1>. QED  BY <1>4, <1>5, FlattenType

\* s[:n] is as long as it can be.
LEMMA FirstOfIs ==
  ASSUME NEW X, NEW s \in Seq(X), NEW n \in Nat
  PROVE  /\ FirstOf(s, n) \in Seq(X)
         /\ Len(FirstOf(s, n)) = IF Len(s) <= n THEN Len(s) ELSE n
         /\ \A i \in 1..Len(FirstOf(s, n)) : FirstOf(s, n)[i] = s[i]
<1>. DEFINE m == IF Len(s) \in 0..n THEN Len(s) ELSE n
<1>1. Len(s) \in Nat /\ \A i \in 1..Len(s) : s[i] \in X
  BY LenProperties
<1>2. m \in Nat /\ m <= Len(s) /\ m = IF Len(s) <= n THEN Len(s) ELSE n
  BY <1>1
<1>3. FirstOf(s, n) = SubSeq(s, 1, m)
  BY DEF FirstOf
<1>. HIDE DEF m
<1>4. \A i \in 1..m : s[i] \in X
  BY <1>1, <1>2
<1>5. /\ SubSeq(s, 1, m) \in Seq(X) /\ Len(SubSeq(s, 1, m)) = (IF 1 <= m THEN m - 1 + 1 ELSE 0)
      /\ \A i \in 1..(m - 1 + 1) : SubSeq(s, 1, m)[i] = s[1 + i - 1]
  BY <1>2, <1>4, SubSeqProperties
<1>6. Len(SubSeq(s, 1, m)) = m /\ \A i \in 1..m : SubSeq(s, 1, m)[i] = s[i]
  BY <1>2, <1>5
<1>. QED  BY <1>2, <1>3, <1>5, <1>6

LEMMA FirstOfAll ==
  ASSUME NEW X, NEW s \in Seq(X), NEW n \in Nat, Len(s) <= n
  PROVE  FirstOf(s, n) = s
<1>1. Len(s) \in Nat
  BY LenProperties
<1>2. /\ FirstOf(s, n) \in Seq(X) /\ Len(FirstOf(s, n)) = Len(s)
      /\ \A i \in 1..Len(FirstOf(s, n)) : FirstOf(s, n)[i] = s[i]
  BY FirstOfIs
<1>. QED  BY <1>2, SeqEqual

LEMMA FirstOfTwice ==
  ASSUME NEW X, NEW s \in Seq(X), NEW n \in Nat
  PROVE  FirstOf(FirstOf(s, n), n) = FirstOf(s, n)
<1>1. FirstOf(s, n) \in Seq(X) /\ Len(FirstOf(s, n)) <= n
  <2>1. Len(s) \in Nat
    BY LenProperties
  <2>. QED  BY <2>1, FirstOfIs
<1>. QED  BY <1>1, FirstOfAll

\* One pass of the loop over the children: what is found, and of the next child
\* as much as is missing, is the first n of both.
LEMMA FirstOfJoined ==
  ASSUME NEW X, NEW s \in Seq(X), NEW t \in Seq(X), NEW n \in Nat
  PROVE  /\ Len(FirstOf(s, n)) >= n => FirstOf(s \o t, n) = FirstOf(s, n)
         /\ ~(Len(FirstOf(s, n)) >= n) =>
              /\ n - Len(FirstOf(s, n)) \in 0..n
              /\ FirstOf(s \o t, n) = FirstOf(s, n) \o FirstOf(t, n - Len(FirstOf(s, n)))
<1>1. /\ Len(s) \in Nat /\ Len(t) \in Nat
      /\ s \o t \in Seq(X) /\ Len(s \o t) = Len(s) + Len(t)
      /\ \A i \in 1..(Len(s) + Len(t)) : (s \o t)[i] = IF i <= Len(s) THEN s[i] ELSE t[i - Len(s)]
  BY LenProperties, ConcatProperties
<1>2. /\ FirstOf(s, n) \in Seq(X) /\ Len(FirstOf(s, n)) = (IF Len(s) <= n THEN Len(s) ELSE n)
      /\ \A i \in 1..Len(FirstOf(s, n)) : FirstOf(s, n)[i] = s[i]
  BY FirstOfIs
<1>3. /\ FirstOf(s \o t, n) \in Seq(X)
      /\ Len(FirstOf(s \o t, n)) = (IF Len(s) + Len(t) <= n THEN Len(s) + Len(t) ELSE n)
      /\ \A i \in 1..Len(FirstOf(s \o t, n)) : FirstOf(s \o t, n)[i] = (s \o t)[i]
  BY <1>1, FirstOfIs
<1>4. CASE Len(s) >= n
  <2>1. Len(FirstOf(s, n)) = n /\ Len(FirstOf(s \o t, n)) = n
    BY <1>1, <1>2, <1>3, <1>4
  <2>2. ASSUME NEW i \in 1..n  PROVE FirstOf(s \o t, n)[i] = FirstOf(s, n)[i]
    <3>1. i \in 1..(Len(s) + Len(t)) /\ i <= Len(s)
      BY <1>1, <1>4
    <3>. QED  BY <1>1, <1>2, <1>3, <2>1, <3>1
  <2>3. FirstOf(s \o t, n) = FirstOf(s, n)
    BY <1>2, <1>3, <2>1, <2>2, SeqEqual
  <2>. QED  BY <2>1, <2>3
<1>5. CASE ~(Len(s) >= n)
  <2>1. FirstOf(s, n) = s /\ n - Len(s) \in 0..n /\ n - Len(s) \in Nat
    BY <1>1, <1>5, FirstOfAll
  <2>. DEFINE r == FirstOf(t, n - Len(s))
  <2>2. /\ r \in Seq(X) /\ Len(r) = (IF Len(t) <= n - Len(s) THEN Len(t) ELSE n - Len(s))
        /\ \A i \in 1..Len(r) : r[i] = t[i]
    BY <2>1, FirstOfIs
  <2>. HIDE DEF r
  <2>3. /\ s \o r \in Seq(X) /\ Len(s \o r) = Len(s) + Len(r)
        /\ \A i \in 1..(Len(s) + Len(r)) : (s \o r)[i] = IF i <= Len(s) THEN s[i] ELSE r[i - Len(s)]
    BY <2>2, ConcatProperties
  <2>4. Len(FirstOf(s \o t, n)) = Len(s \o r) /\ Len(r) \in Nat /\ Len(r) <= Len(t)
    BY <1>1, <1>3, <1>5, <2>2, <2>3
  <2>5. ASSUME NEW i \in 1..Len(s \o r)  PROVE FirstOf(s \o t, n)[i] = (s \o r)[i]
    <3>1. i \in 1..(Len(s) + Len(r)) /\ i \in 1..(Len(s) + Len(t)) /\ i \in 1..Len(FirstOf(s \o t, n))
      BY <1>1, <2>3, <2>4
    <3>2. FirstOf(s \o t, n)[i] = IF i <= Len(s) THEN s[i] ELSE t[i - Len(s)]
      BY <1>1, <1>3, <3>1
    <3>3. (s \o r)[i] = IF i <= Len(s) THEN s[i] ELSE r[i - Len(s)]
      BY <2>3, <3>1
    <3>4. ~(i <= Len(s)) => i - Len(s) \in 1..Len(r)
      BY <1>1, <2>4, <3>1
    <3>. QED  BY <2>2, <3>2, <3>3, <3>4
  <2>6. FirstOf(s \o t, n) = s \o r
    BY <1>3, <2>3, <2>4, <2>5, SeqEqual
  <2>7. ~(Len(FirstOf(s, n)) >= n)
    BY <1>5, <2>1
  <2>. QED  BY <2>1, <2>6, <2>7 DEF r
<1>. QED  BY <1>4, <1>5

\* A sequence for each element of a sequence.
LEMMA SeqOfSeqs ==
  ASSUME NEW X, NEW cs, IsSeq(cs), NEW ss \in [DOMAIN cs -> Seq(X)]
  PROVE  ss \in Seq(Seq(X)) /\ Len(ss) = Len(cs)
<1>1. Len(cs) \in Nat /\ DOMAIN cs = 1..Len(cs)
  BY SeqIs
<1>2. ss \in Seq(Seq(X))
  BY <1>1, SeqDef
<1>3. Len(ss) \in Nat /\ DOMAIN ss = 1..Len(ss) /\ DOMAIN ss = 1..Len(cs)
  BY <1>1, <1>2, LenProperties
<1>. QED  BY <1>1, <1>2, <1>3

\* What F fetches of each child is the beginning of what it lists.
Begins(F, cs, ss, n) == \A i \in DOMAIN cs : \A m \in 0..n : F[cs[i]][m] = FirstOf(ss[i], m)

\* The loop over an index's children finds the first n of what they list.
LEMMA ChildUrlsIs ==
  ASSUME NEW X, NEW n \in Nat, NEW cs, IsSeq(cs), NEW ss \in [DOMAIN cs -> Seq(X)], NEW F,
         Begins(F, cs, ss, n)
  PROVE  ChildUrls(cs, n, F) = FirstOf(FlattenSeq(ss), n)
<1>. DEFINE L == Len(cs)
            Pass(a, k) == IF Len(a) >= n THEN a ELSE a \o F[cs[k]][n - Len(a)]
            Body(u) == [k \in 0..L |-> IF k = 0 THEN <<>> ELSE Pass(u[k - 1], k)]
            U == CHOOSE u : u = Body(u)
<1>1. L \in Nat /\ DOMAIN cs = 1..L
  BY SeqIs
<1>2. ss \in Seq(Seq(X)) /\ Len(ss) = L /\ \A i \in 1..L : ss[i] \in Seq(X)
  BY <1>1, SeqOfSeqs
<1>3. PICK f \in [0..L -> Seq(X)] : Joins(f, ss, L)
  <2>. HIDE DEF L
  <2>. QED  BY <1>2, JoinsExists
<1>4. FlattenSeq(ss) = f[L] /\ f[L] \in Seq(X) /\ f[0] = <<>>
  <2>1. L \in 0..L
    BY <1>1
  <2>. HIDE DEF L
  <2>. QED  BY <1>2, <1>3, <2>1, FlattenIs DEF Joins
<1>5. ASSUME NEW k \in 1..L
      PROVE  Pass(FirstOf(f[k - 1], n), k) = FirstOf(f[k], n)
  <2>. DEFINE s == f[k - 1]
              t == ss[k]
              a == FirstOf(s, n)
  <2>1. k - 1 \in 0..L /\ k \in DOMAIN cs
    BY <1>1
  <2>2. f[k] = s \o t
    BY <1>2, <1>3 DEF Joins
  <2>3. s \in Seq(X) /\ t \in Seq(X)
    BY <1>2, <1>3, <2>1
  <2>4. ASSUME NEW m \in 0..n  PROVE F[cs[k]][m] = FirstOf(t, m)
    BY <2>1 DEF Begins
  <2>. HIDE DEF s, t
  <2>5. /\ Len(a) >= n => FirstOf(s \o t, n) = a
        /\ ~(Len(a) >= n) => n - Len(a) \in 0..n /\ FirstOf(s \o t, n) = a \o FirstOf(t, n - Len(a))
    BY <2>3, FirstOfJoined
  <2>. HIDE DEF a
  <2>6. Pass(a, k) = FirstOf(s \o t, n)
    BY <2>4, <2>5
  <2>7. Pass(a, k) = FirstOf(f[k], n)
    <3>. HIDE DEF Pass
    <3>. QED  BY <2>2, <2>6
  <2>. HIDE DEF Pass
  <2>. QED  BY <2>7 DEF a, s
<1>6. FirstOf(f[0], n) = <<>>
  <2>1. <<>> \in Seq(X) /\ Len(<<>>) <= n
    BY EmptySeq
  <2>. QED  BY <1>4, <2>1, FirstOfAll
<1>7. U = Body(U)
  <2>. DEFINE u0 == [k \in 0..L |-> FirstOf(f[k], n)]
  <2>1. ASSUME NEW k \in 0..L  PROVE u0[k] = Body(u0)[k]
    <3>1. CASE k = 0
      BY <1>6, <3>1
    <3>2. CASE k # 0
      <4>1. k \in 1..L /\ k - 1 \in 0..L
        BY <1>1, <3>2
      <4>2. u0[k] = FirstOf(f[k], n) /\ u0[k - 1] = FirstOf(f[k - 1], n)
        BY <4>1
      <4>. HIDE DEF Pass, u0
      <4>. QED  BY <1>5, <3>2, <4>1, <4>2
    <3>. QED  BY <3>1, <3>2
  <2>2. u0 = Body(u0)
    <3>. HIDE DEF Pass
    <3>. QED  BY <2>1
  <2>. HIDE DEF u0, Body
  <2>. QED  BY <2>2
<1>8. ChildUrls(cs, n, F) = FirstOf(U[L], n)
  BY DEF ChildUrls
<1>. HIDE DEF U
<1>. DEFINE T == {k \in 0..L : U[k] = FirstOf(f[k], n)}
<1>9. 0 \in T
  BY <1>1, <1>6, <1>7
<1>10. ASSUME NEW k \in 1..L, k - 1 \in T  PROVE k \in T
  <2>1. k \in 0..L /\ k # 0
    BY <1>1
  <2>2. U[k] = Pass(U[k - 1], k) /\ U[k - 1] = FirstOf(f[k - 1], n)
    <3>. HIDE DEF Pass
    <3>. QED  BY <1>7, <1>10, <2>1
  <2>. HIDE DEF Pass
  <2>. QED  BY <1>5, <2>1, <2>2
<1>11. U[L] = FirstOf(f[L], n)
  <2>1. L \in 0..L
    BY <1>1
  <2>2. L \in T
    <3>. HIDE DEF T, L
    <3>. QED  BY <1>1, <1>9, <1>10, <2>1, UpToAll
  <2>. QED  BY <2>2
<1>12. FirstOf(FirstOf(f[L], n), n) = FirstOf(f[L], n)
  <2>. HIDE DEF L
  <2>. QED  BY <1>4, FirstOfTwice
<1>. QED  BY <1>4, <1>8, <1>11, <1>12

\* An index lists only later sitemaps, and one that cannot be read nothing.
WellFormed(web) ==
  \A s \in Sitemaps :
    /\ web[s].kind \in {"none", "pages", "index"} /\ IsSeq(web[s].locs)
    /\ web[s].kind = "none" => web[s].locs = <<>>
    /\ web[s].kind = "index" => \A i \in DOMAIN web[s].locs : web[s].locs[i] \in {c \in Sitemaps : c > s}

\* What s lists if A is what every sitemap lists, and what is fetched of it within
\* n if F is what is fetched of every sitemap: one level of Listing and of SitemapUrls.
ListedOf(web, A, s) ==
  IF web[s].kind = "index" THEN FlattenSeq([i \in DOMAIN web[s].locs |-> A[web[s].locs[i]]])
  ELSE OnSite(web[s].locs)
FetchedOf(web, F, s, n) ==
  CASE web[s].kind = "index" -> ChildUrls(web[s].locs, n, F)
    [] web[s].kind = "pages" -> PageUrls(web[s].locs, n)
    [] OTHER -> <<>>

\* A tells what every sitemap lists.
Lists(web, A) == \A s \in Sitemaps : A[s] = ListedOf(web, A, s)

LEMMA SitemapsAre ==
  /\ LastSitemap \in Nat \ {0}
  /\ \A s \in Sitemaps : s \in Nat /\ s <= LastSitemap /\ s > LastSitemap - LastSitemap
BY CrawlAssumption DEF Sitemaps

\* What a sitemap lists depends on later ones only.
LEMMA ListedLater ==
  ASSUME NEW web, WellFormed(web), NEW s \in Sitemaps, NEW A, NEW B,
         \A c \in Sitemaps : c > s => A[c] = B[c]
  PROVE  ListedOf(web, A, s) = ListedOf(web, B, s)
<1>1. CASE web[s].kind = "index"
  <2>1. \A i \in DOMAIN web[s].locs : A[web[s].locs[i]] = B[web[s].locs[i]]
    BY <1>1 DEF WellFormed
  <2>2. [i \in DOMAIN web[s].locs |-> A[web[s].locs[i]]] = [i \in DOMAIN web[s].locs |-> B[web[s].locs[i]]]
    BY <2>1
  <2>. QED  BY <1>1, <2>2, Zenon DEF ListedOf
<1>2. CASE web[s].kind # "index"
  BY <1>2 DEF ListedOf
<1>. QED  BY <1>1, <1>2

\* What the children of an index list.
LEMMA ListsType ==
  ASSUME NEW web, WellFormed(web), NEW s \in Sitemaps, web[s].kind = "index", NEW A,
         \A c \in Sitemaps : c > s => A[c] \in Seq(SitePages)
  PROVE  /\ IsSeq(web[s].locs)
         /\ [i \in DOMAIN web[s].locs |-> A[web[s].locs[i]]] \in [DOMAIN web[s].locs -> Seq(SitePages)]
BY DEF WellFormed

LEMMA ListedType ==
  ASSUME NEW web, WellFormed(web), NEW s \in Sitemaps, NEW A,
         \A c \in Sitemaps : c > s => A[c] \in Seq(SitePages)
  PROVE  ListedOf(web, A, s) \in Seq(SitePages)
<1>1. CASE web[s].kind = "index"
  <2>. DEFINE cs == web[s].locs
              ss == [i \in DOMAIN cs |-> A[cs[i]]]
  <2>4. ss \in Seq(Seq(SitePages))
    BY <1>1, ListsType, SeqOfSeqs
  <2>5. FlattenSeq(ss) \in Seq(SitePages)
    <3>. HIDE DEF ss
    <3>. QED  BY <2>4, FlattenType
  <2>. QED  BY <1>1, <2>5 DEF ListedOf
<1>2. CASE web[s].kind # "index"
  <2>1. OnSite(web[s].locs) \in Seq(SitePages)
    BY OnSiteType DEF WellFormed
  <2>. QED  BY <1>2, <2>1 DEF ListedOf
<1>. QED  BY <1>1, <1>2

\* From the last sitemap back to the first, what each lists is determined.
LEMMA ListsExists ==
  ASSUME NEW web, WellFormed(web)
  PROVE  \E A \in [Sitemaps -> Seq(SitePages)] : Lists(web, A)
<1>. DEFINE Upto(A, m) == \A s \in Sitemaps : s > LastSitemap - m => A[s] = ListedOf(web, A, s)
            T == {m \in 0..LastSitemap : \E A \in [Sitemaps -> Seq(SitePages)] : Upto(A, m)}
<1>1. 0 \in T
  <2>. DEFINE A == [s \in Sitemaps |-> <<>>]
  <2>1. A \in [Sitemaps -> Seq(SitePages)] /\ 0 \in 0..LastSitemap
    BY SitemapsAre
  <2>2. \A s \in Sitemaps : ~(s > LastSitemap - 0)
    BY SitemapsAre
  <2>. HIDE DEF A
  <2>. QED  BY <2>1, <2>2
<1>2. ASSUME NEW m \in 1..LastSitemap, m - 1 \in T  PROVE m \in T
  <2>1. PICK A \in [Sitemaps -> Seq(SitePages)] : Upto(A, m - 1)
    BY <1>2
  <2>. DEFINE t == LastSitemap - m + 1
              new == ListedOf(web, A, t)
              B == [A EXCEPT ![t] = new]
  <2>2. t \in Sitemaps /\ m \in 0..LastSitemap
    BY SitemapsAre DEF Sitemaps
  <2>3. \A s \in Sitemaps : s > LastSitemap - m => s = t \/ s > LastSitemap - (m - 1)
    BY SitemapsAre
  <2>4. new \in Seq(SitePages)
    BY <2>2, ListedType
  <2>5. \A s \in Sitemaps : s > LastSitemap - m => \A c \in Sitemaps : c > s => c # t
    BY SitemapsAre
  <2>. HIDE DEF t, new
  <2>6. /\ B \in [Sitemaps -> Seq(SitePages)] /\ B[t] = new
        /\ \A c \in Sitemaps : c # t => B[c] = A[c]
    BY <2>2, <2>4
  <2>. HIDE DEF B
  <2>7. ASSUME NEW s \in Sitemaps, s > LastSitemap - m  PROVE B[s] = ListedOf(web, B, s)
    <3>1. ListedOf(web, B, s) = ListedOf(web, A, s)
      <4>1. \A c \in Sitemaps : c > s => B[c] = A[c]
        BY <2>5, <2>6, <2>7
      <4>. QED  BY <4>1, ListedLater
    <3>2. CASE s = t
      BY <2>6, <3>1, <3>2 DEF new
    <3>3. CASE s # t
      <4>1. A[s] = ListedOf(web, A, s)
        BY <2>1, <2>3, <2>7, <3>3
      <4>. QED  BY <2>6, <3>1, <3>3, <4>1
    <3>. QED  BY <3>2, <3>3
  <2>. QED  BY <2>2, <2>6, <2>7
<1>3. LastSitemap \in T
  <2>1. LastSitemap \in Nat /\ LastSitemap \in 0..LastSitemap
    BY SitemapsAre
  <2>. HIDE DEF T
  <2>. QED  BY <1>1, <1>2, <2>1, UpToAll
<1>4. PICK A \in [Sitemaps -> Seq(SitePages)] : Upto(A, LastSitemap)
  BY <1>3
<1>. QED  BY <1>4, SitemapsAre DEF Lists

\* Listing is it.
LEMMA ListingIs ==
  ASSUME NEW web, WellFormed(web), NEW A \in [Sitemaps -> Seq(SitePages)], Lists(web, A),
         NEW root \in Sitemaps
  PROVE  Listing(web, root) = A[root]
<1>. DEFINE All == CHOOSE h : h = [s \in Sitemaps |-> ListedOf(web, h, s)]
            T == {m \in 0..LastSitemap : \A s \in Sitemaps : s > LastSitemap - m => All[s] = A[s]}
<1>1. Listing(web, root) = All[root]
  BY DEF Listing, ListedOf
<1>2. All = [s \in Sitemaps |-> ListedOf(web, All, s)]
  <2>1. A = [s \in Sitemaps |-> ListedOf(web, A, s)]
    BY DEF Lists
  <2>. QED  BY <2>1
<1>. HIDE DEF All
<1>3. 0 \in T
  BY SitemapsAre
<1>4. ASSUME NEW m \in 1..LastSitemap, m - 1 \in T  PROVE m \in T
  <2>1. ASSUME NEW s \in Sitemaps, s > LastSitemap - m  PROVE All[s] = A[s]
    <3>1. \A c \in Sitemaps : c > s => c > LastSitemap - (m - 1)
      BY <2>1, SitemapsAre
    <3>2. \A c \in Sitemaps : c > s => All[c] = A[c]
      BY <1>4, <3>1
    <3>3. ListedOf(web, All, s) = ListedOf(web, A, s)
      BY <3>2, ListedLater
    <3>. QED  BY <1>2, <3>3 DEF Lists
  <2>2. m \in 0..LastSitemap
    BY SitemapsAre
  <2>. QED  BY <2>1, <2>2
<1>5. LastSitemap \in T
  <2>1. LastSitemap \in Nat /\ LastSitemap \in 0..LastSitemap
    BY SitemapsAre
  <2>. HIDE DEF T
  <2>. QED  BY <1>3, <1>4, <2>1, UpToAll
<1>. QED  BY <1>1, <1>5, SitemapsAre

\* What is fetched of a sitemap is the first n of what it lists, if that is so for
\* the later ones.
LEMMA FetchedFirst ==
  ASSUME NEW web, WellFormed(web), NEW A \in [Sitemaps -> Seq(SitePages)], Lists(web, A),
         NEW s \in Sitemaps, NEW n \in 0..MaxPages, NEW F,
         \A c \in Sitemaps : c > s => \A m \in 0..MaxPages : F[c][m] = FirstOf(A[c], m)
  PROVE  FetchedOf(web, F, s, n) = FirstOf(A[s], n)
<1>1. n \in Nat /\ \A m \in 0..n : m \in 0..MaxPages
  BY CrawlAssumption
<1>2. A[s] = ListedOf(web, A, s)
  BY DEF Lists
<1>3. web[s].kind \in {"none", "pages", "index"} /\ IsSeq(web[s].locs)
  BY DEF WellFormed
<1>4. CASE web[s].kind = "none"
  <2>1. web[s].locs = <<>>
    BY <1>4 DEF WellFormed
  <2>2. OnSite(<<>>) = <<>>
    <3>1. [i \in DOMAIN <<>> |-> IF <<>>[i] \in SitePages THEN <<<<>>[i]>> ELSE <<>>] = <<>>
      OBVIOUS
    <3>2. Len(<<>>) = 0
      BY EmptySeq
    <3>. QED  BY <3>1, <3>2, Zenon DEF OnSite, FlattenSeq
  <2>3. FirstOf(<<>>, n) = <<>>
    <3>1. <<>> \in Seq(SitePages) /\ Len(<<>>) <= n
      BY <1>1, EmptySeq
    <3>. QED  BY <1>1, <3>1, FirstOfAll
  <2>. QED  BY <1>2, <1>4, <2>1, <2>2, <2>3 DEF FetchedOf, ListedOf
<1>5. CASE web[s].kind = "pages"
  BY <1>2, <1>5 DEF FetchedOf, ListedOf, PageUrls
<1>6. CASE web[s].kind = "index"
  <2>. DEFINE cs == web[s].locs
              ss == [i \in DOMAIN cs |-> A[cs[i]]]
  <2>1. \A i \in DOMAIN cs : cs[i] \in Sitemaps /\ cs[i] > s
    BY <1>6 DEF WellFormed
  <2>2. ss \in [DOMAIN cs -> Seq(SitePages)]
    BY <1>6, ListsType
  <2>3. Begins(F, cs, ss, n)
    BY <1>1, <2>1 DEF Begins
  <2>4. IsSeq(cs) /\ n \in Nat
    BY <1>1, <1>3
  <2>5. ChildUrls(cs, n, F) = FirstOf(FlattenSeq(ss), n)
    <3>. HIDE DEF cs, ss
    <3>. QED  BY <2>2, <2>3, <2>4, ChildUrlsIs
  <2>. QED  BY <1>2, <1>6, <2>5 DEF FetchedOf, ListedOf
<1>. QED  BY <1>3, <1>4, <1>5, <1>6

\* SitemapUrls is the first n of what a sitemap lists.
LEMMA SitemapUrlsIs ==
  ASSUME NEW web, WellFormed(web), NEW A \in [Sitemaps -> Seq(SitePages)], Lists(web, A),
         NEW root \in Sitemaps, NEW limit \in 0..MaxPages
  PROVE  SitemapUrls(web, root, limit) = FirstOf(A[root], limit)
<1>. DEFINE Body(h) == [s \in Sitemaps |-> [n \in 0..MaxPages |-> FetchedOf(web, h, s, n)]]
            Fetch == CHOOSE h : h = Body(h)
            G == [s \in Sitemaps |-> [n \in 0..MaxPages |-> FirstOf(A[s], n)]]
            T == {m \in 0..LastSitemap :
                    \A s \in Sitemaps : s > LastSitemap - m =>
                      \A n \in 0..MaxPages : Fetch[s][n] = FirstOf(A[s], n)}
<1>1. SitemapUrls(web, root, limit) = Fetch[root][limit]
  BY Zenon DEF SitemapUrls, FetchedOf
<1>2. Fetch = Body(Fetch)
  <2>1. \A c \in Sitemaps : \A m \in 0..MaxPages : G[c][m] = FirstOf(A[c], m)
    OBVIOUS
  <2>. DEFINE Line(h, s) == [n \in 0..MaxPages |-> FetchedOf(web, h, s, n)]
  <2>2. ASSUME NEW s \in Sitemaps  PROVE G[s] = Line(G, s)
    <3>1. G[s] = [n \in 0..MaxPages |-> FirstOf(A[s], n)]
      OBVIOUS
    <3>. HIDE DEF G
    <3>a. \A c \in Sitemaps : c > s => \A m \in 0..MaxPages : G[c][m] = FirstOf(A[c], m)
      BY <2>1
    <3>2. ASSUME NEW n \in 0..MaxPages  PROVE FetchedOf(web, G, s, n) = FirstOf(A[s], n)
      BY <3>a, FetchedFirst, SMTT(60)
    <3>. QED  BY <3>1, <3>2
  <2>3. G = Body(G)
    <3>1. Body(G) = [s \in Sitemaps |-> Line(G, s)]
      OBVIOUS
    <3>2. G = [s \in Sitemaps |-> G[s]]
      OBVIOUS
    <3>. HIDE DEF Line, Body, G
    <3>. QED  BY <2>2, <3>1, <3>2
  <2>. HIDE DEF G, Body
  <2>. QED  BY <2>3
<1>. HIDE DEF Fetch
<1>3. ASSUME NEW s \in Sitemaps, NEW n \in 0..MaxPages
      PROVE  Fetch[s][n] = FetchedOf(web, Fetch, s, n)
  <2>1. Fetch[s] = [k \in 0..MaxPages |-> FetchedOf(web, Fetch, s, k)]
    BY <1>2, Zenon
  <2>. QED  BY <2>1, Zenon
<1>4. 0 \in T
  BY SitemapsAre
<1>5. ASSUME NEW m \in 1..LastSitemap, m - 1 \in T  PROVE m \in T
  <2>1. ASSUME NEW s \in Sitemaps, s > LastSitemap - m, NEW n \in 0..MaxPages
        PROVE  Fetch[s][n] = FirstOf(A[s], n)
    <3>1. \A c \in Sitemaps : c > s => c > LastSitemap - (m - 1)
      BY <2>1, SitemapsAre
    <3>2. \A c \in Sitemaps : c > s => \A k \in 0..MaxPages : Fetch[c][k] = FirstOf(A[c], k)
      BY <1>5, <3>1
    <3>3. FetchedOf(web, Fetch, s, n) = FirstOf(A[s], n)
      BY <3>2, FetchedFirst
    <3>. QED  BY <1>3, <3>3
  <2>2. m \in 0..LastSitemap
    BY SitemapsAre
  <2>. QED  BY <2>1, <2>2
<1>6. LastSitemap \in T
  <2>1. LastSitemap \in Nat /\ LastSitemap \in 0..LastSitemap
    BY SitemapsAre
  <2>. HIDE DEF T
  <2>. QED  BY <1>4, <1>5, <2>1, UpToAll
<1>. QED  BY <1>1, <1>6, SitemapsAre

LEMMA WebsWellFormed ==
  ASSUME NEW web \in Webs
  PROVE  WellFormed(web)
<1>1. SUFFICES ASSUME NEW s \in Sitemaps
               PROVE  /\ web[s].kind \in {"none", "pages", "index"} /\ IsSeq(web[s].locs)
                      /\ web[s].kind = "none" => web[s].locs = <<>>
                      /\ web[s].kind = "index" =>
                           \A i \in DOMAIN web[s].locs : web[s].locs[i] \in {c \in Sitemaps : c > s}
  BY DEF WellFormed
<1>2. web[s] \in Documents(s)
  BY DEF Webs
<1>3. ASSUME NEW S, NEW k \in 1..MaxLocs, NEW l \in [1..k -> S]
      PROVE  IsSeq(l) /\ \A i \in DOMAIN l : l[i] \in S
  <2>1. k \in Nat
    BY CrawlAssumption
  <2>. QED  BY <2>1, SeqDef DEF IsSeq
<1>4. CASE web[s] = [kind |-> "none", locs |-> <<>>]
  BY <1>4, EmptySeq DEF IsSeq
<1>5. CASE \E k \in 1..MaxLocs : \E l \in [1..k -> Urls] : web[s] = [kind |-> "pages", locs |-> l]
  <2>1. PICK k \in 1..MaxLocs : \E l \in [1..k -> Urls] : web[s] = [kind |-> "pages", locs |-> l]
    BY <1>5
  <2>2. PICK l \in [1..k -> Urls] : web[s] = [kind |-> "pages", locs |-> l]
    BY <2>1
  <2>3. IsSeq(l)
    BY <1>3
  <2>. QED  BY <2>2, <2>3
<1>6. CASE \E k \in 1..MaxLocs : \E l \in [1..k -> {c \in Sitemaps : c > s}] :
             web[s] = [kind |-> "index", locs |-> l]
  <2>. DEFINE Later == {c \in Sitemaps : c > s}
  <2>1. PICK k \in 1..MaxLocs : \E l \in [1..k -> Later] : web[s] = [kind |-> "index", locs |-> l]
    BY <1>6
  <2>2. PICK l \in [1..k -> Later] : web[s] = [kind |-> "index", locs |-> l]
    BY <2>1
  <2>. HIDE DEF Later
  <2>3. IsSeq(l) /\ \A i \in DOMAIN l : l[i] \in Later
    BY <1>3
  <2>. QED  BY <2>2, <2>3 DEF Later
<1>. QED  BY <1>2, <1>4, <1>5, <1>6 DEF Documents

\* Until it is prepared, the request's web is one of Webs.
WebInv == task = "prepare" => source.web \in Webs

LEMMA WebAlways == ServiceSpec => []WebInv
<1>1. ServiceInit => WebInv
  BY DEF ServiceInit, WebInv, CrawlInit, NoCrawl
<1>2. WebInv /\ [ServiceNext]_serviceVars => WebInv'
  <2>1. ASSUME WebInv, CrawlNext  PROVE WebInv'
    BY <2>1, PageStepIs DEF CrawlNext, Crawler, PageStep, WebInv, Prepare, Launch, ClosePage, CloseFails, Finish,
       Cancelled, ReadLine, Disconnect
  <2>2. ASSUME WebInv, UNCHANGED crawlVars  PROVE WebInv'
    BY <2>2 DEF crawlVars, WebInv
  <2>. QED  BY <2>1, <2>2 DEF ServiceNext, serviceVars
<1>. QED  BY <1>1, <1>2, PTL DEF ServiceSpec

LEMMA FirstOfNone ==
  ASSUME NEW s
  PROVE  FirstOf(s, 0) = <<>>
BY SubSeqEmpty DEF FirstOf

(* The crawl visits the first MaxPages of what the site's sitemap lists, for any  *)
(* number of sitemaps, nested in any way, and any limit: the early end of the     *)
(* loop over an index and the limits handed to its children skip no page.         *)
THEOREM ListedIsCrawled == ServiceSpec => CrawlsListed
<1>1. ASSUME WebInv, Prepare, source.wanted = <<>>, Listing(source.web, 1) # <<>>
      PROVE  urls' = FirstOf(Listing(source.web, 1), MaxPages)
  <2>. DEFINE list == Listing(source.web, 1)
              first == SitemapUrls(source.web, 1, MaxPages)
  <2>1. WellFormed(source.web)
    BY <1>1, WebsWellFormed DEF WebInv, Prepare
  <2>2. 1 \in Sitemaps /\ MaxPages \in Nat /\ MaxPages \in 0..MaxPages
    BY CrawlAssumption DEF Sitemaps
  <2>3. PICK A \in [Sitemaps -> Seq(SitePages)] : Lists(source.web, A)
    BY <2>1, ListsExists
  <2>4. list = A[1] /\ first = FirstOf(A[1], MaxPages) /\ A[1] \in Seq(SitePages)
    BY <2>1, <2>2, <2>3, ListingIs, SitemapUrlsIs
  <2>5. urls' = FirstOf(Discovered(source), MaxPages)
    BY <1>1 DEF Prepare, ToCrawl
  <2>6. list # <<>>
    BY <1>1
  <2>7. first # <<>> => Discovered(source) = first
    BY DEF Discovered
  <2>. HIDE DEF list, first
  <2>8. CASE first # <<>>
    BY <2>2, <2>4, <2>5, <2>7, <2>8, FirstOfTwice DEF list
  <2>9. CASE first = <<>>
    <3>1. MaxPages = 0
      <4>1. Len(A[1]) \in Nat /\ Len(A[1]) # 0 /\ Len(<<>>) = 0
        BY <2>4, <2>6, EmptySeq, LenProperties
      <4>2. Len(first) = IF Len(A[1]) <= MaxPages THEN Len(A[1]) ELSE MaxPages
        BY <2>2, <2>4, FirstOfIs
      <4>. QED  BY <2>2, <2>9, <4>1, <4>2
    <3>. QED  BY <2>5, <3>1, FirstOfNone DEF list
  <2>. QED  BY <2>8, <2>9
<1>2. WebInv /\ [ServiceNext]_serviceVars =>
        [Prepare /\ source.wanted = <<>> /\ Listing(source.web, 1) # <<>>
           => urls' = FirstOf(Listing(source.web, 1), MaxPages)]_crawlVars
  BY <1>1
<1>. QED  BY <1>2, WebAlways, PTL DEF ServiceSpec, CrawlsListed
=============================================================================
