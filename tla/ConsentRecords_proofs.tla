------------------------ MODULE ConsentRecords_proofs ------------------------
(* The limiter's count and what a purge takes, for any number of visitors,    *)
(* windows, days and retentions.                                              *)
EXTENDS ConsentRecords, TLAPS

\* The bounds are numbers.
LEMMA Bounds ==
  /\ Limit \in Nat /\ MaxWindow \in Nat /\ MaxDay \in Nat
  /\ MaxRequests \in Nat /\ MaxChanges \in Nat /\ MaxFailures \in Nat
BY RecordsAssumption

\* What a visitor may have under way.
Requests ==
  [step : {"idle", "arrived", "passed"}, kind : {"other", "consent", None},
   window : Windows \cup {None}]

LEMMA InitTyped == RecordsInit => RecordsTypeOK
<1>. SUFFICES ASSUME RecordsInit  PROVE RecordsTypeOK
  OBVIOUS
<1>. USE RecordsAssumption DEF RecordsInit
<1>1. NoRequest \in Requests /\ 0 \in Windows
  BY DEF NoRequest, Requests, Windows
<1>2. left \in [requests : 0..MaxRequests, changes : 0..MaxChanges, faults : 0..MaxFailures]
  OBVIOUS
<1>. QED  BY <1>1, <1>2 DEF RecordsTypeOK, Requests

\* What is used up leaves the rest.
LEMMA UseTyped ==
  ASSUME RecordsTypeOK, NEW kind \in {"requests", "changes", "faults"}, Use(kind)
  PROVE  left' \in [requests : 0..MaxRequests, changes : 0..MaxChanges, faults : 0..MaxFailures]
<1>1. /\ left \in [requests : 0..MaxRequests, changes : 0..MaxChanges, faults : 0..MaxFailures]
      /\ left[kind] > 0 /\ left' = [left EXCEPT ![kind] = left[kind] - 1]
  BY DEF RecordsTypeOK, Use
<1>2. CASE kind = "requests"
  BY <1>1, <1>2, RecordsAssumption
<1>3. CASE kind = "changes"
  BY <1>1, <1>3, RecordsAssumption
<1>4. CASE kind = "faults"
  BY <1>1, <1>4, RecordsAssumption
<1>. QED  BY <1>2, <1>3, <1>4

LEMMA NextTyped ==
  ASSUME RecordsTypeOK, [RecordsNext]_recordsVars
  PROVE  RecordsTypeOK'
<1>. USE RecordsAssumption DEF siteVars, limiterVars
<1>0. /\ request \in [Visitors -> Requests] /\ NoRequest \in Requests
      /\ window \in Windows
      /\ counts \in [Windows -> Nat] /\ passed \in [Windows -> Nat]
  BY DEF RecordsTypeOK, Requests, NoRequest
<1>1. ASSUME NEW v \in Visitors, NEW kind \in {"other", "consent"}, Arrive(v, kind)
      PROVE  RecordsTypeOK'
  <2>1. [step |-> "arrived", kind |-> kind, window |-> window] \in Requests
    BY <1>0 DEF Requests
  <2>2. request' \in [Visitors -> Requests]
    BY <1>0, <1>1, <2>1 DEF Arrive
  <2>3. left' \in [requests : 0..MaxRequests, changes : 0..MaxChanges, faults : 0..MaxFailures]
    BY <1>1, UseTyped DEF Arrive
  <2>. QED  BY <1>1, <2>2, <2>3 DEF Arrive, RecordsTypeOK, Requests
<1>2. ASSUME NEW v \in Visitors, [request[v] EXCEPT !.step = "passed"] \in Requests
      PROVE  [request EXCEPT ![v].step = "passed"] \in [Visitors -> Requests]
  BY <1>0, <1>2
<1>3. ASSUME NEW v \in Visitors  PROVE [request[v] EXCEPT !.step = "passed"] \in Requests
  BY <1>0 DEF Requests
<1>4. ASSUME NEW v \in Visitors, Count(v)  PROVE RecordsTypeOK'
  <2>. DEFINE w == request[v].window
  <2>0. counts' = [counts EXCEPT ![w] = counts[w] + 1] /\ \A x \in Windows : counts[x] + 1 \in Nat
    BY <1>0, <1>4 DEF Count
  <2>1. counts' \in [Windows -> Nat]
    BY <1>0, <2>0
  <2>2. CASE Over(counts[w] + 1)
    <3>1. request' \in [Visitors -> Requests]
      BY <1>0, <1>4, <2>2 DEF Count
    <3>. QED  BY <1>4, <2>1, <2>2, <3>1 DEF Count, RecordsTypeOK, Requests
  <2>3. CASE ~Over(counts[w] + 1)
    <3>1. request' \in [Visitors -> Requests] /\ passed' \in [Visitors -> Nat] \cup [Windows -> Nat]
      BY <1>0, <1>2, <1>3, <1>4, <2>3 DEF Count
    <3>2. passed' \in [Windows -> Nat]
      BY <1>0, <1>4, <2>3 DEF Count
    <3>. QED  BY <1>4, <2>1, <2>3, <3>1, <3>2 DEF Count, RecordsTypeOK, Requests
  <2>. QED  BY <2>2, <2>3
<1>5. ASSUME NEW v \in Visitors, FailOpen(v)  PROVE RecordsTypeOK'
  <2>1. request' \in [Visitors -> Requests]
    BY <1>2, <1>3, <1>5 DEF FailOpen
  <2>2. left' \in [requests : 0..MaxRequests, changes : 0..MaxChanges, faults : 0..MaxFailures]
    BY <1>5, UseTyped DEF FailOpen
  <2>3. counts' \in [Windows -> Nat]
    BY <1>0, <1>5 DEF FailOpen
  <2>. QED  BY <1>5, <2>1, <2>2, <2>3 DEF FailOpen, RecordsTypeOK, Requests
<1>13. ASSUME NEW v \in Visitors, Other(v) \/ Consent(v)  PROVE RecordsTypeOK'
  <2>1. request' \in [Visitors -> Requests]
    BY <1>0, <1>13 DEF Other, Consent
  <2>3. records' \subseteq Records
    BY <1>0, <1>13 DEF Other, Consent, Records, RecordsTypeOK
  <2>. QED  BY <1>13, <2>1, <2>3 DEF Other, Consent, RecordsTypeOK, Requests
<1>6. CASE NextWindow
  BY <1>6 DEF NextWindow, RecordsTypeOK, Windows
<1>7. CASE NextDay
  <2>1. today' \in 0..MaxDay
    BY <1>7 DEF NextDay, RecordsTypeOK
  <2>. QED  BY <1>7, <2>1 DEF NextDay, RecordsTypeOK
<1>8. CASE Close
  BY <1>8 DEF Close, RecordsTypeOK
<1>9. CASE SetRetention
  BY <1>9, UseTyped DEF SetRetention, RecordsTypeOK
<1>10. CASE Purge
  BY <1>10 DEF Purge, ReadConfig, Delete, Purged, RecordsTypeOK
<1>11. CASE PurgeFails
  BY <1>11, UseTyped DEF PurgeFails, RecordsTypeOK
<1>12. CASE UNCHANGED recordsVars
  BY <1>12 DEF recordsVars, RecordsTypeOK
<1>. QED
  BY <1>1, <1>4, <1>5, <1>13, <1>6, <1>7, <1>8, <1>9, <1>10, <1>11, <1>12 DEF RecordsNext

\* Every variable keeps its type, for any visitors, windows, days and retentions.
THEOREM TypeCorrect == RecordsSpec => []RecordsTypeOK
BY InitTyped, NextTyped, PTL DEF RecordsSpec

-----------------------------------------------------------------------------
(* The limiter.                                                              *)

\* A key has counted at least what it let through.
CountInv == \A w \in Windows : passed[w] <= counts[w] /\ passed[w] <= Limit

LEMMA CountStep ==
  ASSUME RecordsTypeOK, CountInv, [RecordsNext]_recordsVars
  PROVE  CountInv'
<1>1. CASE UNCHANGED <<counts, passed>>
  BY <1>1 DEF CountInv
<1>2. ASSUME NEW v \in Visitors, Count(v)  PROVE CountInv'
  <2>. DEFINE w == request[v].window
  <2>1. \A x \in Windows : counts[x] \in Nat /\ passed[x] \in Nat
    BY DEF RecordsTypeOK
  <2>2. counts' = [counts EXCEPT ![w] = counts[w] + 1]
    BY <1>2 DEF Count
  <2>3. CASE counts[w] + 1 > Limit
    BY <1>2, <2>1, <2>2, <2>3 DEF Count, Over, CountInv, RecordsTypeOK
  <2>4. CASE ~(counts[w] + 1 > Limit)
    <3>1. passed' = [passed EXCEPT ![w] = passed[w] + 1]
      BY <1>2, <2>4 DEF Count, Over
    <3>. QED  BY <2>1, <2>2, <2>4, <3>1, RecordsAssumption DEF CountInv, RecordsTypeOK
  <2>. QED  BY <2>3, <2>4
<1>4. ASSUME NEW v \in Visitors, FailOpen(v)  PROVE CountInv'
  <2>1. \A x \in Windows : counts[x] \in Nat /\ passed[x] \in Nat
    BY DEF RecordsTypeOK
  <2>. QED  BY <1>4, <2>1 DEF FailOpen, CountInv, RecordsTypeOK
<1>5. [RecordsNext]_recordsVars =>
        UNCHANGED <<counts, passed>> \/ \E v \in Visitors : Count(v) \/ FailOpen(v)
  BY DEF RecordsNext, Arrive, FailOpen, Other, Consent, NextWindow, NextDay, Close,
         SetRetention, Purge, ReadConfig, Delete, PurgeFails, recordsVars, siteVars, limiterVars
<1>. QED  BY <1>1, <1>2, <1>4, <1>5

\* No window lets more than the limit through, however many requests share its key
\* and whenever they are counted.
THEOREM LimitAlways == RecordsSpec => []LimitHolds
<1>1. RecordsInit => CountInv
  BY RecordsAssumption DEF RecordsInit, CountInv
<1>2. CountInv => LimitHolds
  BY DEF CountInv, LimitHolds
<1>. QED  BY <1>1, <1>2, InitTyped, NextTyped, CountStep, PTL DEF RecordsSpec

-----------------------------------------------------------------------------
(* Records.                                                                  *)

\* Only a purge takes records.
LEMMA RecordsTaken ==
  ASSUME [RecordsNext]_recordsVars
  PROVE  records \subseteq records' \/ Delete
BY DEF RecordsNext, Arrive, Count, FailOpen, Other, Consent, NextWindow, NextDay, Close,
       SetRetention, Purge, ReadConfig, PurgeFails, recordsVars, siteVars, limiterVars

\* A purge at work has read a retention above zero, on a day that is not to come.
PurgeInv == purge # None => purge.days > 0 /\ purge.now <= today

LEMMA PurgeStep ==
  ASSUME RecordsTypeOK, PurgeInv, [RecordsNext]_recordsVars
  PROVE  PurgeInv'
<1>1. CASE ReadConfig
  <2>1. purge'.days = retention /\ purge'.now = today /\ today' = today /\ retention > 0
    BY <1>1 DEF ReadConfig, Purged
  <2>. QED  BY <2>1, RecordsAssumption DEF PurgeInv, RecordsTypeOK
<1>2. CASE purge' = None
  BY <1>2 DEF PurgeInv
<1>3. CASE purge' = purge /\ (today' = today \/ today' = today + 1)
  BY <1>3, RecordsAssumption DEF PurgeInv, RecordsTypeOK
<1>4. [RecordsNext]_recordsVars =>
        \/ ReadConfig \/ purge' = None
        \/ purge' = purge /\ (today' = today \/ today' = today + 1)
  BY DEF RecordsNext, Arrive, Count, FailOpen, Other, Consent, NextWindow, NextDay,
         Close, SetRetention, Purge, Delete, PurgeFails, recordsVars, siteVars, limiterVars
<1>. QED  BY <1>1, <1>2, <1>3, <1>4

\* What a purge takes is older than a retention that someone set above zero, though
\* the retention may have been changed and days have passed since it read them.
THEOREM YoungStay == RecordsSpec => YoungRecordsStay
<1>1. RecordsTypeOK /\ PurgeInv /\ [RecordsNext]_recordsVars =>
        \A r \in records \ records' : purge.days > 0 /\ r.day + purge.days < today
  <2>. SUFFICES ASSUME RecordsTypeOK, PurgeInv, [RecordsNext]_recordsVars,
                       NEW r \in records \ records'
                PROVE  purge.days > 0 /\ r.day + purge.days < today
    OBVIOUS
  <2>1. Delete /\ Expired(r, purge.days, purge.now)
    BY RecordsTaken DEF Delete
  <2>2. r.day \in Int /\ purge.days \in Int /\ purge.now \in Int /\ today \in Int
    <3>1. /\ r \in Records /\ today \in 0..MaxDay
          /\ purge \in [days : Retentions, now : 0..MaxDay] /\ Retentions \subseteq Int
      BY <2>1, RecordsAssumption DEF Delete, RecordsTypeOK
    <3>2. r.day \in 0..MaxDay
      BY <3>1 DEF Records
    <3>3. purge.days \in Retentions /\ purge.now \in 0..MaxDay
      BY <3>1
    <3>4. 0..MaxDay \subseteq Int
      BY Bounds
    <3>5. r.day \in Int /\ today \in Int /\ purge.now \in Int
      BY <3>1, <3>2, <3>3, <3>4, Zenon
    <3>6. purge.days \in Int
      BY <3>1, <3>3, Zenon
    <3>. QED  BY <3>5, <3>6
  <2>. QED  BY <2>1, <2>2 DEF Delete, Expired, PurgeInv
<1>2. RecordsInit => PurgeInv
  BY DEF RecordsInit, PurgeInv
<1>. QED  BY <1>1, <1>2, InitTyped, NextTyped, PurgeStep, PTL DEF RecordsSpec, YoungRecordsStay
=============================================================================
