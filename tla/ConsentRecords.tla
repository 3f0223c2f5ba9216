--------------------------- MODULE ConsentRecords ---------------------------
(* Visitors who share one address send their consent, among other requests, *)
(* through the rate limiter; records are kept for the site's retention.     *)
EXTENDS Integers, FiniteSets

CONSTANTS
  Visitors,     \* browsers behind one address
  Limit,        \* requests_per_minute
  MaxWindow,    \* bound: windows of a minute, numbered from 0
  MaxDay,       \* bound: days
  Retentions,   \* values of consent_retention_days
  MaxRequests,  \* bound: requests that visitors send
  MaxChanges,   \* bound: how often an administrator changes the retention
  MaxFailures,  \* bound: failures of Redis and of the purge
  None

ASSUME RecordsAssumption ==
  /\ {Limit, MaxWindow, MaxDay, MaxRequests, MaxChanges, MaxFailures} \subseteq Nat
  /\ Retentions \subseteq Int /\ None \notin Int

VARIABLES
  request,    \* the request each visitor has under way
  window,     \* the minute it is
  counts,     \* the limiter's keys
  passed,     \* requests a window's key has let through
  records,    \* consent_records of the site
  open,       \* the site is active
  retention,  \* consent_retention_days of the site's row
  today,
  purge,      \* the daily task: what it has read, None while it is not at work
  left        \* requests, changes and faults that are left

recordsVars == <<request, window, counts, passed, records, open, retention, today, purge, left>>

siteVars == <<open, retention>>
limiterVars == <<window, counts, passed>>

Windows == 0..MaxWindow
NoRequest == [step |-> "idle", kind |-> None, window |-> None]
Records == [visitor : Visitors, day : 0..MaxDay]

RecordsTypeOK ==
  /\ request \in [Visitors -> [step : {"idle", "arrived", "passed"},
                               kind : {"other", "consent", None}, window : Windows \cup {None}]]
  /\ window \in Windows
  /\ counts \in [Windows -> Nat] /\ passed \in [Windows -> Nat]
  /\ records \subseteq Records /\ open \in BOOLEAN
  /\ retention \in Retentions \cup {None} /\ today \in 0..MaxDay
  /\ purge \in [days : Retentions, now : 0..MaxDay] \cup {None}
  /\ left \in [requests : 0..MaxRequests, changes : 0..MaxChanges, faults : 0..MaxFailures]

RecordsInit ==
  /\ request = [v \in Visitors |-> NoRequest]
  /\ window = 0 /\ counts = [w \in Windows |-> 0]
  /\ passed = [w \in Windows |-> 0]
  /\ records = {} /\ open = TRUE
  /\ retention \in Retentions \cup {None} /\ today = 0
  /\ purge = None /\ left = [requests |-> MaxRequests, changes |-> MaxChanges,
                                faults |-> MaxFailures]

Use(kind) == left[kind] > 0 /\ left' = [left EXCEPT ![kind] = @ - 1]

-----------------------------------------------------------------------------
(* The limiter: a key for each address and minute, counted with INCR.       *)

\* The minute is taken before the key is counted.
Arrive(v, kind) ==
  /\ request[v].step = "idle" /\ Use("requests")
  /\ request' = [request EXCEPT ![v] = [step |-> "arrived", kind |-> kind, window |-> window]]
  /\ UNCHANGED <<records, today, purge, siteVars, limiterVars>>

\* Mutation of Over: the request that makes the limit full is let through as well.
OverLate(n) == n > Limit + 1

Over(n) == n > Limit

\* dispatch: a consent that gets the 429 is not recorded, and not sent again.
Count(v) ==
  LET w == request[v].window IN
  /\ request[v].step = "arrived"
  /\ counts' = [counts EXCEPT ![w] = @ + 1]
  /\ IF Over(counts[w] + 1)
     THEN /\ request' = [request EXCEPT ![v] = NoRequest]
          /\ UNCHANGED passed
     ELSE /\ request' = [request EXCEPT ![v].step = "passed"]
          /\ passed' = [passed EXCEPT ![w] = @ + 1]
  /\ UNCHANGED <<window, records, today, purge, left, siteVars>>

\* Redis fails, before or after it has counted: the request goes on.
FailOpen(v) ==
  /\ request[v].step = "arrived" /\ Use("faults")
  /\ counts' \in {counts, [counts EXCEPT ![request[v].window] = @ + 1]}
  /\ request' = [request EXCEPT ![v].step = "passed"]
  /\ UNCHANGED <<window, passed, records, today, purge, siteVars>>

NextWindow ==
  /\ window < MaxWindow /\ window' = window + 1
  /\ UNCHANGED <<request, counts, passed, records, today, purge, left, siteVars>>

-----------------------------------------------------------------------------
(* Handlers behind it.                                                      *)

\* Any other request of that address leaves nothing here.
Other(v) ==
  /\ request[v].step = "passed" /\ request[v].kind = "other"
  /\ request' = [request EXCEPT ![v] = NoRequest]
  /\ UNCHANGED <<records, today, purge, left, siteVars, limiterVars>>

\* record_consent: 404 unless the site is active.
Consent(v) ==
  /\ request[v].step = "passed" /\ request[v].kind = "consent"
  /\ records' = IF open THEN records \cup {[visitor |-> v, day |-> today]} ELSE records
  /\ request' = [request EXCEPT ![v] = NoRequest]
  /\ UNCHANGED <<today, purge, left, siteVars, limiterVars>>

Close ==
  /\ open /\ open' = FALSE
  /\ UNCHANGED <<request, retention, records, today, purge, left, limiterVars>>

SetRetention ==
  /\ Use("changes") /\ retention' \in (Retentions \cup {None}) \ {retention}
  /\ UNCHANGED <<open, request, records, today, purge, limiterVars>>

NextDay ==
  /\ today < MaxDay /\ today' = today + 1
  /\ UNCHANGED <<request, records, purge, left, siteVars, limiterVars>>

-----------------------------------------------------------------------------
(* purge_expired_consent_records                                            *)

\* Mutation of Purged: a retention of no days is not left out.
PurgedAtZero(days) == days # None

\* Sites without a retention, or with none above zero, are left out.
Purged(days) == days # None /\ days > 0

\* Mutation of Expired: the cutoff is a day too early.
ExpiredLate(r, days, now) == r.day + days + 1 < now

\* consented_at < cutoff
Expired(r, days, now) == r.day + days < now

ReadConfig ==
  /\ purge = None /\ Purged(retention)
  /\ purge' = [days |-> retention, now |-> today]
  /\ UNCHANGED <<request, records, today, left, siteVars, limiterVars>>

Delete ==
  /\ purge # None
  /\ records' = {r \in records : ~Expired(r, purge.days, purge.now)}
  /\ purge' = None
  /\ UNCHANGED <<request, today, left, siteVars, limiterVars>>

\* The transaction is rolled back; the task is not retried before the next day's.
PurgeFails ==
  /\ purge # None /\ Use("faults")
  /\ purge' = None
  /\ UNCHANGED <<request, records, today, siteVars, limiterVars>>

Purge == ReadConfig \/ Delete

RecordsNext ==
  \/ \E v \in Visitors :
       \/ \E kind \in {"other", "consent"} : Arrive(v, kind)
       \/ Count(v) \/ FailOpen(v) \/ Other(v) \/ Consent(v)
  \/ NextWindow \/ NextDay \/ Close \/ SetRetention
  \/ Purge \/ PurgeFails

\* beat starts the task day after day; nothing obliges a visitor.
RecordsSpec ==
  RecordsInit /\ [][RecordsNext]_recordsVars /\ WF_recordsVars(Purge)

-----------------------------------------------------------------------------

\* A minute's key lets no more than the limit through, however the requests that
\* share it interleave and even when some are counted after the minute has ended.
LimitHolds == \A w \in Windows : passed[w] <= Limit

\* What goes was older than a retention that someone set above zero.
YoungRecordsStay ==
  [][\A r \in records \ records' : purge.days > 0 /\ r.day + purge.days < today]_recordsVars

\* Once the retention stays as it is, nothing older stays, whatever purge failed.
ExpiredGo ==
  \A days \in Retentions :
    <>[](retention = days /\ days > 0) =>
      <>[](\A r \in records : r.day + days >= today)
=============================================================================
