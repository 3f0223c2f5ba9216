------------------------------ MODULE ScanJobs ------------------------------
(***************************************************************************)
(* The life of a scan job: created by an admin's session or the scheduler, *)
(* handed to a worker through the Celery queue, retried, redelivered,      *)
(* recovered by a periodic sweep, and synced into the site's cookies.      *)
(*                                                                         *)
(* Nothing locks a job: every actor reads rows in one statement and writes *)
(* them in a later one.                                                    *)
(*                                                                         *)
(* Celery acknowledges late, so a message whose worker dies is delivered   *)
(* again.  Time is abstract: a job may outlive its timeout at any moment   *)
(* it is in a status of Aging and nobody writes to it.                     *)
(*                                                                         *)
(* Abstractions: a starter's UPDATE of stale jobs is placed at its commit, *)
(* its row locks are not modelled; the sync reads all its cookies in one   *)
(* step and writes them in another; one sweep and one scheduler round run  *)
(* at a time; an error's text is never empty.                              *)
(***************************************************************************)
EXTENDS Naturals, Sequences, FiniteSets

CONSTANTS
  Sites,
  Sessions,    \* admins' API sessions that start scans
  Scheduler,   \* the beat task check_scheduled_scans
  Workers,     \* Celery worker processes
  Cookies,     \* cookies a crawl can find
  Aging,       \* statuses in which a job may outlive its timeout
  MaxRetries,  \* run_scan's max_retries
  MaxJobs,     \* bound on scans started
  MaxCopies,   \* bound on the messages of one job the sweep adds to
  Outages,     \* whether the database may fail under a worker
  MaxFaults    \* bound on crashes, refusals of the broker and outages

ASSUME SchedulerAssumption == Scheduler \notin Sessions
ASSUME SitesAssumption == Sites # {}
ASSUME OutagesAssumption == Outages \in BOOLEAN
ASSUME BoundsAssumption == MaxRetries \in Nat /\ MaxJobs \in Nat /\ MaxFaults \in Nat

VARIABLES
  jobs,       \* the table scan_jobs, in the order of creation
  results,    \* results[j]: the cookies scan_results holds for job j
  inventory,  \* inventory[s]: the cookies with a row for the site
  stale,      \* jobs whose last update is longer ago than their timeout
  queue,      \* queue[j][k]: messages for job j at its k-th retry
  worker,     \* worker[w]: the message a worker holds and what it has read
  starter,    \* starter[p]: what a call of start_scan has read
  sweep,      \* what recover_stale_scans has read
  faults

vars == <<jobs, results, inventory, stale, queue, worker, starter, sweep, faults>>

Statuses == {"pending", "running", "completed", "failed"}
Active == {"pending", "running"}
JobIds == 1..MaxJobs
Starters == Sessions \cup {Scheduler}

Idle == [step |-> "idle", job |-> 0, retry |-> 0, status |-> "pending", new |-> {}]
AtRest == [step |-> "idle", site |-> CHOOSE s \in Sites : TRUE, first |-> FALSE, job |-> 0,
           failing |-> {}]
Asleep == [step |-> "idle", pending |-> {}, running |-> {}]

Job == [site: Sites, status: Statuses]

Steps == {"idle", "start", "crawl", "complete", "sync", "insert", "fail", "ack"}

Task ==
  [step: Steps, job: 0..MaxJobs, retry: 0..MaxRetries, status: Statuses, new: SUBSET Cookies]

Call ==
  [step: {"idle", "create", "dispatch"}, site: Sites, first: BOOLEAN, job: 0..MaxJobs,
   failing: SUBSET JobIds]

TypeOK ==
  /\ jobs \in Seq(Job) /\ Len(jobs) <= MaxJobs
  /\ results \in [JobIds -> SUBSET Cookies]
  /\ inventory \in [Sites -> SUBSET Cookies]
  /\ stale \subseteq DOMAIN jobs
  /\ queue \in [JobIds -> [0..MaxRetries -> Nat]]
  /\ worker \in [Workers -> Task]
  /\ starter \in [Starters -> Call]
  /\ sweep \in [step: {"idle", "recover"}, pending: SUBSET JobIds, running: SUBSET JobIds]
  /\ faults \in 0..MaxFaults

Init ==
  /\ jobs = <<>>
  /\ results = [j \in JobIds |-> {}]
  /\ inventory = [s \in Sites |-> {}]
  /\ stale = {}
  /\ queue = [j \in JobIds |-> [k \in 0..MaxRetries |-> 0]]
  /\ worker = [w \in Workers |-> Idle]
  /\ starter = [p \in Starters |-> AtRest]
  /\ sweep = Asleep
  /\ faults = 0

-----------------------------------------------------------------------------
(* Rows and messages.                                                      *)

ActiveJobs(s) == {j \in DOMAIN jobs : jobs[j].site = s /\ jobs[j].status \in Active}

\* Mutation of Failed: a status that the API does not know.
FailedTimedOut(table, set) ==
  [j \in DOMAIN table |-> IF j \in set THEN [table[j] EXCEPT !.status = "timed_out"] ELSE table[j]]

\* complete_scan_job with an error, for every job of a set.
Failed(table, set) ==
  [j \in DOMAIN table |-> IF j \in set THEN [table[j] EXCEPT !.status = "failed"] ELSE table[j]]

Send(j, k) == queue' = [queue EXCEPT ![j][k] = @ + 1]

Fault == faults < MaxFaults /\ faults' = faults + 1

Step(w, step) == worker' = [worker EXCEPT ![w].step = step]

-----------------------------------------------------------------------------
(* start_scan, for a session's request or a site the scheduler found due.  *)

\* A job that is pending or running and not stale.
InProgress(s) == ActiveJobs(s) \ stale # {}

ReadActive(p, s, first) ==
  /\ starter[p].step = "idle" /\ Len(jobs) < MaxJobs
  /\ first => p # Scheduler /\ \A j \in DOMAIN jobs : jobs[j].site # s
  /\ ~InProgress(s)
  /\ starter' = [starter EXCEPT ![p].step = "create", ![p].site = s, ![p].first = first,
                                ![p].failing = @ \cup ActiveJobs(s)]
  /\ UNCHANGED <<jobs, results, inventory, stale, queue, worker, sweep, faults>>

\* ScanInProgressError rolls a session back.  The scheduler goes on to its
\* next site, with stale jobs it met before the fresh one failed but not
\* committed.
SkipSite(s) ==
  LET p == Scheduler IN
  /\ starter[p].step = "idle" /\ InProgress(s)
  /\ \E some \in SUBSET (ActiveJobs(s) \cap stale) :
       starter' = [starter EXCEPT ![p].failing = @ \cup some]
  /\ UNCHANGED <<jobs, results, inventory, stale, queue, worker, sweep, faults>>

\* The scheduler's session closes without a commit after its last site.
EndRound ==
  /\ starter[Scheduler].step = "idle" /\ starter[Scheduler].failing # {}
  /\ starter' = [starter EXCEPT ![Scheduler].failing = {}]
  /\ UNCHANGED <<jobs, results, inventory, stale, queue, worker, sweep, faults>>

CreateJob(p) ==
  LET r == starter[p] IN
  /\ r.step = "create"
  /\ IF Len(jobs) < MaxJobs
     THEN /\ jobs' = Append(Failed(jobs, r.failing),
                            [site |-> r.site, status |-> "pending"])
          /\ stale' = stale \ r.failing
          /\ starter' = [starter EXCEPT ![p].step = "dispatch", ![p].job = Len(jobs) + 1,
                                        ![p].failing = {}]
     ELSE starter' = [starter EXCEPT ![p] = AtRest] /\ UNCHANGED <<jobs, stale>>
  /\ UNCHANGED <<results, inventory, queue, worker, sweep, faults>>

\* run_scan.delay.  When the broker refuses, the first scan of a new site is
\* marked failed; any other is left pending for the sweep, as it is when the
\* caller dies here.
Dispatch(p) ==
  LET j == starter[p].job IN
  /\ starter[p].step = "dispatch"
  /\ starter' = [starter EXCEPT ![p] = AtRest]
  /\ \/ Send(j, 0) /\ UNCHANGED <<jobs, stale, faults>>
     \/ /\ Fault /\ UNCHANGED queue
        /\ \/ UNCHANGED <<jobs, stale>>
           \/ starter[p].first /\ jobs' = Failed(jobs, {j}) /\ stale' = stale \ {j}
  /\ UNCHANGED <<results, inventory, worker, sweep>>

-----------------------------------------------------------------------------
(* run_scan.                                                               *)

Take(w, j, k) ==
  /\ worker[w].step = "idle" /\ queue[j][k] > 0
  /\ queue' = [queue EXCEPT ![j][k] = @ - 1]
  /\ worker' = [worker EXCEPT ![w] = [Idle EXCEPT
       !.step = "start", !.job = j, !.retry = k, !.status = jobs[j].status]]
  /\ UNCHANGED <<jobs, results, inventory, stale, starter, sweep, faults>>

\* start_scan_job: a no-op on a job loaded as running, else running again
\* from any status.
StartJob(w) ==
  LET j == worker[w].job IN
  /\ worker[w].step = "start"
  /\ IF worker[w].status = "running" THEN UNCHANGED <<jobs, stale>>
     ELSE jobs' = [jobs EXCEPT ![j].status = "running"] /\ stale' = stale \ {j}
  /\ Step(w, "crawl")
  /\ UNCHANGED <<results, inventory, queue, starter, sweep, faults>>

\* A progress event touches the row.
Progress(w) ==
  /\ worker[w].step = "crawl" /\ worker[w].job \in stale
  /\ stale' = stale \ {worker[w].job}
  /\ UNCHANGED <<jobs, results, inventory, queue, worker, starter, sweep, faults>>

StoreResults(w) ==
  /\ worker[w].step = "crawl"
  /\ \E found \in SUBSET Cookies :
       results' = [results EXCEPT ![worker[w].job] = @ \cup found]
  /\ Step(w, "complete")
  /\ UNCHANGED <<jobs, inventory, stale, queue, starter, sweep, faults>>

\* Whatever became of the job meanwhile: only a completed one is synced.
CompleteJob(w) ==
  LET j == worker[w].job IN
  /\ worker[w].step = "complete"
  /\ jobs' = [jobs EXCEPT ![j].status = "completed"]
  /\ stale' = stale \ {j}
  /\ Step(w, "sync")
  /\ UNCHANGED <<results, inventory, queue, starter, sweep, faults>>

\* The cookies found of which the site has no row yet.
SyncRead(w) ==
  LET j == worker[w].job IN
  /\ worker[w].step = "sync"
  /\ worker' = [worker EXCEPT ![w].step = "insert",
                              ![w].new = results[j] \ inventory[jobs[j].site]]
  /\ UNCHANGED <<jobs, results, inventory, stale, queue, starter, sweep, faults>>

\* Mutation of AfterConflict: a cookie inserted meanwhile ends the sync quietly.
AfterConflictAck == "ack"

\* Where IntegrityError leads: the handler of every other exception.
AfterConflict == "fail"

\* One transaction: a row that another inserted meanwhile, against the
\* unique constraint on site, name, domain and type, undoes all of it.
SyncWrite(w) ==
  LET s == jobs[worker[w].job].site
      new == worker[w].new
  IN
  /\ worker[w].step = "insert"
  /\ IF new \cap inventory[s] # {}
     THEN Step(w, AfterConflict) /\ UNCHANGED inventory
     ELSE inventory' = [inventory EXCEPT ![s] = @ \cup new] /\ Step(w, "ack")
  /\ UNCHANGED <<jobs, results, stale, queue, starter, sweep, faults>>

\* httpx.HTTPError: retry, or mark the job failed on the last one.  A
\* broker that refuses the retry leaves the job running.
HttpError(w) ==
  LET r == worker[w] IN
  /\ r.step = "crawl"
  /\ \/ /\ r.retry < MaxRetries
        /\ Send(r.job, r.retry + 1)
        /\ UNCHANGED <<jobs, stale, faults>>
     \/ /\ r.retry < MaxRetries /\ Fault
        /\ UNCHANGED <<jobs, stale, queue>>
     \/ /\ r.retry = MaxRetries
        /\ jobs' = Failed(jobs, {r.job}) /\ stale' = stale \ {r.job}
        /\ UNCHANGED <<queue, faults>>
  /\ Step(w, "ack")
  /\ UNCHANGED <<results, inventory, starter, sweep>>

\* The scanner reports that the crawl failed, or anything else raises.
OtherError(w) ==
  /\ worker[w].step \in {"crawl", "complete", "sync"}
  /\ Step(w, "fail")
  /\ UNCHANGED <<jobs, results, inventory, stale, queue, starter, sweep, faults>>

MarkFailed(w) ==
  LET j == worker[w].job IN
  /\ worker[w].step = "fail"
  /\ jobs' = Failed(jobs, {j}) /\ stale' = stale \ {j}
  /\ Step(w, "ack")
  /\ UNCHANGED <<results, inventory, queue, starter, sweep, faults>>

\* The database fails under the worker and under _mark_failed too, which
\* swallows its own error: the task ends normally.
DatabaseDown(w) ==
  /\ Outages /\ worker[w].step \notin {"idle", "ack"}
  /\ Fault
  /\ Step(w, "ack")
  /\ UNCHANGED <<jobs, results, inventory, stale, queue, starter, sweep>>

Acknowledge(w) ==
  /\ worker[w].step = "ack"
  /\ worker' = [worker EXCEPT ![w] = Idle]
  /\ UNCHANGED <<jobs, results, inventory, stale, queue, starter, sweep, faults>>

\* task_acks_late: the message of a dead worker becomes visible again.
Redeliver(r) == Send(r.job, r.retry)

Crash(w) ==
  /\ worker[w].step # "idle"
  /\ Fault
  /\ Redeliver(worker[w])
  /\ worker' = [worker EXCEPT ![w] = Idle]
  /\ UNCHANGED <<jobs, results, inventory, stale, starter, sweep>>

-----------------------------------------------------------------------------
(* recover_stale_scans.                                                    *)

SweepRead ==
  /\ sweep.step = "idle" /\ stale # {}
  /\ sweep' = [step |-> "recover",
               pending |-> {j \in stale : jobs[j].status = "pending"},
               running |-> {j \in stale : jobs[j].status = "running"}]
  /\ UNCHANGED <<jobs, results, inventory, stale, queue, worker, starter, faults>>

Copies(j) == queue[j][0] + Cardinality({w \in Workers : worker[w].job = j})

\* Mutation of Redispatched: the sweep sees to running jobs only.
RedispatchedNone(set) == {}

\* The stale pending jobs that get another message, up to the bound.
Redispatched(set) == {j \in set : Copies(j) < MaxCopies}

WithMessages(set) ==
  [j \in JobIds |-> [queue[j] EXCEPT ![0] = IF j \in set THEN @ + 1 ELSE @]]

\* One commit at the end: a crash, or a broker that refuses half-way, leaves
\* the messages already sent and rolls the failed jobs back.
SweepWrite ==
  /\ sweep.step = "recover"
  /\ \/ /\ queue' = WithMessages(Redispatched(sweep.pending))
        /\ jobs' = Failed(jobs, sweep.running)
        /\ stale' = stale \ sweep.running
        /\ UNCHANGED faults
     \/ /\ Fault /\ UNCHANGED <<jobs, stale>>
        /\ \E some \in SUBSET Redispatched(sweep.pending) : queue' = WithMessages(some)
  /\ sweep' = Asleep
  /\ UNCHANGED <<results, inventory, worker, starter>>

-----------------------------------------------------------------------------
(* Time, and visitors' reports.                                            *)

\* A starter dispatches at once or dies.  A worker that wrote the job when it
\* started keeps it fresh: a page at least every 300 s, or an error.  One that
\* found it running wrote nothing, so the silences of two attempts add up.
KeptFresh(j) ==
  \/ \E p \in Starters : starter[p].step = "dispatch" /\ starter[p].job = j
  \/ /\ jobs[j].status = "running"
     /\ \E w \in Workers :
          worker[w].job = j /\ worker[w].step # "start" /\ worker[w].status # "running"

Age(j) ==
  /\ jobs[j].status \in Aging /\ j \notin stale
  /\ ~KeptFresh(j)
  /\ stale' = stale \cup {j}
  /\ UNCHANGED <<jobs, results, inventory, queue, worker, starter, sweep, faults>>

\* receive_cookie_report: a visitor's browser reports a cookie first.
Report(s, c) ==
  /\ c \notin inventory[s]
  /\ inventory' = [inventory EXCEPT ![s] = @ \cup {c}]
  /\ UNCHANGED <<jobs, results, stale, queue, worker, starter, sweep, faults>>

-----------------------------------------------------------------------------
Start(p) == CreateJob(p) \/ Dispatch(p)

Work(w) ==
  \/ StartJob(w) \/ StoreResults(w) \/ CompleteJob(w) \/ SyncRead(w) \/ SyncWrite(w)
  \/ HttpError(w) \/ OtherError(w) \/ MarkFailed(w) \/ Acknowledge(w)

TakeAny(w) == \E j \in DOMAIN jobs, k \in 0..MaxRetries : Take(w, j, k)

Next ==
  \/ \E p \in Starters :
       Start(p) \/ \E s \in Sites, first \in BOOLEAN : ReadActive(p, s, first)
  \/ \E s \in Sites : SkipSite(s)
  \/ EndRound
  \/ \E w \in Workers : TakeAny(w) \/ Work(w) \/ Progress(w) \/ DatabaseDown(w) \/ Crash(w)
  \/ SweepRead \/ SweepWrite
  \/ \E j \in DOMAIN jobs : Age(j)
  \/ \E s \in Sites, c \in Cookies : Report(s, c)

Spec == Init /\ [][Next]_vars

\* Time passes, the beat fires every five minutes, and processes that run
\* keep running: crashes and refusals are bounded by MaxFaults.
Liveness ==
  /\ \A p \in Starters : WF_vars(Start(p))
  /\ \A w \in Workers : WF_vars(TakeAny(w)) /\ WF_vars(Work(w))
  /\ WF_vars(SweepRead) /\ WF_vars(SweepWrite)
  /\ \A j \in JobIds : WF_vars(j \in DOMAIN jobs /\ Age(j))
FairSpec == Spec /\ Liveness

-----------------------------------------------------------------------------
(* Properties.                                                             *)

\* Nothing of job j is left to do: no message, no worker.
Settled(j) ==
  /\ \A k \in 0..MaxRetries : queue[j][k] = 0
  /\ \A w \in Workers : worker[w].job # j

\* What a completed scan found is in the site's inventory once the scan has
\* come to rest, whatever crashed between its completion and the sync, and
\* whoever inserted the same cookies meanwhile.
CompletedIsSynced ==
  \A j \in DOMAIN jobs :
    jobs[j].status = "completed" /\ Settled(j)
      => results[j] \subseteq inventory[jobs[j].site]

\* docs/scanning.md: "A site only runs one scan at a time."
OneScanAtATime ==
  \A v, w \in Workers :
    /\ v # w /\ worker[v].step = "crawl" /\ worker[w].step = "crawl"
    => jobs[worker[v].job].site # jobs[worker[w].job].site

\* No scan hangs: a job that is pending or running ends, even when its
\* message was never sent or its worker died.
ScansEnd ==
  \A j \in JobIds :
    (j \in DOMAIN jobs /\ jobs[j].status \in Active)
      ~> (j \in DOMAIN jobs /\ jobs[j].status \notin Active)
=============================================================================
