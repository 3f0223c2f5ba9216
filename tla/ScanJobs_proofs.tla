-------------------------- MODULE ScanJobs_proofs --------------------------
(* The type invariant of ScanJobs, and that a completed scan ends up in the *)
(* inventory unless the database fails.                                     *)
EXTENDS ScanJobs, SequenceTheorems, TLAPS

-----------------------------------------------------------------------------
(* What the updates of the tables do.                                      *)

\* Job numbers are within the bound.
LEMMA JobsType ==
  ASSUME TypeOK
  PROVE  /\ DOMAIN jobs = 1..Len(jobs) /\ Len(jobs) \in Nat /\ DOMAIN jobs \subseteq JobIds
         /\ \A j \in DOMAIN jobs : jobs[j] \in Job
<1>1. jobs \in Seq(Job) /\ Len(jobs) <= MaxJobs
  BY DEF TypeOK
<1>2. DOMAIN jobs = 1..Len(jobs) /\ Len(jobs) \in Nat
  BY <1>1, LenProperties
<1>3. \A j \in DOMAIN jobs : jobs[j] \in Job
  BY <1>1, <1>2, ElementOfSeq
<1>. QED  BY <1>1, <1>2, <1>3, BoundsAssumption DEF JobIds

\* Failing jobs changes their status and nothing else.
LEMMA FailedIs ==
  ASSUME TypeOK, NEW set
  PROVE  LET table == Failed(jobs, set) IN
         /\ table \in Seq(Job) /\ Len(table) = Len(jobs) /\ DOMAIN table = DOMAIN jobs
         /\ \A j \in DOMAIN jobs :
              /\ table[j].site = jobs[j].site
              /\ table[j].status = IF j \in set THEN "failed" ELSE jobs[j].status
<1>. DEFINE table == Failed(jobs, set)
<1>1. DOMAIN jobs = 1..Len(jobs) /\ Len(jobs) \in Nat /\ \A j \in DOMAIN jobs : jobs[j] \in Job
  BY JobsType
<1>2. \A j \in DOMAIN jobs :
        table[j] = IF j \in set THEN [jobs[j] EXCEPT !.status = "failed"] ELSE jobs[j]
  BY DEF Failed
<1>3. \A j \in DOMAIN jobs :
        /\ table[j] \in Job /\ table[j].site = jobs[j].site
        /\ table[j].status = IF j \in set THEN "failed" ELSE jobs[j].status
  BY <1>1, <1>2 DEF Job, Statuses
<1>4. DOMAIN table = DOMAIN jobs
  BY DEF Failed
<1>5. table \in [1..Len(jobs) -> Job]
  <2>1. table = [j \in 1..Len(jobs) |-> table[j]]
    BY <1>1 DEF Failed
  <2>. QED  BY <1>1, <1>3, <2>1
<1>6. table \in Seq(Job)
  BY <1>1, <1>5, SeqDef
<1>7. Len(table) = Len(jobs)
  BY <1>1, <1>4, <1>6, LenProperties
<1>. QED  BY <1>3, <1>4, <1>6, <1>7

\* So does setting the status of one job, if there is such a job.
LEMMA StatusIs ==
  ASSUME TypeOK, NEW i, NEW new \in Statuses
  PROVE  LET table == [jobs EXCEPT ![i].status = new] IN
         /\ table \in Seq(Job) /\ Len(table) = Len(jobs) /\ DOMAIN table = DOMAIN jobs
         /\ \A j \in DOMAIN jobs :
              /\ table[j].site = jobs[j].site
              /\ table[j].status = IF j = i THEN new ELSE jobs[j].status
<1>. DEFINE table == [jobs EXCEPT ![i].status = new]
<1>1. DOMAIN jobs = 1..Len(jobs) /\ Len(jobs) \in Nat /\ \A j \in DOMAIN jobs : jobs[j] \in Job
  BY JobsType
<1>2. \A j \in DOMAIN jobs :
        /\ table[j] \in Job /\ table[j].site = jobs[j].site
        /\ table[j].status = IF j = i THEN new ELSE jobs[j].status
  BY <1>1 DEF Job
<1>3. DOMAIN table = DOMAIN jobs
  OBVIOUS
<1>4. table \in [1..Len(jobs) -> Job]
  <2>1. table = [j \in 1..Len(jobs) |-> table[j]]
    BY <1>1
  <2>. QED  BY <1>1, <1>2, <2>1
<1>5. table \in Seq(Job)
  BY <1>1, <1>4, SeqDef
<1>6. Len(table) = Len(jobs)
  BY <1>1, <1>3, <1>5, LenProperties
<1>. QED  BY <1>2, <1>3, <1>5, <1>6

\* A worker that goes to another step keeps its message.
LEMMA StepIs ==
  ASSUME TypeOK, NEW w \in Workers, NEW step \in Steps, Step(w, step)
  PROVE  /\ worker' \in [Workers -> Task]
         /\ worker'[w].step = step /\ worker'[w].job = worker[w].job
         /\ \A v \in Workers \ {w} : worker'[v] = worker[v]
<1>1. worker[w] \in Task
  BY DEF TypeOK
<1>2. [worker[w] EXCEPT !.step = step] \in Task
  BY <1>1 DEF Task
<1>3. worker' = [worker EXCEPT ![w] = [worker[w] EXCEPT !.step = step]]
  BY DEF Step, TypeOK
<1>. QED  BY <1>1, <1>2, <1>3 DEF TypeOK, Task

\* A message more is still a queue, whatever the job.
LEMMA SendIs ==
  ASSUME TypeOK, NEW j, NEW k \in 0..MaxRetries, Send(j, k)
  PROVE  /\ queue' \in [JobIds -> [0..MaxRetries -> Nat]]
         /\ \A i \in JobIds, l \in 0..MaxRetries : queue'[i][l] >= queue[i][l]
         /\ j \in JobIds => queue'[j][k] > 0
<1>0. \A i \in JobIds : queue[i] \in [0..MaxRetries -> Nat]
  BY DEF TypeOK
<1>1. /\ \A i \in JobIds : queue[i] \in [0..MaxRetries -> Nat]
      /\ \A i \in JobIds, l \in 0..MaxRetries : queue[i][l] \in Nat
  BY <1>0
<1>2. CASE j \in JobIds
  <2>. DEFINE n == queue[j][k] + 1
  <2>1. n \in Nat /\ n > 0
    BY <1>1, <1>2
  <2>2. queue' = [queue EXCEPT ![j] = [queue[j] EXCEPT ![k] = n]]
    BY DEF Send
  <2>. HIDE DEF n
  <2>3. [queue[j] EXCEPT ![k] = n] \in [0..MaxRetries -> Nat]
    BY <1>1, <1>2, <2>1
  <2>4. queue' \in [JobIds -> [0..MaxRetries -> Nat]]
    BY <2>2, <2>3 DEF TypeOK
  <2>5. /\ queue'[j][k] = n
        /\ \A i \in JobIds, l \in 0..MaxRetries : i # j \/ l # k => queue'[i][l] = queue[i][l]
    BY <1>1, <1>2, <2>2 DEF TypeOK
  <2>. QED  BY <1>1, <2>1, <2>4, <2>5 DEF n
<1>3. CASE j \notin JobIds
  <2>1. queue' = queue
    BY <1>3 DEF Send, TypeOK
  <2>. QED  BY <1>1, <1>3, <2>1 DEF TypeOK
<1>. QED  BY <1>2, <1>3

\* And so are the sweep's messages.
LEMMA WithMessagesIs ==
  ASSUME TypeOK, NEW set
  PROVE  LET new == WithMessages(set) IN
         /\ new \in [JobIds -> [0..MaxRetries -> Nat]]
         /\ \A i \in JobIds, l \in 0..MaxRetries : new[i][l] >= queue[i][l]
<1>. DEFINE more(i) == [queue[i] EXCEPT ![0] = IF i \in set THEN @ + 1 ELSE @]
<1>1. \A i \in JobIds : queue[i] \in [0..MaxRetries -> Nat]
  BY DEF TypeOK
<1>2. \A i \in JobIds :
        /\ more(i) \in [0..MaxRetries -> Nat]
        /\ \A l \in 0..MaxRetries : more(i)[l] >= queue[i][l]
  BY <1>1, BoundsAssumption
<1>3. WithMessages(set) = [i \in JobIds |-> more(i)]
  BY DEF WithMessages
<1>. HIDE DEF more
<1>. QED  BY <1>2, <1>3

-----------------------------------------------------------------------------
(* Types.                                                                  *)

\* A worker that holds a message works on a job.
TaskInv == \A w \in Workers : worker[w].step # "idle" => worker[w].job \in JobIds

\* The types hold initially.
LEMMA InitTyped == Init => TypeOK /\ TaskInv
<1>1. (CHOOSE s \in Sites : TRUE) \in Sites
  BY SitesAssumption
<1>2. Idle \in Task
  BY BoundsAssumption DEF Idle, Task, Steps, Statuses
<1>3. AtRest \in Call
  BY <1>1, BoundsAssumption DEF AtRest, Call
<1>. QED
  BY <1>2, <1>3, EmptySeq, BoundsAssumption DEF Init, TypeOK, TaskInv, Idle, Asleep

\* A fault is counted.
LEMMA FaultIs == ASSUME TypeOK, Fault PROVE faults' \in 0..MaxFaults
BY BoundsAssumption DEF Fault, TypeOK

\* Every step of a starter keeps the types.
LEMMA StarterTyped ==
  ASSUME TypeOK, NEW p \in Starters,
         \/ Start(p)
         \/ \E s \in Sites, first \in BOOLEAN : ReadActive(p, s, first)
  PROVE  TypeOK'
<1>1. /\ starter[p] \in Call /\ DOMAIN jobs \subseteq JobIds /\ Len(jobs) \in Nat
      /\ DOMAIN jobs = 1..Len(jobs)
  BY JobsType DEF TypeOK
<1>2. AtRest \in Call
  BY SitesAssumption, BoundsAssumption DEF AtRest, Call
<1>3. ASSUME NEW s \in Sites, NEW first \in BOOLEAN, ReadActive(p, s, first)
      PROVE  TypeOK'
  <2>. DEFINE q == [starter[p] EXCEPT !.step = "create", !.site = s, !.first = first,
                                      !.failing = @ \cup ActiveJobs(s)]
  <2>1. ActiveJobs(s) \subseteq JobIds
    BY <1>1 DEF ActiveJobs
  <2>2. q \in Call
    BY <1>1, <2>1 DEF Call
  <2>3. starter' = [starter EXCEPT ![p] = q]
    BY <1>3 DEF ReadActive, TypeOK
  <2>4. starter' \in [Starters -> Call]
    BY <2>2, <2>3 DEF TypeOK
  <2>. QED  BY <1>3, <2>4 DEF ReadActive, TypeOK
<1>4. ASSUME CreateJob(p)
      PROVE  TypeOK'
  <2>. DEFINE r == starter[p]
              new == [site |-> r.site, status |-> "pending"]
  <2>1. CASE Len(jobs) < MaxJobs
    <3>. DEFINE q == [r EXCEPT !.step = "dispatch", !.job = Len(jobs) + 1, !.failing = {}]
                table == Failed(jobs, r.failing)
    <3>1. new \in Job
      BY <1>1 DEF Job, Call, Statuses
    <3>2. table \in Seq(Job) /\ Len(table) = Len(jobs) /\ DOMAIN table = DOMAIN jobs
      BY FailedIs
    <3>3. jobs' = Append(table, new)
      BY <1>4, <2>1 DEF CreateJob
    <3>. HIDE DEF table, new
    <3>4. jobs' \in Seq(Job) /\ Len(jobs') = Len(jobs) + 1
      BY <3>1, <3>2, <3>3, AppendProperties
    <3>5. DOMAIN jobs' = 1..Len(jobs) + 1
      BY <3>4, LenProperties
    <3>6. q \in Call
      <4>1. Len(jobs) + 1 \in 0..MaxJobs
        BY <1>1, <2>1, BoundsAssumption
      <4>. QED  BY <1>1, <4>1 DEF Call
    <3>7. starter' = [starter EXCEPT ![p] = q]
      BY <1>4, <2>1 DEF CreateJob, TypeOK
    <3>8. starter' \in [Starters -> Call]
      BY <3>6, <3>7 DEF TypeOK
    <3>9. stale' \subseteq DOMAIN jobs'
      BY <1>1, <1>4, <2>1, <3>5 DEF CreateJob, TypeOK
    <3>10. Len(jobs') <= MaxJobs
      BY <1>1, <2>1, <3>4, BoundsAssumption
    <3>. QED  BY <1>4, <3>4, <3>8, <3>9, <3>10 DEF CreateJob, TypeOK
  <2>2. CASE ~(Len(jobs) < MaxJobs)
    BY <1>2, <1>4, <2>2 DEF CreateJob, TypeOK
  <2>. QED  BY <2>1, <2>2
<1>5. ASSUME Dispatch(p)
      PROVE  TypeOK'
  <2>. DEFINE j == starter[p].job
  <2>1. 0 \in 0..MaxRetries
    BY BoundsAssumption
  <2>2. queue' \in [JobIds -> [0..MaxRetries -> Nat]]
    BY <1>5, <2>1, SendIs DEF Dispatch, TypeOK
  <2>3. faults' \in 0..MaxFaults
    BY <1>5, FaultIs DEF Dispatch, TypeOK
  <2>4. jobs' \in Seq(Job) /\ Len(jobs') <= MaxJobs /\ stale' \subseteq DOMAIN jobs'
    <3>1. CASE jobs' = Failed(jobs, {j}) /\ stale' = stale \ {j}
      BY <3>1, FailedIs DEF TypeOK
    <3>2. CASE UNCHANGED <<jobs, stale>>
      BY <3>2 DEF TypeOK
    <3>. QED  BY <1>5, <3>1, <3>2 DEF Dispatch
  <2>. QED  BY <1>2, <1>5, <2>2, <2>3, <2>4 DEF Dispatch, TypeOK
<1>. QED  BY <1>3, <1>4, <1>5 DEF Start

\* Every step of a worker keeps the types.
LEMMA WorkerTyped ==
  ASSUME TypeOK, TaskInv, NEW w \in Workers, TakeAny(w) \/ Work(w) \/ DatabaseDown(w) \/ Crash(w)
  PROVE  TypeOK'
<1>1. /\ worker[w] \in Task /\ DOMAIN jobs \subseteq JobIds
      /\ \A j \in DOMAIN jobs : jobs[j] \in Job
  BY JobsType DEF TypeOK
<1>2. Idle \in Task
  BY BoundsAssumption DEF Idle, Task, Steps, Statuses
<1>3. ASSUME NEW j \in DOMAIN jobs, NEW k \in 0..MaxRetries, Take(w, j, k)
      PROVE  TypeOK'
  <2>. DEFINE t == [Idle EXCEPT !.step = "start", !.job = j, !.retry = k, !.status = jobs[j].status]
              n == queue[j][k] - 1
  <2>1. t \in Task
    <3>1. j \in 0..MaxJobs /\ jobs[j].status \in Statuses
      BY <1>1, BoundsAssumption DEF Job, JobIds
    <3>. QED  BY <1>2, <3>1 DEF Task, Steps
  <2>2. queue[j] \in [0..MaxRetries -> Nat] /\ n \in Nat
    <3>1. queue[j] \in [0..MaxRetries -> Nat]
      BY <1>1 DEF TypeOK
    <3>2. queue[j][k] \in Nat /\ queue[j][k] > 0
      BY <1>3, <3>1 DEF Take
    <3>. QED  BY <3>1, <3>2
  <2>3. queue' = [queue EXCEPT ![j] = [queue[j] EXCEPT ![k] = n]]
    BY <1>3 DEF Take
  <2>. HIDE DEF n
  <2>4. [queue[j] EXCEPT ![k] = n] \in [0..MaxRetries -> Nat]
    BY <2>2
  <2>5. queue' \in [JobIds -> [0..MaxRetries -> Nat]]
    BY <1>1, <2>3, <2>4 DEF TypeOK
  <2>. QED  BY <1>3, <2>1, <2>5 DEF Take, TypeOK
<1>4. ASSUME StartJob(w)
      PROVE  TypeOK'
  <2>1. jobs' \in Seq(Job) /\ Len(jobs') <= MaxJobs /\ stale' \subseteq DOMAIN jobs'
    <3>1. CASE UNCHANGED <<jobs, stale>>
      BY <3>1 DEF TypeOK
    <3>2. CASE /\ jobs' = [jobs EXCEPT ![worker[w].job].status = "running"]
               /\ stale' = stale \ {worker[w].job}
      BY <3>2, StatusIs DEF TypeOK, Statuses
    <3>. QED  BY <1>4, <3>1, <3>2 DEF StartJob
  <2>2. worker' \in [Workers -> Task]
    BY <1>4, StepIs DEF StartJob, Steps
  <2>. QED  BY <1>4, <2>1, <2>2 DEF StartJob, TypeOK
<1>5. ASSUME StoreResults(w)
      PROVE  TypeOK'
  <2>1. worker' \in [Workers -> Task]
    BY <1>5, StepIs DEF StoreResults, Steps
  <2>2. results' \in [JobIds -> SUBSET Cookies]
    BY <1>5 DEF StoreResults, TypeOK
  <2>. QED  BY <1>5, <2>1, <2>2 DEF StoreResults, TypeOK
<1>6. ASSUME CompleteJob(w)
      PROVE  TypeOK'
  <2>1. jobs' \in Seq(Job) /\ Len(jobs') <= MaxJobs /\ stale' \subseteq DOMAIN jobs'
    BY <1>6, StatusIs DEF CompleteJob, TypeOK, Statuses
  <2>2. worker' \in [Workers -> Task]
    BY <1>6, StepIs DEF CompleteJob, Steps
  <2>. QED  BY <1>6, <2>1, <2>2 DEF CompleteJob, TypeOK
<1>7. ASSUME SyncRead(w)
      PROVE  TypeOK'
  <2>. DEFINE new == results[worker[w].job] \ inventory[jobs[worker[w].job].site]
              t == [worker[w] EXCEPT !.step = "insert", !.new = new]
  <2>1. new \in SUBSET Cookies
    BY <1>7 DEF SyncRead, TaskInv, TypeOK
  <2>2. t \in Task
    BY <1>1, <2>1 DEF Task, Steps
  <2>3. worker' = [worker EXCEPT ![w] = t]
    BY <1>7 DEF SyncRead, TypeOK
  <2>. QED  BY <1>7, <2>2, <2>3 DEF SyncRead, TypeOK
<1>8. ASSUME SyncWrite(w)
      PROVE  TypeOK'
  <2>1. worker' \in [Workers -> Task]
    BY <1>8, StepIs DEF SyncWrite, Steps, AfterConflict
  <2>2. inventory' \in [Sites -> SUBSET Cookies]
    BY <1>1, <1>8 DEF SyncWrite, TypeOK, Task
  <2>. QED  BY <1>8, <2>1, <2>2 DEF SyncWrite, TypeOK
<1>9. ASSUME HttpError(w)
      PROVE  TypeOK'
  <2>. DEFINE r == worker[w]
  <2>1. r.retry \in 0..MaxRetries /\ (r.retry < MaxRetries => r.retry + 1 \in 0..MaxRetries)
    BY <1>1, BoundsAssumption DEF Task
  <2>2. worker' \in [Workers -> Task]
    BY <1>9, StepIs DEF HttpError, Steps
  <2>3. queue' \in [JobIds -> [0..MaxRetries -> Nat]]
    BY <1>9, <2>1, SendIs DEF HttpError, TypeOK
  <2>4. jobs' \in Seq(Job) /\ Len(jobs') <= MaxJobs /\ stale' \subseteq DOMAIN jobs'
    <3>1. CASE jobs' = Failed(jobs, {r.job}) /\ stale' = stale \ {r.job}
      BY <3>1, FailedIs DEF TypeOK
    <3>2. CASE UNCHANGED <<jobs, stale>>
      BY <3>2 DEF TypeOK
    <3>. QED  BY <1>9, <3>1, <3>2 DEF HttpError
  <2>5. faults' \in 0..MaxFaults
    BY <1>9, FaultIs DEF HttpError, TypeOK
  <2>. QED  BY <1>9, <2>2, <2>3, <2>4, <2>5 DEF HttpError, TypeOK
<1>10. ASSUME OtherError(w)
       PROVE  TypeOK'
  BY <1>10, StepIs DEF OtherError, Steps, TypeOK
<1>11. ASSUME MarkFailed(w)
       PROVE  TypeOK'
  <2>1. jobs' \in Seq(Job) /\ Len(jobs') <= MaxJobs /\ stale' \subseteq DOMAIN jobs'
    BY <1>11, FailedIs DEF MarkFailed, TypeOK
  <2>2. worker' \in [Workers -> Task]
    BY <1>11, StepIs DEF MarkFailed, Steps
  <2>. QED  BY <1>11, <2>1, <2>2 DEF MarkFailed, TypeOK
<1>12. ASSUME DatabaseDown(w)
       PROVE  TypeOK'
  BY <1>12, StepIs, FaultIs DEF DatabaseDown, Steps, TypeOK
<1>13. ASSUME Acknowledge(w)
       PROVE  TypeOK'
  BY <1>2, <1>13 DEF Acknowledge, TypeOK
<1>14. ASSUME Crash(w)
       PROVE  TypeOK'
  <2>1. queue' \in [JobIds -> [0..MaxRetries -> Nat]]
    BY <1>1, <1>14, SendIs DEF Crash, Redeliver, Task
  <2>2. faults' \in 0..MaxFaults
    BY <1>14, FaultIs DEF Crash
  <2>. QED  BY <1>2, <1>14, <2>1, <2>2 DEF Crash, TypeOK
<1>. QED
  BY <1>3, <1>4, <1>5, <1>6, <1>7, <1>8, <1>9, <1>10, <1>11, <1>12, <1>13, <1>14
  DEF TakeAny, Work

\* No step leaves a worker with a message for no job.
LEMMA TaskKept ==
  ASSUME TypeOK, TaskInv, [Next]_vars
  PROVE  TaskInv'
<1>1. ASSUME NEW w \in Workers, NEW step \in Steps, Step(w, step), worker[w].step # "idle"
      PROVE  TaskInv'
  BY <1>1, StepIs DEF TaskInv
<1>2. ASSUME NEW w \in Workers, worker' = [worker EXCEPT ![w] = Idle]
      PROVE  TaskInv'
  BY <1>2 DEF TaskInv, TypeOK, Idle
<1>3. ASSUME NEW w \in Workers, TakeAny(w)
      PROVE  TaskInv'
  <2>1. PICK j \in DOMAIN jobs, k \in 0..MaxRetries : Take(w, j, k)
    BY <1>3 DEF TakeAny
  <2>2. j \in JobIds
    BY JobsType
  <2>3. worker'[w].job = j /\ \A v \in Workers \ {w} : worker'[v] = worker[v]
    BY <2>1 DEF Take, TypeOK, Idle
  <2>. QED  BY <2>2, <2>3 DEF TaskInv
<1>4. ASSUME NEW w \in Workers, SyncRead(w)
      PROVE  TaskInv'
  <2>1. worker'[w].job = worker[w].job /\ \A v \in Workers \ {w} : worker'[v] = worker[v]
    BY <1>4 DEF SyncRead, TypeOK, Task
  <2>. QED  BY <1>4, <2>1 DEF SyncRead, TaskInv
<1>5. ASSUME NEW w \in Workers, Work(w) \/ DatabaseDown(w) \/ Crash(w)
      PROVE  TaskInv'
  BY <1>1, <1>2, <1>4, <1>5
  DEF Work, StartJob, StoreResults, CompleteJob, SyncWrite, AfterConflict, HttpError,
      OtherError, MarkFailed, Acknowledge, DatabaseDown, Crash, Steps
<1>6. ASSUME UNCHANGED worker
      PROVE  TaskInv'
  BY <1>6 DEF TaskInv
<1>. QED
  BY <1>3, <1>5, <1>6
  DEF Next, Start, ReadActive, SkipSite, EndRound, CreateJob, Dispatch, Progress,
      SweepRead, SweepWrite, Age, Report, vars

\* The other steps keep the types too.
LEMMA NextTyped ==
  ASSUME TypeOK, TaskInv, [Next]_vars
  PROVE  TypeOK'
<1>0. DOMAIN jobs \subseteq JobIds
  BY JobsType
<1>1. ASSUME NEW s \in Sites, SkipSite(s)
      PROVE  TypeOK'
  <2>1. PICK some \in SUBSET (ActiveJobs(s) \cap stale) :
          starter' = [starter EXCEPT ![Scheduler].failing = @ \cup some]
    BY <1>1 DEF SkipSite
  <2>2. some \subseteq JobIds
    BY <1>0, <2>1 DEF ActiveJobs
  <2>3. [starter[Scheduler] EXCEPT !.failing = @ \cup some] \in Call
    BY <2>2 DEF TypeOK, Starters, Call
  <2>4. starter' \in [Starters -> Call]
    BY <2>1, <2>3 DEF TypeOK
  <2>. QED  BY <1>1, <2>4 DEF SkipSite, TypeOK
<1>2. ASSUME EndRound
      PROVE  TypeOK'
  <2>1. [starter[Scheduler] EXCEPT !.failing = {}] \in Call
    BY DEF TypeOK, Starters, Call
  <2>2. starter' = [starter EXCEPT ![Scheduler] = [starter[Scheduler] EXCEPT !.failing = {}]]
    BY <1>2 DEF EndRound, TypeOK
  <2>3. starter' \in [Starters -> Call]
    BY <2>1, <2>2 DEF TypeOK
  <2>. QED  BY <1>2, <2>3 DEF EndRound, TypeOK
<1>3. ASSUME NEW w \in Workers, Progress(w)
      PROVE  TypeOK'
  BY <1>3 DEF Progress, TypeOK
<1>4. ASSUME SweepRead
      PROVE  TypeOK'
  <2>1. stale \subseteq JobIds
    BY <1>0 DEF TypeOK
  <2>. QED  BY <1>4, <2>1 DEF SweepRead, TypeOK
<1>5. ASSUME SweepWrite
      PROVE  TypeOK'
  <2>1. queue' \in [JobIds -> [0..MaxRetries -> Nat]]
    BY <1>5, WithMessagesIs DEF SweepWrite
  <2>2. jobs' \in Seq(Job) /\ Len(jobs') <= MaxJobs /\ stale' \subseteq DOMAIN jobs'
    <3>1. CASE jobs' = Failed(jobs, sweep.running) /\ stale' = stale \ sweep.running
      BY <3>1, FailedIs DEF TypeOK
    <3>2. CASE UNCHANGED <<jobs, stale>>
      BY <3>2 DEF TypeOK
    <3>. QED  BY <1>5, <3>1, <3>2 DEF SweepWrite
  <2>3. faults' \in 0..MaxFaults
    BY <1>5, FaultIs DEF SweepWrite, TypeOK
  <2>4. sweep' \in [step: {"idle", "recover"}, pending: SUBSET JobIds, running: SUBSET JobIds]
    BY <1>5 DEF SweepWrite, Asleep
  <2>. QED  BY <1>5, <2>1, <2>2, <2>3, <2>4 DEF SweepWrite, TypeOK
<1>6. ASSUME NEW j \in DOMAIN jobs, Age(j)
      PROVE  TypeOK'
  BY <1>6 DEF Age, TypeOK
<1>7. ASSUME NEW s \in Sites, NEW c \in Cookies, Report(s, c)
      PROVE  TypeOK'
  <2>1. inventory' \in [Sites -> SUBSET Cookies]
    BY <1>7 DEF Report, TypeOK
  <2>. QED  BY <1>7, <2>1 DEF Report, TypeOK
<1>8. CASE UNCHANGED vars
  BY <1>8 DEF vars, TypeOK
<1>. QED
  BY <1>1, <1>2, <1>3, <1>4, <1>5, <1>6, <1>7, <1>8, StarterTyped, WorkerTyped DEF Next

\* Whatever crashes, gets lost or comes late, the state has its type.
THEOREM TypeCorrect == Spec => []TypeOK
BY InitTyped, TaskKept, NextTyped, PTL DEF Spec

-----------------------------------------------------------------------------
(* A completed scan is synced.                                             *)

Synced(j) == results[j] \subseteq inventory[jobs[j].site]

Pending(j) == \E k \in 0..MaxRetries : queue[j][k] > 0

\* What w still does with job j syncs it, or takes "completed" back.
Owes(w, j) ==
  /\ worker[w].job = j
  /\ \/ worker[w].step \in {"complete", "sync", "fail"}
     \/ worker[w].step = "start" /\ worker[w].status # "running"
     \/ /\ worker[w].step = "insert"
        /\ results[j] \subseteq inventory[jobs[j].site] \cup worker[w].new

Owed(j) == Pending(j) \/ \E w \in Workers : Owes(w, j)

\* A completed job that is not synced yet is still owed its sync.
Safe(j) == jobs[j].status = "completed" => Synced(j) \/ Owed(j)

SyncInv == \A j \in DOMAIN jobs : Safe(j)

\* A job whose debts a step keeps stays safe.
LEMMA SafeKept ==
  ASSUME NEW j \in DOMAIN jobs, Safe(j),
         jobs'[j].site = jobs[j].site,
         jobs'[j].status = "completed" =>
           /\ jobs[j].status = "completed"
           /\ results'[j] = results[j]
           /\ inventory[jobs[j].site] \subseteq inventory'[jobs[j].site]
           /\ Owed(j) => Owed(j)'
  PROVE  Safe(j)'
BY DEF Safe, Synced

\* Where a queue grows, what is pending stays so.
LEMMA MoreIsPending ==
  ASSUME TypeOK, queue' \in [JobIds -> [0..MaxRetries -> Nat]], NEW j \in JobIds, Pending(j),
         \A l \in 0..MaxRetries : queue'[j][l] >= queue[j][l]
  PROVE  Pending(j)'
<1>1. queue[j] \in [0..MaxRetries -> Nat] /\ queue'[j] \in [0..MaxRetries -> Nat]
  BY DEF TypeOK
<1>2. PICK l \in 0..MaxRetries : queue[j][l] > 0
  BY DEF Pending
<1>3. queue[j][l] \in Nat /\ queue'[j][l] \in Nat
  BY <1>1
<1>. QED  BY <1>2, <1>3 DEF Pending

\* A step that touches no worker and no result keeps all debts.
LEMMA QueueKept ==
  ASSUME SyncInv, UNCHANGED <<worker, results>>, DOMAIN jobs' = DOMAIN jobs,
         \A s \in Sites : inventory[s] \subseteq inventory'[s],
         \A j \in DOMAIN jobs :
           /\ jobs[j].site \in Sites /\ jobs'[j].site = jobs[j].site
           /\ jobs'[j].status = "completed" => jobs[j].status = "completed"
           /\ Pending(j) => Pending(j)'
  PROVE  SyncInv'
<1>. SUFFICES ASSUME NEW j \in DOMAIN jobs
              PROVE  Safe(j)'
  BY DEF SyncInv
<1>1. Owed(j) => Owed(j)'
  BY DEF Owed, Owes
<1>. QED  BY <1>1, SafeKept DEF SyncInv

\* Of a worker's step only its own job and its own debt need a look.
LEMMA WorkerKept ==
  ASSUME TypeOK, SyncInv, NEW w \in Workers, DOMAIN jobs' = DOMAIN jobs,
         \A v \in Workers \ {w} : worker'[v] = worker[v],
         worker'[w].step = "idle" \/ worker'[w].job = worker[w].job,
         \A s \in Sites : inventory[s] \subseteq inventory'[s],
         \A j \in DOMAIN jobs :
           /\ jobs'[j].site = jobs[j].site
           /\ Pending(j) => Pending(j)'
           /\ j # worker[w].job =>
                jobs'[j].status = jobs[j].status /\ results'[j] = results[j]
           /\ j = worker[w].job => Safe(j)'
  PROVE  SyncInv'
<1>. SUFFICES ASSUME NEW j \in DOMAIN jobs, j # worker[w].job
              PROVE  Safe(j)'
  BY DEF SyncInv
<1>1. jobs[j].site \in Sites
  BY JobsType DEF Job
<1>2. \A v \in Workers \ {w} : Owes(v, j) => Owes(v, j)'
  BY <1>1 DEF Owes
<1>3. Owed(j) => Owed(j)'
  BY <1>2 DEF Owed, Owes
<1>. QED  BY <1>1, <1>3, SafeKept DEF SyncInv

\* No job, no debt.
LEMMA InitSynced == Init => SyncInv
BY EmptySeq DEF Init, SyncInv

\* Every step of a starter, of the sweep, of time and of visitors.
LEMMA OthersSynced ==
  ASSUME TypeOK, SyncInv,
         \/ \E p \in Starters :
              Start(p) \/ \E s \in Sites, first \in BOOLEAN : ReadActive(p, s, first)
         \/ \E s \in Sites : SkipSite(s)
         \/ EndRound \/ SweepRead \/ SweepWrite
         \/ \E w \in Workers : Progress(w)
         \/ \E j \in DOMAIN jobs : Age(j)
         \/ \E s \in Sites, c \in Cookies : Report(s, c)
         \/ UNCHANGED vars
  PROVE  SyncInv'
<1>1. \A j \in DOMAIN jobs : jobs[j].site \in Sites /\ j \in JobIds
  BY JobsType DEF Job
<1>2. CASE UNCHANGED <<jobs, results, inventory, queue, worker>>
  BY <1>1, <1>2, QueueKept DEF Pending
<1>3. ASSUME NEW s \in Sites, NEW c \in Cookies, Report(s, c)
      PROVE  SyncInv'
  <2>1. \A t \in Sites : inventory[t] \subseteq inventory'[t]
    BY <1>3 DEF Report, TypeOK
  <2>. QED  BY <1>1, <1>3, <2>1, QueueKept DEF Report, Pending
<1>4. ASSUME NEW p \in Starters, CreateJob(p)
      PROVE  SyncInv'
  <2>1. CASE ~(Len(jobs) < MaxJobs)
    BY <1>2, <1>4, <2>1 DEF CreateJob
  <2>2. CASE Len(jobs) < MaxJobs
    <3>. DEFINE new == [site |-> starter[p].site, status |-> "pending"]
                table == Failed(jobs, starter[p].failing)
    <3>1. new \in Job /\ new.status # "completed"
      BY DEF TypeOK, Call, Job, Statuses
    <3>2. /\ table \in Seq(Job) /\ Len(table) = Len(jobs) /\ DOMAIN table = DOMAIN jobs
          /\ \A j \in DOMAIN jobs :
               /\ table[j].site = jobs[j].site
               /\ table[j].status = "completed" => jobs[j].status = "completed"
      BY FailedIs
    <3>3. jobs' = Append(table, new)
      BY <1>4, <2>2 DEF CreateJob
    <3>. HIDE DEF table, new
    <3>4. /\ DOMAIN jobs = 1..Len(jobs) /\ DOMAIN jobs' = 1..Len(jobs) + 1
          /\ \A j \in DOMAIN jobs : jobs'[j] = table[j]
          /\ jobs'[Len(jobs) + 1] = new /\ Len(jobs) \in Nat
      BY <3>1, <3>2, <3>3, AppendProperties, LenProperties
    <3>5. ASSUME NEW j, j = Len(jobs) + 1
          PROVE  Safe(j)'
      BY <3>1, <3>4, <3>5 DEF Safe
    <3>6. ASSUME NEW j \in DOMAIN jobs
          PROVE  Safe(j)'
      <4>1. jobs'[j].site = jobs[j].site
        BY <3>2, <3>4
      <4>2. Owed(j) => Owed(j)'
        BY <1>4, <4>1 DEF CreateJob, Owed, Owes, Pending
      <4>. QED  BY <1>4, <3>2, <3>4, <4>1, <4>2, SafeKept DEF CreateJob, SyncInv
    <3>7. \A j \in DOMAIN jobs' : j \in DOMAIN jobs \/ j = Len(jobs) + 1
      BY <3>4
    <3>. QED  BY <3>5, <3>6, <3>7 DEF SyncInv
  <2>. QED  BY <2>1, <2>2
<1>5. ASSUME NEW p \in Starters, Dispatch(p)
      PROVE  SyncInv'
  <2>1. 0 \in 0..MaxRetries
    BY BoundsAssumption
  <2>2. \A j \in DOMAIN jobs : Pending(j) => Pending(j)'
    <3>1. CASE Send(starter[p].job, 0)
      BY <1>1, <2>1, <3>1, SendIs, MoreIsPending
    <3>2. CASE UNCHANGED queue
      BY <3>2 DEF Pending
    <3>. QED  BY <1>5, <3>1, <3>2 DEF Dispatch
  <2>3. /\ DOMAIN jobs' = DOMAIN jobs
        /\ \A j \in DOMAIN jobs :
             /\ jobs'[j].site = jobs[j].site
             /\ jobs'[j].status = "completed" => jobs[j].status = "completed"
    BY <1>5, FailedIs DEF Dispatch
  <2>. QED  BY <1>1, <1>5, <2>2, <2>3, QueueKept DEF Dispatch
<1>6. ASSUME SweepWrite
      PROVE  SyncInv'
  <2>1. \A j \in DOMAIN jobs : Pending(j) => Pending(j)'
    <3>1. PICK set : queue' = WithMessages(set)
      BY <1>6 DEF SweepWrite
    <3>. QED  BY <1>1, <3>1, WithMessagesIs, MoreIsPending
  <2>2. /\ DOMAIN jobs' = DOMAIN jobs
        /\ \A j \in DOMAIN jobs :
             /\ jobs'[j].site = jobs[j].site
             /\ jobs'[j].status = "completed" => jobs[j].status = "completed"
    BY <1>6, FailedIs DEF SweepWrite
  <2>. QED  BY <1>1, <1>6, <2>1, <2>2, QueueKept DEF SweepWrite
<1>. QED
  BY <1>2, <1>3, <1>4, <1>5, <1>6
  DEF Start, ReadActive, SkipSite, EndRound, SweepRead, Progress, Age, vars

\* Every step of a worker, while the database answers.
LEMMA WorkersSynced ==
  ASSUME TypeOK, TaskInv, SyncInv, Outages = FALSE, NEW w \in Workers,
         TakeAny(w) \/ Work(w) \/ DatabaseDown(w) \/ Crash(w)
  PROVE  SyncInv'
<1>. DEFINE i == worker[w].job
<1>0. /\ \A j \in DOMAIN jobs : jobs[j].site \in Sites /\ j \in JobIds
      /\ worker[w].step # "idle" => i \in JobIds
      /\ worker[w] \in Task /\ worker \in [Workers -> Task]
  BY JobsType DEF Job, TaskInv, TypeOK
<1>1. ASSUME NEW step \in Steps, Step(w, step)
      PROVE  /\ worker'[w].step = step /\ worker'[w].job = i
             /\ \A v \in Workers \ {w} : worker'[v] = worker[v]
  BY <1>1, StepIs
<1>2. ASSUME UNCHANGED <<results, inventory>>, Step(w, "ack") \/ Step(w, "fail"),
             UNCHANGED queue \/ \E k \in 0..MaxRetries : Send(i, k),
             jobs' = Failed(jobs, {i})
      PROVE  SyncInv'
  <2>1. \A j \in DOMAIN jobs : Pending(j) => Pending(j)'
    BY <1>0, <1>2, SendIs, MoreIsPending DEF Pending
  <2>2. /\ DOMAIN jobs' = DOMAIN jobs
        /\ \A j \in DOMAIN jobs :
             /\ jobs'[j].site = jobs[j].site
             /\ jobs'[j].status = IF j = i THEN "failed" ELSE jobs[j].status
    BY <1>2, FailedIs
  <2>3. \A j \in DOMAIN jobs : j = i => Safe(j)'
    BY <2>2 DEF Safe
  <2>4. worker'[w].job = i /\ \A v \in Workers \ {w} : worker'[v] = worker[v]
    BY <1>1, <1>2 DEF Steps
  <2>. QED  BY <1>2, <2>1, <2>2, <2>3, <2>4, WorkerKept
<1>3. ASSUME UNCHANGED <<jobs, results, inventory>>,
             \A v \in Workers \ {w} : worker'[v] = worker[v],
             \A j \in DOMAIN jobs :
               /\ Pending(j) => Pending(j)' \/ Owes(w, j)'
               /\ Owes(w, j) => Owed(j)'
      PROVE  SyncInv'
  <2>1. \A v \in Workers \ {w} : \A j \in DOMAIN jobs : Owes(v, j) => Owes(v, j)'
    BY <1>3 DEF Owes
  <2>2. \A j \in DOMAIN jobs : Owed(j) => Owed(j)'
    BY <1>3, <2>1 DEF Owed
  <2>. QED  BY <1>3, <2>2, SafeKept DEF SyncInv
<1>4. ASSUME NEW k \in 0..MaxRetries, Send(i, k), NEW j \in DOMAIN jobs
      PROVE  (j = i => Pending(j)') /\ (Pending(j) => Pending(j)')
  <2>1. j \in JobIds /\ (j = i => queue'[j][k] > 0)
    BY <1>0, <1>4, SendIs
  <2>. QED  BY <1>4, <2>1, SendIs, MoreIsPending DEF Pending
<1>5. CASE TakeAny(w)
  <2>1. PICK j \in DOMAIN jobs, k \in 0..MaxRetries : Take(w, j, k)
    BY <1>5 DEF TakeAny
  <2>2. /\ worker'[w].step = "start" /\ worker'[w].job = j /\ worker'[w].status = jobs[j].status
        /\ \A v \in Workers \ {w} : worker'[v] = worker[v]
    BY <1>0, <2>1 DEF Take, Idle
  <2>3. \A h \in DOMAIN jobs : h # j => queue'[h] = queue[h]
    BY <1>0, <2>1 DEF Take, TypeOK
  <2>4. ASSUME NEW h \in DOMAIN jobs, Owed(h), h # j
        PROVE  Owed(h)'
    <3>1. Pending(h) => Pending(h)'
      BY <2>3, <2>4 DEF Pending
    <3>2. ~Owes(w, h)
      BY <2>1 DEF Take, Owes
    <3>3. \A v \in Workers \ {w} : Owes(v, h) => Owes(v, h)'
      BY <2>1, <2>2 DEF Take, Owes
    <3>. QED  BY <2>4, <3>1, <3>2, <3>3 DEF Owed
  <2>5. jobs[j].status = "completed" => Owes(w, j)'
    BY <2>2 DEF Owes
  <2>6. ASSUME NEW h \in DOMAIN jobs, jobs[h].status = "completed"
        PROVE  Owed(h) => Owed(h)'
    BY <2>4, <2>5, <2>6 DEF Owed
  <2>7. UNCHANGED <<jobs, results, inventory>>
    BY <2>1 DEF Take
  <2>. QED  BY <2>6, <2>7, SafeKept DEF SyncInv
<1>6. CASE StartJob(w)
  <2>1. worker'[w].step = "crawl" /\ worker'[w].job = i /\ \A v \in Workers \ {w} : worker'[v] = worker[v]
    BY <1>1, <1>6 DEF StartJob, Steps
  <2>2. CASE worker[w].status = "running"
    <3>1. \A j : ~Owes(w, j)
      BY <1>6, <2>2 DEF StartJob, Owes
    <3>. QED  BY <1>3, <1>6, <2>1, <2>2, <3>1 DEF StartJob, Pending
  <2>3. CASE worker[w].status # "running"
    <3>0. jobs' = [jobs EXCEPT ![i].status = "running"]
      BY <1>6, <2>3 DEF StartJob
    <3>1. /\ DOMAIN jobs' = DOMAIN jobs
          /\ \A j \in DOMAIN jobs :
               /\ jobs'[j].site = jobs[j].site
               /\ jobs'[j].status = IF j = i THEN "running" ELSE jobs[j].status
      BY <3>0, StatusIs DEF Statuses
    <3>2. \A j \in DOMAIN jobs : j = i => Safe(j)'
      BY <3>1 DEF Safe
    <3>. QED  BY <1>6, <2>1, <3>1, <3>2, WorkerKept DEF StartJob, Pending
  <2>. QED  BY <2>2, <2>3
<1>7. CASE StoreResults(w)
  <2>1. worker'[w].step = "complete" /\ worker'[w].job = i /\ \A v \in Workers \ {w} : worker'[v] = worker[v]
    BY <1>1, <1>7 DEF StoreResults, Steps
  <2>2. \A j \in DOMAIN jobs : j # i => results'[j] = results[j]
    BY <1>0, <1>7 DEF StoreResults, TypeOK
  <2>3. \A j \in DOMAIN jobs : j = i => Safe(j)'
    BY <2>1 DEF Safe, Owed, Owes
  <2>. QED  BY <1>7, <2>1, <2>2, <2>3, WorkerKept DEF StoreResults, Pending
<1>8. CASE CompleteJob(w)
  <2>1. worker'[w].step = "sync" /\ worker'[w].job = i /\ \A v \in Workers \ {w} : worker'[v] = worker[v]
    BY <1>1, <1>8 DEF CompleteJob, Steps
  <2>2. /\ DOMAIN jobs' = DOMAIN jobs
        /\ \A j \in DOMAIN jobs :
             /\ jobs'[j].site = jobs[j].site
             /\ j # i => jobs'[j].status = jobs[j].status
    BY <1>8, StatusIs DEF CompleteJob, Statuses
  <2>3. \A j \in DOMAIN jobs : j = i => Safe(j)'
    BY <2>1 DEF Safe, Owed, Owes
  <2>. QED  BY <1>8, <2>1, <2>2, <2>3, WorkerKept DEF CompleteJob, Pending
<1>9. CASE SyncRead(w)
  <2>1. /\ worker'[w].step = "insert" /\ worker'[w].job = i
        /\ worker'[w].new = results[i] \ inventory[jobs[i].site]
        /\ \A v \in Workers \ {w} : worker'[v] = worker[v]
    BY <1>0, <1>9 DEF SyncRead, Task
  <2>2. Owes(w, i)'
    BY <1>9, <2>1 DEF Owes, SyncRead
  <2>. QED  BY <1>3, <1>9, <2>1, <2>2 DEF SyncRead, Pending, Owes, Owed
<1>10. CASE SyncWrite(w)
  <2>. DEFINE s == jobs[i].site
              new == worker[w].new
  <2>1. CASE new \cap inventory[s] # {}
    <3>1. /\ worker'[w].step = "fail" /\ worker'[w].job = i
          /\ \A v \in Workers \ {w} : worker'[v] = worker[v]
      BY <1>1, <1>10, <2>1 DEF SyncWrite, AfterConflict, Steps
    <3>2. UNCHANGED <<jobs, results, inventory, queue>>
      BY <1>10, <2>1 DEF SyncWrite
    <3>. QED  BY <1>3, <3>1, <3>2 DEF Pending, Owes, Owed
  <2>2. CASE new \cap inventory[s] = {}
    <3>1. worker'[w].job = i /\ \A v \in Workers \ {w} : worker'[v] = worker[v]
      BY <1>1, <1>10, <2>2 DEF SyncWrite, Steps
    <3>2. /\ UNCHANGED <<jobs, results, queue>>
          /\ inventory' = [inventory EXCEPT ![s] = @ \cup new]
      BY <1>10, <2>2 DEF SyncWrite
    <3>3. \A t \in Sites : inventory[t] \subseteq inventory'[t]
      BY <3>2 DEF TypeOK
    <3>4. ASSUME NEW j \in DOMAIN jobs, j = i
          PROVE  Safe(j)'
      <4>1. s \in Sites /\ inventory'[s] = inventory[s] \cup new
        BY <1>0, <3>2, <3>4 DEF TypeOK
      <4>2. CASE Owes(w, j)
        <5>1. results[j] \subseteq inventory[s] \cup new
          BY <1>10, <3>4, <4>2 DEF SyncWrite, Owes
        <5>. QED  BY <3>2, <3>4, <4>1, <5>1 DEF Safe, Synced
      <4>3. CASE ~Owes(w, j)
        <5>1. \A v \in Workers \ {w} : Owes(v, j) => Owes(v, j)'
          BY <3>1, <3>2, <3>4, <4>1 DEF Owes
        <5>2. Owed(j) => Owed(j)'
          BY <3>2, <4>3, <5>1 DEF Owed, Pending
        <5>. QED  BY <3>2, <3>4, <4>1, <5>2, SafeKept DEF SyncInv
      <4>. QED  BY <4>2, <4>3
    <3>. QED  BY <3>1, <3>2, <3>3, <3>4, WorkerKept DEF Pending
  <2>. QED  BY <2>1, <2>2
<1>11. CASE HttpError(w)
  <2>. DEFINE r == worker[w]
  <2>1. /\ worker'[w].step = "ack" /\ worker'[w].job = i
        /\ \A v \in Workers \ {w} : worker'[v] = worker[v]
    BY <1>1, <1>11 DEF HttpError, Steps
  <2>2. (\A j : ~Owes(w, j)) /\ r.step # "idle" /\ UNCHANGED <<results, inventory>>
    BY <1>11 DEF HttpError, Owes
  <2>3. CASE UNCHANGED <<jobs, queue>>
    BY <1>3, <2>1, <2>2, <2>3 DEF Pending
  <2>4. CASE r.retry < MaxRetries /\ Send(i, r.retry + 1) /\ UNCHANGED jobs
    <3>1. r.retry + 1 \in 0..MaxRetries
      BY <1>0, <2>4, BoundsAssumption DEF Task
    <3>2. \A j \in DOMAIN jobs : Pending(j) => Pending(j)'
      BY <1>4, <2>4, <3>1
    <3>. QED  BY <1>3, <2>1, <2>2, <2>4, <3>2
  <2>5. CASE jobs' = Failed(jobs, {i}) /\ UNCHANGED queue
    BY <1>2, <1>11, <2>5 DEF HttpError
  <2>. QED  BY <1>11, <2>3, <2>4, <2>5 DEF HttpError
<1>12. CASE OtherError(w)
  <2>1. worker'[w].step = "fail" /\ worker'[w].job = i /\ \A v \in Workers \ {w} : worker'[v] = worker[v]
    BY <1>1, <1>12 DEF OtherError, Steps
  <2>. QED  BY <1>3, <1>12, <2>1 DEF OtherError, Pending, Owes, Owed
<1>13. CASE MarkFailed(w)
  BY <1>2, <1>13 DEF MarkFailed
<1>14. CASE Acknowledge(w)
  <2>1. \A v \in Workers \ {w} : worker'[v] = worker[v]
    BY <1>0, <1>14 DEF Acknowledge
  <2>2. \A j : ~Owes(w, j)
    BY <1>14 DEF Acknowledge, Owes
  <2>. QED  BY <1>3, <1>14, <2>1, <2>2 DEF Acknowledge, Pending
<1>15. CASE Crash(w)
  <2>1. \A v \in Workers \ {w} : worker'[v] = worker[v]
    BY <1>0, <1>15 DEF Crash
  <2>2. \A j \in DOMAIN jobs : (j = i => Pending(j)') /\ (Pending(j) => Pending(j)')
    <3>1. worker[w].retry \in 0..MaxRetries
      BY <1>0 DEF Task
    <3>2. Send(i, worker[w].retry)
      BY <1>15 DEF Crash, Redeliver
    <3>. QED  BY <1>4, <3>1, <3>2
  <2>3. \A j \in DOMAIN jobs : Owes(w, j) => Owed(j)'
    BY <2>2 DEF Owes, Owed
  <2>. QED  BY <1>3, <1>15, <2>1, <2>2, <2>3 DEF Crash
<1>. QED
  BY <1>5, <1>6, <1>7, <1>8, <1>9, <1>10, <1>11, <1>12, <1>13, <1>14, <1>15
  DEF Work, DatabaseDown

\* While the database answers, a completed scan that has come to rest has its
\* cookies in the inventory: whatever crashes, is delivered twice, or loses
\* an insert to another.
THEOREM SyncedWithoutOutages ==
  ASSUME Outages = FALSE
  PROVE  Spec => []CompletedIsSynced
<1>. DEFINE IInv == TypeOK /\ TaskInv /\ SyncInv
<1>1. Init => IInv
  BY InitTyped, InitSynced
<1>2. IInv /\ [Next]_vars => IInv'
  BY TaskKept, NextTyped, OthersSynced, WorkersSynced DEF Next
<1>3. IInv => CompletedIsSynced
  <2>1. ASSUME TypeOK, NEW j \in DOMAIN jobs, Settled(j)
        PROVE  ~Owed(j)
    <3>1. ~Pending(j)
      BY <2>1 DEF Settled, Pending
    <3>. QED  BY <2>1, <3>1 DEF Settled, Owed, Owes
  <2>. QED  BY <2>1 DEF SyncInv, Safe, Synced, CompletedIsSynced
<1>. QED  BY <1>1, <1>2, <1>3, PTL DEF Spec
=============================================================================
