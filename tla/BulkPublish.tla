---------------------------- MODULE BulkPublish ----------------------------
(***************************************************************************)
(* Bulk publish: one request publishes several sites in one transaction,   *)
(* each site inside a savepoint of its own.  A site published keeps its    *)
(* row lock until the whole batch commits; a site that fails gives its     *)
(* lock back, but the log entry for the failure, written outside the       *)
(* savepoint, references the site and takes a share of its lock.           *)
(*                                                                         *)
(* A draft is a version number, which also stands for its hash.  How one   *)
(* site is read, checked and numbered is the matter of ConfigPublishing;   *)
(* a batch of one site stands for a single publish.                        *)
(***************************************************************************)
EXTENDS Naturals, Sequences, Graphs

CONSTANTS
  Sites,
  Batches,   \* bulk-publish requests
  Nobody,
  Places,    \* how many domains there are
  Domain,    \* Domain[s]: the place of the site's domain among them
  Crashes,   \* whether a worker may die or lose its connection
  MaxEdits   \* bound on saves of one site's draft

ASSUME SitesAssumption == Sites # {}
ASSUME NobodyAssumption == Nobody \notin Batches
ASSUME DomainAssumption == Places \in Nat /\ Domain \in [Sites -> 1..Places]
ASSUME UniqueAssumption == \A s, t \in Sites : Domain[s] = Domain[t] => s = t
ASSUME CrashesAssumption == Crashes \in BOOLEAN

VARIABLES
  draft,    \* draft[s]: version of the site's draft
  history,  \* history[s]: the revisions committed for the site
  log,      \* bulk items logged in publish_attempts
  holder,   \* holder[s]: the batch that has the row FOR UPDATE
  sharers,  \* sharers[s]: batches that have it FOR KEY SHARE
  batch     \* batch[b]: how far the request is

vars == <<draft, history, log, holder, sharers, batch>>

Outcomes == {"none", "succeeded", "failed"}
Phases == {"new", "next", "lock", "check", "made", "log", "answered", "committed", "lost"}

Revision == [content: Nat, by: Batches \cup {Nobody}]

BatchRecord ==
  [phase: Phases, sorted: BOOLEAN, asked: SUBSET Sites, todo: SUBSET Sites, item: Sites,
   made: SUBSET Sites, expected: [Sites -> Nat], outcome: [Sites -> Outcomes]]

TypeOK ==
  /\ draft \in [Sites -> Nat]
  /\ history \in [Sites -> Seq(Revision)]
  /\ log \subseteq [batch: Batches, site: Sites, outcome: Outcomes]
  /\ holder \in [Sites -> Batches \cup {Nobody}]
  /\ sharers \in [Sites -> SUBSET Batches]
  /\ batch \in [Batches -> BatchRecord]

\* Every site has been published once: the panel lists no other.
Init ==
  /\ draft = [s \in Sites |-> 0]
  /\ history = [s \in Sites |-> <<[content |-> 0, by |-> Nobody]>>]
  /\ log = {}
  /\ holder = [s \in Sites |-> Nobody]
  /\ sharers = [s \in Sites |-> {}]
  /\ batch = [b \in Batches |->
       [phase |-> "new", sorted |-> TRUE, asked |-> {}, todo |-> {},
        item |-> CHOOSE s \in Sites : TRUE, made |-> {}, expected |-> draft, outcome |-> [s \in Sites |-> "none"]]]

-----------------------------------------------------------------------------
LiveContent(s) == history[s][Len(history[s])].content

\* list_affected_sites: those whose draft differs from what is live.
Affected == {s \in Sites : draft[s] # LiveContent(s)}

\* Mutation of First: the panel keeps no order.
FirstAny(r) == r.todo

\* The items that may come next: the panel lists sites by domain, another
\* client of the API in any order.
First(r) ==
  IF r.sorted THEN {s \in r.todo : \A t \in r.todo : Domain[s] <= Domain[t]} ELSE r.todo

\* Mutation of Freed: the locks outlive the transaction.
FreedNever(b) == UNCHANGED <<holder, sharers>>

\* The end of a transaction frees its locks.
Freed(b) ==
  /\ holder' = [s \in Sites |-> IF holder[s] = b THEN Nobody ELSE holder[s]]
  /\ sharers' = [s \in Sites |-> sharers[s] \ {b}]

\* Mutation of Undone: there is no savepoint to go back to.
UndoneNever(r) == r.made

\* Back to the item's savepoint: its revision is gone.
Undone(r) == r.made \ {r.item}

Failure == "failed"

-----------------------------------------------------------------------------
(* Waiting for rows.                                                       *)

\* FOR UPDATE waits for any other transaction's lock on the row, the foreign
\* key's FOR KEY SHARE for another's FOR UPDATE only.
Blockers(b) ==
  LET s == batch[b].item
      owner == {holder[s]} \ {b, Nobody}
  IN CASE batch[b].phase = "lock" -> owner \cup (sharers[s] \ {b})
       [] batch[b].phase = "log" -> owner
       [] OTHER -> {}

Waits == [node |-> Batches, edge |-> {e \in Batches \X Batches : e[2] \in Blockers(e[1])}]

\* b waits, through others, for itself.
InCycle(b) == \E c \in Blockers(b) : ConnectionsIn(Waits)[c, b]

-----------------------------------------------------------------------------
(* The request.                                                            *)

Request(b) ==
  /\ batch[b].phase = "new"
  /\ \E set \in SUBSET Affected \ {{}}, sorted \in BOOLEAN :
       batch' = [batch EXCEPT ![b].phase = "next", ![b].sorted = sorted, ![b].asked = set,
                              ![b].todo = set, ![b].expected = draft]
  /\ UNCHANGED <<draft, history, log, holder, sharers>>

NextItem(b) ==
  /\ batch[b].phase = "next"
  /\ \E s \in First(batch[b]) :
       batch' = [batch EXCEPT ![b].phase = "lock", ![b].item = s, ![b].todo = @ \ {s}]
  /\ UNCHANGED <<draft, history, log, holder, sharers>>

\* The item fails: back to the savepoint, which frees the row it locked.
FailItem(b) ==
  LET r == batch[b] IN
  /\ batch' = [batch EXCEPT ![b].phase = "log", ![b].made = Undone(r)]
  /\ holder' = [holder EXCEPT ![r.item] = IF @ = b THEN Nobody ELSE @]

\* A site archived meanwhile, when nobody had its row, is not found.
LockItem(b) ==
  LET s == batch[b].item IN
  /\ batch[b].phase = "lock"
  /\ \/ /\ Blockers(b) = {}
        /\ holder' = [holder EXCEPT ![s] = b]
        /\ batch' = [batch EXCEPT ![b].phase = "check"]
     \/ holder[s] = Nobody /\ FailItem(b)
  /\ UNCHANGED <<draft, history, log, sharers>>

\* Mutation of Publishable: the hash that was reviewed is not compared.
PublishableUnreviewed(r) == r.expected[r.item] # LiveContent(r.item)

\* The draft is the one that was listed, and not live already.
Publishable(r) ==
  /\ draft[r.item] = r.expected[r.item]
  /\ draft[r.item] # LiveContent(r.item)

\* Insert the revision, unless an extension's check or an error refuses it.
CheckItem(b) ==
  LET r == batch[b] IN
  /\ r.phase = "check"
  /\ \/ /\ Publishable(r)
        /\ batch' = [batch EXCEPT ![b].phase = "made", ![b].made = @ \cup {r.item}]
        /\ UNCHANGED holder
     \/ FailItem(b)
  /\ UNCHANGED <<draft, history, log, sharers>>

\* The savepoint is released and the success logged; or the update of the
\* pointer raises after the insert.
EndItem(b) ==
  /\ batch[b].phase = "made"
  /\ \/ /\ batch' = [batch EXCEPT ![b].phase = "next",
                                  ![b].outcome[batch[b].item] = "succeeded"]
        /\ UNCHANGED holder
     \/ FailItem(b)
  /\ UNCHANGED <<draft, history, log, sharers>>

LogFailure(b) ==
  LET s == batch[b].item IN
  /\ batch[b].phase = "log" /\ Blockers(b) = {}
  /\ sharers' = [sharers EXCEPT ![s] = @ \cup {b}]
  /\ batch' = [batch EXCEPT ![b].phase = "next", ![b].outcome[s] = Failure]
  /\ UNCHANGED <<draft, history, log, holder>>

\* The results are sent: the session is committed only once the response is
\* out, when FastAPI leaves the dependency that opened it.
Answer(b) ==
  /\ batch[b].phase = "next" /\ batch[b].todo = {}
  /\ batch' = [batch EXCEPT ![b].phase = "answered"]
  /\ UNCHANGED <<draft, history, log, holder, sharers>>

\* get_db commits: revisions, pointers and log become visible at once.
Commit(b) ==
  LET r == batch[b] IN
  /\ r.phase = "answered"
  /\ history' = [s \in Sites |->
       IF s \in r.made THEN Append(history[s], [content |-> r.expected[s], by |-> b])
       ELSE history[s]]
  /\ log' = log \cup {[batch |-> b, site |-> s, outcome |-> r.outcome[s]] : s \in r.asked}
  /\ Freed(b)
  /\ batch' = [batch EXCEPT ![b].phase = "committed"]
  /\ UNCHANGED draft

\* An exception outside the savepoints, the commit's own included, rolls the
\* whole transaction back, even after the answer.
Abort(b) ==
  /\ Freed(b)
  /\ batch' = [batch EXCEPT ![b].phase = "lost", ![b].made = {}]
  /\ UNCHANGED <<draft, history, log>>

Crash(b) == Crashes /\ batch[b].phase \notin {"new", "committed", "lost"} /\ Abort(b)

\* Postgres breaks a cycle by failing one waiting statement.  Inside the
\* savepoint that fails the item, outside it fails the request.
Victim(b) ==
  /\ InCycle(b)
  /\ \/ batch[b].phase = "lock" /\ FailItem(b) /\ UNCHANGED <<draft, history, log, sharers>>
     \/ batch[b].phase = "log" /\ Abort(b)

\* Saves do not take the row's lock.
EditDraft(s) ==
  /\ draft[s] < MaxEdits
  /\ draft' = [draft EXCEPT ![s] = @ + 1]
  /\ UNCHANGED <<history, log, holder, sharers, batch>>

-----------------------------------------------------------------------------
Run(b) ==
  \/ NextItem(b) \/ LockItem(b) \/ CheckItem(b) \/ EndItem(b) \/ LogFailure(b)
  \/ Answer(b) \/ Commit(b) \/ Victim(b)

Next ==
  \/ \E b \in Batches : Request(b) \/ Run(b) \/ Crash(b)
  \/ \E s \in Sites : EditDraft(s)

Spec == Init /\ [][Next]_vars

\* A request runs until it ends; only locks hold it up.
FairSpec == Spec /\ \A b \in Batches : WF_vars(Run(b))

-----------------------------------------------------------------------------
(* Properties.                                                             *)

\* Batches that list their sites by domain, as the panel's query orders them,
\* never wait for each other in a circle: among any of them is one that waits
\* for none of the others.  Neither the rows that succeeded sites keep locked
\* nor those that failed sites' log entries share close a circle.
NoDeadlock ==
  \A set \in SUBSET {b \in Batches : batch[b].sorted} :
    set # {} => \E b \in set : Blockers(b) \cap set = {}

\* A batch takes effect just as its results say, or not at all: once it is
\* committed, each site its results call published has one revision by it, with
\* the draft that was listed, each they call failed has none, and the log
\* says the same.  Until then, and if it is lost, it leaves no trace, even
\* where the results have been sent already.
AsAnsweredOrNotAtAll ==
  \A b \in Batches :
    LET r == batch[b]
        by == [s \in Sites |-> {i \in DOMAIN history[s] : history[s][i].by = b}]
        logged == {e \in log : e.batch = b}
    IN IF r.phase = "committed"
       THEN /\ \A s \in r.asked :
                 \/ /\ r.outcome[s] = "succeeded"
                    /\ \E i \in by[s] : by[s] = {i} /\ history[s][i].content = r.expected[s]
                 \/ r.outcome[s] = "failed" /\ by[s] = {}
            /\ \A s \in Sites \ r.asked : by[s] = {}
            /\ logged = {[batch |-> b, site |-> s, outcome |-> r.outcome[s]] : s \in r.asked}
       ELSE logged = {} /\ \A s \in Sites : by[s] = {}

\* No batch brings an older draft back over a newer one, or publishes one
\* draft twice, however long it waits between its listing and a site's turn.
NeverBackward ==
  \A s \in Sites : \A i, j \in DOMAIN history[s] :
    i < j => history[s][i].content < history[s][j].content

\* Every batch ends, committed or rolled back.
BatchesEnd ==
  \A b \in Batches : batch[b].phase = "next" ~> batch[b].phase \in {"committed", "lost"}

\* docs/publishing.md: "If one site fails, the others still publish".  With
\* no crash, no batch is rolled back whole.
OthersStillPublish == \A b \in Batches : batch[b].phase # "lost"
=============================================================================
