------------------------- MODULE BulkPublish_proofs -------------------------
(* The type invariant of BulkPublish, and why batches in the panel's order  *)
(* cannot deadlock: every batch holds rows of sites before its current one. *)
EXTENDS BulkPublish, SequenceTheorems, WellFoundedInduction, TLAPS

-----------------------------------------------------------------------------
(* Types.                                                                  *)

\* Every step that touches one request only rewrites its record.
LEMMA BatchType ==
  ASSUME TypeOK, NEW b \in Batches, NEW r \in BatchRecord,
         batch' = [batch EXCEPT ![b] = r]
  PROVE  batch' \in [Batches -> BatchRecord]
BY DEF TypeOK

\* An item that fails leaves a batch and a holder of their types.
LEMMA FailItemTyped ==
  ASSUME TypeOK, NEW b \in Batches, FailItem(b)
  PROVE  /\ batch' \in [Batches -> BatchRecord]
         /\ holder' \in [Sites -> Batches \cup {Nobody}]
<1>. DEFINE r == batch[b]
            q == [r EXCEPT !.phase = "log", !.made = Undone(r)]
<1>1. r \in BatchRecord
  BY DEF TypeOK
<1>2. q \in BatchRecord
  BY <1>1 DEF BatchRecord, Phases, Undone
<1>3. batch' = [batch EXCEPT ![b] = q]
  BY DEF FailItem, TypeOK
<1>. QED  BY <1>2, <1>3, BatchType DEF FailItem, TypeOK

\* So does a transaction that is rolled back.
LEMMA AbortTyped ==
  ASSUME TypeOK, NEW b \in Batches, Abort(b)
  PROVE  TypeOK'
<1>. DEFINE q == [batch[b] EXCEPT !.phase = "lost", !.made = {}]
<1>1. q \in BatchRecord
  BY DEF TypeOK, BatchRecord, Phases
<1>2. batch' = [batch EXCEPT ![b] = q]
  BY DEF Abort, TypeOK
<1>3. batch' \in [Batches -> BatchRecord]
  BY <1>1, <1>2, BatchType
<1>. QED  BY <1>3 DEF Abort, Freed, TypeOK

\* The types hold initially.
LEMMA InitTyped == Init => TypeOK
<1>1. (CHOOSE s \in Sites : TRUE) \in Sites
  BY SitesAssumption
<1>2. <<[content |-> 0, by |-> Nobody]>> \in Seq(Revision)
  BY DEF Revision
<1>. QED  BY <1>1, <1>2 DEF Init, TypeOK, BatchRecord, Phases, Outcomes

\* Every step keeps them.
LEMMA NextTyped ==
  ASSUME TypeOK, [Next]_vars
  PROVE  TypeOK'
<1>0. \A b \in Batches : batch[b] \in BatchRecord
  BY DEF TypeOK
<1>1. ASSUME NEW b \in Batches, Request(b)
      PROVE  TypeOK'
  <2>1. PICK set \in SUBSET Affected \ {{}}, sorted \in BOOLEAN :
          batch' = [batch EXCEPT ![b].phase = "next", ![b].sorted = sorted, ![b].asked = set,
                                 ![b].todo = set, ![b].expected = draft]
    BY <1>1 DEF Request
  <2>4. set \in SUBSET Sites
    BY <2>1 DEF Affected
  <2>5. batch' = [batch EXCEPT ![b] = [batch[b] EXCEPT
          !.phase = "next", !.sorted = sorted, !.asked = set, !.todo = set, !.expected = draft]]
    BY <2>1 DEF TypeOK
  <2>2. [batch[b] EXCEPT !.phase = "next", !.sorted = sorted, !.asked = set,
                         !.todo = set, !.expected = draft] \in BatchRecord
    BY <1>0, <2>4 DEF BatchRecord, Phases, TypeOK
  <2>3. batch' \in [Batches -> BatchRecord]
    BY <2>2, <2>5, BatchType
  <2>. QED  BY <1>1, <2>3 DEF Request, TypeOK
<1>2. ASSUME NEW b \in Batches, NextItem(b)
      PROVE  TypeOK'
  <2>1. PICK s \in First(batch[b]) :
          batch' = [batch EXCEPT ![b] =
            [batch[b] EXCEPT !.phase = "lock", !.item = s, !.todo = @ \ {s}]]
    BY <1>2 DEF NextItem, TypeOK
  <2>2. s \in Sites
    BY <1>0 DEF First, BatchRecord
  <2>3. [batch[b] EXCEPT !.phase = "lock", !.item = s, !.todo = @ \ {s}] \in BatchRecord
    BY <1>0, <2>2 DEF BatchRecord, Phases
  <2>4. batch' \in [Batches -> BatchRecord]
    BY <2>1, <2>3, BatchType
  <2>. QED  BY <1>2, <2>4 DEF NextItem, TypeOK
<1>3. ASSUME NEW b \in Batches, LockItem(b)
      PROVE  TypeOK'
  <2>1. [batch[b] EXCEPT !.phase = "check"] \in BatchRecord
    BY <1>0 DEF BatchRecord, Phases
  <2>2. batch' \in [Batches -> BatchRecord] /\ holder' \in [Sites -> Batches \cup {Nobody}]
    BY <1>3, <2>1, BatchType, FailItemTyped DEF LockItem, TypeOK
  <2>. QED  BY <1>3, <2>2 DEF LockItem, TypeOK
<1>4. ASSUME NEW b \in Batches, CheckItem(b)
      PROVE  TypeOK'
  <2>. DEFINE q == [batch[b] EXCEPT !.phase = "made", !.made = @ \cup {batch[b].item}]
  <2>0. batch[b].made \cup {batch[b].item} \in SUBSET Sites
    BY <1>0 DEF BatchRecord
  <2>1. q \in BatchRecord
    BY <1>0, <2>0 DEF BatchRecord, Phases
  <2>2. CASE /\ batch' = [batch EXCEPT ![b].phase = "made",
                                       ![b].made = @ \cup {batch[b].item}]
             /\ UNCHANGED holder
    <3>1. batch' = [batch EXCEPT ![b] = q]
      BY <2>2 DEF TypeOK
    <3>2. batch' \in [Batches -> BatchRecord]
      BY <3>1, <2>1, BatchType
    <3>. QED  BY <1>4, <2>2, <3>2 DEF CheckItem, TypeOK
  <2>3. CASE FailItem(b)
    BY <1>4, <2>3, FailItemTyped DEF CheckItem, TypeOK
  <2>. QED  BY <1>4, <2>2, <2>3 DEF CheckItem
<1>5. ASSUME NEW b \in Batches, EndItem(b)
      PROVE  TypeOK'
  <2>. DEFINE q == [batch[b] EXCEPT !.phase = "next", !.outcome[batch[b].item] = "succeeded"]
  <2>1. q \in BatchRecord
    BY <1>0 DEF BatchRecord, Phases, Outcomes
  <2>2. (batch' = [batch EXCEPT ![b] = q] /\ UNCHANGED holder) \/ FailItem(b)
    BY <1>5 DEF EndItem, TypeOK
  <2>3. batch' \in [Batches -> BatchRecord] /\ holder' \in [Sites -> Batches \cup {Nobody}]
    BY <2>1, <2>2, BatchType, FailItemTyped DEF TypeOK
  <2>. QED  BY <1>5, <2>3 DEF EndItem, TypeOK
<1>6. ASSUME NEW b \in Batches, LogFailure(b)
      PROVE  TypeOK'
  <2>. DEFINE q == [batch[b] EXCEPT !.phase = "next", !.outcome[batch[b].item] = Failure]
  <2>1. q \in BatchRecord
    BY <1>0 DEF BatchRecord, Phases, Outcomes, Failure
  <2>2. batch' = [batch EXCEPT ![b] = q]
    BY <1>6 DEF LogFailure, TypeOK
  <2>3. batch' \in [Batches -> BatchRecord]
    BY <2>1, <2>2, BatchType
  <2>. QED  BY <1>6, <2>3 DEF LogFailure, TypeOK
<1>7. ASSUME NEW b \in Batches, Commit(b)
      PROVE  TypeOK'
  <2>. DEFINE entry(s) == [content |-> batch[b].expected[s], by |-> b]
  <2>1. \A s \in Sites : entry(s) \in Revision
    BY <1>0 DEF Revision, BatchRecord
  <2>2. \A s \in Sites : Append(history[s], entry(s)) \in Seq(Revision)
    BY <2>1, AppendProperties DEF TypeOK
  <2>3. history' \in [Sites -> Seq(Revision)]
    BY <1>7, <2>2 DEF Commit, TypeOK
  <2>4. log' \subseteq [batch: Batches, site: Sites, outcome: Outcomes]
    BY <1>0, <1>7 DEF Commit, TypeOK, BatchRecord
  <2>5. [batch[b] EXCEPT !.phase = "committed"] \in BatchRecord
    BY <1>0 DEF BatchRecord, Phases
  <2>6. batch' \in [Batches -> BatchRecord]
    BY <1>7, <2>5, BatchType DEF Commit, TypeOK
  <2>. QED  BY <1>7, <2>3, <2>4, <2>6 DEF Commit, Freed, TypeOK
<1>11. ASSUME NEW b \in Batches, Answer(b)
       PROVE  TypeOK'
  <2>1. [batch[b] EXCEPT !.phase = "answered"] \in BatchRecord
    BY <1>0 DEF BatchRecord, Phases
  <2>2. batch' \in [Batches -> BatchRecord]
    BY <1>11, <2>1, BatchType DEF Answer, TypeOK
  <2>. QED  BY <1>11, <2>2 DEF Answer, TypeOK
<1>8. ASSUME NEW b \in Batches, Victim(b)
      PROVE  TypeOK'
  BY <1>8, FailItemTyped, AbortTyped DEF Victim, TypeOK
<1>9. ASSUME NEW s \in Sites, EditDraft(s)
      PROVE  TypeOK'
  <2>1. draft[s] + 1 \in Nat
    BY DEF TypeOK
  <2>. QED  BY <1>9, <2>1 DEF EditDraft, TypeOK
<1>10. CASE UNCHANGED vars
  BY <1>10 DEF vars, TypeOK
<1>. QED
  BY <1>1, <1>2, <1>3, <1>4, <1>5, <1>6, <1>7, <1>8, <1>9, <1>10, <1>11, AbortTyped
  DEF Next, Run, Crash

\* Whatever the batches do, the state has its type.
THEOREM TypeCorrect == Spec => []TypeOK
BY InitTyped, NextTyped, PTL DEF Spec
-----------------------------------------------------------------------------
(* The order of locks.                                                     *)

Before(s, t) == Domain[s] < Domain[t]

Has(b, s) == holder[s] = b \/ b \in sharers[s]

\* A request that has not begun has no row.
Unbegun(b) == batch[b].phase = "new" => \A s \in Sites : ~Has(b, s)

\* The sites still to do come after the current one.
ItemFirst(b) ==
  batch[b].phase \in {"lock", "check", "made", "log"} =>
    \A t \in batch[b].todo : Before(batch[b].item, t)

\* The rows a batch has are those of sites before all it may still lock: the
\* ones to do, and the current one unless it is this very row, FOR UPDATE.
RowsBehind(b) ==
  \A s \in Sites : Has(b, s) =>
    /\ \A t \in batch[b].todo : Before(s, t)
    /\ batch[b].phase \in {"lock", "log"} => Before(s, batch[b].item)
    /\ batch[b].phase \in {"check", "made"} =>
         Before(s, batch[b].item) \/ (s = batch[b].item /\ b \notin sharers[s])

Ordered(b) == Unbegun(b) /\ (batch[b].sorted => ItemFirst(b) /\ RowsBehind(b))

OrderInv == \A b \in Batches : Ordered(b)
\* Places are numbers, and no two sites have the same.
LEMMA BeforeIsOrder ==
  ASSUME NEW s \in Sites, NEW t \in Sites, NEW u \in Sites
  PROVE  /\ ~Before(s, s)
         /\ Before(s, t) /\ Before(t, u) => Before(s, u)
         /\ Domain[s] <= Domain[t] => s = t \/ Before(s, t)
BY DomainAssumption, UniqueAssumption DEF Before

\* A step that leaves a batch's record and rows alone leaves its order.
LEMMA OthersKept ==
  ASSUME NEW c \in Batches, Ordered(c), batch'[c] = batch[c],
         \A s \in Sites : /\ holder'[s] = c => holder[s] = c
                          /\ c \in sharers'[s] <=> c \in sharers[s]
  PROVE  Ordered(c)'
BY DEF Ordered, Unbegun, ItemFirst, RowsBehind, Has, Before

\* Going back to the savepoint gives the current row up.
LEMMA FailItemOrdered ==
  ASSUME TypeOK, NEW b \in Batches, OrderInv, FailItem(b), UNCHANGED sharers,
         batch[b].phase \in {"lock", "check", "made"}
  PROVE  OrderInv'
<1>. DEFINE i == batch[b].item
<1>1. batch[b] \in BatchRecord /\ i \in Sites /\ batch[b].todo \in SUBSET Sites
  BY DEF TypeOK, BatchRecord
<1>2. /\ batch'[b].phase = "log" /\ batch'[b].item = i /\ batch'[b].todo = batch[b].todo
      /\ batch'[b].sorted = batch[b].sorted
      /\ \A c \in Batches \ {b} : batch'[c] = batch[c]
  BY <1>1 DEF FailItem, TypeOK, BatchRecord
<1>3. /\ holder'[i] # b
      /\ \A s \in Sites \ {i} : holder'[s] = holder[s]
      /\ holder'[i] = holder[i] \/ holder'[i] = Nobody
  BY <1>1, NobodyAssumption DEF FailItem, TypeOK
<1>4. ASSUME NEW s \in Sites, batch[b].sorted, Has(b, s)'
      PROVE  Before(s, i) /\ \A t \in batch[b].todo : Before(s, t)
  <2>1. Has(b, s)
    BY <1>3, <1>4, NobodyAssumption DEF Has
  <2>2. RowsBehind(b)
    BY <1>4 DEF OrderInv, Ordered
  <2>. QED  BY <1>3, <1>4, <2>1, <2>2 DEF RowsBehind, Has
<1>5. Ordered(b)'
  <2>1. batch[b].sorted => ItemFirst(b)'
    BY <1>2 DEF OrderInv, Ordered, ItemFirst, Before
  <2>2. batch[b].sorted => RowsBehind(b)'
    BY <1>2, <1>4 DEF RowsBehind, Before, Has
  <2>. QED  BY <1>2, <2>1, <2>2 DEF Ordered, Unbegun
<1>6. ASSUME NEW c \in Batches \ {b}
      PROVE  Ordered(c)'
  BY <1>1, <1>2, <1>3, NobodyAssumption, OthersKept DEF OrderInv
<1>. QED  BY <1>5, <1>6 DEF OrderInv

\* The end of a transaction gives up all its rows.
LEMMA FreedOrdered ==
  ASSUME TypeOK, NEW b \in Batches, OrderInv, Freed(b),
         batch'[b].phase \in {"committed", "lost"},
         \A c \in Batches \ {b} : batch'[c] = batch[c]
  PROVE  OrderInv'
<1>1. \A s \in Sites : ~Has(b, s)'
  BY NobodyAssumption DEF Freed, Has, TypeOK
<1>2. Ordered(b)'
  BY <1>1 DEF Ordered, Unbegun, ItemFirst, RowsBehind
<1>3. ASSUME NEW c \in Batches \ {b}
      PROVE  Ordered(c)'
  <2>1. \A s \in Sites : /\ holder'[s] = c => holder[s] = c
                         /\ c \in sharers'[s] <=> c \in sharers[s]
    BY NobodyAssumption DEF Freed, TypeOK
  <2>. QED  BY <2>1, OthersKept DEF OrderInv
<1>. QED  BY <1>2, <1>3 DEF OrderInv
\* Nobody has a row initially.
LEMMA InitOrdered == Init => OrderInv
BY NobodyAssumption DEF Init, OrderInv, Ordered, Unbegun, ItemFirst, RowsBehind, Has

\* Every step keeps the order.
LEMMA NextOrdered ==
  ASSUME TypeOK, OrderInv, [Next]_vars
  PROVE  OrderInv'
<1>0. /\ \A b \in Batches : batch[b] \in BatchRecord
      /\ \A b \in Batches : batch[b].item \in Sites /\ batch[b].todo \in SUBSET Sites
  BY DEF TypeOK, BatchRecord
<1>1. ASSUME NEW b \in Batches, Request(b)
      PROVE  OrderInv'
  <2>1. \A s \in Sites : ~Has(b, s)'
    BY <1>1 DEF Request, OrderInv, Ordered, Unbegun, Has
  <2>2. batch'[b].phase = "next" /\ \A c \in Batches \ {b} : batch'[c] = batch[c]
    BY <1>0, <1>1 DEF Request, TypeOK, BatchRecord
  <2>3. Ordered(b)'
    BY <2>1, <2>2 DEF Ordered, Unbegun, ItemFirst, RowsBehind
  <2>. QED  BY <1>1, <2>2, <2>3, OthersKept DEF Request, OrderInv
<1>2. ASSUME NEW b \in Batches, NextItem(b)
      PROVE  OrderInv'
  <2>1. PICK s \in First(batch[b]) :
          batch' = [batch EXCEPT ![b].phase = "lock", ![b].item = s, ![b].todo = @ \ {s}]
    BY <1>2 DEF NextItem
  <2>2. s \in batch[b].todo /\ s \in Sites
    BY <1>0, <2>1 DEF First
  <2>3. /\ batch'[b].phase = "lock" /\ batch'[b].item = s
        /\ batch'[b].todo = batch[b].todo \ {s} /\ batch'[b].sorted = batch[b].sorted
        /\ \A c \in Batches \ {b} : batch'[c] = batch[c]
    BY <1>0, <2>1 DEF TypeOK, BatchRecord
  <2>4. batch[b].sorted => ItemFirst(b)'
    <3>1. SUFFICES ASSUME batch[b].sorted, NEW t \in batch[b].todo \ {s}
                   PROVE  Before(s, t)
      BY <2>3 DEF ItemFirst, Before
    <3>2. Domain[s] <= Domain[t]
      BY <2>1, <3>1 DEF First
    <3>. QED  BY <1>0, <2>2, <3>1, <3>2, BeforeIsOrder
  <2>5. batch[b].sorted => RowsBehind(b)'
    BY <1>2, <2>2, <2>3 DEF NextItem, OrderInv, Ordered, RowsBehind, Has, Before
  <2>6. Ordered(b)'
    BY <2>3, <2>4, <2>5 DEF Ordered, Unbegun
  <2>. QED  BY <1>2, <2>3, <2>6, OthersKept DEF NextItem, OrderInv
<1>3. ASSUME NEW b \in Batches, LockItem(b)
      PROVE  OrderInv'
  <2>1. CASE FailItem(b)
    BY <1>3, <2>1, FailItemOrdered DEF LockItem
  <2>2. CASE /\ Blockers(b) = {}
             /\ holder' = [holder EXCEPT ![batch[b].item] = b]
             /\ batch' = [batch EXCEPT ![b].phase = "check"]
    <3>1. /\ batch'[b].phase = "check" /\ batch'[b].item = batch[b].item
          /\ batch'[b].todo = batch[b].todo /\ batch'[b].sorted = batch[b].sorted
          /\ \A c \in Batches \ {b} : batch'[c] = batch[c]
      BY <1>0, <2>2 DEF TypeOK, BatchRecord
    <3>2. /\ \A s \in Sites : holder'[s] = IF s = batch[b].item THEN b ELSE holder[s]
          /\ sharers' = sharers
      BY <1>3, <2>2 DEF LockItem, TypeOK
    <3>3. batch[b].sorted => ItemFirst(b)'
      BY <1>3, <3>1 DEF LockItem, OrderInv, Ordered, ItemFirst, Before
    <3>4. batch[b].sorted => RowsBehind(b)'
      <4>1. SUFFICES ASSUME batch[b].sorted, NEW s \in Sites, Has(b, s)'
                     PROVE  /\ \A t \in batch[b].todo : Before(s, t)
                            /\ \/ Before(s, batch[b].item)
                               \/ s = batch[b].item /\ b \notin sharers[s]
        BY <3>1, <3>2 DEF RowsBehind, Before, Has
      <4>2. CASE Has(b, s)
        BY <1>3, <4>1, <4>2 DEF LockItem, OrderInv, Ordered, RowsBehind
      <4>3. CASE ~Has(b, s)
        BY <1>3, <3>2, <4>1, <4>3 DEF LockItem, OrderInv, Ordered, ItemFirst, Has
      <4>. QED  BY <4>2, <4>3
    <3>5. Ordered(b)'
      BY <3>1, <3>3, <3>4 DEF Ordered, Unbegun
    <3>6. ASSUME NEW c \in Batches \ {b}
          PROVE  Ordered(c)'
      BY <3>1, <3>2, OthersKept DEF OrderInv
    <3>. QED  BY <3>5, <3>6 DEF OrderInv
  <2>. QED  BY <1>3, <2>1, <2>2 DEF LockItem
<1>4. ASSUME NEW b \in Batches, CheckItem(b)
      PROVE  OrderInv'
  <2>1. CASE FailItem(b)
    BY <1>4, <2>1, FailItemOrdered DEF CheckItem
  <2>2. CASE /\ batch' = [batch EXCEPT ![b].phase = "made",
                                       ![b].made = @ \cup {batch[b].item}]
             /\ UNCHANGED holder
    <3>1. /\ batch'[b].phase = "made" /\ batch'[b].item = batch[b].item
          /\ batch'[b].todo = batch[b].todo /\ batch'[b].sorted = batch[b].sorted
          /\ \A c \in Batches \ {b} : batch'[c] = batch[c]
      BY <1>0, <2>2 DEF TypeOK, BatchRecord
    <3>2. Ordered(b)'
      BY <1>4, <2>2, <3>1
      DEF CheckItem, OrderInv, Ordered, Unbegun, ItemFirst, RowsBehind, Has, Before
    <3>. QED  BY <1>4, <2>2, <3>1, <3>2, OthersKept DEF CheckItem, OrderInv
  <2>. QED  BY <1>4, <2>1, <2>2 DEF CheckItem
<1>5. ASSUME NEW b \in Batches, EndItem(b)
      PROVE  OrderInv'
  <2>1. CASE FailItem(b)
    BY <1>5, <2>1, FailItemOrdered DEF EndItem
  <2>2. CASE /\ batch' = [batch EXCEPT ![b].phase = "next",
                                       ![b].outcome[batch[b].item] = "succeeded"]
             /\ UNCHANGED holder
    <3>1. /\ batch'[b].phase = "next"
          /\ batch'[b].todo = batch[b].todo /\ batch'[b].sorted = batch[b].sorted
          /\ \A c \in Batches \ {b} : batch'[c] = batch[c]
      BY <1>0, <2>2 DEF TypeOK, BatchRecord
    <3>2. Ordered(b)'
      BY <1>5, <2>2, <3>1
      DEF EndItem, OrderInv, Ordered, Unbegun, ItemFirst, RowsBehind, Has, Before
    <3>. QED  BY <1>5, <2>2, <3>1, <3>2, OthersKept DEF EndItem, OrderInv
  <2>. QED  BY <1>5, <2>1, <2>2 DEF EndItem
<1>6. ASSUME NEW b \in Batches, LogFailure(b)
      PROVE  OrderInv'
  <2>. DEFINE i == batch[b].item
  <2>1. /\ batch'[b].phase = "next"
        /\ batch'[b].todo = batch[b].todo /\ batch'[b].sorted = batch[b].sorted
        /\ \A c \in Batches \ {b} : batch'[c] = batch[c]
    BY <1>0, <1>6 DEF LogFailure, TypeOK, BatchRecord
  <2>2. /\ \A s \in Sites : sharers'[s] = IF s = i THEN sharers[s] \cup {b} ELSE sharers[s]
        /\ holder' = holder
    BY <1>6 DEF LogFailure, TypeOK
  <2>3. batch[b].sorted => RowsBehind(b)'
    <3>1. SUFFICES ASSUME batch[b].sorted, NEW s \in Sites, Has(b, s)'
                   PROVE  \A t \in batch[b].todo : Before(s, t)
      BY <2>1 DEF RowsBehind, Before, Has
    <3>2. CASE s = i
      BY <1>6, <3>1, <3>2 DEF LogFailure, OrderInv, Ordered, ItemFirst
    <3>3. CASE s # i
      BY <2>2, <3>1, <3>3 DEF OrderInv, Ordered, RowsBehind, Has
    <3>. QED  BY <3>2, <3>3
  <2>4. Ordered(b)'
    BY <2>1, <2>3 DEF Ordered, Unbegun, ItemFirst
  <2>5. ASSUME NEW c \in Batches \ {b}
        PROVE  Ordered(c)'
    BY <2>1, <2>2, OthersKept DEF OrderInv
  <2>. QED  BY <2>4, <2>5 DEF OrderInv
<1>7. ASSUME NEW b \in Batches, Commit(b)
      PROVE  OrderInv'
  <2>1. batch'[b].phase = "committed" /\ \A c \in Batches \ {b} : batch'[c] = batch[c]
    BY <1>0, <1>7 DEF Commit, TypeOK, BatchRecord
  <2>. QED  BY <1>7, <2>1, FreedOrdered DEF Commit
<1>11. ASSUME NEW b \in Batches, Answer(b)
       PROVE  OrderInv'
  <2>1. /\ batch[b].phase = "next" /\ batch'[b].phase = "answered"
        /\ batch'[b].todo = batch[b].todo /\ batch'[b].sorted = batch[b].sorted
        /\ \A c \in Batches \ {b} : batch'[c] = batch[c]
    BY <1>0, <1>11 DEF Answer, TypeOK, BatchRecord
  <2>2. Ordered(b)'
    BY <1>11, <2>1 DEF Answer, OrderInv, Ordered, Unbegun, ItemFirst, RowsBehind, Has, Before
  <2>. QED  BY <1>11, <2>1, <2>2, OthersKept DEF Answer, OrderInv
<1>8. ASSUME NEW b \in Batches, Abort(b)
      PROVE  OrderInv'
  <2>1. batch'[b].phase = "lost" /\ \A c \in Batches \ {b} : batch'[c] = batch[c]
    BY <1>0, <1>8 DEF Abort, TypeOK, BatchRecord
  <2>. QED  BY <1>8, <2>1, FreedOrdered DEF Abort
<1>9. ASSUME NEW b \in Batches, Victim(b)
      PROVE  OrderInv'
  BY <1>8, <1>9, FailItemOrdered DEF Victim
<1>10. CASE UNCHANGED <<holder, sharers, batch>>
  BY <1>10, OthersKept DEF OrderInv
<1>. QED
  BY <1>1, <1>2, <1>3, <1>4, <1>5, <1>6, <1>7, <1>8, <1>9, <1>10, <1>11
  DEF Next, Run, Crash, EditDraft, vars

\* A batch that is waited for is further than the one that waits for it.
LEMMA WaitsForward ==
  ASSUME TypeOK, OrderInv,
         NEW b \in Batches, NEW c \in Blockers(b), c \in Batches, batch[c].sorted,
         batch[c].phase \in {"lock", "log"}
  PROVE  Before(batch[b].item, batch[c].item)
<1>1. batch[b].item \in Sites
  BY DEF TypeOK, BatchRecord
<1>2. Has(c, batch[b].item)
  BY DEF Blockers, Has
<1>. QED  BY <1>1, <1>2 DEF OrderInv, Ordered, RowsBehind

\* A set of natural numbers has a least one.
LEMMA LeastExists ==
  ASSUME NEW T \in SUBSET Nat, T # {}
  PROVE  \E n \in T : \A m \in T : ~(m < n)
<1>. DEFINE R == OpToRel(<, Nat)
<1>1. IsWellFoundedOn(R, Nat)
  BY NatLessThanWellFounded
<1>2. PICK n \in T : \A m \in T : <<m, n>> \notin R
  <2>. HIDE DEF R
  <2>. QED  BY <1>1, WFMin
<1>3. \A m \in T : m < n => <<m, n>> \in R
  BY DEF OpToRel
<1>. QED  BY <1>2, <1>3

\* So among any sorted batches the one at the last site waits for none.
LEMMA OrderPreventsDeadlock ==
  ASSUME TypeOK, OrderInv
  PROVE  NoDeadlock
<1>. SUFFICES ASSUME NEW set \in SUBSET {b \in Batches : batch[b].sorted}, NEW first \in set
              PROVE  \E b \in set : Blockers(b) \cap set = {}
  BY DEF NoDeadlock
<1>1. CASE \E b \in set : batch[b].phase \notin {"lock", "log"}
  BY <1>1 DEF Blockers
<1>2. CASE \A b \in set : batch[b].phase \in {"lock", "log"}
  <2>. DEFINE Left(b) == Places - Domain[batch[b].item]
  <2>1. \A b \in set : batch[b].item \in Sites /\ Left(b) \in Nat
    BY DomainAssumption DEF TypeOK, BatchRecord
  <2>2. PICK b \in set : \A c \in set : ~(Left(c) < Left(b))
    <3>. DEFINE T == {Left(b) : b \in set}
    <3>1. T \in SUBSET Nat /\ T # {}
      <4>. HIDE DEF Left
      <4>. QED  BY <2>1
    <3>2. \E n \in T : \A m \in T : ~(m < n)
      <4>. HIDE DEF T
      <4>. QED  BY <3>1, LeastExists
    <3>. QED  BY <3>2
  <2>3. ASSUME NEW c \in Blockers(b) \cap set
        PROVE  FALSE
    <3>1. Before(batch[b].item, batch[c].item)
      BY <1>2, <2>3, WaitsForward
    <3>. QED  BY <2>1, <2>2, <3>1, DomainAssumption DEF Before
  <2>. QED  BY <2>3
<1>. QED  BY <1>1, <1>2

-----------------------------------------------------------------------------
\* Batches that list their sites by domain never wait in a circle, however
\* many they are and however many sites they list.
THEOREM PanelNeverDeadlocks == Spec => []NoDeadlock
<1>1. Init => TypeOK /\ OrderInv
  BY InitTyped, InitOrdered
<1>2. TypeOK /\ OrderInv /\ [Next]_vars => (TypeOK /\ OrderInv)'
  BY NextTyped, NextOrdered
<1>3. TypeOK /\ OrderInv => NoDeadlock
  BY OrderPreventsDeadlock
<1>. QED  BY <1>1, <1>2, <1>3, PTL DEF Spec
-----------------------------------------------------------------------------
(* Revisions only go forward.                                              *)

Running(b) == batch[b].phase \notin {"new", "committed", "lost"}

\* What is live is the last revision, older than no other, and no newer than
\* the draft.
HistoryForward(s) ==
  /\ history[s] # <<>>
  /\ LiveContent(s) <= draft[s]
  /\ \A i, j \in DOMAIN history[s] : i < j => history[s][i].content < history[s][j].content

\* A batch has the rows of the revisions it made, which are newer than what
\* is live; one that is checking has its row.
MadeForward(b) ==
  /\ Running(b) => \A s \in batch[b].made :
       holder[s] = b /\ LiveContent(s) < batch[b].expected[s] /\ batch[b].expected[s] <= draft[s]
  /\ batch[b].phase = "check" => holder[batch[b].item] = b
  /\ batch[b].phase = "new" => batch[b].made = {}

ForwardInv == (\A s \in Sites : HistoryForward(s)) /\ (\A b \in Batches : MadeForward(b))

\* The content of the last revision is a number.
LEMMA LiveContentType ==
  ASSUME TypeOK, NEW s \in Sites, history[s] # <<>>
  PROVE  LiveContent(s) \in Nat
<1>1. history[s] \in Seq(Revision)
  BY DEF TypeOK
<1>2. Len(history[s]) \in 1..Len(history[s])
  BY <1>1, EmptySeq, LenProperties
<1>3. history[s][Len(history[s])] \in Revision
  BY <1>1, <1>2, ElementOfSeq
<1>. QED  BY <1>3 DEF LiveContent, Revision

\* A site that nothing was published for stays in order.
LEMMA HistoryKept ==
  ASSUME TypeOK, NEW s \in Sites, HistoryForward(s), history'[s] = history[s],
         draft[s] <= draft'[s], draft'[s] \in Nat
  PROVE  HistoryForward(s)'
<1>1. LiveContent(s) \in Nat /\ draft[s] \in Nat
  BY LiveContentType DEF HistoryForward, TypeOK
<1>2. LiveContent(s)' = LiveContent(s)
  BY DEF LiveContent
<1>3. LiveContent(s)' <= draft'[s]
  BY <1>1, <1>2 DEF HistoryForward
<1>. QED  BY <1>3 DEF HistoryForward

\* A batch whose record and rows a step leaves alone stays in order.
LEMMA MadeKept ==
  ASSUME TypeOK, ForwardInv, NEW c \in Batches, batch'[c] = batch[c],
         \A s \in Sites : holder[s] = c =>
           /\ holder'[s] = c /\ history'[s] = history[s]
           /\ draft[s] <= draft'[s] /\ draft'[s] \in Nat
  PROVE  MadeForward(c)'
<1>1. /\ batch[c].made \in SUBSET Sites /\ batch[c].item \in Sites
      /\ \A s \in Sites : batch[c].expected[s] \in Nat /\ draft[s] \in Nat
  BY DEF TypeOK, BatchRecord
<1>2. ASSUME NEW s \in batch[c].made, Running(c)
      PROVE  /\ holder'[s] = c /\ LiveContent(s)' < batch[c].expected[s]
             /\ batch[c].expected[s] <= draft'[s]
  <2>1. /\ s \in Sites /\ holder[s] = c
        /\ LiveContent(s) < batch[c].expected[s] /\ batch[c].expected[s] <= draft[s]
    BY <1>1, <1>2 DEF ForwardInv, MadeForward
  <2>2. LiveContent(s)' = LiveContent(s)
    BY <2>1 DEF LiveContent
  <2>. QED  BY <1>1, <2>1, <2>2
<1>3. Running(c)' => Running(c)
  BY DEF Running
<1>4. batch[c].phase = "check" => holder'[batch[c].item] = c
  BY <1>1 DEF ForwardInv, MadeForward
<1>5. batch[c].phase = "new" => batch[c].made = {}
  BY DEF ForwardInv, MadeForward
<1>. QED  BY <1>2, <1>3, <1>4, <1>5 DEF MadeForward

\* An item that fails takes its revision back with its row.
LEMMA FailItemForward ==
  ASSUME TypeOK, ForwardInv, NEW b \in Batches, FailItem(b),
         batch[b].phase \in {"lock", "check", "made"}, UNCHANGED <<draft, history>>
  PROVE  ForwardInv'
<1>. DEFINE i == batch[b].item
<1>1. /\ i \in Sites /\ batch[b].made \in SUBSET Sites /\ \A s \in Sites : draft[s] \in Nat
  BY DEF TypeOK, BatchRecord
<1>2. /\ batch'[b].phase = "log" /\ batch'[b].made = batch[b].made \ {i}
      /\ batch'[b].expected = batch[b].expected
      /\ \A c \in Batches \ {b} : batch'[c] = batch[c]
  BY DEF FailItem, Undone, TypeOK, BatchRecord
<1>3. /\ \A s \in Sites \ {i} : holder'[s] = holder[s]
      /\ holder[i] # b => holder'[i] = holder[i]
  BY <1>1 DEF FailItem, TypeOK
<1>4. MadeForward(b)'
  <2>1. Running(b)
    BY DEF Running
  <2>2. \A s \in Sites : LiveContent(s)' = LiveContent(s)
    BY DEF LiveContent
  <2>. QED  BY <1>1, <1>2, <1>3, <2>1, <2>2 DEF ForwardInv, MadeForward
<1>5. ASSUME NEW c \in Batches \ {b}
      PROVE  MadeForward(c)'
  BY <1>1, <1>2, <1>3, MadeKept
<1>6. ASSUME NEW s \in Sites
      PROVE  HistoryForward(s)'
  BY <1>1, HistoryKept DEF ForwardInv
<1>. QED  BY <1>4, <1>5, <1>6 DEF ForwardInv
\* The end of a request that publishes nothing leaves history alone.
LEMMA AbortForward ==
  ASSUME TypeOK, ForwardInv, NEW b \in Batches, Abort(b)
  PROVE  ForwardInv'
<1>1. /\ batch'[b].phase = "lost" /\ \A c \in Batches \ {b} : batch'[c] = batch[c]
      /\ \A s \in Sites : draft[s] \in Nat
  BY DEF Abort, TypeOK, BatchRecord
<1>2. MadeForward(b)'
  BY <1>1 DEF MadeForward, Running
<1>3. ASSUME NEW c \in Batches \ {b}
      PROVE  MadeForward(c)'
  <2>1. \A s \in Sites : holder[s] = c =>
          /\ holder'[s] = c /\ history'[s] = history[s]
          /\ draft[s] <= draft'[s] /\ draft'[s] \in Nat
    BY <1>1 DEF Abort, Freed
  <2>. QED  BY <1>1, <2>1, MadeKept
<1>4. ASSUME NEW s \in Sites
      PROVE  HistoryForward(s)'
  BY <1>1, HistoryKept DEF Abort, ForwardInv
<1>. QED  BY <1>2, <1>3, <1>4 DEF ForwardInv

\* A commit publishes drafts newer than what was live, on rows it has.
LEMMA CommitForward ==
  ASSUME TypeOK, ForwardInv, NEW b \in Batches, Commit(b)
  PROVE  ForwardInv'
<1>. DEFINE r == batch[b]
            entry(s) == [content |-> r.expected[s], by |-> b]
<1>1. /\ batch'[b].phase = "committed" /\ \A c \in Batches \ {b} : batch'[c] = batch[c]
      /\ r.made \in SUBSET Sites /\ Running(b)
      /\ \A s \in Sites : draft[s] \in Nat /\ r.expected[s] \in Nat /\ entry(s) \in Revision
  BY DEF Commit, Running, TypeOK, BatchRecord, Revision
<1>2. /\ \A s \in r.made : history'[s] = Append(history[s], entry(s))
      /\ \A s \in Sites \ r.made : history'[s] = history[s]
      /\ draft' = draft
  BY <1>1 DEF Commit
<1>3. \A s \in r.made : holder[s] = b
  BY <1>1 DEF ForwardInv, MadeForward
<1>4. MadeForward(b)'
  BY <1>1 DEF MadeForward, Running
<1>5. ASSUME NEW c \in Batches \ {b}
      PROVE  MadeForward(c)'
  <2>1. \A s \in Sites : holder[s] = c =>
          /\ holder'[s] = c /\ history'[s] = history[s]
          /\ draft[s] <= draft'[s] /\ draft'[s] \in Nat
    BY <1>1, <1>2, <1>3 DEF Commit, Freed
  <2>. QED  BY <1>1, <2>1, MadeKept
<1>6. ASSUME NEW s \in r.made
      PROVE  HistoryForward(s)'
  <2>. DEFINE n == Len(history[s])
  <2>1. /\ history[s] \in Seq(Revision) /\ history[s] # <<>> /\ n \in Nat
        /\ LiveContent(s) \in Nat
    BY <1>1, LiveContentType, LenProperties DEF TypeOK, ForwardInv, HistoryForward
  <2>2. LiveContent(s) < r.expected[s] /\ r.expected[s] <= draft[s]
    BY <1>1 DEF ForwardInv, MadeForward
  <2>3. /\ history'[s] \in Seq(Revision) /\ history'[s] # <<>> /\ Len(history'[s]) = n + 1
        /\ \A i \in 1..n : history'[s][i] = history[s][i]
        /\ history'[s][n + 1] = entry(s)
    <3>1. entry(s) \in Revision /\ history'[s] = Append(history[s], entry(s))
      BY <1>1, <1>2
    <3>. HIDE DEF entry
    <3>. QED  BY <2>1, <3>1, AppendProperties
  <2>4. LiveContent(s)' = r.expected[s] /\ LiveContent(s)' <= draft'[s]
    BY <1>2, <2>2, <2>3 DEF LiveContent
  <2>5. \A i \in 1..n : history[s][i].content \in Nat
    <3>1. \A i \in 1..n : history[s][i] \in Revision
      BY <2>1, ElementOfSeq
    <3>. QED  BY <3>1 DEF Revision
  <2>6. \A i \in 1..n : history[s][i].content <= LiveContent(s)
    BY <1>1, <2>1, <2>5, LenProperties DEF ForwardInv, HistoryForward, LiveContent
  <2>7. ASSUME NEW i \in DOMAIN history'[s], NEW j \in DOMAIN history'[s], i < j
        PROVE  history'[s][i].content < history'[s][j].content
    <3>1. i \in 1..n /\ j \in 1..n + 1
      BY <2>1, <2>3, <2>7, LenProperties
    <3>2. CASE j = n + 1
      <4>1. i \in 1..n
        BY <2>1, <2>7, <3>1, <3>2
      <4>2. history[s][i].content < r.expected[s]
        <5>1. r.expected[s] \in Nat
          BY <1>1
        <5>. HIDE DEF n
        <5>. QED  BY <2>1, <2>2, <2>5, <2>6, <4>1, <5>1
      <4>. QED  BY <2>3, <3>2, <4>1, <4>2
    <3>3. CASE j \in 1..n
      BY <1>1, <2>1, <2>3, <2>7, <3>1, <3>3, LenProperties DEF ForwardInv, HistoryForward
    <3>. QED  BY <2>1, <3>1, <3>2, <3>3
  <2>. QED  BY <2>3, <2>4, <2>7 DEF HistoryForward
<1>7. ASSUME NEW s \in Sites \ r.made
      PROVE  HistoryForward(s)'
  <2>1. history'[s] = history[s] /\ draft[s] <= draft'[s] /\ draft'[s] \in Nat
    <3>1. draft' = draft /\ draft[s] \in Nat
      BY <1>1, <1>2
    <3>. QED  BY <1>2, <3>1
  <2>. QED  BY <2>1, HistoryKept DEF ForwardInv
<1>. QED  BY <1>1, <1>4, <1>5, <1>6, <1>7 DEF ForwardInv

\* Every site begins with one revision, of its draft.
LEMMA InitForward == Init => ForwardInv
BY DEF Init, ForwardInv, HistoryForward, MadeForward, LiveContent, Running

\* Every step goes forward.
LEMMA NextForward ==
  ASSUME TypeOK, ForwardInv, [Next]_vars
  PROVE  ForwardInv'
<1>0. /\ \A b \in Batches : batch[b] \in BatchRecord
      /\ \A b \in Batches : batch[b].item \in Sites /\ batch[b].made \in SUBSET Sites
      /\ \A s \in Sites : draft[s] \in Nat
  BY DEF TypeOK, BatchRecord
<1>1. ASSUME UNCHANGED <<draft, history>>, NEW b \in Batches,
             \A c \in Batches \ {b} : batch'[c] = batch[c],
             \A s \in Sites, c \in Batches \ {b} : holder[s] = c => holder'[s] = c,
             MadeForward(b)'
      PROVE  ForwardInv'
  <2>1. ASSUME NEW c \in Batches \ {b}
        PROVE  MadeForward(c)'
    BY <1>0, <1>1, MadeKept
  <2>2. ASSUME NEW s \in Sites
        PROVE  HistoryForward(s)'
    BY <1>0, <1>1, HistoryKept DEF ForwardInv
  <2>. QED  BY <1>1, <2>1, <2>2 DEF ForwardInv
<1>2. ASSUME UNCHANGED <<draft, history, holder>>, NEW b \in Batches,
             \A c \in Batches \ {b} : batch'[c] = batch[c],
             batch'[b].phase \notin {"new", "check"}, Running(b),
             batch'[b].made = batch[b].made, batch'[b].expected = batch[b].expected
      PROVE  ForwardInv'
  <2>1. \A s \in Sites : LiveContent(s)' = LiveContent(s)
    BY <1>2 DEF LiveContent
  <2>2. MadeForward(b)'
    BY <1>0, <1>2, <2>1 DEF ForwardInv, MadeForward
  <2>. QED  BY <1>1, <1>2, <2>2
<1>3. ASSUME NEW b \in Batches, Request(b)
      PROVE  ForwardInv'
  <2>1. /\ batch'[b].phase = "next" /\ batch'[b].made = {}
        /\ \A c \in Batches \ {b} : batch'[c] = batch[c]
    <3>1. batch[b].made = {}
      BY <1>3 DEF Request, ForwardInv, MadeForward
    <3>. QED  BY <1>0, <1>3, <3>1 DEF Request, TypeOK, BatchRecord
  <2>2. MadeForward(b)'
    BY <2>1 DEF MadeForward
  <2>. QED  BY <1>1, <1>3, <2>1, <2>2 DEF Request
<1>4. ASSUME NEW b \in Batches, NextItem(b)
      PROVE  ForwardInv'
  <2>1. /\ batch'[b].phase = "lock" /\ batch'[b].made = batch[b].made
        /\ batch'[b].expected = batch[b].expected
        /\ \A c \in Batches \ {b} : batch'[c] = batch[c]
    BY <1>0, <1>4 DEF NextItem, TypeOK, BatchRecord
  <2>. QED  BY <1>2, <1>4, <2>1 DEF NextItem, Running
<1>5. ASSUME NEW b \in Batches, LockItem(b)
      PROVE  ForwardInv'
  <2>1. CASE FailItem(b)
    BY <1>5, <2>1, FailItemForward DEF LockItem
  <2>2. CASE /\ Blockers(b) = {}
             /\ holder' = [holder EXCEPT ![batch[b].item] = b]
             /\ batch' = [batch EXCEPT ![b].phase = "check"]
    <3>1. /\ batch'[b].phase = "check" /\ batch'[b].made = batch[b].made
          /\ batch'[b].item = batch[b].item
          /\ batch'[b].expected = batch[b].expected
          /\ \A c \in Batches \ {b} : batch'[c] = batch[c]
      BY <1>0, <2>2 DEF TypeOK, BatchRecord
    <3>2. \A s \in Sites : holder'[s] = IF s = batch[b].item THEN b ELSE holder[s]
      BY <2>2 DEF TypeOK
    <3>3. holder[batch[b].item] \in {b, Nobody}
      BY <1>5, <2>2 DEF LockItem, Blockers
    <3>4. \A s \in Sites : LiveContent(s)' = LiveContent(s)
      BY <1>5 DEF LockItem, LiveContent
    <3>5. MadeForward(b)'
      BY <1>0, <1>5, <3>1, <3>2, <3>4 DEF LockItem, ForwardInv, MadeForward, Running
    <3>6. \A s \in Sites, c \in Batches \ {b} : holder[s] = c => holder'[s] = c
      BY <3>2, <3>3, NobodyAssumption
    <3>. QED  BY <1>1, <1>5, <3>1, <3>5, <3>6 DEF LockItem
  <2>. QED  BY <1>5, <2>1, <2>2 DEF LockItem
<1>6. ASSUME NEW b \in Batches, CheckItem(b)
      PROVE  ForwardInv'
  <2>. DEFINE i == batch[b].item
  <2>1. CASE FailItem(b)
    BY <1>6, <2>1, FailItemForward DEF CheckItem
  <2>2. CASE /\ Publishable(batch[b])
             /\ batch' = [batch EXCEPT ![b].phase = "made", ![b].made = @ \cup {i}]
             /\ UNCHANGED holder
    <3>1. /\ batch'[b].phase = "made" /\ batch'[b].made = batch[b].made \cup {i}
          /\ batch'[b].expected = batch[b].expected
          /\ \A c \in Batches \ {b} : batch'[c] = batch[c]
      BY <1>0, <2>2 DEF TypeOK, BatchRecord
    <3>2. \A s \in Sites : LiveContent(s)' = LiveContent(s)
      BY <1>6 DEF CheckItem, LiveContent
    <3>3. holder[i] = b /\ LiveContent(i) < batch[b].expected[i] /\ batch[b].expected[i] <= draft[i]
      <4>1. LiveContent(i) \in Nat /\ LiveContent(i) <= draft[i]
        BY <1>0, LiveContentType DEF ForwardInv, HistoryForward
      <4>. QED  BY <1>0, <1>6, <2>2, <4>1 DEF CheckItem, Publishable, ForwardInv, MadeForward
    <3>4. MadeForward(b)'
      <4>1. \A s \in batch[b].made :
              /\ holder[s] = b /\ LiveContent(s) < batch[b].expected[s]
              /\ batch[b].expected[s] <= draft[s]
        BY <1>6 DEF CheckItem, ForwardInv, MadeForward, Running
      <4>2. \A s \in batch'[b].made :
              /\ holder'[s] = b /\ LiveContent(s)' < batch'[b].expected[s]
              /\ batch'[b].expected[s] <= draft'[s]
        BY <1>0, <1>6, <2>2, <3>1, <3>2, <3>3, <4>1 DEF CheckItem
      <4>. QED  BY <3>1, <4>2 DEF MadeForward
    <3>. QED  BY <1>1, <1>6, <2>2, <3>1, <3>4 DEF CheckItem
  <2>. QED  BY <1>6, <2>1, <2>2 DEF CheckItem
<1>7. ASSUME NEW b \in Batches, EndItem(b)
      PROVE  ForwardInv'
  <2>1. CASE FailItem(b)
    BY <1>7, <2>1, FailItemForward DEF EndItem
  <2>2. CASE /\ batch' = [batch EXCEPT ![b].phase = "next",
                                       ![b].outcome[batch[b].item] = "succeeded"]
             /\ UNCHANGED holder
    <3>1. /\ batch'[b].phase = "next" /\ batch'[b].made = batch[b].made
          /\ batch'[b].expected = batch[b].expected
          /\ \A c \in Batches \ {b} : batch'[c] = batch[c]
      BY <1>0, <2>2 DEF TypeOK, BatchRecord
    <3>. QED  BY <1>2, <1>7, <2>2, <3>1 DEF EndItem, Running
  <2>. QED  BY <1>7, <2>1, <2>2 DEF EndItem
<1>8. ASSUME NEW b \in Batches, LogFailure(b)
      PROVE  ForwardInv'
  <2>1. /\ batch'[b].phase = "next" /\ batch'[b].made = batch[b].made
        /\ batch'[b].expected = batch[b].expected
        /\ \A c \in Batches \ {b} : batch'[c] = batch[c]
    BY <1>0, <1>8 DEF LogFailure, TypeOK, BatchRecord
  <2>. QED  BY <1>2, <1>8, <2>1 DEF LogFailure, Running
<1>12. ASSUME NEW b \in Batches, Answer(b)
       PROVE  ForwardInv'
  <2>1. /\ batch'[b].phase = "answered" /\ batch'[b].made = batch[b].made
        /\ batch'[b].expected = batch[b].expected
        /\ \A c \in Batches \ {b} : batch'[c] = batch[c]
    BY <1>0, <1>12 DEF Answer, TypeOK, BatchRecord
  <2>. QED  BY <1>2, <1>12, <2>1 DEF Answer, Running
<1>9. ASSUME NEW b \in Batches, Victim(b)
      PROVE  ForwardInv'
  BY <1>9, FailItemForward, AbortForward DEF Victim
<1>10. ASSUME NEW s \in Sites, EditDraft(s)
       PROVE  ForwardInv'
  <2>1. \A t \in Sites : draft'[t] \in Nat /\ draft[t] <= draft'[t]
    BY <1>0, <1>10 DEF EditDraft, TypeOK
  <2>2. ASSUME NEW t \in Sites
        PROVE  HistoryForward(t)'
    BY <1>10, <2>1, HistoryKept DEF EditDraft, ForwardInv
  <2>3. ASSUME NEW c \in Batches
        PROVE  MadeForward(c)'
    BY <1>10, <2>1, MadeKept DEF EditDraft
  <2>. QED  BY <2>2, <2>3 DEF ForwardInv
<1>11. CASE UNCHANGED vars
  <2>1. ASSUME NEW s \in Sites
        PROVE  HistoryForward(s)'
    BY <1>0, <1>11, HistoryKept DEF vars, ForwardInv
  <2>2. ASSUME NEW c \in Batches
        PROVE  MadeForward(c)'
    BY <1>0, <1>11, MadeKept DEF vars
  <2>. QED  BY <2>1, <2>2 DEF ForwardInv
<1>. QED
  BY <1>3, <1>4, <1>5, <1>6, <1>7, <1>8, <1>9, <1>10, <1>11, <1>12, AbortForward, CommitForward
  DEF Next, Run, Crash

\* No interleaving of batches, saves, failures and crashes publishes a draft
\* behind a newer one, or one draft twice.
THEOREM RevisionsGoForward == Spec => []NeverBackward
<1>1. Init => TypeOK /\ ForwardInv
  BY InitTyped, InitForward
<1>2. TypeOK /\ ForwardInv /\ [Next]_vars => (TypeOK /\ ForwardInv)'
  BY NextTyped, NextForward
<1>3. ForwardInv => NeverBackward
  BY DEF ForwardInv, HistoryForward, NeverBackward
<1>. QED  BY <1>1, <1>2, <1>3, PTL DEF Spec
-----------------------------------------------------------------------------
(* Reports.                                                                *)

\* The revisions of a site that a batch has committed, and what it has logged.
By(b, s) == {i \in DOMAIN history[s] : history[s][i].by = b}
Logged(b) == {e \in log : e.batch = b}

Settled(r, s) ==
  \/ r.outcome[s] = "succeeded" /\ s \in r.made
  \/ r.outcome[s] = "failed" /\ s \notin r.made

\* A batch at work has settled all sites but those to come and its item.
Progress(b) ==
  LET r == batch[b]
      within == r.phase \in {"lock", "check", "made", "log"}
  IN
  r.phase \in {"next", "lock", "check", "made", "log", "answered"} =>
    /\ r.todo \subseteq r.asked /\ r.made \subseteq r.asked \ r.todo
    /\ within => r.item \in r.asked \ r.todo /\ (r.item \in r.made <=> r.phase = "made")
    /\ \A s \in r.asked \ r.todo : (within /\ s = r.item) \/ Settled(r, s)
    /\ r.phase = "answered" => r.todo = {}

\* AsAnsweredOrNotAtAll for one batch.
ReportOK(b) ==
  LET r == batch[b] IN
  IF r.phase = "committed"
  THEN /\ \A s \in r.asked :
            \/ /\ r.outcome[s] = "succeeded"
               /\ \E i \in By(b, s) : By(b, s) = {i} /\ history[s][i].content = r.expected[s]
            \/ r.outcome[s] = "failed" /\ By(b, s) = {}
       /\ \A s \in Sites \ r.asked : By(b, s) = {}
       /\ Logged(b) = {[batch |-> b, site |-> s, outcome |-> r.outcome[s]] : s \in r.asked}
  ELSE Logged(b) = {} /\ \A s \in Sites : By(b, s) = {}

ReportInv ==
  \A b \in Batches : Progress(b) /\ ReportOK(b) /\ (batch[b].phase = "new" => batch[b].made = {})

\* A report stays true while its batch and what it left stay as they are.
LEMMA ReportKept ==
  ASSUME TypeOK, ReportInv, NEW b \in Batches, batch'[b] = batch[b], Logged(b)' = Logged(b),
         \A s \in Sites : By(b, s)' = By(b, s),
         \A s \in Sites : \A i \in By(b, s) : history'[s][i] = history[s][i]
  PROVE  (Progress(b) /\ ReportOK(b) /\ (batch[b].phase = "new" => batch[b].made = {}))'
<1>1. Progress(b) /\ ReportOK(b) /\ (batch[b].phase = "new" => batch[b].made = {})
  BY DEF ReportInv
<1>2. Progress(b)' /\ (batch[b].phase = "new" => batch[b].made = {})'
  BY <1>1 DEF Progress, Settled
<1>3. batch[b].asked \in SUBSET Sites
  BY DEF TypeOK, BatchRecord
<1>4. ReportOK(b)'
  BY <1>1, <1>3 DEF ReportOK
<1>. QED  BY <1>2, <1>4

\* A step that commits nothing: only the batch it is about has to be looked at.
LEMMA QuietStep ==
  ASSUME TypeOK, ReportInv, NEW b \in Batches, UNCHANGED <<history, log>>,
         \A c \in Batches \ {b} : batch'[c] = batch[c],
         batch[b].phase # "committed", batch'[b].phase # "committed",
         batch'[b].phase = "new" => batch'[b].made = {}, Progress(b)'
  PROVE  ReportInv'
<1>1. \A c \in Batches, s \in Sites : By(c, s)' = By(c, s) /\ Logged(c)' = Logged(c)
  BY DEF By, Logged
<1>2. ReportOK(b)'
  BY <1>1 DEF ReportInv, ReportOK, By, Logged
<1>3. ASSUME NEW c \in Batches \ {b}
      PROVE  (Progress(c) /\ ReportOK(c) /\ (batch[c].phase = "new" => batch[c].made = {}))'
  <2>1. Logged(c)' = Logged(c) /\ \A s \in Sites : By(c, s)' = By(c, s)
    BY DEF By, Logged
  <2>. QED  BY <2>1, ReportKept
<1>. QED  BY <1>2, <1>3 DEF ReportInv

\* An item that fails is the one to be settled next.
LEMMA FailItemReport ==
  ASSUME TypeOK, ReportInv, NEW b \in Batches, FailItem(b), UNCHANGED <<history, log>>,
         batch[b].phase \in {"lock", "check", "made"}
  PROVE  ReportInv'
<1>. DEFINE r == batch[b]
<1>1. /\ r \in BatchRecord
      /\ batch' = [batch EXCEPT ![b] = [r EXCEPT !.phase = "log", !.made = Undone(r)]]
  BY DEF FailItem, TypeOK
<1>2. /\ batch'[b].phase = "log" /\ batch'[b].made = r.made \ {r.item}
      /\ batch'[b].todo = r.todo /\ batch'[b].asked = r.asked /\ batch'[b].item = r.item
      /\ batch'[b].outcome = r.outcome /\ \A c \in Batches \ {b} : batch'[c] = batch[c]
  BY <1>1 DEF TypeOK, BatchRecord, Undone
<1>3. Progress(b)
  BY DEF ReportInv
<1>4. Progress(b)'
  BY <1>2, <1>3 DEF Progress, Settled
<1>. QED  BY <1>2, <1>4, QuietStep

\* A batch that is rolled back leaves nothing.
LEMMA AbortReport ==
  ASSUME TypeOK, ReportInv, NEW b \in Batches, Abort(b), batch[b].phase # "committed"
  PROVE  ReportInv'
<1>1. batch'[b].phase = "lost" /\ \A c \in Batches \ {b} : batch'[c] = batch[c]
  BY DEF Abort, TypeOK, BatchRecord
<1>2. Progress(b)'
  BY <1>1 DEF Progress
<1>. QED  BY <1>1, <1>2, QuietStep DEF Abort

\* A commit adds one revision of its own to each site it made, and none to others.
LEMMA CommitBy ==
  ASSUME TypeOK, NEW b \in Batches, Commit(b), NEW c \in Batches, NEW s \in Sites,
         By(b, s) = {}
  PROVE  /\ c # b => /\ By(c, s)' = By(c, s)
                     /\ \A i \in By(c, s) : history'[s][i] = history[s][i]
         /\ s \notin batch[b].made => By(b, s)' = {}
         /\ s \in batch[b].made =>
              \E i \in By(b, s)' : /\ By(b, s)' = {i}
                                   /\ history'[s][i].content = batch[b].expected[s]
<1>. DEFINE entry == [content |-> batch[b].expected[s], by |-> b]
            n == Len(history[s]) + 1
<1>1. history[s] \in Seq(Revision) /\ batch[b].expected[s] \in Nat
  BY DEF TypeOK, BatchRecord
<1>2. /\ DOMAIN history[s] = 1..Len(history[s]) /\ Len(history[s]) \in Nat
      /\ entry \in Revision /\ entry.by = b /\ entry.content = batch[b].expected[s]
  BY <1>1, LenProperties DEF Revision
<1>3. CASE s \notin batch[b].made
  <2>1. history'[s] = history[s]
    BY <1>3 DEF Commit
  <2>. QED  BY <1>3, <2>1 DEF By
<1>4. CASE s \in batch[b].made
  <2>1. history'[s] = Append(history[s], entry)
    BY <1>4 DEF Commit
  <2>. HIDE DEF entry
  <2>2. /\ DOMAIN history'[s] = DOMAIN history[s] \cup {n}
        /\ \A i \in DOMAIN history[s] : history'[s][i] = history[s][i]
        /\ history'[s][n] = entry /\ n \notin DOMAIN history[s]
    BY <1>1, <1>2, <2>1, AppendProperties, LenProperties
  <2>3. By(b, s)' = {n}
    BY <1>2, <2>2 DEF By
  <2>4. c # b => By(c, s)' = By(c, s)
    BY <1>2, <2>2 DEF By
  <2>. QED  BY <1>2, <1>4, <2>2, <2>3, <2>4 DEF By
<1>. QED  BY <1>3, <1>4

\* The report a batch ends with is what it has done.
LEMMA CommitReport ==
  ASSUME TypeOK, ReportInv, NEW b \in Batches, Commit(b)
  PROVE  ReportInv'
<1>. DEFINE r == batch[b]
            entries == {[batch |-> b, site |-> s, outcome |-> r.outcome[s]] : s \in r.asked}
<1>0. /\ r \in BatchRecord /\ r.phase = "answered" /\ r.asked \in SUBSET Sites
      /\ log' = log \cup entries
  BY DEF Commit, TypeOK, BatchRecord
<1>1. /\ batch'[b].phase = "committed" /\ batch'[b].asked = r.asked
      /\ batch'[b].outcome = r.outcome /\ batch'[b].expected = r.expected
      /\ \A c \in Batches \ {b} : batch'[c] = batch[c]
  BY <1>0 DEF Commit, TypeOK, BatchRecord
<1>2. /\ Logged(b) = {} /\ \A s \in Sites : By(b, s) = {}
      /\ r.made \subseteq r.asked /\ r.todo = {} /\ \A s \in r.asked : Settled(r, s)
  BY <1>0 DEF ReportInv, ReportOK, Progress
<1>3. Logged(b)' = entries /\ \A c \in Batches \ {b} : Logged(c)' = Logged(c)
  <2>1. \A e \in entries : e.batch = b
    OBVIOUS
  <2>. HIDE DEF entries
  <2>. QED  BY <1>0, <1>2, <2>1 DEF Logged
<1>4. ReportOK(b)'
  <2>1. ASSUME NEW s \in r.asked
        PROVE  \/ /\ r.outcome[s] = "succeeded"
                  /\ \E i \in By(b, s)' : /\ By(b, s)' = {i}
                                          /\ history'[s][i].content = r.expected[s]
               \/ r.outcome[s] = "failed" /\ By(b, s)' = {}
    BY <1>0, <1>2, CommitBy DEF Settled
  <2>2. \A s \in Sites \ r.asked : By(b, s)' = {}
    BY <1>2, CommitBy
  <2>. QED  BY <1>1, <1>3, <2>1, <2>2 DEF ReportOK
<1>5. Progress(b)' /\ (batch[b].phase = "new" => batch[b].made = {})'
  BY <1>1 DEF Progress
<1>6. ASSUME NEW c \in Batches \ {b}
      PROVE  (Progress(c) /\ ReportOK(c) /\ (batch[c].phase = "new" => batch[c].made = {}))'
  BY <1>1, <1>2, <1>3, CommitBy, ReportKept
<1>. QED  BY <1>4, <1>5, <1>6 DEF ReportInv

LEMMA InitReport == Init => ReportInv
<1>. SUFFICES ASSUME Init, NEW b \in Batches
              PROVE  Progress(b) /\ ReportOK(b) /\ batch[b].made = {}
  BY DEF ReportInv
<1>1. batch[b].phase = "new" /\ batch[b].made = {} /\ Logged(b) = {}
  BY DEF Init, Logged
<1>2. \A s \in Sites : By(b, s) = {}
  BY NobodyAssumption DEF Init, By
<1>. QED  BY <1>1, <1>2 DEF Progress, ReportOK

\* Every step settles what it says it settles.
LEMMA NextReport ==
  ASSUME TypeOK, ReportInv, [Next]_vars
  PROVE  ReportInv'
<1>0. \A b \in Batches : batch[b] \in BatchRecord /\ Progress(b)
  BY DEF TypeOK, ReportInv
<1>1. ASSUME NEW b \in Batches, Request(b)  PROVE ReportInv'
  <2>1. /\ batch'[b].phase = "next" /\ batch'[b].made = {} /\ batch'[b].todo = batch'[b].asked
        /\ batch[b].phase = "new" /\ \A c \in Batches \ {b} : batch'[c] = batch[c]
    <3>1. batch[b].made = {}
      BY <1>1 DEF Request, ReportInv
    <3>. QED  BY <1>0, <1>1, <3>1 DEF Request, TypeOK, BatchRecord
  <2>2. Progress(b)'
    BY <2>1 DEF Progress
  <2>. QED  BY <1>1, <2>1, <2>2, QuietStep DEF Request
<1>2. ASSUME NEW b \in Batches, NextItem(b)  PROVE ReportInv'
  <2>1. PICK s \in First(batch[b]) :
          batch' = [batch EXCEPT ![b].phase = "lock", ![b].item = s, ![b].todo = @ \ {s}]
    BY <1>2 DEF NextItem
  <2>2. /\ batch[b].phase = "next" /\ s \in batch[b].todo
        /\ batch'[b].phase = "lock" /\ batch'[b].made = batch[b].made
        /\ batch'[b].todo = batch[b].todo \ {s} /\ batch'[b].item = s
        /\ batch'[b].asked = batch[b].asked /\ batch'[b].outcome = batch[b].outcome
        /\ \A c \in Batches \ {b} : batch'[c] = batch[c]
    BY <1>0, <1>2, <2>1 DEF NextItem, First, TypeOK, BatchRecord
  <2>3. Progress(b)'
    BY <1>0, <2>2 DEF Progress, Settled
  <2>. QED  BY <1>2, <2>2, <2>3, QuietStep DEF NextItem
<1>3. ASSUME NEW b \in Batches, LockItem(b)  PROVE ReportInv'
  <2>1. CASE FailItem(b)
    BY <1>3, <2>1, FailItemReport DEF LockItem
  <2>2. CASE batch' = [batch EXCEPT ![b].phase = "check"]
    <3>1. /\ batch[b].phase = "lock" /\ batch'[b] = [batch[b] EXCEPT !.phase = "check"]
          /\ \A c \in Batches \ {b} : batch'[c] = batch[c]
      BY <1>3, <2>2 DEF LockItem, TypeOK
    <3>2. Progress(b)' /\ batch'[b].phase = "check"
      BY <1>0, <3>1 DEF Progress, Settled, BatchRecord
    <3>. QED  BY <1>3, <3>1, <3>2, QuietStep DEF LockItem
  <2>. QED  BY <1>3, <2>1, <2>2 DEF LockItem
<1>4. ASSUME NEW b \in Batches, CheckItem(b)  PROVE ReportInv'
  <2>1. CASE FailItem(b)
    BY <1>4, <2>1, FailItemReport DEF CheckItem
  <2>2. CASE batch' = [batch EXCEPT ![b].phase = "made", ![b].made = @ \cup {batch[b].item}]
    <3>1. /\ batch[b].phase = "check" /\ batch'[b].phase = "made"
          /\ batch'[b].made = batch[b].made \cup {batch[b].item}
          /\ batch'[b].todo = batch[b].todo /\ batch'[b].item = batch[b].item
          /\ batch'[b].asked = batch[b].asked /\ batch'[b].outcome = batch[b].outcome
          /\ \A c \in Batches \ {b} : batch'[c] = batch[c]
      BY <1>0, <1>4, <2>2 DEF CheckItem, TypeOK, BatchRecord
    <3>2. Progress(b)'
      BY <1>0, <3>1 DEF Progress, Settled
    <3>. QED  BY <1>4, <3>1, <3>2, QuietStep DEF CheckItem
  <2>. QED  BY <1>4, <2>1, <2>2 DEF CheckItem
<1>5. ASSUME NEW b \in Batches, NEW outcome \in {"succeeded", "failed"},
             batch[b].phase = IF outcome = "succeeded" THEN "made" ELSE "log",
             batch' = [batch EXCEPT ![b].phase = "next",
                                    ![b].outcome[batch[b].item] = outcome],
             UNCHANGED <<history, log>>
      PROVE  ReportInv'
  <2>1. /\ batch'[b].phase = "next" /\ batch'[b].made = batch[b].made
        /\ batch'[b].todo = batch[b].todo /\ batch'[b].asked = batch[b].asked
        /\ batch'[b].outcome = [batch[b].outcome EXCEPT ![batch[b].item] = outcome]
        /\ \A c \in Batches \ {b} : batch'[c] = batch[c]
    BY <1>0, <1>5 DEF TypeOK, BatchRecord
  <2>2. /\ \A s \in Sites : batch'[b].outcome[s] =
             IF s = batch[b].item THEN outcome ELSE batch[b].outcome[s]
        /\ batch[b].asked \in SUBSET Sites
    BY <1>0, <2>1 DEF BatchRecord
  <2>3. batch[b].item \in batch[b].made <=> outcome = "succeeded"
    BY <1>0, <1>5 DEF Progress
  <2>4. \A s \in batch[b].asked \ batch[b].todo : s # batch[b].item => Settled(batch[b], s)
    BY <1>0, <1>5 DEF Progress
  <2>5. batch[b].made \subseteq batch[b].asked \ batch[b].todo /\ batch[b].todo \subseteq batch[b].asked
    BY <1>0, <1>5 DEF Progress
  <2>6. \A s \in batch[b].asked \ batch[b].todo : Settled(batch'[b], s)
    BY <2>1, <2>2, <2>3, <2>4 DEF Settled
  <2>7. Progress(b)'
    BY <2>1, <2>5, <2>6 DEF Progress, Settled
  <2>. QED  BY <1>5, <2>1, <2>7, QuietStep
<1>6. ASSUME NEW b \in Batches, EndItem(b)  PROVE ReportInv'
  BY <1>5, <1>6, FailItemReport DEF EndItem
<1>7. ASSUME NEW b \in Batches, LogFailure(b)  PROVE ReportInv'
  BY <1>5, <1>7 DEF LogFailure, Failure
<1>10. ASSUME NEW b \in Batches, Answer(b)  PROVE ReportInv'
  <2>1. /\ batch[b].phase = "next" /\ batch[b].todo = {} /\ batch'[b].phase = "answered"
        /\ batch'[b].made = batch[b].made /\ batch'[b].todo = batch[b].todo
        /\ batch'[b].asked = batch[b].asked /\ batch'[b].outcome = batch[b].outcome
        /\ \A c \in Batches \ {b} : batch'[c] = batch[c]
    BY <1>0, <1>10 DEF Answer, TypeOK, BatchRecord
  <2>2. Progress(b)'
    BY <1>0, <2>1 DEF Progress, Settled
  <2>. QED  BY <1>10, <2>1, <2>2, QuietStep DEF Answer
<1>8. ASSUME NEW b \in Batches, Victim(b)  PROVE ReportInv'
  BY <1>8, FailItemReport, AbortReport DEF Victim
<1>9. CASE (\E s \in Sites : EditDraft(s)) \/ UNCHANGED vars
  <2>1. UNCHANGED <<history, log, batch>>
    BY <1>9 DEF EditDraft, vars
  <2>2. \A b \in Batches : Logged(b)' = Logged(b) /\ \A s \in Sites : By(b, s)' = By(b, s)
    BY <2>1 DEF Logged, By
  <2>. QED  BY <2>1, <2>2, ReportKept DEF ReportInv
<1>. QED
  BY <1>1, <1>2, <1>3, <1>4, <1>6, <1>7, <1>8, <1>9, <1>10, CommitReport, AbortReport
  DEF Next, Run, Crash

\* The results of a batch, the log and the history agree once it is committed,
\* for any number of batches and sites; until then, and if it is lost, before
\* its answer or after it, it leaves no trace in either.
THEOREM AnsweredOrNothing == Spec => []AsAnsweredOrNotAtAll
<1>1. Init => TypeOK /\ ReportInv
  BY InitTyped, InitReport
<1>2. TypeOK /\ ReportInv /\ [Next]_vars => (TypeOK /\ ReportInv)'
  BY NextTyped, NextReport
<1>3. TypeOK /\ ReportInv => AsAnsweredOrNotAtAll
  <2>. SUFFICES ASSUME TypeOK, ReportInv  PROVE AsAnsweredOrNotAtAll
    OBVIOUS
  <2>1. \A b \in Batches : batch[b].asked \in SUBSET Sites /\ ReportOK(b)
    BY DEF TypeOK, BatchRecord, ReportInv
  <2>. QED  BY <2>1 DEF ReportOK, AsAnsweredOrNotAtAll, By, Logged
<1>. QED  BY <1>1, <1>2, <1>3, PTL DEF Spec
=============================================================================
