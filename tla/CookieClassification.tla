------------------------ MODULE CookieClassification ------------------------
(* Rules give cookies their category: a scan classifies what it found and   *)
(* syncs it into the site's inventory, a request classifies what is still   *)
(* uncategorised, while editors change rows and rules.                      *)
EXTENDS Naturals, FiniteSets

CONSTANTS
  Names,      \* name and domain of the cookies
  Own,        \* those named _consentos_*
  Categories,
  Necessary,
  None,       \* no category
  Rules,      \* allow-list entries and known cookies that may be saved
  MaxChanges  \* bound: saves by editors and administrators

Kinds == {"allow", "exact", "regex"}

ASSUME RulesAssumption ==
  /\ Own \subseteq Names /\ Necessary \in Categories /\ None \notin Categories
  /\ Rules \subseteq [kind : Kinds, fits : SUBSET Names, category : Categories]
  /\ MaxChanges \in Nat

VARIABLES
  rows,     \* the site's cookies; by says who gave the category
  rules,    \* saved allow-list entries and known cookies
  lasting,  \* rules that have been saved all along
  request,  \* POST /cookies/sites/{site_id}/classify
  scan,     \* the scan task, from its results to its sync
  changes   \* saves so far

classifyVars == <<rows, rules, lasting, request, scan, changes>>

Absent == [category |-> None, review |-> "none", by |-> "nobody"]
Reviews == {"pending", "approved", "rejected"}
Present(c) == rows[c] # Absent

NoRequest == [step |-> "idle", loaded |-> {}, writes |-> <<>>, batched |-> {},
              held |-> {}, lost |-> {}]
NoScan == [step |-> "idle", todo |-> {}, loaded |-> {}, cookie |-> None,
           saw |-> Absent, verdicts |-> <<>>, held |-> {}, lost |-> FALSE]

ClassifyInit ==
  /\ rows \in [Names -> {Absent, [category |-> None, review |-> "pending", by |-> "nobody"]}]
  /\ rules \in SUBSET Rules /\ lasting = rules
  /\ request = NoRequest /\ scan = NoScan /\ changes = 0

-----------------------------------------------------------------------------
(* classify_cookie                                                          *)

Rank(kind) == CASE kind = "allow" -> 1 [] kind = "exact" -> 2 [] kind = "regex" -> 3

\* Mutation of Outranks: known cookies are looked up before the allow-list.
OutranksKnown(r, o) ==
  r.kind # "allow" /\ (o.kind = "allow" \/ Rank(r.kind) < Rank(o.kind))

Outranks(r, o) == Rank(r.kind) < Rank(o.kind)

\* Rows come in no order, so among rules of one kind any may be the first.
Verdicts(c, loaded) ==
  LET fitting == {r \in loaded : c \in r.fits}
      first == {r \in fitting : \A o \in fitting : ~Outranks(o, r)}
  IN  IF c \in Own THEN {Necessary}
      ELSE IF first = {} THEN {None} ELSE {r.category : r \in first}

OfKind(kinds) == {r \in rules : r.kind \in kinds}

-----------------------------------------------------------------------------
(* classify_site_cookies: three reads, then one flush and the commit.       *)

LoadAllowList ==
  /\ request.step = "idle"
  /\ request' = [NoRequest EXCEPT !.step = "allow", !.loaded = OfKind({"allow"})]
  /\ UNCHANGED <<rows, rules, lasting, scan, changes>>

LoadKnown ==
  /\ request.step = "allow"
  /\ request' = [request EXCEPT !.step = "rules", !.loaded = @ \cup OfKind({"exact", "regex"})]
  /\ UNCHANGED <<rows, rules, lasting, scan, changes>>

Unclassified == {c \in Names : rows[c].review = "pending" /\ rows[c].category = None}

\* The rows are read, and those that a rule fits get its category. The flush puts
\* rows that are neighbours and change the same columns into one executemany.
ReadRows ==
  /\ request.step = "rules"
  /\ \E verdict \in [Unclassified -> Categories \cup {None}], batched \in SUBSET Unclassified :
       /\ \A c \in Unclassified : verdict[c] \in Verdicts(c, request.loaded)
       /\ request' = [request EXCEPT !.step = "write",
                        !.writes = [c \in {d \in Unclassified : verdict[d] # None} |-> verdict[c]],
                        !.batched = batched]
       /\ batched \subseteq DOMAIN request'.writes /\ Cardinality(batched) # 1
  /\ UNCHANGED <<rows, rules, lasting, scan, changes>>

Found(c) == c \notin request.lost

\* asyncpg has no row counts for an executemany.
Unnoticed(c) == ~Found(c) /\ c \in request.batched

\* An UPDATE by key locks its row; one on its own that finds none fails the request.
UpdateRow(c) ==
  /\ request.step = "write" /\ c \in DOMAIN request.writes \ request.held
  /\ (Found(c) => c \notin scan.held) /\ ~Unnoticed(c)
  /\ request' = IF Found(c) THEN [request EXCEPT !.held = @ \cup {c}] ELSE NoRequest
  /\ UNCHANGED <<rows, rules, lasting, scan, changes>>

\* Mutation of Flushed: the loop commits after its first row.
FlushedFirst == request.held # {}

Flushed == \A c \in DOMAIN request.writes \ request.held : Unnoticed(c)

\* Only the column that was assigned is in the UPDATE.
Saved(row, category) == [row EXCEPT !.category = category, !.by = "rule"]

CommitRequest ==
  /\ request.step = "write" /\ Flushed
  /\ rows' = [c \in Names |-> IF c \in request.held THEN Saved(rows[c], request.writes[c])
                              ELSE rows[c]]
  /\ request' = NoRequest
  /\ UNCHANGED <<rules, lasting, scan, changes>>

-----------------------------------------------------------------------------
(* run_scan: every cookie found is classified by itself, the results are    *)
(* committed, then sync_scan_results_to_cookies goes through them.          *)

StartScan ==
  /\ scan.step = "idle"
  /\ \E found \in (SUBSET Names) \ {{}} : scan' = [NoScan EXCEPT !.step = "store", !.todo = found]
  /\ UNCHANGED <<rows, rules, lasting, request, changes>>

ScanAllowList(c) ==
  /\ scan.step = "store" /\ c \in scan.todo
  /\ scan' = [scan EXCEPT !.step = "known", !.cookie = c, !.loaded = OfKind({"allow"})]
  /\ UNCHANGED <<rows, rules, lasting, request, changes>>

\* add_scan_result with its auto_category
AddResult ==
  /\ scan.step = "known"
  /\ \E verdict \in Verdicts(scan.cookie, scan.loaded \cup OfKind({"exact", "regex"})) :
       scan' = [scan EXCEPT !.step = "store", !.todo = @ \ {scan.cookie}, !.cookie = None, !.loaded = {},
                  !.verdicts = [c \in {scan.cookie} \cup DOMAIN @ |->
                                  IF c = scan.cookie THEN verdict ELSE @[c]]]
  /\ UNCHANGED <<rows, rules, lasting, request, changes>>

CommitResults ==
  /\ scan.step = "store" /\ scan.todo = {}
  /\ scan' = [scan EXCEPT !.step = "sync", !.todo = DOMAIN scan.verdicts]
  /\ UNCHANGED <<rows, rules, lasting, request, changes>>

SyncRead(c) ==
  /\ scan.step = "sync" /\ c \in scan.todo
  /\ scan' = [scan EXCEPT !.step = "flush", !.cookie = c, !.saw = rows[c], !.lost = FALSE]
  /\ UNCHANGED <<rows, rules, lasting, request, changes>>

\* Mutation of Released: the locks outlive the failure.
ReleasedNever == scan.held

\* A failed sync is rolled back.
Released == {}

\* last_seen_at is written in any case, so the row is locked. The unique key
\* refuses a second insert, and an UPDATE that finds no row fails.
SyncFlush ==
  /\ scan.step = "flush" /\ scan.cookie \notin request.held
  /\ scan' = IF Present(scan.cookie) = (scan.saw # Absent) /\ ~scan.lost
             THEN [scan EXCEPT !.step = "sync", !.todo = @ \ {scan.cookie}, !.cookie = None,
                     !.saw = Absent, !.held = @ \cup {scan.cookie},
                     !.verdicts[scan.cookie] = IF scan.saw.category = None THEN @ ELSE None]
             ELSE [NoScan EXCEPT !.held = Released]
  /\ UNCHANGED <<rows, rules, lasting, request, changes>>

\* A row that was absent is inserted; one that had no category gets the verdict.
Synced(row, verdict) ==
  IF row = Absent
  THEN [category |-> verdict, review |-> "pending", by |-> IF verdict = None THEN "nobody" ELSE "rule"]
  ELSE IF verdict = None THEN row ELSE Saved(row, verdict)

CommitSync ==
  /\ scan.step = "sync" /\ scan.todo = {}
  /\ rows' = [c \in Names |-> IF c \in scan.held THEN Synced(rows[c], scan.verdicts[c])
                              ELSE rows[c]]
  /\ scan' = NoScan
  /\ UNCHANGED <<rules, lasting, request, changes>>

\* Each waits for a row of the other's: the database fails one.
Deadlocked ==
  /\ scan.step = "flush" /\ scan.cookie \in request.held
  /\ request.step = "write" /\ \E c \in DOMAIN request.writes \cap scan.held : Found(c)

BreakDeadlock ==
  /\ Deadlocked
  /\ \/ request' = NoRequest /\ UNCHANGED scan
     \/ scan' = [NoScan EXCEPT !.held = Released] /\ UNCHANGED request
  /\ UNCHANGED <<rows, rules, lasting, changes>>

-----------------------------------------------------------------------------
(* Editors and administrators.                                              *)

Change == changes < MaxChanges /\ changes' = changes + 1
Unlocked(c) == c \notin request.held \cup scan.held

By(row, category) ==
  IF category = None THEN "nobody" ELSE IF category = row.category THEN row.by ELSE "editor"

\* create_cookie and update_cookie
SaveCookie(c) ==
  /\ Change /\ Unlocked(c)
  /\ \E category \in Categories \cup {None}, review \in Reviews :
       rows' = [rows EXCEPT ![c] = [category |-> category, review |-> review, by |-> By(rows[c], category)]]
  /\ UNCHANGED <<rules, lasting, request, scan>>

DeleteCookie(c) ==
  /\ Change /\ Unlocked(c) /\ Present(c)
  /\ rows' = [rows EXCEPT ![c] = Absent]
  /\ request' = IF request.step = "write" THEN [request EXCEPT !.lost = @ \cup {c}] ELSE request
  /\ scan' = IF scan.cookie = c /\ scan.saw # Absent THEN [scan EXCEPT !.lost = TRUE] ELSE scan
  /\ UNCHANGED <<rules, lasting>>

\* A rule is added, changed or removed.
SaveRule ==
  /\ Change
  /\ \E old \in SUBSET rules, new \in SUBSET Rules :
       /\ Cardinality(old) <= 1 /\ Cardinality(new) <= 1 /\ old # new
       /\ rules' = (rules \ old) \cup new
       /\ lasting' = lasting \ old
  /\ UNCHANGED <<rows, request, scan>>

Request == LoadKnown \/ ReadRows \/ (\E c \in Names : UpdateRow(c)) \/ CommitRequest

Scan ==
  \/ \E c \in Names : ScanAllowList(c) \/ SyncRead(c)
  \/ AddResult \/ CommitResults \/ SyncFlush \/ CommitSync

ClassifyNext ==
  \/ LoadAllowList \/ Request \/ StartScan \/ Scan \/ BreakDeadlock
  \/ \E c \in Names : SaveCookie(c) \/ DeleteCookie(c)
  \/ SaveRule

\* Locks are granted in the order they were asked for.
ClassifyFairness ==
  /\ SF_classifyVars(Request) /\ SF_classifyVars(Scan)
  /\ WF_classifyVars(BreakDeadlock)

-----------------------------------------------------------------------------

\* An allow-list entry that has stood all along decides: no order of a scan, a
\* request and changes to the other rules lets the shared database in.
OverrideWins ==
  \A c \in Names \ Own :
    (\E r \in lasting : r.kind = "allow" /\ c \in r.fits) /\ rows[c].by = "rule" =>
      \E r \in Rules : r.kind = "allow" /\ c \in r.fits /\ r.category = rows[c].category

\* A request writes its category to every row it chose that is still there, or to
\* none, and to no row that has since taken the name of a deleted one. A deleted row
\* fails it all when its UPDATE is sent alone, and is left out when others go with it.
ClassifyIsWhole ==
  [][request.step = "write" /\ request'.step = "idle" =>
       \/ rows' = rows
       \/ \A c \in DOMAIN request.writes :
            IF c \in request.lost THEN c \in request.batched /\ rows'[c] = rows[c]
            ELSE Present(c) /\ rows'[c].category = request.writes[c]]_classifyVars

\* Requests and scans end though they lock the same rows in different orders.
RunsEnd ==
  /\ request.step # "idle" ~> request.step = "idle"
  /\ scan.step # "idle" ~> scan.step = "idle"

\* "only cookies with review_status='pending' and no category are classified":
\* what an editor chose is never replaced by a rule.
EditorsChoiceKept ==
  [][\A c \in Names : rows[c].by = "editor" => rows'[c].by # "rule"]_classifyVars
=============================================================================
