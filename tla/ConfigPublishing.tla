-------------------------- MODULE ConfigPublishing --------------------------
(***************************************************************************)
(* Draft, publish, rollback and discard of site configs, with any number   *)
(* of admin sessions at work at once.                                      *)
(*                                                                         *)
(* A session first reads a draft and its hash (GET draft or diff), then    *)
(* may post a publish with that hash; it may also roll back to a revision  *)
(* or discard the draft.  The three writers lock the sites row, read and   *)
(* decide, and write in one transaction that commits when the request      *)
(* ends.  A snapshot is read in five steps, between which saves may       *)
(* commit, as READ COMMITTED allows: the site and its own row; what its    *)
(* organisation and group give it, here one value; its texts; its cookies  *)
(* and allow-list for the hashed part; the same again for the site layer.  *)
(*                                                                         *)
(* content_hash is collision-free here: a hash is the snapshot it hashes.  *)
(***************************************************************************)
EXTENDS SiteDraft, Sequences, FiniteSetsExt

CONSTANTS
  Unread,      \* a value a request has not read
  MaxRequests  \* bound on requests

VARIABLES
  revisions,  \* the table site_config_revisions, in the order of commits
  live,       \* live[s]: index in revisions of sites.live_revision_id, 0 if none
  attempts,   \* the table publish_attempts
  clock,      \* transactions begun so far: now() of the newest one
  pc,         \* pc[u]: the step session u's request is at, "idle" between two
  req,        \* req[u]: what that request was asked and has read so far
  reviewed    \* reviewed[u][s]: the draft hash session u was last shown

publishVars == <<revisions, live, attempts, clock, pc, req, reviewed>>
vars == <<draftVars, status, lock, publishVars>>

-----------------------------------------------------------------------------
Kinds == {"review", "publish", "rollback", "discard"}
Codes == {"succeeded", "stale_draft", "nothing_to_publish", "revision_not_found",
          "already_live", "blocked_by_check", "publish_failed"}
Steps == {"idle", "lock", "settings", "config", "texts", "served", "layer", "check",
          "number", "commit", "restore", "log"}

\* The steps at which a request that writes holds the sites row.
LockedSteps == {"settings", "config", "texts", "served", "layer", "check", "number", "commit", "restore"}
HoldsLock(u) == req[u].kind # "review" /\ pc[u] \in LockedSteps

Request ==
  [kind: Kinds, site: Sites, ask: BOOLEAN, source: Nat, at: Nat, live: Nat, number: Nat,
   row: Rows \cup {Unread}, config: Config \cup {Unread}, texts: Texts \cup {Unread},
   snapshot: Snapshots \cup {Unread}, layer: Layers \cup {Unread}, code: Codes]

Revision ==
  [site: Sites, number: Nat \ {0}, version: Nat \ {0}, ask: BOOLEAN, snapshot: Snapshots,
   layer: Layers, from: Nat, by: Users]

Attempt ==
  [site: Sites, action: Kinds, at: Nat, code: Codes, revision: Nat]

NewRequest(kind, s, t) ==
  [kind |-> kind, site |-> s, ask |-> FALSE, source |-> 0, at |-> t, live |-> 0,
   number |-> 0, row |-> Unread, config |-> Unread, texts |-> Unread, snapshot |-> Unread,
   layer |-> Unread, code |-> "succeeded"]

IdleRequest == NewRequest("review", CHOOSE s \in Sites : TRUE, 0)

TypeOK ==
  /\ DraftTypeOK
  /\ status \in [Sites -> SiteStatus]
  /\ lock \in [Sites -> Users \cup {Nobody}]
  /\ revisions \in Seq(Revision)
  /\ live \in [Sites -> Nat]
  /\ attempts \subseteq Attempt
  /\ clock \in Nat
  /\ pc \in [Users -> Steps]
  /\ req \in [Users -> Request]
  /\ reviewed \in [Users -> [Sites -> Snapshots \cup {Unread}]]

Init ==
  /\ DraftInit
  /\ status = [s \in Sites |-> "active"]
  /\ lock = [s \in Sites |-> Nobody]
  /\ revisions = <<>>
  /\ live = [s \in Sites |-> 0]
  /\ attempts = {}
  /\ clock = 0
  /\ pc = [u \in Users |-> "idle"]
  /\ req = [u \in Users |-> IdleRequest]
  /\ reviewed = [u \in Users |-> [s \in Sites |-> Unread]]

-----------------------------------------------------------------------------
(* Helpers of the writers.                                                 *)

IndexesOf(s) == {i \in DOMAIN revisions : revisions[i].site = s}

\* Mutation of NextNumber: a refused or failed attempt uses up a number.
NextNumberOfAttempts(s) == Cardinality({a \in attempts : a.site = s}) + 1

\* _next_revision_number: one above the site's highest, 1 for the first.
NextNumber(s) == Max({0} \cup {revisions[i].number : i \in IndexesOf(s)}) + 1

\* Mutation of ConsentVersion: a rollback brings its source's version back.
ConsentVersionOfSource(r) ==
  IF r.kind = "rollback" /\ ~r.ask THEN revisions[r.source].version
  ELSE IF r.live # 0 /\ ~r.ask THEN revisions[r.live].version
  ELSE Len(revisions) + 1

\* The live revision's consent version, or a fresh one: the index of the
\* revision that brings it in, which no earlier revision can carry.
ConsentVersion(r) ==
  IF r.live # 0 /\ ~r.ask THEN revisions[r.live].version ELSE Len(revisions) + 1

\* Mutation of LiveAfter: a rollback points the site back at its source.
LiveAfterSource(r) == IF r.kind = "rollback" THEN r.source ELSE Len(revisions) + 1

\* The revision the site points at once r commits: the one r adds.
LiveAfter(r) == Len(revisions) + 1

\* Mutation of Succeeded: the attempt names the revision that was live.
SucceededBefore(r) ==
  [site |-> r.site, action |-> r.kind, at |-> r.at, code |-> "succeeded", revision |-> r.live]

\* record_attempt of a success.  attempted_at is now(), which Postgres takes
\* when the transaction begins: before it waits for the lock.
Succeeded(r) ==
  [site |-> r.site, action |-> r.kind, at |-> r.at, code |-> "succeeded",
   revision |-> Len(revisions) + 1]

\* Mutation of RowFree: the row is read without FOR UPDATE.
RowFreeAlways(s) == TRUE

\* SELECT ... FOR UPDATE is granted when no other transaction has the row.
RowFree(s) == lock[s] = Nobody

Goto(u, step) == pc' = [pc EXCEPT ![u] = step]

\* Mutation of Release: the session is not closed and keeps its lock.
ReleaseNever(u) == UNCHANGED lock

\* The end of a transaction, committed or not, frees its row locks.
Release(u) == lock' = [s \in Sites |-> IF lock[s] = u THEN Nobody ELSE lock[s]]

\* Forget the finished request: nothing of it outlives the response.
Finish(u) ==
  /\ Goto(u, "idle")
  /\ Release(u)
  /\ req' = [req EXCEPT ![u] = IdleRequest]

\* _record_failure: roll everything back, then log in a commit of its own.
Refuse(u, code) ==
  /\ Goto(u, "log")
  /\ Release(u)
  /\ req' = [req EXCEPT ![u].code = code]

-----------------------------------------------------------------------------
(* Requests arrive: _require_org_site, the first SELECT of the transaction. *)

Begin(u, r, step) ==
  /\ pc[u] = "idle" /\ clock < MaxRequests
  /\ status[r.site] = "active"
  /\ clock' = clock + 1
  /\ req' = [req EXCEPT ![u] = r]
  /\ Goto(u, step)
  /\ UNCHANGED <<draftVars, status, lock, revisions, live, attempts, reviewed>>

Review(u, s) == Begin(u, NewRequest("review", s, clock + 1), "settings")

Publish(u, s, ask) ==
  /\ reviewed[u][s] # Unread
  /\ Begin(u, [NewRequest("publish", s, clock + 1) EXCEPT !.ask = ask], "lock")

Rollback(u, s, i, ask) ==
  Begin(u, [NewRequest("rollback", s, clock + 1) EXCEPT !.ask = ask, !.source = i], "lock")

Discard(u, s) == Begin(u, NewRequest("discard", s, clock + 1), "lock")

-----------------------------------------------------------------------------
(* _lock_site: waits for the row, then sees its current values.            *)

Lock(u) ==
  LET s == req[u].site IN
  /\ pc[u] = "lock" /\ RowFree(s)
  /\ IF status[s] = "active"
     THEN /\ lock' = [lock EXCEPT ![s] = u]
          /\ req' = [req EXCEPT ![u].live = live[s]]
          /\ Goto(u, CASE req[u].kind = "publish" -> "settings"
                       [] req[u].kind = "rollback" -> "check"
                       [] OTHER -> "restore")
     ELSE Finish(u)  \* SiteNotFoundError: 404, nothing logged
  /\ UNCHANGED <<draftVars, status, revisions, live, attempts, clock, reviewed>>

-----------------------------------------------------------------------------
(* build_site_snapshot, for a review and under a publisher's lock alike.   *)

ReadSettings(u) ==
  LET s == req[u].site IN
  /\ pc[u] = "settings"
  /\ IF status[s] = "active"
     THEN /\ req' = [req EXCEPT ![u].row = settings[s]]
          /\ Goto(u, "config") /\ UNCHANGED lock
     ELSE Finish(u)
  /\ UNCHANGED <<draftVars, status, revisions, live, attempts, clock, reviewed>>

ReadConfig(u) ==
  /\ pc[u] = "config"
  /\ req' = [req EXCEPT ![u].config = Resolved(req[u].row, defaults)]
  /\ Goto(u, "texts")
  /\ UNCHANGED <<draftVars, status, lock, revisions, live, attempts, clock, reviewed>>

ReadTexts(u) ==
  /\ pc[u] = "texts"
  /\ req' = [req EXCEPT ![u].texts = texts[req[u].site]]
  /\ Goto(u, "served")
  /\ UNCHANGED <<draftVars, status, lock, revisions, live, attempts, clock, reviewed>>

\* cookie_count and the declared cookies: the last parts that are hashed.
ReadServed(u) ==
  LET s == req[u].site IN
  /\ pc[u] = "served"
  /\ req' = [req EXCEPT ![u].snapshot =
       [config |-> req[u].config, texts |-> req[u].texts,
        count |-> Cardinality(allow[s]), cookies |-> Declared(cookies[s])]]
  /\ Goto(u, "layer")
  /\ UNCHANGED <<draftVars, status, lock, revisions, live, attempts, clock, reviewed>>

\* The site layer: the row and the texts already read, but the cookie
\* reviews and the allow-list read again, after the hashed part.
ReadLayer(u) ==
  LET s == req[u].site IN
  /\ pc[u] = "layer"
  /\ IF req[u].kind = "review"
     THEN /\ reviewed' = [reviewed EXCEPT ![u][s] = req[u].snapshot]
          /\ Finish(u)
     ELSE /\ req' = [req EXCEPT ![u].layer =
               [settings |-> req[u].row, texts |-> req[u].texts,
                allow |-> allow[s], cookies |-> Classified(cookies[s])]]
          /\ Goto(u, "check")
          /\ UNCHANGED <<lock, reviewed>>
  /\ UNCHANGED <<draftVars, status, revisions, live, attempts, clock>>

-----------------------------------------------------------------------------
(* Decide.                                                                 *)

\* Mutation of StaleDraft: the hash is not compared.
StaleDraftNever(u) == FALSE

\* The draft no longer matches what the publisher was shown.
StaleDraft(u) == req[u].snapshot # reviewed[u][req[u].site]

CheckPublish(u) ==
  LET r == req[u] IN
  /\ pc[u] = "check" /\ r.kind = "publish"
  /\ IF StaleDraft(u) THEN Refuse(u, "stale_draft")
     ELSE IF r.live # 0 /\ revisions[r.live].snapshot = r.snapshot
          THEN Refuse(u, "nothing_to_publish")
     ELSE Goto(u, "number") /\ UNCHANGED <<lock, req>>
  /\ UNCHANGED <<draftVars, status, revisions, live, attempts, clock, reviewed>>

\* Mutation of OwnRevision: any revision will do.
AnyRevision(r) == r.source \in DOMAIN revisions

\* The revision a rollback names must be one of this site's.
OwnRevision(r) == r.source \in DOMAIN revisions /\ revisions[r.source].site = r.site

\* Mutation of Copied: the site's own values stay those of the live revision.
CopiedSnapshot(r) ==
  [r EXCEPT !.snapshot = revisions[r.source].snapshot, !.layer = revisions[r.live].layer]

\* What a rollback is to put live: all that its source recorded.
Copied(r) ==
  [r EXCEPT !.snapshot = revisions[r.source].snapshot, !.layer = revisions[r.source].layer]

CheckRollback(u) ==
  LET r == req[u] IN
  /\ pc[u] = "check" /\ r.kind = "rollback"
  /\ IF ~OwnRevision(r) THEN Refuse(u, "revision_not_found")
     ELSE IF r.source = r.live THEN Refuse(u, "already_live")
     ELSE /\ req' = [req EXCEPT ![u] = Copied(r)]
          /\ Goto(u, "number") /\ UNCHANGED lock
  /\ UNCHANGED <<draftVars, status, revisions, live, attempts, clock, reviewed>>

\* _make_live: an extension's pre-publish check may refuse; then the number.
TakeNumber(u) ==
  /\ pc[u] = "number"
  /\ \/ Refuse(u, "blocked_by_check")
     \/ /\ req' = [req EXCEPT ![u].number = NextNumber(req[u].site)]
        /\ Goto(u, "commit") /\ UNCHANGED lock
  /\ UNCHANGED <<draftVars, status, revisions, live, attempts, clock, reviewed>>

-----------------------------------------------------------------------------
(* Write and commit.                                                       *)

RevisionOf(u) ==
  LET r == req[u] IN
  [site |-> r.site, number |-> r.number, version |-> ConsentVersion(r), ask |-> r.ask,
   snapshot |-> r.snapshot, layer |-> r.layer,
   from |-> IF r.kind = "rollback" THEN r.source ELSE 0, by |-> u]

\* The revision, the pointer and the attempt commit together.  Post-publish
\* hooks run in savepoints and change none of them.  The table's unique
\* constraint on (site, number) refuses a number taken meanwhile.
Commit(u) ==
  LET r == req[u] IN
  /\ pc[u] = "commit"
  /\ IF \E i \in IndexesOf(r.site) : revisions[i].number = r.number
     THEN Refuse(u, "publish_failed") /\ UNCHANGED <<revisions, live, attempts>>
     ELSE /\ revisions' = Append(revisions, RevisionOf(u))
          /\ live' = [live EXCEPT ![r.site] = LiveAfter(r)]
          /\ attempts' = attempts \cup {Succeeded(r)}
          /\ Finish(u)
  /\ UNCHANGED <<draftVars, status, clock, reviewed>>

\* discard_draft: back to the live revision's layer, if there is one.
Restore(u) ==
  LET r == req[u] IN
  /\ pc[u] = "restore"
  /\ IF r.live = 0 THEN UNCHANGED draftVars  \* NothingPublishedError: 409
     ELSE RestoreDraft(r.site, revisions[r.live].layer)
  /\ Finish(u)
  /\ UNCHANGED <<status, revisions, live, attempts, clock, reviewed>>

\* The failure is logged in a transaction begun after the rollback.  The
\* insert references the site, so it waits for a publisher's lock.
LogFailure(u) ==
  LET r == req[u] IN
  /\ pc[u] = "log" /\ RowFree(r.site)
  /\ clock' = clock + 1
  /\ attempts' = attempts \cup
       {[site |-> r.site, action |-> r.kind, at |-> clock + 1, code |-> r.code, revision |-> 0]}
  /\ Finish(u)
  /\ UNCHANGED <<draftVars, status, revisions, live, reviewed>>

\* Any statement may raise, the connection drop or the worker die: the
\* transaction rolls back.  _attempt logs an exception; a dead worker does not.
Fail(u) ==
  /\ pc[u] # "idle"
  /\ \/ Finish(u)
     \/ /\ req[u].kind \in {"publish", "rollback"} /\ pc[u] # "log"
        /\ Refuse(u, "publish_failed")
  /\ UNCHANGED <<draftVars, status, revisions, live, attempts, clock, reviewed>>

-----------------------------------------------------------------------------
\* update_site and deactivate_site write the sites row: both need its lock.
SetStatus(s, new) ==
  /\ CanEdit(s) /\ RowFree(s)
  /\ status[s] # new
  /\ status' = [status EXCEPT ![s] = new]
  /\ UNCHANGED <<settings, texts, cookies, allow, defaults, lock, publishVars>>

EditDraft == Edit /\ UNCHANGED <<status, lock, publishVars>>

Ask(u) ==
  \E s \in Sites :
    \/ Review(u, s)
    \/ \E ask \in BOOLEAN : Publish(u, s, ask)
    \/ \E i \in DOMAIN revisions, ask \in BOOLEAN : Rollback(u, s, i, ask)
    \/ Discard(u, s)

\* What the server does to answer a request.
Serve(u) ==
  \/ Lock(u) \/ ReadSettings(u) \/ ReadConfig(u) \/ ReadTexts(u) \/ ReadServed(u)
  \/ ReadLayer(u) \/ CheckPublish(u) \/ CheckRollback(u) \/ TakeNumber(u) \/ Commit(u)
  \/ Restore(u) \/ LogFailure(u)

Next ==
  \/ \E u \in Users : Ask(u) \/ Serve(u) \/ Fail(u)
  \/ EditDraft
  \/ \E s \in Sites, new \in SiteStatus : SetStatus(s, new)

Spec == Init /\ [][Next]_vars

\* A worker that has begun a request keeps going; Postgres wakes the
\* transactions that wait for a row when its holder ends.
Liveness == \A u \in Users : WF_vars(Serve(u))
FairSpec == Spec /\ Liveness

-----------------------------------------------------------------------------
(* Properties.                                                             *)

\* History shows v1, v2, ... per site without a gap or a repeat, in the
\* order the revisions went live, whatever else was being published.
NumbersGapFree ==
  \A s \in Sites :
    /\ {revisions[i].number : i \in IndexesOf(s)} = 1..Cardinality(IndexesOf(s))
    /\ \A i, j \in IndexesOf(s) : i < j => revisions[i].number < revisions[j].number

\* j is the revision that took i's place on its site.
Follows(j, i) ==
  /\ i < j /\ revisions[i].site = revisions[j].site
  /\ \A k \in (i+1)..(j-1) : revisions[k].site # revisions[i].site

\* Visitors are asked again exactly when a publisher asked for it: from one
\* revision of a site to its next the consent version changes iff "ask
\* visitors again" was ticked, a rollback to an older version included.
ConsentVersionOnRequest ==
  \A i, j \in DOMAIN revisions :
    Follows(j, i) => (revisions[j].version = revisions[i].version <=> ~revisions[j].ask)

\* A publish changes what its site serves ("nothing to publish" otherwise):
\* two sessions that publish one draft at once do not publish it twice, and
\* ask no visitor twice for it.
EachPublishChanges ==
  \A i, j \in DOMAIN revisions :
    Follows(j, i) /\ revisions[j].from = 0 => revisions[j].snapshot # revisions[i].snapshot

\* A rollback copies a revision of the same site that was there before it.
RollbackCopiesOwn ==
  \A i \in DOMAIN revisions :
    LET from == revisions[i].from IN
    from # 0 => /\ from < i
                /\ revisions[from].site = revisions[i].site
                /\ revisions[from].snapshot = revisions[i].snapshot
                /\ revisions[from].layer = revisions[i].layer

\* The attempt log and the history tell one story: every revision has one
\* succeeded attempt, and a refused or failed attempt left no revision.
AttemptsMatchHistory ==
  /\ \A i \in DOMAIN revisions :
       Cardinality({a \in attempts : a.revision = i}) = 1
  /\ \A a \in attempts :
       IF a.code = "succeeded"
       THEN /\ a.revision \in DOMAIN revisions
            /\ revisions[a.revision].site = a.site
            /\ (a.action = "rollback") = (revisions[a.revision].from # 0)
       ELSE a.revision = 0

\* Nobody publishes what they have not seen: a publish puts live exactly the
\* snapshot its session was shown last, however the draft moved meanwhile.
PublishedAsReviewed ==
  [][\A i \in DOMAIN revisions' \ DOMAIN revisions :
       LET r == revisions'[i] IN r.from = 0 => r.snapshot = reviewed[r.by][r.site]]_vars

\* History only grows, and a site once published is never left unpublished.
HistoryGrows ==
  [][/\ Len(revisions') >= Len(revisions)
     /\ \A i \in DOMAIN revisions : revisions'[i] = revisions[i]
     /\ \A s \in Sites : live'[s] >= live[s]]_vars

\* Every request is answered: no refusal or failure leaves a lock behind
\* that another publish, a failure log or a discard waits on for ever.
RequestsEnd == \A u \in Users : pc[u] # "idle" ~> pc[u] = "idle"

-----------------------------------------------------------------------------
(* Statements of the documentation that the code does not meet.            *)

\* docs/publishing.md, "What goes in the draft": the allow-list and review
\* decisions are draft content, published like the rest.  A publish is told
\* "no unpublished changes" only if the draft's own values are those live.
SavedRulesCanBePublished ==
  \A u \in Users :
    LET r == req[u] IN
    pc[u] = "log" /\ r.code = "nothing_to_publish" => r.layer = revisions[r.live].layer

\* docs/publishing.md, "Discarding changes": the site's cookie rules go back
\* to the live revision.  After a discard each cookie that was there at the
\* publish, and still is, is declared as the live revision declares it.
DiscardReturnsToLive ==
  [][\A u \in Users :
       (Restore(u) /\ req[u].live # 0) =>
         LET s == req[u].site
             r == revisions[req[u].live]
             drafted == Declared(cookies'[s])
         IN \A c \in DOMAIN cookies[s] \cap DOMAIN r.layer.cookies :
              /\ c \in DOMAIN drafted <=> c \in DOMAIN r.snapshot.cookies
              /\ c \in DOMAIN drafted => drafted[c] = r.snapshot.cookies[c]]_vars

-----------------------------------------------------------------------------
(* The inductive invariant behind these properties.                        *)

\* The row lock is held by exactly the request that is between Lock and the
\* end of its transaction.
LockInv ==
  \A s \in Sites, u \in Users : lock[s] = u <=> (HoldsLock(u) /\ req[u].site = s)

\* The pointer is on the last revision of the site, numbers ascend.
HistoryInv ==
  /\ \A s \in Sites :
       /\ live[s] \in 0..Len(revisions)
       /\ live[s] # 0 => revisions[live[s]].site = s
       /\ \A i \in IndexesOf(s) : i <= live[s]
  /\ \A i, j \in DOMAIN revisions :
       revisions[i].site = revisions[j].site /\ i < j
         => revisions[i].number < revisions[j].number
  /\ \A i \in DOMAIN revisions : revisions[i].version <= i

\* What a request has read so far, by the step it is at.
ReadSoFar(step, r) ==
  /\ step \in {"settings", "config", "texts", "served", "layer"} => r.kind \in {"review", "publish"}
  /\ step \in {"lock", "log"} => r.kind # "review"
  /\ step \in {"check", "number", "commit"} => r.kind \in {"publish", "rollback"}
  /\ step = "restore" => r.kind = "discard"
  /\ step \in {"config", "texts", "served", "layer"} => r.row \in Rows
  /\ step \in {"served", "layer"} => r.texts \in Texts
  /\ step \in {"texts", "served"} => r.config \in Config
  /\ step \in {"layer", "number", "commit"} => r.snapshot \in Snapshots
  /\ step \in {"number", "commit"} => r.layer \in Layers
  /\ step = "check" /\ r.kind = "publish" => r.snapshot \in Snapshots /\ r.layer \in Layers
  /\ step = "commit" => r.number > 0

\* Under its lock, the live revision a request read first is still the live
\* one, what it is to publish differs from it, and the number it took is still
\* above the site's.
RequestInv ==
  \A u \in Users :
    LET r == req[u] IN
    /\ ReadSoFar(pc[u], r)
    /\ HoldsLock(u) => r.live = live[r.site]
    /\ pc[u] \in {"number", "commit"} /\ r.kind = "publish" /\ r.live # 0
         => revisions[r.live].snapshot # r.snapshot
    /\ pc[u] = "commit" => \A i \in IndexesOf(r.site) : revisions[i].number < r.number

IInv == TypeOK /\ LockInv /\ HistoryInv /\ RequestInv
=============================================================================
