------------------------ MODULE ConfigPublishing_proofs ------------------------
(* The inductive invariant of ConfigPublishing and what follows from it: what *)
(* is live, what the revisions and the attempt log tell of the requests that  *)
(* made them, and that publishing keeps the promise of ServedConfig.          *)
EXTENDS PublishingRefinement, FiniteSetTheorems, SequenceTheorems, TLAPS

(* What the operators of SiteDraft return, and that no save or restore takes *)
(* the draft out of its types.                                               *)

\* A partial function is a function on the part of S it is defined on.
LEMMA PartialFnElim ==
  ASSUME NEW S, NEW T, NEW f \in PartialFn(S, T)
  PROVE  DOMAIN f \in SUBSET S /\ f \in [DOMAIN f -> T]
BY DEF PartialFn

\* A function on a part of S is a partial function.
LEMMA PartialFnIntro ==
  ASSUME NEW S, NEW T, NEW D \in SUBSET S, NEW f \in [D -> T]
  PROVE  f \in PartialFn(S, T)
BY DEF PartialFn

\* The cascade resolves a row to a value for every field, never to NULL.
LEMMA ResolvedType ==
  ASSUME NEW row \in Rows, NEW inherited \in Config
  PROVE  Resolved(row, inherited) \in Config
<1>1. ASSUME NEW f \in Fields
      PROVE  (IF row[f] # Inherit THEN row[f] ELSE inherited[f]) \in Values
  BY DEF Rows, Config
<1>. QED  BY <1>1 DEF Resolved, Config

\* The declared cookies are some of the site's rows, without their review.
LEMMA DeclaredType ==
  ASSUME NEW rows \in PartialFn(Cookies, CookieRow)
  PROVE  Declared(rows) \in PartialFn(Cookies, [category: Categories, detail: Details])
<1>. DEFINE D == {c \in DOMAIN rows : rows[c].review # "rejected"}
<1>1. DOMAIN rows \in SUBSET Cookies /\ rows \in [DOMAIN rows -> CookieRow]
  BY PartialFnElim
<1>2. D \in SUBSET Cookies
  BY <1>1
<1>3. Declared(rows) \in [D -> [category: Categories, detail: Details]]
  BY <1>1 DEF Declared, CookieRow
<1>. QED  BY <1>2, <1>3, PartialFnIntro

\* The layer records a category and a review for every row.
LEMMA ClassifiedType ==
  ASSUME NEW rows \in PartialFn(Cookies, CookieRow)
  PROVE  Classified(rows) \in PartialFn(Cookies, [category: Categories, review: ReviewStatus])
<1>1. DOMAIN rows \in SUBSET Cookies /\ rows \in [DOMAIN rows -> CookieRow]
  BY PartialFnElim
<1>2. Classified(rows) \in [DOMAIN rows -> [category: Categories, review: ReviewStatus]]
  BY <1>1 DEF Classified, CookieRow
<1>. QED  BY <1>1, <1>2, PartialFnIntro

\* cookie_count is a number.
LEMMA CountType ==
  ASSUME NEW A \in SUBSET Entries
  PROVE  Cardinality(A) \in Nat
<1>1. IsFiniteSet(A)
  BY EntriesAssumption, FS_Subset
<1>. QED  BY <1>1, FS_CardinalityType

\* Discard restores only values the layer recorded, into rows that exist.
LEMMA RestoreType ==
  ASSUME DraftTypeOK, NEW s \in Sites, NEW layer \in Layers, RestoreDraft(s, layer)
  PROVE  DraftTypeOK'
<1>. USE DEF DraftTypeOK
<1>. DEFINE rows == cookies[s]
<1>1. /\ DOMAIN rows \in SUBSET Cookies /\ rows \in [DOMAIN rows -> CookieRow]
      /\ DOMAIN layer.cookies \in SUBSET Cookies
      /\ layer.cookies \in [DOMAIN layer.cookies -> [category: Categories, review: ReviewStatus]]
  <2>1. rows \in PartialFn(Cookies, CookieRow)
    OBVIOUS
  <2>2. layer.cookies \in PartialFn(Cookies, [category: Categories, review: ReviewStatus])
    BY DEF Layers
  <2>3. DOMAIN rows \in SUBSET Cookies /\ rows \in [DOMAIN rows -> CookieRow]
    BY <2>1, PartialFnElim
  <2>4. /\ DOMAIN layer.cookies \in SUBSET Cookies
        /\ layer.cookies \in [DOMAIN layer.cookies -> [category: Categories, review: ReviewStatus]]
    BY <2>2, PartialFnElim
  <2>. QED  BY <2>3, <2>4
<1>2. RestoredCookies(s, layer) \in [DOMAIN rows -> CookieRow]
  <2>1. ASSUME NEW c \in DOMAIN rows
        PROVE  (IF c \in DOMAIN layer.cookies
                THEN [rows[c] EXCEPT !.category = layer.cookies[c].category,
                                     !.review = layer.cookies[c].review]
                ELSE rows[c]) \in CookieRow
    BY <1>1 DEF CookieRow
  <2>. QED  BY <2>1 DEF RestoredCookies
<1>3. RestoredCookies(s, layer) \in PartialFn(Cookies, CookieRow)
  BY <1>1, <1>2, PartialFnIntro
<1>4. cookies' \in [Sites -> PartialFn(Cookies, CookieRow)]
  BY <1>3 DEF RestoreDraft
<1>6. settings' \in [Sites -> Rows]
  BY DEF RestoreDraft, Layers
<1>7. texts' \in [Sites -> Texts] /\ allow' \in [Sites -> SUBSET Entries]
  BY DEF RestoreDraft, Layers
<1>. QED  BY <1>4, <1>6, <1>7 DEF RestoreDraft

\* Every save keeps the draft in its types.
LEMMA EditType ==
  ASSUME DraftTypeOK, Edit
  PROVE  DraftTypeOK'
<1>. USE DEF DraftTypeOK, CanEdit
<1>1. ASSUME NEW s \in Sites, NEW row \in Rows, SaveConfig(s, row)  PROVE DraftTypeOK'
  BY <1>1 DEF SaveConfig
<1>2. ASSUME NEW s \in Sites, NEW t \in Texts, SaveTexts(s, t)  PROVE DraftTypeOK'
  BY <1>2 DEF SaveTexts
<1>3. ASSUME NEW s \in Sites, NEW c \in Cookies, NEW g \in Categories, NEW d \in Details,
             CreateCookie(s, c, g, d)
      PROVE  DraftTypeOK'
  <2>. DEFINE rows == cookies[s]
              new == [x \in DOMAIN rows \cup {c} |->
                        IF x = c THEN [category |-> g, review |-> "pending", detail |-> d]
                        ELSE rows[x]]
  <2>1. DOMAIN rows \in SUBSET Cookies /\ rows \in [DOMAIN rows -> CookieRow]
    BY PartialFnElim
  <2>2. new \in [DOMAIN rows \cup {c} -> CookieRow]
    BY <2>1 DEF CookieRow, ReviewStatus
  <2>3. new \in PartialFn(Cookies, CookieRow)
    <3>1. DOMAIN rows \cup {c} \in SUBSET Cookies
      BY <2>1
    <3>. HIDE DEF new
    <3>. QED  BY <2>2, <3>1, PartialFnIntro
  <2>4. cookies' = [cookies EXCEPT ![s] = new]
    BY <1>3 DEF CreateCookie
  <2>. QED  BY <1>3, <2>3, <2>4 DEF CreateCookie
<1>4. ASSUME NEW s \in Sites, NEW c \in Cookies, NEW row \in CookieRow, UpdateCookie(s, c, row)
      PROVE  DraftTypeOK'
  <2>. DEFINE rows == cookies[s]
              new == [rows EXCEPT ![c] = row]
  <2>1. DOMAIN rows \in SUBSET Cookies /\ rows \in [DOMAIN rows -> CookieRow]
    BY PartialFnElim
  <2>2. new \in [DOMAIN rows -> CookieRow]
    BY <2>1
  <2>3. new \in PartialFn(Cookies, CookieRow)
    <3>. HIDE DEF new
    <3>. QED  BY <2>1, <2>2, PartialFnIntro
  <2>4. cookies' = [cookies EXCEPT ![s] = new]
    BY <1>4 DEF UpdateCookie
  <2>. QED  BY <1>4, <2>3, <2>4 DEF UpdateCookie
<1>5. ASSUME NEW s \in Sites, NEW c \in Cookies, DeleteCookie(s, c)  PROVE DraftTypeOK'
  <2>. DEFINE rows == cookies[s]
              new == [x \in DOMAIN rows \ {c} |-> rows[x]]
  <2>1. DOMAIN rows \in SUBSET Cookies /\ rows \in [DOMAIN rows -> CookieRow]
    BY PartialFnElim
  <2>2. new \in [DOMAIN rows \ {c} -> CookieRow] /\ DOMAIN rows \ {c} \in SUBSET Cookies
    BY <2>1
  <2>3. new \in PartialFn(Cookies, CookieRow)
    <3>. HIDE DEF new
    <3>. QED  BY <2>2, PartialFnIntro
  <2>4. cookies' = [cookies EXCEPT ![s] = new]
    BY <1>5 DEF DeleteCookie
  <2>. QED  BY <1>5, <2>3, <2>4 DEF DeleteCookie
<1>6. ASSUME NEW s \in Sites, NEW e \in Entries, CreateEntry(s, e) \/ DeleteEntry(s, e)
      PROVE  DraftTypeOK'
  BY <1>6 DEF CreateEntry, DeleteEntry
<1>7. ASSUME NEW s \in Sites, NEW e \in Entries, NEW f \in Entries, UpdateEntry(s, e, f)
      PROVE  DraftTypeOK'
  BY <1>7 DEF UpdateEntry
<1>8. ASSUME NEW config \in Config, SaveDefaults(config)  PROVE DraftTypeOK'
  BY <1>8 DEF SaveDefaults
<1>. QED  BY <1>1, <1>2, <1>3, <1>4, <1>5, <1>6, <1>7, <1>8 DEF Edit

-----------------------------------------------------------------------------
(* Revisions and requests.                                                   *)

\* The greatest element of a set, once one is known.
LEMMA MaxIs ==
  ASSUME NEW S \in SUBSET Int, NEW m \in S, \A y \in S : m >= y
  PROVE  Max(S) = m
<1>1. \E x \in S : \A y \in S : x >= y
  OBVIOUS
<1>2. Max(S) \in S /\ \A y \in S : Max(S) >= y
  BY <1>1, Zenon DEF Max
<1>3. Max(S) \in Int /\ m \in Int /\ Max(S) >= m /\ m >= Max(S)
  BY <1>2
<1>. QED  BY <1>3

\* A request that has just been made is a request.
LEMMA NewRequestType ==
  ASSUME NEW kind \in Kinds, NEW s \in Sites, NEW t \in Nat
  PROVE  NewRequest(kind, s, t) \in Request
BY DEF NewRequest, Request, Codes

\* So is the record a session keeps between two requests.
LEMMA IdleRequestType == IdleRequest \in Request
<1>1. (CHOOSE s \in Sites : TRUE) \in Sites
  BY SitesAssumption
<1>. QED  BY <1>1, NewRequestType DEF IdleRequest, Kinds

\* Every row of the table is a revision.
LEMMA RevisionType ==
  ASSUME TypeOK
  PROVE  /\ Len(revisions) \in Nat /\ DOMAIN revisions = 1..Len(revisions)
         /\ \A i \in DOMAIN revisions : revisions[i] \in Revision
         /\ \A i \in DOMAIN revisions :
              revisions[i].number \in Nat /\ revisions[i].version \in Nat
<1>1. revisions \in Seq(Revision)
  BY DEF TypeOK
<1>2. Len(revisions) \in Nat /\ DOMAIN revisions = 1..Len(revisions)
  BY <1>1, LenProperties
<1>3. \A i \in DOMAIN revisions : revisions[i] \in Revision
  BY <1>1, <1>2, ElementOfSeq
<1>. QED  BY <1>2, <1>3 DEF Revision

\* The next number of a site is positive and above all its numbers.
LEMMA NextNumberAbove ==
  ASSUME TypeOK, HistoryInv, NEW s \in Sites
  PROVE  /\ NextNumber(s) \in Nat /\ NextNumber(s) > 0
         /\ \A i \in IndexesOf(s) : revisions[i].number < NextNumber(s)
<1>. DEFINE N == {0} \cup {revisions[i].number : i \in IndexesOf(s)}
<1>1. \A i \in DOMAIN revisions : revisions[i].number \in Nat
  BY RevisionType
<1>2. N \in SUBSET Int
  BY <1>1 DEF IndexesOf
<1>3. CASE live[s] = 0
  <2>1. IndexesOf(s) = {}
    BY <1>3 DEF HistoryInv, IndexesOf, TypeOK
  <2>2. Max(N) = 0
    BY <1>2, <2>1, MaxIs
  <2>. QED  BY <2>1, <2>2 DEF NextNumber
<1>4. CASE live[s] # 0
  <2>1. live[s] \in DOMAIN revisions /\ revisions[live[s]].site = s
    BY <1>4 DEF HistoryInv, TypeOK
  <2>2. live[s] \in IndexesOf(s)
    BY <2>1 DEF IndexesOf
  <2>3. \A i \in IndexesOf(s) : revisions[i].number <= revisions[live[s]].number
    <3>1. TAKE i \in IndexesOf(s)
    <3>2. i \in DOMAIN revisions /\ revisions[i].site = s /\ i <= live[s]
      BY DEF IndexesOf, HistoryInv
    <3>3. CASE i = live[s]
      BY <3>3, <1>1, <2>1
    <3>4. CASE i < live[s]
      BY <3>2, <3>4, <2>1, <1>1 DEF HistoryInv
    <3>. QED  BY <3>2, <3>3, <3>4, <2>1 DEF TypeOK
  <2>4. Max(N) = revisions[live[s]].number
    <3>1. revisions[live[s]].number \in N
      BY <2>2
    <3>2. \A y \in N : revisions[live[s]].number >= y
      BY <2>3, <1>1, <2>1 DEF IndexesOf
    <3>. QED  BY <1>2, <3>1, <3>2, MaxIs
  <2>5. NextNumber(s) = revisions[live[s]].number + 1
    BY <2>4 DEF NextNumber
  <2>6. \A i \in IndexesOf(s) : revisions[i].number \in Nat
    BY <1>1 DEF IndexesOf
  <2>. QED  BY <2>1, <2>3, <2>5, <2>6, <1>1
<1>. QED  BY <1>3, <1>4
-----------------------------------------------------------------------------
(* Types.                                                                    *)

\* What the end of a request leaves is typed.
LEMMA FinishType ==
  ASSUME TypeOK, NEW u \in Users, Finish(u)
  PROVE  pc' \in [Users -> Steps] /\ req' \in [Users -> Request]
         /\ lock' \in [Sites -> Users \cup {Nobody}]
BY IdleRequestType DEF Finish, Goto, Release, TypeOK, Steps

\* So is what a refusal leaves.
LEMMA RefuseType ==
  ASSUME TypeOK, NEW u \in Users, NEW code \in Codes, Refuse(u, code)
  PROVE  pc' \in [Users -> Steps] /\ req' \in [Users -> Request]
         /\ lock' \in [Sites -> Users \cup {Nobody}]
<1>1. [req[u] EXCEPT !.code = code] \in Request
  BY DEF TypeOK, Request
<1>2. req' = [req EXCEPT ![u] = [req[u] EXCEPT !.code = code]]
  BY DEF Refuse
<1>. QED  BY <1>1, <1>2 DEF Refuse, Goto, Release, TypeOK, Steps

\* A new request is typed.
LEMMA BeginType ==
  ASSUME TypeOK, NEW u \in Users, NEW r \in Request, NEW step \in Steps, Begin(u, r, step)
  PROVE  TypeOK'
BY DEF Begin, Goto, TypeOK, draftVars, DraftTypeOK

LEMMA AskType ==
  ASSUME TypeOK, NEW u \in Users, Ask(u)
  PROVE  TypeOK'
<1>. USE DEF Steps
<1>0. clock + 1 \in Nat
  BY DEF TypeOK
<1>1. ASSUME NEW s \in Sites, Review(u, s)  PROVE TypeOK'
  <2>1. NewRequest("review", s, clock + 1) \in Request
    BY <1>0, NewRequestType DEF Kinds
  <2>. QED  BY <1>1, <2>1, BeginType DEF Review
<1>2. ASSUME NEW s \in Sites, NEW ask \in BOOLEAN, Publish(u, s, ask)  PROVE TypeOK'
  <2>1. NewRequest("publish", s, clock + 1) \in Request
    BY <1>0, NewRequestType DEF Kinds
  <2>2. [NewRequest("publish", s, clock + 1) EXCEPT !.ask = ask] \in Request
    BY <2>1 DEF Request
  <2>. QED  BY <1>2, <2>2, BeginType DEF Publish
<1>3. ASSUME NEW s \in Sites, NEW i \in DOMAIN revisions, NEW ask \in BOOLEAN,
             Rollback(u, s, i, ask)
      PROVE  TypeOK'
  <2>1. NewRequest("rollback", s, clock + 1) \in Request
    BY <1>0, NewRequestType DEF Kinds
  <2>2. i \in Nat
    BY RevisionType
  <2>3. [NewRequest("rollback", s, clock + 1) EXCEPT !.ask = ask, !.source = i] \in Request
    BY <2>1, <2>2 DEF Request
  <2>. QED  BY <1>3, <2>3, BeginType DEF Rollback
<1>4. ASSUME NEW s \in Sites, Discard(u, s)  PROVE TypeOK'
  <2>1. NewRequest("discard", s, clock + 1) \in Request
    BY <1>0, NewRequestType DEF Kinds
  <2>. QED  BY <1>4, <2>1, BeginType DEF Discard
<1>. QED  BY <1>1, <1>2, <1>3, <1>4 DEF Ask

\* Every step of the server keeps the types.
LEMMA ServeType ==
  ASSUME IInv, NEW u \in Users, Serve(u)
  PROVE  TypeOK'
<1>. DEFINE r == req[u]
<1>0. /\ TypeOK /\ DraftTypeOK /\ r \in Request /\ r.site \in Sites
  BY DEF IInv, TypeOK, Request
<1>1. CASE Lock(u)
  <2>1. CASE status[r.site] = "active"
    <3>1. [r EXCEPT !.live = live[r.site]] \in Request
      BY <1>0 DEF Request, TypeOK
    <3>2. req' \in [Users -> Request] /\ lock' \in [Sites -> Users \cup {Nobody}]
      BY <1>0, <1>1, <2>1, <3>1 DEF Lock, TypeOK
    <3>3. pc' \in [Users -> Steps]
      BY <1>0, <1>1, <2>1 DEF Lock, Goto, TypeOK, Steps
    <3>. QED  BY <1>0, <1>1, <3>2, <3>3 DEF Lock, TypeOK, DraftTypeOK, draftVars
  <2>2. CASE status[r.site] # "active"
    <3>1. Finish(u)
      BY <1>1, <2>2 DEF Lock
    <3>. QED  BY <1>0, <1>1, <3>1, FinishType DEF Lock, TypeOK, DraftTypeOK, draftVars
  <2>. QED  BY <2>1, <2>2
<1>2. CASE ReadSettings(u)
  <2>1. CASE status[r.site] = "active"
    <3>1. [r EXCEPT !.row = settings[r.site]] \in Request
      BY <1>0 DEF Request, DraftTypeOK
    <3>. QED  BY <1>0, <1>2, <2>1, <3>1
              DEF ReadSettings, Goto, TypeOK, Steps, DraftTypeOK, draftVars
  <2>2. CASE status[r.site] # "active"
    <3>1. Finish(u)
      BY <1>2, <2>2 DEF ReadSettings
    <3>. QED  BY <1>0, <1>2, <3>1, FinishType DEF ReadSettings, TypeOK, DraftTypeOK, draftVars
  <2>. QED  BY <2>1, <2>2
<1>3. CASE ReadConfig(u)
  <2>1. r.row \in Rows
    BY <1>0, <1>3 DEF IInv, RequestInv, ReadSoFar, ReadConfig, Request
  <2>2. Resolved(r.row, defaults) \in Config
    BY <1>0, <2>1, ResolvedType DEF DraftTypeOK
  <2>3. [r EXCEPT !.config = Resolved(r.row, defaults)] \in Request
    BY <1>0, <2>2 DEF Request
  <2>4. req' = [req EXCEPT ![u] = [r EXCEPT !.config = Resolved(r.row, defaults)]]
    BY <1>0, <1>3 DEF ReadConfig, TypeOK
  <2>. QED  BY <1>0, <1>3, <2>3, <2>4
            DEF ReadConfig, Goto, TypeOK, Steps, DraftTypeOK, draftVars
<1>12. CASE ReadTexts(u)
  <2>1. [r EXCEPT !.texts = texts[r.site]] \in Request
    BY <1>0 DEF Request, DraftTypeOK
  <2>2. req' = [req EXCEPT ![u] = [r EXCEPT !.texts = texts[r.site]]]
    BY <1>0, <1>12 DEF ReadTexts, TypeOK
  <2>. QED  BY <1>0, <1>12, <2>1, <2>2
            DEF ReadTexts, Goto, TypeOK, Steps, DraftTypeOK, draftVars
<1>4. CASE ReadServed(u)
  <2>. DEFINE new == [config |-> r.config, texts |-> r.texts,
                      count |-> Cardinality(allow[r.site]),
                      cookies |-> Declared(cookies[r.site])]
  <2>1. r.config \in Config /\ r.texts \in Texts
    BY <1>0, <1>4 DEF IInv, RequestInv, ReadSoFar, ReadServed, Request
  <2>2. /\ Cardinality(allow[r.site]) \in Nat
        /\ Declared(cookies[r.site]) \in PartialFn(Cookies, [category: Categories, detail: Details])
    <3>1. allow[r.site] \in SUBSET Entries /\ cookies[r.site] \in PartialFn(Cookies, CookieRow)
      BY <1>0 DEF DraftTypeOK
    <3>. QED  BY <3>1, CountType, DeclaredType
  <2>3. new \in Snapshots
    BY <2>1, <2>2 DEF Snapshots
  <2>4. req' = [req EXCEPT ![u] = [r EXCEPT !.snapshot = new]]
    BY <1>0, <1>4 DEF ReadServed, TypeOK
  <2>5. [r EXCEPT !.snapshot = new] \in Request
    <3>. HIDE DEF new
    <3>. QED  BY <1>0, <2>3 DEF Request
  <2>. HIDE DEF new
  <2>. QED  BY <1>0, <1>4, <2>4, <2>5
            DEF ReadServed, Goto, TypeOK, Steps, DraftTypeOK, draftVars
<1>5. CASE ReadLayer(u)
  <2>1. r.row \in Rows /\ r.texts \in Texts /\ r.snapshot \in Snapshots
    BY <1>0, <1>5 DEF IInv, RequestInv, ReadSoFar, ReadLayer, Request
  <2>2. CASE r.kind = "review"
    <3>1. Finish(u) /\ reviewed' = [reviewed EXCEPT ![u][r.site] = r.snapshot]
      BY <1>5, <2>2 DEF ReadLayer
    <3>2. reviewed' \in [Users -> [Sites -> Snapshots \cup {Unread}]]
      BY <1>0, <2>1, <3>1 DEF TypeOK
    <3>. QED  BY <1>0, <1>5, <3>1, <3>2, FinishType DEF ReadLayer, TypeOK, DraftTypeOK, draftVars
  <2>3. CASE r.kind # "review"
    <3>. DEFINE new == [settings |-> r.row, texts |-> r.texts, allow |-> allow[r.site],
                        cookies |-> Classified(cookies[r.site])]
    <3>1. allow[r.site] \in SUBSET Entries /\ cookies[r.site] \in PartialFn(Cookies, CookieRow)
      BY <1>0 DEF DraftTypeOK
    <3>2. new \in Layers
      BY <2>1, <3>1, ClassifiedType DEF Layers
    <3>3. /\ req' = [req EXCEPT ![u] = [r EXCEPT !.layer = new]]
          /\ Goto(u, "check") /\ UNCHANGED <<lock, reviewed>>
      BY <1>0, <1>5, <2>3 DEF ReadLayer, TypeOK
    <3>4. [r EXCEPT !.layer = new] \in Request
      <4>. HIDE DEF new
      <4>. QED  BY <1>0, <3>2 DEF Request
    <3>. HIDE DEF new
    <3>. QED  BY <1>0, <1>5, <3>3, <3>4
              DEF ReadLayer, Goto, TypeOK, Steps, DraftTypeOK, draftVars
  <2>. QED  BY <2>2, <2>3
<1>6. CASE CheckPublish(u)
  <2>1. CASE Refuse(u, "stale_draft")
    BY <1>0, <1>6, <2>1, RefuseType DEF CheckPublish, TypeOK, DraftTypeOK, draftVars, Codes
  <2>2. CASE Refuse(u, "nothing_to_publish")
    BY <1>0, <1>6, <2>2, RefuseType DEF CheckPublish, TypeOK, DraftTypeOK, draftVars, Codes
  <2>3. CASE Goto(u, "number") /\ UNCHANGED <<lock, req>>
    BY <1>0, <1>6, <2>3 DEF CheckPublish, Goto, Steps, TypeOK, DraftTypeOK, draftVars
  <2>. QED  BY <1>6, <2>1, <2>2, <2>3 DEF CheckPublish
<1>7. CASE CheckRollback(u)
  <2>1. CASE Refuse(u, "revision_not_found")
    BY <1>0, <1>7, <2>1, RefuseType DEF CheckRollback, TypeOK, DraftTypeOK, draftVars, Codes
  <2>2. CASE Refuse(u, "already_live")
    BY <1>0, <1>7, <2>2, RefuseType DEF CheckRollback, TypeOK, DraftTypeOK, draftVars, Codes
  <2>3. CASE OwnRevision(r) /\ r.source # r.live
    <3>. DEFINE new == [r EXCEPT !.snapshot = revisions[r.source].snapshot,
                                 !.layer = revisions[r.source].layer]
    <3>1. revisions[r.source] \in Revision
      BY <1>0, <2>3, RevisionType DEF OwnRevision
    <3>2. new \in Request
      BY <1>0, <3>1 DEF Request, Revision
    <3>3. req' = [req EXCEPT ![u] = new] /\ Goto(u, "number") /\ UNCHANGED lock
      BY <1>0, <1>7, <2>3 DEF CheckRollback, Copied, TypeOK
    <3>. HIDE DEF new
    <3>. QED  BY <1>0, <1>7, <3>2, <3>3
              DEF CheckRollback, Goto, Steps, TypeOK, DraftTypeOK, draftVars
  <2>. QED  BY <1>7, <2>1, <2>2, <2>3 DEF CheckRollback
<1>8. CASE TakeNumber(u)
  <2>1. CASE Refuse(u, "blocked_by_check")
    BY <1>0, <1>8, <2>1, RefuseType DEF TakeNumber, TypeOK, DraftTypeOK, draftVars, Codes
  <2>2. CASE req' = [req EXCEPT ![u].number = NextNumber(r.site)]
             /\ Goto(u, "commit") /\ UNCHANGED lock
    <3>1. NextNumber(r.site) \in Nat
      BY <1>0, NextNumberAbove DEF IInv
    <3>2. [r EXCEPT !.number = NextNumber(r.site)] \in Request
      BY <1>0, <3>1 DEF Request
    <3>. QED  BY <1>0, <1>8, <2>2, <3>2
              DEF TakeNumber, Goto, Steps, TypeOK, DraftTypeOK, draftVars
  <2>. QED  BY <1>8, <2>1, <2>2 DEF TakeNumber
<1>9. CASE Commit(u)
  <2>0. /\ HoldsLock(u) /\ r.kind \in {"publish", "rollback"} /\ r.number > 0
        /\ r.snapshot \in Snapshots /\ r.layer \in Layers /\ r.live = live[r.site]
    BY <1>9, <1>0 DEF IInv, RequestInv, ReadSoFar, HoldsLock, LockedSteps, Commit
  <2>1. CASE Refuse(u, "publish_failed") /\ UNCHANGED <<revisions, live, attempts>>
    BY <1>0, <1>9, <2>1, RefuseType DEF Commit, TypeOK, DraftTypeOK, draftVars, Codes
  <2>2. CASE /\ revisions' = Append(revisions, RevisionOf(u))
             /\ live' = [live EXCEPT ![r.site] = LiveAfter(r)]
             /\ attempts' = attempts \cup {Succeeded(r)}
             /\ Finish(u)
    <3>1. ConsentVersion(r) \in Nat \ {0}
      <4>1. live[r.site] \in 0..Len(revisions)
        BY <1>0 DEF IInv, HistoryInv
      <4>2. r.live # 0 => revisions[r.live] \in Revision
        BY <2>0, <4>1, <1>0, RevisionType
      <4>. QED  BY <4>2, <1>0, RevisionType DEF ConsentVersion, Revision
    <3>2. RevisionOf(u) \in Revision
      BY <1>0, <2>0, <3>1 DEF RevisionOf, Revision, Request
    <3>3. revisions' \in Seq(Revision)
      BY <2>2, <3>2, <1>0, AppendProperties DEF TypeOK
    <3>4. live' \in [Sites -> Nat]
      BY <1>0, <2>2, RevisionType DEF LiveAfter, TypeOK
    <3>5. attempts' \subseteq Attempt
      BY <1>0, <2>2, RevisionType DEF Succeeded, Attempt, TypeOK, Request, Codes
    <3>. QED  BY <1>0, <1>9, <2>2, <3>3, <3>4, <3>5, FinishType
              DEF Commit, TypeOK, DraftTypeOK, draftVars
  <2>. QED  BY <1>9, <2>1, <2>2 DEF Commit
<1>10. CASE Restore(u)
  <2>1. DraftTypeOK'
    <3>1. CASE r.live = 0
      BY <1>0, <1>10, <3>1 DEF Restore, DraftTypeOK, draftVars
    <3>2. CASE r.live # 0
      <4>1. HoldsLock(u)
        BY <1>10 DEF IInv, RequestInv, ReadSoFar, HoldsLock, LockedSteps, Restore
      <4>2. r.live = live[r.site] /\ live[r.site] \in 0..Len(revisions)
        BY <1>0, <4>1 DEF IInv, RequestInv, ReadSoFar, HistoryInv
      <4>3. revisions[r.live].layer \in Layers
        BY <1>0, <3>2, <4>2, RevisionType DEF Revision
      <4>4. RestoreDraft(r.site, revisions[r.live].layer)
        BY <1>10, <3>2 DEF Restore
      <4>. QED  BY <1>0, <4>3, <4>4, RestoreType
    <3>. QED  BY <3>1, <3>2
  <2>. QED  BY <1>0, <1>10, <2>1, FinishType DEF Restore, TypeOK
<1>11. CASE LogFailure(u)
  <2>1. clock + 1 \in Nat
    BY <1>0 DEF TypeOK
  <2>2. [site |-> r.site, action |-> r.kind, at |-> clock + 1, code |-> r.code, revision |-> 0]
          \in Attempt
    BY <1>0, <2>1 DEF Attempt, Request
  <2>. QED  BY <1>0, <1>11, <2>1, <2>2, FinishType
            DEF LogFailure, TypeOK, DraftTypeOK, draftVars
<1>. QED  BY <1>1, <1>2, <1>3, <1>4, <1>5, <1>6, <1>7, <1>8, <1>9, <1>10, <1>11, <1>12 DEF Serve

\* Every step keeps the types.
LEMMA TypeStep ==
  ASSUME IInv, [Next]_vars
  PROVE  TypeOK'
<1>0. TypeOK
  BY DEF IInv
<1>1. ASSUME NEW u \in Users, Fail(u)  PROVE TypeOK'
  <2>1. CASE Finish(u)
    BY <1>0, <1>1, <2>1, FinishType DEF Fail, TypeOK, DraftTypeOK, draftVars
  <2>2. CASE Refuse(u, "publish_failed")
    BY <1>0, <1>1, <2>2, RefuseType DEF Fail, TypeOK, DraftTypeOK, draftVars, Codes
  <2>. QED  BY <1>1, <2>1, <2>2 DEF Fail
<1>2. CASE EditDraft
  <2>1. DraftTypeOK'
    BY <1>0, <1>2, EditType DEF EditDraft, TypeOK
  <2>. QED  BY <1>0, <1>2, <2>1 DEF EditDraft, TypeOK, publishVars
<1>3. ASSUME NEW s \in Sites, NEW new \in SiteStatus, SetStatus(s, new)  PROVE TypeOK'
  BY <1>0, <1>3 DEF SetStatus, CanEdit, TypeOK, DraftTypeOK, draftVars, publishVars
<1>4. CASE UNCHANGED vars
  BY <1>0, <1>4 DEF TypeOK, DraftTypeOK, vars, draftVars, publishVars
<1>. QED  BY <1>0, <1>1, <1>2, <1>3, <1>4, AskType, ServeType DEF Next
-----------------------------------------------------------------------------
(* The row lock.                                                             *)

\* Three ways a step treats the locks of the session that takes it.

\* It ends the transaction.
LEMMA LockReleased ==
  ASSUME TypeOK, LockInv, NEW u \in Users, Release(u),
         pc' = [pc EXCEPT ![u] = "idle"] \/ pc' = [pc EXCEPT ![u] = "log"],
         \A v \in Users : v # u => req'[v] = req[v]
  PROVE  LockInv'
<1>1. \A v \in Users : v # u => pc'[v] = pc[v] /\ req'[v] = req[v]
  BY DEF TypeOK
<1>2. pc'[u] \in {"idle", "log"}
  BY DEF TypeOK
<1>3. ASSUME NEW s \in Sites, NEW v \in Users
      PROVE  lock'[s] = v <=> (HoldsLock(v)' /\ req'[v].site = s)
  <2>1. lock'[s] = IF lock[s] = u THEN Nobody ELSE lock[s]
    BY DEF Release
  <2>2. Nobody # v
    BY NobodyAssumption
  <2>3. lock[s] = v <=> (HoldsLock(v) /\ req[v].site = s)
    BY DEF LockInv
  <2>4. CASE v = u
    BY <1>2, <2>1, <2>2, <2>4 DEF HoldsLock, LockedSteps
  <2>5. CASE v # u
    BY <1>1, <2>1, <2>2, <2>3, <2>5 DEF HoldsLock
  <2>. QED  BY <2>4, <2>5
<1>. QED  BY <1>3 DEF LockInv

\* It neither takes nor frees a lock.
LEMMA LockKept ==
  ASSUME TypeOK, LockInv, UNCHANGED lock,
         \A v \in Users : HoldsLock(v)' <=> HoldsLock(v),
         \A v \in Users : HoldsLock(v) => req'[v].site = req[v].site
  PROVE  LockInv'
BY DEF LockInv

\* It takes the lock of its site, which nobody had.
LEMMA LockTaken ==
  ASSUME TypeOK, LockInv, NEW u \in Users, NEW step \in LockedSteps,
         lock[req[u].site] = Nobody, ~HoldsLock(u), req[u].kind # "review",
         lock' = [lock EXCEPT ![req[u].site] = u],
         pc' = [pc EXCEPT ![u] = step],
         req'[u].kind = req[u].kind, req'[u].site = req[u].site,
         \A v \in Users : v # u => req'[v] = req[v]
  PROVE  LockInv'
<1>0. req[u].site \in Sites
  BY DEF TypeOK, Request
<1>1. ASSUME NEW s \in Sites, NEW v \in Users
      PROVE  lock'[s] = v <=> (HoldsLock(v)' /\ req'[v].site = s)
  <2>1. lock[s] = v <=> (HoldsLock(v) /\ req[v].site = s)
    BY DEF LockInv
  <2>2. Nobody # v
    BY NobodyAssumption
  <2>3. CASE v = u
    BY <1>0, <2>1, <2>3 DEF HoldsLock, TypeOK
  <2>4. CASE v # u
    BY <1>0, <2>1, <2>2, <2>4 DEF HoldsLock, TypeOK
  <2>. QED  BY <2>3, <2>4
<1>. QED  BY <1>1 DEF LockInv

\* A step inside a transaction: the session moves between two steps with
\* the same right to the lock, and the request keeps its kind and site.
LEMMA LockMoved ==
  ASSUME TypeOK, LockInv, NEW u \in Users, NEW step \in Steps, UNCHANGED lock,
         pc[u] \in LockedSteps <=> step \in LockedSteps,
         pc' = [pc EXCEPT ![u] = step],
         req'[u].kind = req[u].kind, req'[u].site = req[u].site,
         \A v \in Users : v # u => req'[v] = req[v]
  PROVE  LockInv'
<1>1. \A v \in Users : HoldsLock(v)' <=> HoldsLock(v)
  BY DEF HoldsLock, TypeOK
<1>2. \A v \in Users : req'[v].site = req[v].site
  OBVIOUS
<1>. QED  BY <1>1, <1>2, LockKept

\* Finishing and refusing end the transaction.
LEMMA LockEnded ==
  ASSUME TypeOK, LockInv, NEW u \in Users, Finish(u) \/ \E code \in Codes : Refuse(u, code)
  PROVE  LockInv'
<1>1. /\ Release(u)
      /\ pc' = [pc EXCEPT ![u] = "idle"] \/ pc' = [pc EXCEPT ![u] = "log"]
      /\ \A v \in Users : v # u => req'[v] = req[v]
  BY DEF Finish, Refuse, Goto, TypeOK
<1>. QED  BY <1>1, LockReleased

LEMMA LockStep ==
  ASSUME IInv, [Next]_vars
  PROVE  LockInv'
<1>0. TypeOK /\ LockInv /\ RequestInv
  BY DEF IInv
<1>1. ASSUME NEW u \in Users, NEW r, NEW step \in {"settings", "lock"}, Begin(u, r, step),
             step = "settings" => r.kind = "review"
      PROVE  LockInv'
  <2>1. ~HoldsLock(u) /\ ~HoldsLock(u)'
    BY <1>0, <1>1 DEF Begin, Goto, HoldsLock, LockedSteps, TypeOK
  <2>2. \A v \in Users : v # u => req'[v] = req[v] /\ (HoldsLock(v)' <=> HoldsLock(v))
    BY <1>0, <1>1 DEF Begin, Goto, HoldsLock, TypeOK
  <2>. QED  BY <1>0, <1>1, <2>1, <2>2, LockKept DEF Begin
<1>2. ASSUME NEW u \in Users, Ask(u)  PROVE LockInv'
  <2>1. ASSUME NEW s \in Sites, Review(u, s)  PROVE LockInv'
    BY <1>1, <2>1 DEF Review, NewRequest
  <2>2. ASSUME NEW s \in Sites, NEW ask \in BOOLEAN, Publish(u, s, ask)  PROVE LockInv'
    BY <1>1, <2>2 DEF Publish
  <2>3. ASSUME NEW s \in Sites, NEW i, NEW ask \in BOOLEAN, Rollback(u, s, i, ask)
        PROVE  LockInv'
    BY <1>1, <2>3 DEF Rollback
  <2>4. ASSUME NEW s \in Sites, Discard(u, s)  PROVE LockInv'
    BY <1>1, <2>4 DEF Discard
  <2>. QED  BY <1>2, <2>1, <2>2, <2>3, <2>4 DEF Ask
<1>3. ASSUME NEW u \in Users, Lock(u)  PROVE LockInv'
  <2>1. CASE Finish(u)
    BY <1>0, <2>1, LockEnded
  <2>2. CASE status[req[u].site] = "active"
    <3>. DEFINE step == CASE req[u].kind = "publish" -> "settings"
                          [] req[u].kind = "rollback" -> "check"
                          [] OTHER -> "restore"
    <3>1. step \in LockedSteps
      BY DEF LockedSteps
    <3>2. /\ lock[req[u].site] = Nobody /\ ~HoldsLock(u) /\ req[u].kind # "review"
          /\ lock' = [lock EXCEPT ![req[u].site] = u]
          /\ req' = [req EXCEPT ![u].live = live[req[u].site]]
          /\ pc' = [pc EXCEPT ![u] = step]
      BY <1>0, <1>3, <2>2 DEF Lock, RowFree, HoldsLock, LockedSteps, RequestInv, ReadSoFar, Goto
    <3>3. /\ req'[u].kind = req[u].kind /\ req'[u].site = req[u].site
          /\ \A v \in Users : v # u => req'[v] = req[v]
      BY <1>0, <3>2 DEF TypeOK, Request
    <3>. HIDE DEF step
    <3>. QED  BY <1>0, <3>1, <3>2, <3>3, LockTaken
  <2>. QED  BY <1>3, <2>1, <2>2 DEF Lock
<1>4. ASSUME NEW u \in Users,
             ReadSettings(u) \/ ReadConfig(u) \/ ReadTexts(u) \/ ReadServed(u) \/ ReadLayer(u)
      PROVE  LockInv'
  <2>1. CASE Finish(u)
    BY <1>0, <2>1, LockEnded
  <2>2. CASE ~Finish(u)
    <3>1. PICK step \in {"config", "texts", "served", "layer", "check"} : pc' = [pc EXCEPT ![u] = step]
      BY <1>4, <2>2 DEF ReadSettings, ReadConfig, ReadTexts, ReadServed, ReadLayer, Goto
    <3>2. pc[u] \in LockedSteps /\ step \in LockedSteps /\ step \in Steps /\ UNCHANGED lock
      BY <1>4, <2>2 DEF ReadSettings, ReadConfig, ReadTexts, ReadServed, ReadLayer, LockedSteps, Steps
    <3>3. /\ req'[u].kind = req[u].kind /\ req'[u].site = req[u].site
          /\ \A v \in Users : v # u => req'[v] = req[v]
      <4>1. CASE ReadSettings(u)
        BY <1>0, <2>2, <4>1 DEF ReadSettings, TypeOK, Request
      <4>2. CASE ReadConfig(u)
        BY <1>0, <4>2 DEF ReadConfig, TypeOK, Request
      <4>3. CASE ReadTexts(u)
        BY <1>0, <4>3 DEF ReadTexts, TypeOK, Request
      <4>4. CASE ReadServed(u)
        BY <1>0, <4>4 DEF ReadServed, TypeOK, Request
      <4>5. CASE ReadLayer(u)
        BY <1>0, <2>2, <4>5 DEF ReadLayer, TypeOK, Request
      <4>. QED  BY <1>4, <4>1, <4>2, <4>3, <4>4, <4>5
    <3>. QED  BY <1>0, <3>1, <3>2, <3>3, LockMoved
  <2>. QED  BY <2>1, <2>2
<1>5. ASSUME NEW u \in Users, CheckPublish(u) \/ CheckRollback(u) \/ TakeNumber(u)
      PROVE  LockInv'
  <2>1. CASE \E code \in Codes : Refuse(u, code)
    BY <1>0, <2>1, LockEnded
  <2>2. CASE ~\E code \in Codes : Refuse(u, code)
    <3>1. PICK step \in {"number", "commit"} : pc' = [pc EXCEPT ![u] = step]
      BY <1>5, <2>2 DEF CheckPublish, CheckRollback, TakeNumber, Goto, Codes
    <3>2. pc[u] \in LockedSteps /\ step \in LockedSteps /\ step \in Steps /\ UNCHANGED lock
      BY <1>5, <2>2 DEF CheckPublish, CheckRollback, TakeNumber, LockedSteps, Steps, Codes
    <3>3. /\ req'[u].kind = req[u].kind /\ req'[u].site = req[u].site
          /\ \A v \in Users : v # u => req'[v] = req[v]
      <4>1. CASE CheckPublish(u)
        BY <1>0, <2>2, <4>1 DEF CheckPublish, Codes
      <4>2. CASE CheckRollback(u)
        BY <1>0, <2>2, <4>2 DEF CheckRollback, Copied, TypeOK, Request, Codes
      <4>3. CASE TakeNumber(u)
        BY <1>0, <2>2, <4>3 DEF TakeNumber, TypeOK, Request, Codes
      <4>. QED  BY <1>5, <4>1, <4>2, <4>3
    <3>. QED  BY <1>0, <3>1, <3>2, <3>3, LockMoved
  <2>. QED  BY <2>1, <2>2
<1>6. ASSUME NEW u \in Users, Commit(u) \/ Restore(u) \/ LogFailure(u) \/ Fail(u)
      PROVE  LockInv'
  <2>1. Finish(u) \/ \E code \in Codes : Refuse(u, code)
    BY <1>6 DEF Commit, Restore, LogFailure, Fail, Codes
  <2>. QED  BY <1>0, <2>1, LockEnded
<1>7. CASE EditDraft
  BY <1>0, <1>7 DEF EditDraft, LockInv, HoldsLock, publishVars
<1>8. ASSUME NEW s \in Sites, NEW new \in SiteStatus, SetStatus(s, new)  PROVE LockInv'
  BY <1>0, <1>8 DEF SetStatus, LockInv, HoldsLock, publishVars
<1>9. CASE UNCHANGED vars
  BY <1>0, <1>9 DEF vars, LockInv, HoldsLock, publishVars
<1>. QED  BY <1>2, <1>3, <1>4, <1>5, <1>6, <1>7, <1>8, <1>9 DEF Next, Serve
-----------------------------------------------------------------------------
(* The history.                                                              *)

\* Two sessions at work under the lock are at work on different sites.
LEMMA OneWriterPerSite ==
  ASSUME LockInv, NEW u \in Users, NEW v \in Users, req[u].site \in Sites,
         HoldsLock(u), HoldsLock(v), req[u].site = req[v].site
  PROVE  u = v
BY DEF LockInv

\* What is known of a request about to commit.
LEMMA AtCommit ==
  ASSUME IInv, NEW u \in Users, pc[u] = "commit"
  PROVE  /\ HoldsLock(u) /\ req[u] \in Request /\ req[u].site \in Sites
         /\ req[u].live = live[req[u].site]
         /\ \A i \in IndexesOf(req[u].site) : revisions[i].number < req[u].number
BY DEF IInv, TypeOK, Request, RequestInv, ReadSoFar, HoldsLock, LockedSteps

\* The step that commits adds one revision at the end of the table.
LEMMA Committed ==
  ASSUME IInv, NEW u \in Users, Commit(u),
         revisions' = Append(revisions, RevisionOf(u))
  PROVE  /\ Len(revisions) \in Nat /\ Len(revisions') = Len(revisions) + 1
         /\ DOMAIN revisions' = DOMAIN revisions \cup {Len(revisions) + 1}
         /\ DOMAIN revisions = 1..Len(revisions)
         /\ \A i \in DOMAIN revisions : revisions'[i] = revisions[i]
         /\ revisions'[Len(revisions) + 1] = RevisionOf(u)
<1>1. revisions \in Seq(Revision) /\ Len(revisions) \in Nat /\ DOMAIN revisions = 1..Len(revisions)
  BY RevisionType DEF IInv, TypeOK
<1>2. DOMAIN revisions' = 1..(Len(revisions) + 1)
  BY <1>1
<1>3. Len(revisions') = Len(revisions) + 1
  BY <1>1
<1>4. \A i \in DOMAIN revisions : revisions'[i] = revisions[i]
  BY <1>1
<1>5. revisions'[Len(revisions) + 1] = RevisionOf(u)
  BY <1>1
<1>. QED  BY <1>1, <1>2, <1>3, <1>4, <1>5

\* The only step that touches the history is a commit that goes through.
LEMMA HistoryChange ==
  ASSUME [Next]_vars, ~UNCHANGED <<revisions, live>>
  PROVE  \E u \in Users :
           /\ Commit(u)
           /\ revisions' = Append(revisions, RevisionOf(u))
           /\ live' = [live EXCEPT ![req[u].site] = Len(revisions) + 1]
<1>1. ASSUME NEW u \in Users, Ask(u) \/ Fail(u)  PROVE FALSE
  BY <1>1 DEF Ask, Fail, Review, Publish, Rollback, Discard, Begin
<1>2. ASSUME NEW u \in Users, Serve(u)  PROVE Commit(u)
  BY <1>2 DEF Serve, Lock, ReadSettings, ReadConfig, ReadTexts, ReadServed, ReadLayer, CheckPublish,
              CheckRollback, TakeNumber, Restore, LogFailure
<1>3. ~EditDraft /\ ~(UNCHANGED vars)
  BY DEF EditDraft, vars, publishVars
<1>4. \A s \in Sites, new \in SiteStatus : ~SetStatus(s, new)
  BY DEF SetStatus, publishVars
<1>5. PICK u \in Users : Commit(u)
  BY <1>1, <1>2, <1>3, <1>4 DEF Next
<1>. QED  BY <1>5 DEF Commit, LiveAfter

LEMMA HistoryStep ==
  ASSUME IInv, [Next]_vars
  PROVE  HistoryInv'
<1>0. TypeOK /\ HistoryInv
  BY DEF IInv
<1>1. CASE UNCHANGED <<revisions, live>>
  BY <1>0, <1>1 DEF HistoryInv, IndexesOf
<1>2. CASE ~UNCHANGED <<revisions, live>>
  <2>. DEFINE n == Len(revisions) + 1
  <2>1. PICK u \in Users :
          /\ Commit(u)
          /\ revisions' = Append(revisions, RevisionOf(u))
          /\ live' = [live EXCEPT ![req[u].site] = n]
    BY <1>2, HistoryChange
  <2>. DEFINE r == req[u]
  <2>2. /\ r \in Request /\ r.site \in Sites /\ r.live = live[r.site]
        /\ \A i \in IndexesOf(r.site) : revisions[i].number < r.number
    BY <2>1, AtCommit DEF Commit
  <2>3. /\ Len(revisions) \in Nat /\ Len(revisions') = n
        /\ DOMAIN revisions' = DOMAIN revisions \cup {n} /\ DOMAIN revisions = 1..Len(revisions)
        /\ \A i \in DOMAIN revisions : revisions'[i] = revisions[i]
        /\ revisions'[n] = RevisionOf(u)
    BY <2>1, Committed
  <2>4. /\ RevisionOf(u).site = r.site /\ RevisionOf(u).number = r.number
        /\ RevisionOf(u).version = ConsentVersion(r)
    BY DEF RevisionOf
  <2>5. ASSUME NEW s \in Sites
        PROVE  /\ live'[s] \in 0..n
               /\ live'[s] # 0 => revisions'[live'[s]].site = s
               /\ \A i \in IndexesOf(s)' : i <= live'[s]
    <3>1. live[s] \in 0..Len(revisions)
      BY <1>0 DEF HistoryInv
    <3>2. CASE s = r.site
      <4>1. live'[s] = n
        BY <1>0, <2>1, <3>2 DEF TypeOK
      <4>2. \A i \in IndexesOf(s)' : i <= n
        BY <2>3 DEF IndexesOf
      <4>. QED  BY <4>1, <4>2, <2>3, <2>4, <3>2
    <3>3. CASE s # r.site
      <4>1. live'[s] = live[s]
        BY <1>0, <2>1, <3>3 DEF TypeOK
      <4>2. \A i \in IndexesOf(s)' : i \in IndexesOf(s)
        BY <2>3, <2>4, <3>3 DEF IndexesOf
      <4>3. live[s] # 0 => revisions'[live[s]] = revisions[live[s]]
        BY <2>3, <3>1
      <4>. QED  BY <4>1, <4>2, <4>3, <3>1, <2>3, <1>0 DEF HistoryInv
    <3>. QED  BY <3>2, <3>3
  <2>6. ASSUME NEW i \in DOMAIN revisions', NEW j \in DOMAIN revisions',
               revisions'[i].site = revisions'[j].site, i < j
        PROVE  revisions'[i].number < revisions'[j].number
    <3>1. i \in DOMAIN revisions
      BY <2>3, <2>6
    <3>2. CASE j = n
      <4>1. i \in IndexesOf(r.site)
        BY <2>3, <2>4, <2>6, <3>1, <3>2 DEF IndexesOf
      <4>. QED  BY <4>1, <2>2, <2>3, <2>4, <3>1, <3>2
    <3>3. CASE j # n
      BY <1>0, <2>3, <2>6, <3>1, <3>3 DEF HistoryInv
    <3>. QED  BY <3>2, <3>3
  <2>7. ASSUME NEW i \in DOMAIN revisions'  PROVE revisions'[i].version <= i
    <3>1. CASE i # n
      BY <1>0, <2>3, <3>1 DEF HistoryInv
    <3>2. CASE i = n
      <4>1. live[r.site] \in 0..Len(revisions)
        BY <1>0, <2>2 DEF HistoryInv
      <4>2. r.live # 0 =>
              /\ revisions[r.live].version \in Nat
              /\ revisions[r.live].version <= r.live
              /\ r.live <= Len(revisions)
        BY <1>0, <2>2, <2>3, <4>1, RevisionType DEF HistoryInv
      <4>3. r.live \in Nat
        BY <2>2 DEF Request
      <4>4. ConsentVersion(r) <= n
        BY <4>2, <4>3, <2>3 DEF ConsentVersion
      <4>. QED  BY <4>4, <2>3, <2>4, <3>2
    <3>. QED  BY <3>1, <3>2
  <2>. QED  BY <2>3, <2>5, <2>6, <2>7 DEF HistoryInv
<1>. QED  BY <1>1, <1>2
-----------------------------------------------------------------------------
(* The requests.                                                             *)

\* RequestInv for one session.
RequestOK(u) ==
  /\ ReadSoFar(pc[u], req[u])
  /\ HoldsLock(u) => req[u].live = live[req[u].site]
  /\ pc[u] \in {"number", "commit"} /\ req[u].kind = "publish" /\ req[u].live # 0
       => revisions[req[u].live].snapshot # req[u].snapshot
  /\ pc[u] = "commit" =>
       \A i \in IndexesOf(req[u].site) : revisions[i].number < req[u].number

\* A step of another session does not disturb what a request relies on: the
\* one that could, a commit on its site, needs the lock it holds.
LEMMA OthersKept ==
  ASSUME IInv, [Next]_vars, NEW v \in Users, pc'[v] = pc[v], req'[v] = req[v], ~Commit(v)
  PROVE  RequestOK(v)'
<1>0. RequestOK(v) /\ TypeOK /\ LockInv
  BY DEF IInv, RequestInv, RequestOK
<1>1. HoldsLock(v)' <=> HoldsLock(v)
  BY DEF HoldsLock
<1>2. CASE UNCHANGED <<revisions, live>>
  BY <1>0, <1>1, <1>2 DEF RequestOK, IndexesOf
<1>3. CASE ~UNCHANGED <<revisions, live>>
  <2>1. PICK u \in Users :
          /\ Commit(u)
          /\ revisions' = Append(revisions, RevisionOf(u))
          /\ live' = [live EXCEPT ![req[u].site] = Len(revisions) + 1]
    BY <1>3, HistoryChange
  <2>2. u # v
    BY <2>1
  <2>3. HoldsLock(u) /\ req[u].site \in Sites /\ req[v].site \in Sites
    BY <1>0, <2>1, AtCommit DEF Commit, TypeOK, Request
  <2>4. HoldsLock(v) => req[u].site # req[v].site
    BY <1>0, <2>2, <2>3, OneWriterPerSite
  <2>5. HoldsLock(v) => live'[req[v].site] = live[req[v].site]
    BY <1>0, <2>1, <2>3, <2>4 DEF TypeOK
  <2>6. pc[v] = "commit" => HoldsLock(v)
    BY AtCommit
  <2>7. ASSUME pc[v] = "commit", NEW i \in IndexesOf(req[v].site)'
        PROVE  revisions'[i].number < req[v].number
    <3>1. req[u].site # req[v].site
      BY <2>4, <2>6, <2>7
    <3>2. RevisionOf(u).site = req[u].site
      BY DEF RevisionOf
    <3>3. /\ DOMAIN revisions' = DOMAIN revisions \cup {Len(revisions) + 1}
          /\ \A j \in DOMAIN revisions : revisions'[j] = revisions[j]
          /\ revisions'[Len(revisions) + 1] = RevisionOf(u)
      BY <2>1, Committed
    <3>4. i \in IndexesOf(req[v].site) /\ revisions'[i] = revisions[i]
      BY <3>1, <3>2, <3>3 DEF IndexesOf
    <3>. QED  BY <1>0, <2>7, <3>4 DEF RequestOK
  <2>8. ASSUME pc[v] \in {"number", "commit"}, req[v].kind = "publish", req[v].live # 0
        PROVE  revisions'[req[v].live] = revisions[req[v].live]
    <3>1. HoldsLock(v)
      BY <2>8 DEF HoldsLock, LockedSteps
    <3>2. req[v].live \in 0..Len(revisions)
      BY <1>0, <2>3, <3>1 DEF RequestOK, IInv, HistoryInv
    <3>. QED  BY <2>1, <2>8, <3>2, Committed
  <2>. QED  BY <1>0, <1>1, <2>5, <2>7, <2>8 DEF RequestOK
<1>. QED  BY <1>2, <1>3

\* A session between two requests relies on nothing.
LEMMA FinishedOK ==
  ASSUME TypeOK, NEW u \in Users, Finish(u)
  PROVE  RequestOK(u)'
<1>1. pc'[u] = "idle"
  BY DEF Finish, Goto, TypeOK
<1>. QED  BY <1>1 DEF RequestOK, ReadSoFar, HoldsLock, LockedSteps

\* Nor does one whose refusal is still to be logged, once it is no review.
LEMMA RefusedOK ==
  ASSUME TypeOK, NEW u \in Users, NEW code, Refuse(u, code), req[u].kind # "review"
  PROVE  RequestOK(u)'
<1>1. pc'[u] = "log" /\ req'[u].kind = req[u].kind
  BY DEF Refuse, Goto, TypeOK, Request
<1>. QED  BY <1>1 DEF RequestOK, ReadSoFar, HoldsLock, LockedSteps

\* Each step of a session leaves its own request in order.
LEMMA ServedOK ==
  ASSUME IInv, NEW u \in Users, Serve(u)
  PROVE  RequestOK(u)'
<1>. DEFINE r == req[u]
<1>0. /\ TypeOK /\ r \in Request /\ r.site \in Sites /\ RequestOK(u)
      /\ HistoryInv /\ req \in [Users -> Request] /\ pc \in [Users -> Steps]
  BY DEF IInv, TypeOK, Request, RequestInv, RequestOK
<1>1. CASE Finish(u)
  BY <1>0, <1>1, FinishedOK
<1>2. CASE r.kind # "review" /\ \E code \in Codes : Refuse(u, code)
  BY <1>0, <1>2, RefusedOK
<1>3. CASE Lock(u) /\ ~Finish(u)
  <2>1. /\ UNCHANGED <<revisions, live>> /\ req' = [req EXCEPT ![u].live = live[r.site]]
        /\ pc' = [pc EXCEPT ![u] = CASE r.kind = "publish" -> "settings"
                                    [] r.kind = "rollback" -> "check"
                                    [] OTHER -> "restore"]
        /\ r.kind # "review"
    BY <1>0, <1>3 DEF Lock, Goto, RequestOK, ReadSoFar
  <2>2. r.kind \in {"publish", "rollback", "discard"}
    BY <1>0, <2>1 DEF Request, Kinds
  <2>3. req'[u] = [r EXCEPT !.live = live[r.site]]
    BY <1>0, <2>1
  <2>4. req'[u].live = live[r.site] /\ req'[u].site = r.site /\ req'[u].kind = r.kind
    BY <1>0, <2>3 DEF Request
  <2>. QED  BY <1>0, <2>1, <2>2, <2>4 DEF RequestOK, ReadSoFar
<1>4. CASE (ReadSettings(u) \/ ReadConfig(u) \/ ReadTexts(u) \/ ReadServed(u) \/ ReadLayer(u)) /\ ~Finish(u)
  <2>1. UNCHANGED <<revisions, live>> /\ pc[u] \in {"settings", "config", "texts", "served", "layer"}
    BY <1>4 DEF ReadSettings, ReadConfig, ReadTexts, ReadServed, ReadLayer
  <2>2. HoldsLock(u) <=> r.kind # "review"
    BY <2>1 DEF HoldsLock, LockedSteps
  <2>3. CASE ReadSettings(u)
    <3>1. pc'[u] = "config" /\ req'[u] = [r EXCEPT !.row = settings[r.site]]
      BY <1>0, <1>4, <2>3 DEF ReadSettings, Goto
    <3>2. settings[r.site] \in Rows
      BY <1>0 DEF TypeOK, DraftTypeOK
    <3>3. /\ req'[u].row = settings[r.site] /\ req'[u].kind = r.kind
          /\ req'[u].site = r.site /\ req'[u].live = r.live
      BY <1>0, <3>1 DEF Request
    <3>. QED  BY <1>0, <2>1, <2>2, <2>3, <3>1, <3>2, <3>3
              DEF RequestOK, ReadSoFar, HoldsLock, ReadSettings
  <2>4. CASE ReadConfig(u)
    <3>1. pc'[u] = "texts" /\ req'[u] = [r EXCEPT !.config = Resolved(r.row, defaults)]
      BY <1>0, <2>4 DEF ReadConfig, Goto
    <3>2. r.row \in Rows
      BY <1>0, <2>4 DEF RequestOK, ReadSoFar, ReadConfig
    <3>3. Resolved(r.row, defaults) \in Config
      BY <1>0, <3>2, ResolvedType DEF TypeOK, DraftTypeOK
    <3>4. /\ req'[u].config = Resolved(r.row, defaults)
          /\ req'[u].row = r.row /\ req'[u].kind = r.kind
          /\ req'[u].site = r.site /\ req'[u].live = r.live
      BY <1>0, <3>1 DEF Request
    <3>. QED  BY <1>0, <2>1, <2>2, <2>4, <3>1, <3>2, <3>3, <3>4
              DEF RequestOK, ReadSoFar, HoldsLock, ReadConfig
  <2>7. CASE ReadTexts(u)
    <3>1. pc'[u] = "served" /\ req'[u] = [r EXCEPT !.texts = texts[r.site]]
      BY <1>0, <2>7 DEF ReadTexts, Goto
    <3>2. r.row \in Rows /\ r.config \in Config
      BY <1>0, <2>7 DEF RequestOK, ReadSoFar, ReadTexts
    <3>3. texts[r.site] \in Texts
      BY <1>0 DEF TypeOK, DraftTypeOK
    <3>4. /\ req'[u].texts = texts[r.site] /\ req'[u].config = r.config
          /\ req'[u].row = r.row /\ req'[u].kind = r.kind
          /\ req'[u].site = r.site /\ req'[u].live = r.live
      BY <1>0, <3>1 DEF Request
    <3>. QED  BY <1>0, <2>1, <2>2, <2>7, <3>1, <3>2, <3>3, <3>4
              DEF RequestOK, ReadSoFar, HoldsLock, ReadTexts
  <2>5. CASE ReadServed(u)
    <3>. DEFINE new == [config |-> r.config, texts |-> r.texts,
                        count |-> Cardinality(allow[r.site]),
                        cookies |-> Declared(cookies[r.site])]
    <3>1. pc'[u] = "layer" /\ req'[u] = [r EXCEPT !.snapshot = new]
      BY <1>0, <2>5 DEF ReadServed, Goto
    <3>2. r.row \in Rows /\ r.texts \in Texts /\ r.config \in Config
      BY <1>0, <2>5 DEF RequestOK, ReadSoFar, ReadServed
    <3>3. new \in Snapshots
      <4>1. allow[r.site] \in SUBSET Entries /\ cookies[r.site] \in PartialFn(Cookies, CookieRow)
        BY <1>0 DEF TypeOK, DraftTypeOK
      <4>. QED  BY <3>2, <4>1, CountType, DeclaredType DEF Snapshots
    <3>. HIDE DEF new
    <3>4. /\ req'[u].snapshot = new /\ req'[u].row = r.row /\ req'[u].texts = r.texts
          /\ req'[u].kind = r.kind /\ req'[u].site = r.site /\ req'[u].live = r.live
      BY <1>0, <3>1 DEF Request
    <3>. QED  BY <1>0, <2>1, <2>2, <2>5, <3>1, <3>2, <3>3, <3>4
              DEF RequestOK, ReadSoFar, HoldsLock, ReadServed
  <2>6. CASE ReadLayer(u)
    <3>. DEFINE new == [settings |-> r.row, texts |-> r.texts, allow |-> allow[r.site],
                        cookies |-> Classified(cookies[r.site])]
    <3>1. /\ pc'[u] = "check" /\ req'[u] = [r EXCEPT !.layer = new] /\ r.kind # "review"
      BY <1>0, <1>4, <2>6 DEF ReadLayer, Goto
    <3>2. /\ r.row \in Rows /\ r.texts \in Texts /\ r.snapshot \in Snapshots
          /\ r.kind = "publish"
      BY <1>0, <2>6, <3>1 DEF RequestOK, ReadSoFar, ReadLayer
    <3>3. new \in Layers
      <4>1. allow[r.site] \in SUBSET Entries /\ cookies[r.site] \in PartialFn(Cookies, CookieRow)
        BY <1>0 DEF TypeOK, DraftTypeOK
      <4>. QED  BY <3>2, <4>1, ClassifiedType DEF Layers
    <3>. HIDE DEF new
    <3>4. /\ req'[u].layer = new /\ req'[u].snapshot = r.snapshot
          /\ req'[u].kind = r.kind /\ req'[u].site = r.site /\ req'[u].live = r.live
      BY <1>0, <3>1 DEF Request
    <3>. QED  BY <1>0, <2>1, <2>2, <2>6, <3>1, <3>2, <3>3, <3>4
              DEF RequestOK, ReadSoFar, HoldsLock, ReadLayer
  <2>. QED  BY <1>4, <2>3, <2>4, <2>5, <2>6, <2>7
<1>5. CASE CheckPublish(u) /\ ~\E code \in Codes : Refuse(u, code)
  <2>1. /\ pc[u] = "check" /\ r.kind = "publish" /\ pc'[u] = "number" /\ req' = req
        /\ UNCHANGED <<revisions, live>>
        /\ ~(r.live # 0 /\ revisions[r.live].snapshot = r.snapshot)
    BY <1>0, <1>5 DEF CheckPublish, Goto, Codes
  <2>. QED  BY <1>0, <2>1 DEF RequestOK, ReadSoFar, HoldsLock, LockedSteps
<1>6. CASE CheckRollback(u) /\ ~\E code \in Codes : Refuse(u, code)
  <2>1. /\ pc[u] = "check" /\ r.kind = "rollback" /\ pc'[u] = "number" /\ OwnRevision(r)
        /\ req'[u] = [r EXCEPT !.snapshot = revisions[r.source].snapshot,
                               !.layer = revisions[r.source].layer]
        /\ UNCHANGED <<revisions, live>>
    BY <1>0, <1>6 DEF CheckRollback, Goto, Codes, Copied
  <2>2. revisions[r.source] \in Revision
    BY <1>0, <2>1, RevisionType DEF OwnRevision
  <2>3. /\ req'[u].snapshot \in Snapshots /\ req'[u].layer \in Layers
        /\ req'[u].kind = r.kind /\ req'[u].site = r.site /\ req'[u].live = r.live
    BY <1>0, <2>1, <2>2 DEF Request, Revision
  <2>. QED  BY <1>0, <2>1, <2>3 DEF RequestOK, ReadSoFar, HoldsLock, LockedSteps
<1>7. CASE TakeNumber(u) /\ ~\E code \in Codes : Refuse(u, code)
  <2>1. /\ pc[u] = "number" /\ pc'[u] = "commit"
        /\ req'[u] = [r EXCEPT !.number = NextNumber(r.site)]
        /\ UNCHANGED <<revisions, live>>
    BY <1>0, <1>7 DEF TakeNumber, Goto, Codes
  <2>2. /\ req'[u].number = NextNumber(r.site) /\ req'[u].kind = r.kind /\ req'[u].site = r.site
        /\ req'[u].live = r.live /\ req'[u].snapshot = r.snapshot /\ req'[u].layer = r.layer
    BY <1>0, <2>1 DEF Request
  <2>3. /\ NextNumber(r.site) > 0
        /\ \A i \in IndexesOf(r.site) : revisions[i].number < NextNumber(r.site)
    BY <1>0, NextNumberAbove
  <2>. QED  BY <1>0, <2>1, <2>2, <2>3 DEF RequestOK, ReadSoFar, HoldsLock, LockedSteps, IndexesOf
<1>8. CASE CheckPublish(u) \/ CheckRollback(u) \/ TakeNumber(u) \/ Commit(u)
  <2>1. r.kind # "review"
    BY <1>0, <1>8 DEF CheckPublish, CheckRollback, TakeNumber, Commit, RequestOK, ReadSoFar
  <2>2. Commit(u) => Finish(u) \/ \E code \in Codes : Refuse(u, code)
    BY DEF Commit, Codes
  <2>. QED  BY <1>1, <1>2, <1>5, <1>6, <1>7, <1>8, <2>1, <2>2
<1>9. CASE Restore(u) \/ LogFailure(u)
  BY <1>1, <1>9 DEF Restore, LogFailure
<1>. QED  BY <1>1, <1>3, <1>4, <1>8, <1>9 DEF Serve

\* Making a request leaves it in order, before any lock is taken.
LEMMA AskedOK ==
  ASSUME IInv, NEW u \in Users, Ask(u)
  PROVE  RequestOK(u)'
<1>0. req \in [Users -> Request] /\ pc \in [Users -> Steps]
  BY DEF IInv, TypeOK
<1>1. ASSUME NEW r, NEW step, Begin(u, r, step),
             \/ step = "settings" /\ r.kind = "review"
             \/ step = "lock" /\ r.kind # "review"
      PROVE  RequestOK(u)'
  <2>1. pc'[u] = step /\ req'[u] = r
    BY <1>0, <1>1 DEF Begin, Goto
  <2>. QED  BY <1>1, <2>1 DEF RequestOK, ReadSoFar, HoldsLock, LockedSteps
<1>. USE DEF NewRequest
<1>2. ASSUME NEW s \in Sites, Review(u, s)  PROVE RequestOK(u)'
  BY <1>1, <1>2 DEF Review
<1>3. ASSUME NEW s \in Sites, NEW ask \in BOOLEAN, Publish(u, s, ask)  PROVE RequestOK(u)'
  BY <1>1, <1>3 DEF Publish
<1>4. ASSUME NEW s \in Sites, NEW i, NEW ask \in BOOLEAN, Rollback(u, s, i, ask)
      PROVE  RequestOK(u)'
  BY <1>1, <1>4 DEF Rollback
<1>5. ASSUME NEW s \in Sites, Discard(u, s)  PROVE RequestOK(u)'
  BY <1>1, <1>5 DEF Discard
<1>. QED  BY <1>2, <1>3, <1>4, <1>5 DEF Ask

\* An error leaves the request in order too: ended, or about to be logged.
LEMMA FailedOK ==
  ASSUME IInv, NEW u \in Users, Fail(u)
  PROVE  RequestOK(u)'
BY FinishedOK, RefusedOK DEF IInv, Fail

\* A session's step changes no other session's request.
LEMMA OthersUntouched ==
  ASSUME TypeOK, NEW u \in Users, NEW v \in Users, u # v, Ask(u) \/ Serve(u) \/ Fail(u)
  PROVE  pc'[v] = pc[v] /\ req'[v] = req[v] /\ reviewed'[v] = reviewed[v]
<1>0. /\ req \in [Users -> Request] /\ pc \in [Users -> Steps]
      /\ reviewed \in [Users -> [Sites -> Snapshots \cup {Unread}]]
  BY DEF TypeOK
<1>1. ASSUME NEW r, NEW step, Begin(u, r, step)
      PROVE  pc'[v] = pc[v] /\ req'[v] = req[v] /\ reviewed'[v] = reviewed[v]
  BY <1>0, <1>1 DEF Begin, Goto
<1>2. CASE Ask(u)
  BY <1>1, <1>2 DEF Ask, Review, Publish, Rollback, Discard
<1>3. ASSUME Finish(u) \/ \E code \in Codes : Refuse(u, code)
      PROVE  pc'[v] = pc[v] /\ req'[v] = req[v]
  BY <1>0, <1>3 DEF Finish, Refuse, Goto
<1>4. CASE Fail(u)
  BY <1>3, <1>4 DEF Fail, Codes
<1>5. CASE Lock(u) \/ ReadSettings(u) \/ ReadConfig(u) \/ ReadTexts(u) \/ ReadServed(u) \/ ReadLayer(u)
  BY <1>0, <1>3, <1>5
     DEF Lock, ReadSettings, ReadConfig, ReadTexts, ReadServed, ReadLayer, Goto
<1>6. CASE CheckPublish(u) \/ CheckRollback(u) \/ TakeNumber(u)
  BY <1>0, <1>3, <1>6 DEF CheckPublish, CheckRollback, TakeNumber, Goto, Codes
<1>7. CASE Commit(u) \/ Restore(u) \/ LogFailure(u)
  BY <1>3, <1>7 DEF Commit, Restore, LogFailure, Codes
<1>. QED  BY <1>2, <1>4, <1>5, <1>6, <1>7 DEF Serve

LEMMA RequestStep ==
  ASSUME IInv, [Next]_vars
  PROVE  RequestInv'
<1>. SUFFICES ASSUME NEW v \in Users  PROVE RequestOK(v)'
  BY DEF RequestInv, RequestOK
<1>0. req \in [Users -> Request] /\ pc \in [Users -> Steps]
  BY DEF IInv, TypeOK
<1>1. ASSUME NEW u \in Users, Ask(u) \/ Serve(u) \/ Fail(u)  PROVE RequestOK(v)'
  <2>1. CASE u = v
    BY <1>1, <2>1, AskedOK, ServedOK, FailedOK
  <2>2. CASE u # v
    <3>1. pc'[v] = pc[v] /\ req'[v] = req[v]
      BY <1>1, <2>2, OthersUntouched DEF IInv
    <3>2. ~Commit(v)
      <4>1. ASSUME Commit(v)  PROVE pc'[v] # pc[v]
        <5>1. pc[v] = "commit" /\ (pc'[v] = "idle" \/ pc'[v] = "log")
          BY <1>0, <4>1 DEF Commit, Finish, Refuse, Goto
        <5>. QED  BY <5>1
      <4>. QED  BY <3>1, <4>1
    <3>. QED  BY <3>1, <3>2, OthersKept
  <2>. QED  BY <2>1, <2>2
<1>2. ASSUME UNCHANGED <<pc, req, revisions, live>>  PROVE RequestOK(v)'
  BY <1>2 DEF IInv, RequestInv, RequestOK, HoldsLock, IndexesOf
<1>3. CASE EditDraft \/ (\E s \in Sites, new \in SiteStatus : SetStatus(s, new))
        \/ UNCHANGED vars
  BY <1>2, <1>3 DEF EditDraft, SetStatus, vars, publishVars
<1>. QED  BY <1>1, <1>3 DEF Next
-----------------------------------------------------------------------------
(* The theorems.                                                             *)

\* A system nobody has used is in order.
LEMMA InitIInv == Init => IInv
<1>. SUFFICES ASSUME Init  PROVE IInv
  OBVIOUS
<1>1. DraftTypeOK
  <2>2. <<>> \in PartialFn(Cookies, CookieRow)
    <3>1. <<>> \in [{} -> CookieRow] /\ {} \in SUBSET Cookies
      OBVIOUS
    <3>. QED  BY <3>1 DEF PartialFn
  <2>. QED  BY <2>2, RowsAssumption, TextsAssumption DEF Init, DraftInit, DraftTypeOK
<1>2. TypeOK
  BY <1>1, IdleRequestType DEF Init, TypeOK, SiteStatus, Steps
<1>3. LockInv
  BY NobodyAssumption DEF Init, LockInv, HoldsLock, LockedSteps
<1>4. HistoryInv
  BY DEF Init, HistoryInv, IndexesOf
<1>5. RequestInv
  BY DEF Init, RequestInv, ReadSoFar, HoldsLock, LockedSteps
<1>. QED  BY <1>2, <1>3, <1>4, <1>5 DEF IInv

\* Whatever the sessions do, the locks, the history and the requests agree.
THEOREM Inductive == Spec => []IInv
<1>1. IInv /\ [Next]_vars => IInv'
  BY TypeStep, LockStep, HistoryStep, RequestStep DEF IInv
<1>. QED  BY InitIInv, <1>1, PTL DEF Spec

\* Every table and request only ever holds values of its type: no half-read
\* request reaches a revision.
THEOREM TypeCorrect == Spec => []TypeOK
<1>1. IInv => TypeOK
  BY DEF IInv
<1>. QED  BY Inductive, <1>1, PTL

\* History is only added to, and no site goes back to an older revision or
\* to none.
THEOREM HistoryOnlyGrows == Spec => HistoryGrows
<1>1. IInv /\ [Next]_vars =>
        /\ Len(revisions') >= Len(revisions)
        /\ \A i \in DOMAIN revisions : revisions'[i] = revisions[i]
        /\ \A s \in Sites : live'[s] >= live[s]
  <2>. SUFFICES ASSUME IInv, [Next]_vars
                PROVE  /\ Len(revisions') >= Len(revisions)
                       /\ \A i \in DOMAIN revisions : revisions'[i] = revisions[i]
                       /\ \A s \in Sites : live'[s] >= live[s]
    OBVIOUS
  <2>1. Len(revisions) \in Nat /\ \A s \in Sites : live[s] \in 0..Len(revisions)
    BY RevisionType DEF IInv, HistoryInv
  <2>2. CASE UNCHANGED <<revisions, live>>
    BY <2>1, <2>2
  <2>3. CASE ~UNCHANGED <<revisions, live>>
    <3>1. PICK u \in Users :
            /\ Commit(u)
            /\ revisions' = Append(revisions, RevisionOf(u))
            /\ live' = [live EXCEPT ![req[u].site] = Len(revisions) + 1]
      BY <2>3, HistoryChange
    <3>2. \A s \in Sites : live'[s] = live[s] \/ live'[s] = Len(revisions) + 1
      BY <3>1 DEF IInv, TypeOK
    <3>. QED  BY <2>1, <3>1, <3>2, Committed
  <2>. QED  BY <2>2, <2>3
<1>. QED  BY Inductive, <1>1, PTL DEF Spec, HistoryGrows

\* A commit leaves the succession of the revisions before it as it was.
LEMMA FollowedBefore ==
  ASSUME IInv, NEW u \in Users, Commit(u), revisions' = Append(revisions, RevisionOf(u)),
         NEW i \in DOMAIN revisions', NEW j \in DOMAIN revisions',
         j # Len(revisions) + 1, Follows(j, i)'
  PROVE  Follows(j, i) /\ j \in DOMAIN revisions /\ revisions'[j] = revisions[j]
<1>1. /\ Len(revisions) \in Nat /\ DOMAIN revisions = 1..Len(revisions)
      /\ DOMAIN revisions' = DOMAIN revisions \cup {Len(revisions) + 1}
      /\ \A k \in DOMAIN revisions : revisions'[k] = revisions[k]
  BY Committed
<1>2. /\ i < j /\ revisions'[i].site = revisions'[j].site
      /\ \A k \in (i+1)..(j-1) : revisions'[k].site # revisions'[i].site
  BY DEF Follows
<1>3. j \in DOMAIN revisions /\ i \in DOMAIN revisions
  BY <1>1, <1>2
<1>4. \A k \in (i+1)..(j-1) : k \in DOMAIN revisions /\ revisions'[k] = revisions[k]
  BY <1>1, <1>3
<1>. QED  BY <1>1, <1>2, <1>3, <1>4 DEF Follows

\* What a commit follows is the revision that was live, the last of its site.
LEMMA FollowsLive ==
  ASSUME IInv, NEW u \in Users, Commit(u), revisions' = Append(revisions, RevisionOf(u)),
         NEW i \in DOMAIN revisions', NEW n, n = Len(revisions) + 1, Follows(n, i)'
  PROVE  i = live[req[u].site] /\ i \in DOMAIN revisions
<1>. DEFINE r == req[u]
<1>1. /\ Len(revisions) \in Nat /\ DOMAIN revisions = 1..Len(revisions)
      /\ DOMAIN revisions' = DOMAIN revisions \cup {n}
      /\ \A k \in DOMAIN revisions : revisions'[k] = revisions[k]
      /\ revisions'[n] = RevisionOf(u)
  BY Committed
<1>2. r \in Request /\ r.site \in Sites /\ RevisionOf(u).site = r.site
  BY AtCommit DEF Commit, RevisionOf
<1>3. /\ i < n /\ revisions'[i].site = revisions'[n].site
      /\ \A k \in (i+1)..(n-1) : revisions'[k].site # revisions'[i].site
  BY <1>1 DEF Follows
<1>4. i \in DOMAIN revisions /\ revisions[i].site = r.site /\ i \in IndexesOf(r.site)
  BY <1>1, <1>2, <1>3 DEF IndexesOf
<1>5. /\ live[r.site] \in 0..Len(revisions) /\ i <= live[r.site]
      /\ live[r.site] # 0 => revisions[live[r.site]].site = r.site
  BY <1>2, <1>4 DEF IInv, HistoryInv
<1>6. SUFFICES ASSUME i # live[r.site]  PROVE FALSE
  BY <1>4
<1>7. live[r.site] \in (i+1)..(n-1) /\ live[r.site] \in DOMAIN revisions
  BY <1>1, <1>4, <1>5, <1>6
<1>. QED  BY <1>1, <1>3, <1>4, <1>5, <1>7

\* A visitor's answer is asked for again when, and only when, a publisher
\* asked for it, whatever publishes and rollbacks overlapped.
THEOREM ReconsentOnRequest == Spec => []ConsentVersionOnRequest
<1>1. Init => ConsentVersionOnRequest
  BY DEF Init, ConsentVersionOnRequest
<1>2. IInv /\ ConsentVersionOnRequest /\ [Next]_vars => ConsentVersionOnRequest'
  <2>. SUFFICES ASSUME IInv, ConsentVersionOnRequest, [Next]_vars
                PROVE  ConsentVersionOnRequest'
    OBVIOUS
  <2>1. CASE UNCHANGED revisions
    BY <2>1 DEF ConsentVersionOnRequest, Follows
  <2>2. CASE ~UNCHANGED revisions
    <3>. DEFINE n == Len(revisions) + 1
    <3>1. PICK u \in Users : Commit(u) /\ revisions' = Append(revisions, RevisionOf(u))
      BY <2>2, HistoryChange
    <3>2. /\ Len(revisions) \in Nat /\ DOMAIN revisions = 1..Len(revisions)
          /\ DOMAIN revisions' = DOMAIN revisions \cup {n}
          /\ \A i \in DOMAIN revisions : revisions'[i] = revisions[i]
          /\ revisions'[n] = RevisionOf(u)
      BY <3>1, Committed
    <3>. DEFINE r == req[u]
    <3>3. r \in Request /\ r.site \in Sites /\ r.live = live[r.site]
      BY <3>1, AtCommit DEF Commit
    <3>4. /\ RevisionOf(u).site = r.site /\ RevisionOf(u).ask = r.ask
          /\ RevisionOf(u).version = ConsentVersion(r)
      BY DEF RevisionOf
    <3>. SUFFICES ASSUME NEW i \in DOMAIN revisions', NEW j \in DOMAIN revisions', Follows(j, i)'
                  PROVE  revisions'[j].version = revisions'[i].version <=> ~revisions'[j].ask
      BY DEF ConsentVersionOnRequest
    <3>5. i \in DOMAIN revisions /\ revisions'[i] = revisions[i]
      BY <3>2 DEF Follows
    <3>6. CASE j # n
      <4>1. Follows(j, i) /\ j \in DOMAIN revisions /\ revisions'[j] = revisions[j]
        BY <3>1, <3>6, FollowedBefore
      <4>. QED  BY <3>5, <4>1 DEF ConsentVersionOnRequest
    <3>7. CASE j = n
      <4>3. i = live[r.site]
        BY <3>1, <3>7, FollowsLive
      <4>4. /\ revisions[i].version \in Nat /\ revisions[i].version <= i
            /\ i < n /\ i # 0
        BY <3>2, <3>5, RevisionType DEF IInv, HistoryInv
      <4>5. ConsentVersion(r) = IF ~r.ask THEN revisions[i].version ELSE n
        BY <3>3, <4>3, <4>4 DEF ConsentVersion
      <4>6. r.ask \in BOOLEAN
        BY <3>3 DEF Request
      <4>. QED  BY <3>2, <3>4, <3>5, <3>7, <4>4, <4>5, <4>6
    <3>. QED  BY <3>6, <3>7
  <2>. QED  BY <2>1, <2>2
<1>. QED  BY <1>1, <1>2, Inductive, PTL DEF Spec

-----------------------------------------------------------------------------
(* What the history of a site's revisions and the attempt log say of the     *)
(* requests that made them.                                                  *)

\* What a request past its decision knows, and what one to be logged is.
StoryOK(u) ==
  LET r == req[u] IN
  /\ pc[u] \in {"number", "commit"} /\ r.kind = "publish" => r.snapshot = reviewed[u][r.site]
  /\ pc[u] \in {"number", "commit"} /\ r.kind = "rollback" =>
       /\ OwnRevision(r)
       /\ r.snapshot = revisions[r.source].snapshot /\ r.layer = revisions[r.source].layer
  /\ pc[u] = "commit" => r.number = Cardinality(IndexesOf(r.site)) + 1
  /\ pc[u] = "log" => r.code # "succeeded"

\* The numbers of a site are those from 1 to how many revisions it has.
Numbered(s) ==
  {revisions[i].number : i \in IndexesOf(s)} = 1..Cardinality(IndexesOf(s))

StoryInv ==
  /\ \A u \in Users : StoryOK(u)
  /\ \A s \in Sites : Numbered(s)
  /\ RollbackCopiesOwn
  /\ AttemptsMatchHistory

-----------------------------------------------------------------------------
(* A site's revisions, and what a commit adds to them.                       *)

LEMMA IndexesFinite ==
  ASSUME TypeOK, NEW s
  PROVE  IsFiniteSet(IndexesOf(s)) /\ Cardinality(IndexesOf(s)) \in Nat
<1>1. IndexesOf(s) \subseteq 1..Len(revisions) /\ Len(revisions) \in Nat
  BY RevisionType DEF IndexesOf
<1>2. IsFiniteSet(1..Len(revisions))
  BY <1>1, FS_Interval
<1>. QED  BY <1>1, <1>2, FS_Subset, FS_CardinalityType

\* The next number is one above how many there are.
LEMMA NextNumberIs ==
  ASSUME IInv, NEW s \in Sites, Numbered(s)
  PROVE  NextNumber(s) = Cardinality(IndexesOf(s)) + 1
<1>. DEFINE n == Cardinality(IndexesOf(s))
            N == {0} \cup {revisions[i].number : i \in IndexesOf(s)}
<1>1. n \in Nat
  BY IndexesFinite DEF IInv
<1>2. N = 0..n
  BY <1>1 DEF Numbered
<1>. HIDE DEF n
<1>3. Max(0..n) = n
  <2>1. 0..n \in SUBSET Int /\ n \in 0..n /\ \A y \in 0..n : n >= y
    BY <1>1
  <2>. QED  BY <2>1, MaxIs
<1>. QED  BY <1>2, <1>3 DEF NextNumber, n

\* A commit adds one revision, to its own site.
LEMMA CommitAdds ==
  ASSUME IInv, NEW u \in Users, Commit(u), revisions' = Append(revisions, RevisionOf(u)),
         NEW s \in Sites
  PROVE  LET n == Len(revisions) + 1 IN
         /\ s # req[u].site => IndexesOf(s)' = IndexesOf(s)
         /\ s = req[u].site =>
              /\ IndexesOf(s)' = IndexesOf(s) \cup {n} /\ n \notin IndexesOf(s)
              /\ Cardinality(IndexesOf(s)') = Cardinality(IndexesOf(s)) + 1
<1>. DEFINE n == Len(revisions) + 1
<1>1. /\ Len(revisions) \in Nat /\ DOMAIN revisions = 1..Len(revisions)
      /\ DOMAIN revisions' = DOMAIN revisions \cup {n}
      /\ \A i \in DOMAIN revisions : revisions'[i] = revisions[i]
      /\ revisions'[n] = RevisionOf(u)
  BY Committed
<1>2. RevisionOf(u).site = req[u].site
  BY DEF RevisionOf
<1>3. n \notin IndexesOf(s)
  BY <1>1 DEF IndexesOf
<1>4. s # req[u].site => IndexesOf(s)' = IndexesOf(s)
  BY <1>1, <1>2 DEF IndexesOf
<1>5. s = req[u].site => IndexesOf(s)' = IndexesOf(s) \cup {n}
  BY <1>1, <1>2 DEF IndexesOf
<1>6. Cardinality(IndexesOf(s) \cup {n}) = Cardinality(IndexesOf(s)) + 1
  BY <1>3, IndexesFinite, FS_AddElement DEF IInv
<1>. QED  BY <1>3, <1>4, <1>5, <1>6

-----------------------------------------------------------------------------
(* Requests.                                                                 *)

\* A session between two requests has no story, and a refusal tells its reason.
LEMMA EndedStory ==
  ASSUME TypeOK, NEW u \in Users, Finish(u) \/ \E code \in Codes \ {"succeeded"} : Refuse(u, code)
  PROVE  StoryOK(u)'
<1>1. CASE Finish(u)
  BY <1>1 DEF Finish, Goto, TypeOK, StoryOK
<1>2. ASSUME NEW code \in Codes \ {"succeeded"}, Refuse(u, code)  PROVE StoryOK(u)'
  <2>1. pc'[u] = "log" /\ req'[u].code = code
    BY <1>2 DEF Refuse, Goto, TypeOK, Request
  <2>. QED  BY <2>1 DEF StoryOK
<1>. QED  BY <1>1, <1>2

\* The steps before the decision owe nothing.
LEMMA EarlyStory ==
  ASSUME NEW u \in Users,
         pc'[u] \in {"idle", "lock", "settings", "config", "texts", "served", "layer", "check", "restore"}
  PROVE  StoryOK(u)'
BY DEF StoryOK

\* Each step of a session keeps its own request's story.
LEMMA OwnStory ==
  ASSUME IInv, StoryInv, NEW u \in Users, Ask(u) \/ Serve(u) \/ Fail(u)
  PROVE  StoryOK(u)'
<1>. DEFINE r == req[u]
<1>0. /\ TypeOK /\ r \in Request /\ r.site \in Sites /\ StoryOK(u) /\ Numbered(r.site)
      /\ req \in [Users -> Request] /\ pc \in [Users -> Steps]
  BY DEF IInv, StoryInv, TypeOK, Request
<1>1. ASSUME Finish(u) \/ \E code \in Codes \ {"succeeded"} : Refuse(u, code)
      PROVE  StoryOK(u)'
  BY <1>0, <1>1, EndedStory
<1>2. CASE Ask(u)
  <2>1. ASSUME NEW q, NEW step \in {"settings", "lock"}, Begin(u, q, step)  PROVE StoryOK(u)'
    BY <1>0, <2>1, EarlyStory DEF Begin, Goto
  <2>. QED  BY <1>2, <2>1 DEF Ask, Review, Publish, Rollback, Discard
<1>3. CASE Fail(u)
  BY <1>1, <1>3 DEF Fail, Codes
<1>4. CASE Lock(u) \/ ReadSettings(u) \/ ReadConfig(u) \/ ReadTexts(u) \/ ReadServed(u) \/ ReadLayer(u)
  <2>1. \/ Finish(u)
        \/ pc'[u] \in {"settings", "config", "texts", "served", "layer", "check", "restore"}
    BY <1>0, <1>4 DEF Lock, ReadSettings, ReadConfig, ReadTexts, ReadServed, ReadLayer, Goto
  <2>. QED  BY <1>1, <2>1, EarlyStory
<1>5. CASE CheckPublish(u)
  <2>1. CASE \E code \in Codes \ {"succeeded"} : Refuse(u, code)
    BY <1>1, <2>1
  <2>2. CASE ~\E code \in Codes \ {"succeeded"} : Refuse(u, code)
    <3>1. /\ r.kind = "publish" /\ ~StaleDraft(u) /\ pc'[u] = "number"
          /\ req' = req /\ reviewed' = reviewed
      BY <1>0, <1>5, <2>2 DEF CheckPublish, Goto, Codes
    <3>. QED  BY <3>1 DEF StoryOK, StaleDraft
  <2>. QED  BY <2>1, <2>2
<1>6. CASE CheckRollback(u)
  <2>1. CASE \E code \in Codes \ {"succeeded"} : Refuse(u, code)
    BY <1>1, <2>1
  <2>2. CASE ~\E code \in Codes \ {"succeeded"} : Refuse(u, code)
    <3>1. /\ r.kind = "rollback" /\ OwnRevision(r) /\ pc'[u] = "number" /\ revisions' = revisions
          /\ req'[u] = [r EXCEPT !.snapshot = revisions[r.source].snapshot,
                                 !.layer = revisions[r.source].layer]
      BY <1>0, <1>6, <2>2 DEF CheckRollback, Copied, Goto, Codes
    <3>2. /\ req'[u].kind = "rollback" /\ req'[u].site = r.site /\ req'[u].source = r.source
          /\ req'[u].snapshot = revisions[r.source].snapshot
          /\ req'[u].layer = revisions[r.source].layer
      BY <1>0, <3>1 DEF Request
    <3>. QED  BY <3>1, <3>2 DEF StoryOK, OwnRevision
  <2>. QED  BY <2>1, <2>2
<1>7. CASE TakeNumber(u)
  <2>1. CASE Refuse(u, "blocked_by_check")
    BY <1>1, <2>1 DEF Codes
  <2>2. CASE ~Refuse(u, "blocked_by_check")
    <3>1. /\ pc[u] = "number" /\ pc'[u] = "commit"
          /\ req'[u] = [r EXCEPT !.number = NextNumber(r.site)]
          /\ UNCHANGED <<revisions, reviewed>>
      BY <1>0, <1>7, <2>2 DEF TakeNumber, Goto
    <3>2. /\ req'[u].kind = r.kind /\ req'[u].site = r.site /\ req'[u].source = r.source
          /\ req'[u].snapshot = r.snapshot /\ req'[u].layer = r.layer
          /\ req'[u].number = NextNumber(r.site)
      BY <1>0, <3>1 DEF Request
    <3>3. req'[u].number = Cardinality(IndexesOf(r.site)) + 1
      BY <1>0, <3>2, NextNumberIs
    <3>4. IndexesOf(r.site)' = IndexesOf(r.site)
      BY <3>1 DEF IndexesOf
    <3>. QED  BY <1>0, <3>1, <3>2, <3>3, <3>4 DEF StoryOK, OwnRevision, IndexesOf
  <2>. QED  BY <2>1, <2>2
<1>8. CASE Commit(u) \/ Restore(u) \/ LogFailure(u)
  BY <1>1, <1>8 DEF Commit, Restore, LogFailure, Codes
<1>. QED  BY <1>2, <1>3, <1>4, <1>5, <1>6, <1>7, <1>8 DEF Serve

\* No other session's step disturbs it: a commit on the same site needs the lock.
LEMMA OthersStory ==
  ASSUME IInv, StoryInv, [Next]_vars, NEW v \in Users,
         pc'[v] = pc[v], req'[v] = req[v], reviewed'[v] = reviewed[v], ~Commit(v)
  PROVE  StoryOK(v)'
<1>0. TypeOK /\ LockInv /\ StoryOK(v) /\ req[v].site \in Sites /\ req[v] \in Request
  BY DEF IInv, StoryInv, TypeOK, Request
<1>1. CASE UNCHANGED <<revisions, live>>
  BY <1>0, <1>1 DEF StoryOK, IndexesOf, OwnRevision
<1>2. CASE ~UNCHANGED <<revisions, live>>
  <2>1. PICK u \in Users :
          /\ Commit(u)
          /\ revisions' = Append(revisions, RevisionOf(u))
          /\ live' = [live EXCEPT ![req[u].site] = Len(revisions) + 1]
    BY <1>2, HistoryChange
  <2>2. \A i \in DOMAIN revisions : i \in DOMAIN revisions' /\ revisions'[i] = revisions[i]
    BY <2>1, Committed
  <2>3. OwnRevision(req[v]) =>
          /\ OwnRevision(req[v])' /\ revisions'[req[v].source] = revisions[req[v].source]
    BY <2>2 DEF OwnRevision
  <2>4. pc[v] = "commit" => Cardinality(IndexesOf(req[v].site)') = Cardinality(IndexesOf(req[v].site))
    <3>. SUFFICES ASSUME pc[v] = "commit"
                  PROVE  IndexesOf(req[v].site)' = IndexesOf(req[v].site)
      OBVIOUS
    <3>1. u # v /\ HoldsLock(v) /\ HoldsLock(u) /\ req[u].site \in Sites
      BY <1>0, <2>1, AtCommit DEF Commit
    <3>2. req[v].site # req[u].site
      BY <1>0, <3>1, OneWriterPerSite
    <3>. QED  BY <1>0, <2>1, <3>2, CommitAdds
  <2>. QED  BY <1>0, <2>3, <2>4 DEF StoryOK
<1>. QED  BY <1>1, <1>2

-----------------------------------------------------------------------------
(* The history and the log.                                                  *)

\* Only a commit adds a revision, and only it or the log of a failure an attempt.
LEMMA StepKinds ==
  ASSUME [Next]_vars
  PROVE  \/ \E u \in Users :
              /\ Commit(u)
              /\ revisions' = Append(revisions, RevisionOf(u))
              /\ attempts' = attempts \cup {Succeeded(req[u])}
         \/ \E u \in Users :
              /\ LogFailure(u) /\ UNCHANGED <<revisions, live>>
         \/ UNCHANGED <<revisions, live, attempts>>
<1>1. ASSUME NEW u \in Users, Ask(u) \/ Fail(u)  PROVE UNCHANGED <<revisions, live, attempts>>
  BY <1>1 DEF Ask, Review, Publish, Rollback, Discard, Begin, Fail
<1>2. ASSUME NEW u \in Users, Serve(u), ~LogFailure(u), ~Commit(u)
      PROVE  UNCHANGED <<revisions, live, attempts>>
  BY <1>2 DEF Serve, Lock, ReadSettings, ReadConfig, ReadTexts, ReadServed, ReadLayer, CheckPublish,
              CheckRollback, TakeNumber, Restore
<1>3. ASSUME NEW u \in Users, LogFailure(u)  PROVE UNCHANGED <<revisions, live>>
  BY <1>3 DEF LogFailure
<1>4. ASSUME NEW u \in Users, Commit(u)
      PROVE  \/ UNCHANGED <<revisions, live, attempts>>
             \/ /\ revisions' = Append(revisions, RevisionOf(u))
                /\ attempts' = attempts \cup {Succeeded(req[u])}
  BY <1>4 DEF Commit
<1>5. CASE EditDraft \/ (\E s \in Sites, new \in SiteStatus : SetStatus(s, new))
        \/ UNCHANGED vars
  BY <1>5 DEF EditDraft, SetStatus, vars, publishVars
<1>. QED  BY <1>1, <1>2, <1>3, <1>4, <1>5 DEF Next

\* Each site's numbers stay those from 1 on.
LEMMA NumberedStep ==
  ASSUME IInv, StoryInv, [Next]_vars, NEW s \in Sites
  PROVE  Numbered(s)'
<1>0. TypeOK /\ Numbered(s)
  BY DEF IInv, StoryInv
<1>1. CASE UNCHANGED revisions
  BY <1>0, <1>1 DEF Numbered, IndexesOf
<1>2. ASSUME NEW u \in Users, Commit(u), revisions' = Append(revisions, RevisionOf(u))
      PROVE  Numbered(s)'
  <2>. DEFINE n == Len(revisions) + 1
              m == Cardinality(IndexesOf(s))
  <2>1. /\ \A i \in DOMAIN revisions : revisions'[i] = revisions[i]
        /\ revisions'[n] = RevisionOf(u)
    BY <1>2, Committed
  <2>2. \A i \in IndexesOf(s) : revisions'[i].number = revisions[i].number
    BY <2>1 DEF IndexesOf
  <2>3. m \in Nat
    BY <1>0, IndexesFinite
  <2>4. CASE s # req[u].site
    <3>1. IndexesOf(s)' = IndexesOf(s)
      BY <1>2, <2>4, CommitAdds
    <3>2. {revisions'[i].number : i \in IndexesOf(s)} = {revisions[i].number : i \in IndexesOf(s)}
      BY <2>2
    <3>. QED  BY <1>0, <3>1, <3>2 DEF Numbered
  <2>5. CASE s = req[u].site
    <3>1. IndexesOf(s)' = IndexesOf(s) \cup {n} /\ Cardinality(IndexesOf(s)') = m + 1
      BY <1>2, <2>5, CommitAdds
    <3>2. revisions'[n].number = m + 1
      BY <1>2, <2>1, <2>5 DEF RevisionOf, StoryInv, StoryOK, Commit
    <3>3. {revisions'[i].number : i \in IndexesOf(s) \cup {n}}
            = {revisions[i].number : i \in IndexesOf(s)} \cup {m + 1}
      BY <2>2, <3>2
    <3>4. (1..m) \cup {m + 1} = 1..(m + 1)
      BY <2>3
    <3>. QED  BY <1>0, <3>1, <3>3, <3>4 DEF Numbered
  <2>. QED  BY <2>4, <2>5
<1>. QED  BY <1>1, <1>2, StepKinds

\* What a rollback adds is what it found under its number.
LEMMA RollbackStep ==
  ASSUME IInv, StoryInv, [Next]_vars
  PROVE  RollbackCopiesOwn'
<1>0. TypeOK /\ RollbackCopiesOwn
  BY DEF IInv, StoryInv
<1>1. CASE UNCHANGED revisions
  BY <1>0, <1>1 DEF RollbackCopiesOwn
<1>2. ASSUME NEW u \in Users, Commit(u), revisions' = Append(revisions, RevisionOf(u))
      PROVE  RollbackCopiesOwn'
  <2>. DEFINE n == Len(revisions) + 1
              r == req[u]
  <2>1. /\ Len(revisions) \in Nat /\ DOMAIN revisions = 1..Len(revisions)
        /\ DOMAIN revisions' = DOMAIN revisions \cup {n}
        /\ \A i \in DOMAIN revisions : revisions'[i] = revisions[i]
        /\ revisions'[n] = RevisionOf(u)
    BY <1>2, Committed
  <2>2. pc[u] = "commit" /\ StoryOK(u)
    BY <1>2 DEF Commit, StoryInv
  <2>. SUFFICES ASSUME NEW i \in DOMAIN revisions', revisions'[i].from # 0
                PROVE  LET from == revisions'[i].from IN
                       /\ from < i
                       /\ revisions'[from].site = revisions'[i].site
                       /\ revisions'[from].snapshot = revisions'[i].snapshot
                       /\ revisions'[from].layer = revisions'[i].layer
    BY Zenon DEF RollbackCopiesOwn
  <2>3. CASE i = n
    <3>1. /\ RevisionOf(u).from = r.source /\ r.kind = "rollback"
          /\ RevisionOf(u).site = r.site /\ RevisionOf(u).snapshot = r.snapshot
          /\ RevisionOf(u).layer = r.layer
      BY <2>1, <2>3 DEF RevisionOf
    <3>2. /\ r.source \in DOMAIN revisions /\ revisions[r.source].site = r.site
          /\ r.snapshot = revisions[r.source].snapshot /\ r.layer = revisions[r.source].layer
      BY <2>2, <3>1 DEF StoryOK, OwnRevision
    <3>. QED  BY <2>1, <2>3, <3>1, <3>2
  <2>4. CASE i # n
    <3>1. i \in DOMAIN revisions /\ revisions'[i] = revisions[i]
      BY <2>1, <2>4
    <3>2. revisions[i].from \in Nat
      BY <1>0, <3>1, RevisionType DEF Revision
    <3>3. revisions[i].from < i
      BY <1>0, <3>1 DEF RollbackCopiesOwn
    <3>4. revisions[i].from \in DOMAIN revisions
      BY <2>1, <3>1, <3>2, <3>3
    <3>5. revisions'[revisions[i].from] = revisions[revisions[i].from]
      BY <2>1, <3>4
    <3>. QED  BY <1>0, <3>1, <3>3, <3>5 DEF RollbackCopiesOwn
  <2>. QED  BY <2>3, <2>4
<1>. QED  BY <1>1, <1>2, StepKinds

\* The log stays the history's: a commit adds to both, a failure to the log alone.
LEMMA AttemptsStep ==
  ASSUME IInv, StoryInv, [Next]_vars
  PROVE  AttemptsMatchHistory'
<1>0. TypeOK /\ AttemptsMatchHistory /\ \A u \in Users : StoryOK(u)
  BY DEF IInv, StoryInv
<1>. DEFINE Named(i) == {a \in attempts : a.revision = i}
            Told(a) ==
              IF a.code = "succeeded"
              THEN /\ a.revision \in DOMAIN revisions
                   /\ revisions[a.revision].site = a.site
                   /\ (a.action = "rollback") = (revisions[a.revision].from # 0)
              ELSE a.revision = 0
<1>1. /\ Len(revisions) \in Nat /\ DOMAIN revisions = 1..Len(revisions)
      /\ \A i \in DOMAIN revisions : Cardinality(Named(i)) = 1
      /\ \A a \in attempts : Told(a)
  BY <1>0, RevisionType DEF AttemptsMatchHistory
<1>2. CASE UNCHANGED <<revisions, live, attempts>>
  BY <1>0, <1>2 DEF AttemptsMatchHistory
<1>3. ASSUME NEW u \in Users, LogFailure(u), UNCHANGED <<revisions, live>>
      PROVE  AttemptsMatchHistory'
  <2>. DEFINE new == [site |-> req[u].site, action |-> req[u].kind, at |-> clock + 1,
                      code |-> req[u].code, revision |-> 0]
  <2>1. attempts' = attempts \cup {new} /\ new.code # "succeeded" /\ new.revision = 0
    BY <1>0, <1>3 DEF LogFailure, StoryOK
  <2>. HIDE DEF new
  <2>2. \A i \in DOMAIN revisions : {a \in attempts' : a.revision = i} = Named(i)
    BY <1>1, <2>1
  <2>3. \A a \in attempts' : Told(a)
    BY <1>1, <2>1
  <2>. QED  BY <1>1, <1>3, <2>2, <2>3 DEF AttemptsMatchHistory
<1>4. ASSUME NEW u \in Users, Commit(u), revisions' = Append(revisions, RevisionOf(u)),
             attempts' = attempts \cup {Succeeded(req[u])}
      PROVE  AttemptsMatchHistory'
  <2>. DEFINE n == Len(revisions) + 1
              r == req[u]
              new == Succeeded(r)
  <2>1. /\ DOMAIN revisions' = DOMAIN revisions \cup {n}
        /\ \A i \in DOMAIN revisions : revisions'[i] = revisions[i]
        /\ revisions'[n] = RevisionOf(u)
    BY <1>4, Committed
  <2>2. /\ new.site = r.site /\ new.action = r.kind /\ new.code = "succeeded"
        /\ new.revision = n
    BY DEF Succeeded
  <2>3. /\ RevisionOf(u).site = r.site
        /\ (r.kind = "rollback") = (RevisionOf(u).from # 0)
    <3>1. r.kind = "rollback" => r.source \in DOMAIN revisions
      BY <1>0, <1>4 DEF StoryOK, OwnRevision, Commit
    <3>. QED  BY <1>1, <3>1 DEF RevisionOf
  <2>4. \A a \in attempts : a.revision \in DOMAIN revisions \cup {0}
    BY <1>1
  <2>. HIDE DEF new
  <2>5. {a \in attempts' : a.revision = n} = {new}
    BY <1>1, <1>4, <2>2, <2>4 DEF new
  <2>6. Cardinality({new}) = 1
    BY FS_Singleton
  <2>7. \A i \in DOMAIN revisions : {a \in attempts' : a.revision = i} = Named(i)
    BY <1>1, <1>4, <2>2 DEF new
  <2>8. \A i \in DOMAIN revisions' : Cardinality({a \in attempts' : a.revision = i}) = 1
    BY <1>1, <2>1, <2>5, <2>6, <2>7
  <2>9. \A a \in attempts' :
          IF a.code = "succeeded"
          THEN /\ a.revision \in DOMAIN revisions'
               /\ revisions'[a.revision].site = a.site
               /\ (a.action = "rollback") = (revisions'[a.revision].from # 0)
          ELSE a.revision = 0
    BY <1>1, <1>4, <2>1, <2>2, <2>3 DEF new
  <2>. QED  BY <2>8, <2>9 DEF AttemptsMatchHistory
<1>. QED  BY <1>2, <1>3, <1>4, StepKinds

LEMMA StoryStep ==
  ASSUME IInv, StoryInv, [Next]_vars
  PROVE  StoryInv'
<1>0. TypeOK /\ pc \in [Users -> Steps]
  BY DEF IInv, TypeOK
<1>1. ASSUME NEW v \in Users  PROVE StoryOK(v)'
  <2>1. ASSUME NEW u \in Users, Ask(u) \/ Serve(u) \/ Fail(u)  PROVE StoryOK(v)'
    <3>1. CASE u = v
      BY <2>1, <3>1, OwnStory
    <3>2. CASE u # v
      <4>1. pc'[v] = pc[v] /\ req'[v] = req[v] /\ reviewed'[v] = reviewed[v]
        BY <1>0, <2>1, <3>2, OthersUntouched
      <4>2. ~Commit(v)
        <5>1. Commit(v) => pc[v] = "commit" /\ (pc'[v] = "idle" \/ pc'[v] = "log")
          BY <1>0 DEF Commit, Finish, Refuse, Goto
        <5>. QED  BY <4>1, <5>1
      <4>. QED  BY <4>1, <4>2, OthersStory
    <3>. QED  BY <3>1, <3>2
  <2>2. CASE EditDraft \/ (\E s \in Sites, new \in SiteStatus : SetStatus(s, new))
          \/ UNCHANGED vars
    <3>1. UNCHANGED <<pc, req, reviewed, revisions>>
      BY <2>2 DEF EditDraft, SetStatus, vars, publishVars
    <3>. QED  BY <3>1 DEF StoryInv, StoryOK, OwnRevision, IndexesOf
  <2>. QED  BY <2>1, <2>2 DEF Next
<1>. QED  BY <1>1, NumberedStep, RollbackStep, AttemptsStep DEF StoryInv

LEMMA StoryBegins == Init => StoryInv
<1>. SUFFICES ASSUME Init  PROVE StoryInv
  OBVIOUS
<1>1. \A u \in Users : StoryOK(u)
  BY DEF Init, StoryOK
<1>2. \A s \in Sites : Numbered(s)
  <2>1. \A s \in Sites : IndexesOf(s) = {}
    BY DEF Init, IndexesOf
  <2>2. Cardinality({}) = 0
    BY FS_EmptySet
  <2>. QED  BY <2>1, <2>2 DEF Numbered
<1>3. RollbackCopiesOwn /\ AttemptsMatchHistory
  BY DEF Init, RollbackCopiesOwn, AttemptsMatchHistory
<1>. QED  BY <1>1, <1>2, <1>3 DEF StoryInv

LEMMA StoryAlways == Spec => [](IInv /\ StoryInv)
<1>1. IInv /\ StoryInv /\ [Next]_vars => (IInv /\ StoryInv)'
  BY TypeStep, LockStep, HistoryStep, RequestStep, StoryStep DEF IInv
<1>. QED  BY InitIInv, StoryBegins, <1>1, PTL DEF Spec

-----------------------------------------------------------------------------
(* The theorems.                                                             *)

\* A site's history reads v1, v2, ... without a gap or a repeat, in the order the
\* revisions went live, for any number of sites and sessions.
THEOREM NoGaps == Spec => []NumbersGapFree
<1>1. IInv /\ StoryInv => NumbersGapFree
  <2>. SUFFICES ASSUME IInv, StoryInv  PROVE NumbersGapFree
    OBVIOUS
  <2>1. \A s \in Sites : Numbered(s)
    BY DEF StoryInv
  <2>2. \A s \in Sites : \A i, j \in IndexesOf(s) : i < j => revisions[i].number < revisions[j].number
    BY DEF IInv, HistoryInv, IndexesOf
  <2>. QED  BY <2>1, <2>2 DEF NumbersGapFree, Numbered
<1>. QED  BY <1>1, StoryAlways, PTL

\* A rollback copies, whole, an earlier revision of its own site.
THEOREM CopiesOwn == Spec => []RollbackCopiesOwn
<1>1. StoryInv => RollbackCopiesOwn
  BY DEF StoryInv
<1>. QED  BY <1>1, StoryAlways, PTL

\* The attempt log has one success for every revision, and none without one.
THEOREM LogIsHistory == Spec => []AttemptsMatchHistory
<1>1. StoryInv => AttemptsMatchHistory
  BY DEF StoryInv
<1>. QED  BY <1>1, StoryAlways, PTL

\* What a publish puts live is what its session was shown last, however the draft
\* moved in between.
THEOREM SeenBeforeLive == Spec => PublishedAsReviewed
<1>1. IInv /\ StoryInv /\ [Next]_vars =>
        \A i \in DOMAIN revisions' \ DOMAIN revisions :
          LET r == revisions'[i] IN r.from = 0 => r.snapshot = reviewed[r.by][r.site]
  <2>. SUFFICES ASSUME IInv, StoryInv, [Next]_vars,
                       NEW i \in DOMAIN revisions' \ DOMAIN revisions, revisions'[i].from = 0
                PROVE  revisions'[i].snapshot = reviewed[revisions'[i].by][revisions'[i].site]
    OBVIOUS
  <2>1. PICK u \in Users : Commit(u) /\ revisions' = Append(revisions, RevisionOf(u))
    BY StepKinds
  <2>. DEFINE r == req[u]
  <2>2. revisions'[i] = RevisionOf(u) /\ DOMAIN revisions = 1..Len(revisions)
    BY <2>1, Committed
  <2>3. pc[u] = "commit" /\ StoryOK(u) /\ r.kind \in {"publish", "rollback"}
    BY <2>1 DEF Commit, StoryInv, IInv, RequestInv, ReadSoFar
  <2>4. r.kind = "publish"
    <3>1. r.kind = "rollback" => r.source \in DOMAIN revisions /\ RevisionOf(u).from = r.source
      BY <2>3 DEF StoryOK, OwnRevision, RevisionOf
    <3>2. 0 \notin DOMAIN revisions
      BY <2>2, RevisionType DEF IInv
    <3>. QED  BY <2>2, <2>3, <3>1, <3>2
  <2>5. /\ RevisionOf(u).snapshot = r.snapshot /\ RevisionOf(u).by = u
        /\ RevisionOf(u).site = r.site
    BY DEF RevisionOf
  <2>. QED  BY <2>2, <2>3, <2>4, <2>5 DEF StoryOK
<1>. QED  BY <1>1, StoryAlways, PTL DEF Spec, PublishedAsReviewed

\* No publish, by one session or by several at once, puts live what is live already.
THEOREM NothingTwice == Spec => []EachPublishChanges
<1>1. Init => EachPublishChanges
  BY DEF Init, EachPublishChanges
<1>2. IInv /\ StoryInv /\ EachPublishChanges /\ [Next]_vars => EachPublishChanges'
  <2>. SUFFICES ASSUME IInv, StoryInv, EachPublishChanges, [Next]_vars
                PROVE  EachPublishChanges'
    OBVIOUS
  <2>1. CASE UNCHANGED revisions
    BY <2>1 DEF EachPublishChanges, Follows
  <2>2. CASE ~UNCHANGED revisions
    <3>. DEFINE n == Len(revisions) + 1
    <3>1. PICK u \in Users : Commit(u) /\ revisions' = Append(revisions, RevisionOf(u))
      BY <2>2, HistoryChange
    <3>. DEFINE r == req[u]
    <3>2. /\ Len(revisions) \in Nat /\ DOMAIN revisions = 1..Len(revisions)
          /\ \A i \in DOMAIN revisions : revisions'[i] = revisions[i]
          /\ revisions'[n] = RevisionOf(u)
      BY <3>1, Committed
    <3>. SUFFICES ASSUME NEW i \in DOMAIN revisions', NEW j \in DOMAIN revisions',
                         Follows(j, i)', revisions'[j].from = 0
                  PROVE  revisions'[j].snapshot # revisions'[i].snapshot
      BY DEF EachPublishChanges
    <3>3. CASE j # n
      <4>1. Follows(j, i) /\ j \in DOMAIN revisions /\ revisions'[j] = revisions[j]
        BY <3>1, <3>3, FollowedBefore
      <4>2. i \in DOMAIN revisions
        BY <3>1, <3>2, <4>1, Committed DEF Follows
      <4>. QED  BY <3>2, <4>1, <4>2 DEF EachPublishChanges
    <3>4. CASE j = n
      <4>1. i = live[r.site] /\ i \in DOMAIN revisions
        BY <3>1, <3>4, FollowsLive
      <4>2. r.live = i /\ pc[u] = "commit" /\ RevisionOf(u).snapshot = r.snapshot
        BY <3>1, <4>1, AtCommit DEF Commit, RevisionOf
      <4>3. r.kind = "publish"
        <5>1. r.kind \in {"publish", "rollback"} /\ StoryOK(u)
          BY <4>2 DEF StoryInv, IInv, RequestInv, ReadSoFar
        <5>2. r.kind = "rollback" => r.source \in DOMAIN revisions /\ RevisionOf(u).from = r.source
          BY <4>2, <5>1 DEF StoryOK, OwnRevision, RevisionOf
        <5>. QED  BY <3>2, <3>4, <5>1, <5>2
      <4>4. revisions[i].snapshot # r.snapshot
        BY <3>2, <4>1, <4>2, <4>3 DEF IInv, RequestInv
      <4>. QED  BY <3>2, <3>4, <4>1, <4>2, <4>4
    <3>. QED  BY <3>3, <3>4
  <2>. QED  BY <2>1, <2>2
<1>. QED  BY <1>1, <1>2, StoryAlways, PTL DEF Spec

-----------------------------------------------------------------------------
(* ConfigPublishing implements ServedConfig.                                 *)

\* A session that ends its transaction has nothing left to take effect.
LEMMA EndedAsked ==
  ASSUME TypeOK, NEW u \in Users, Finish(u) \/ \E code \in Codes : Refuse(u, code)
  PROVE  Asked'[u] = Nobody
<1>1. pc'[u] \in {"idle", "log"}
  BY DEF Finish, Refuse, Goto, TypeOK
<1>. QED  BY <1>1 DEF Asked, Pending

\* A step within a transaction asks for what was asked for before.
LEMMA SameAsked ==
  ASSUME NEW u \in Users, pc[u] \notin {"idle", "log"}, pc'[u] \notin {"idle", "log"},
         req'[u].kind = req[u].kind, req'[u].site = req[u].site, req'[u].ask = req[u].ask
  PROVE  Asked'[u] = Asked[u]
BY DEF Asked, Pending

\* What a session is answered with, short of a commit, neither changes what
\* is asked for nor ends in anything but giving it up.
LEMMA ServedAsked ==
  ASSUME TypeOK, NEW u \in Users, Serve(u) \/ Fail(u)
  PROVE  Asked'[u] = Nobody \/ Asked'[u] = Asked[u]
<1>. DEFINE same == /\ req'[u].kind = req[u].kind /\ req'[u].site = req[u].site
                    /\ req'[u].ask = req[u].ask
            within == pc[u] \notin {"idle", "log"} /\ pc'[u] \notin {"idle", "log"}
            ended == Finish(u) \/ \E code \in Codes : Refuse(u, code)
<1>0. /\ req \in [Users -> Request] /\ req[u] \in Request /\ pc \in [Users -> Steps]
  BY DEF TypeOK
<1>1. CASE ended
  BY <1>1, EndedAsked
<1>2. CASE within /\ same
  BY <1>2, SameAsked
<1>3. CASE Lock(u)
  <2>1. CASE Finish(u)
    BY <1>1, <2>1
  <2>2. CASE ~Finish(u)
    <3>1. pc[u] = "lock" /\ pc'[u] \in {"settings", "check", "restore"}
      BY <1>0, <1>3, <2>2 DEF Lock, Goto
    <3>2. same
      BY <1>0, <1>3, <2>2 DEF Lock, Request
    <3>. QED  BY <1>2, <3>1, <3>2
  <2>. QED  BY <2>1, <2>2
<1>4. CASE ReadSettings(u)
  <2>1. CASE Finish(u)
    BY <1>1, <2>1
  <2>2. CASE ~Finish(u)
    BY <1>0, <1>2, <1>4, <2>2 DEF ReadSettings, Goto, Request
  <2>. QED  BY <2>1, <2>2
<1>5. CASE ReadConfig(u)
  BY <1>0, <1>2, <1>5 DEF ReadConfig, Goto, Request
<1>6. CASE ReadTexts(u)
  BY <1>0, <1>2, <1>6 DEF ReadTexts, Goto, Request
<1>7. CASE ReadServed(u)
  BY <1>0, <1>2, <1>7 DEF ReadServed, Goto, Request
<1>8. CASE ReadLayer(u)
  <2>1. CASE Finish(u)
    BY <1>1, <2>1
  <2>2. CASE ~Finish(u)
    BY <1>0, <1>2, <1>8, <2>2 DEF ReadLayer, Goto, Request
  <2>. QED  BY <2>1, <2>2
<1>9. CASE CheckPublish(u)
  <2>1. ended \/ (pc[u] = "check" /\ pc'[u] = "number" /\ req' = req)
    BY <1>0, <1>9 DEF CheckPublish, Goto, Codes
  <2>. QED  BY <1>1, <1>2, <2>1
<1>10. CASE CheckRollback(u)
  <2>1. ended \/ (pc[u] = "check" /\ pc'[u] = "number" /\ req' = [req EXCEPT ![u] = Copied(req[u])])
    BY <1>0, <1>10 DEF CheckRollback, Goto, Codes
  <2>2. req' = [req EXCEPT ![u] = Copied(req[u])] => same
    BY <1>0 DEF Copied, Request
  <2>. QED  BY <1>1, <1>2, <2>1, <2>2
<1>11. CASE TakeNumber(u)
  <2>1. ended \/ (pc[u] = "number" /\ pc'[u] = "commit" /\ same)
    BY <1>0, <1>11 DEF TakeNumber, Goto, Codes, Request
  <2>. QED  BY <1>1, <1>2, <2>1
<1>12. CASE Commit(u) \/ Restore(u) \/ LogFailure(u) \/ Fail(u)
  BY <1>1, <1>12 DEF Commit, Restore, LogFailure, Fail, Codes
<1>. QED  BY <1>3, <1>4, <1>5, <1>6, <1>7, <1>8, <1>9, <1>10, <1>11, <1>12 DEF Serve

\* Only the last read of a review shows a session anything.
LEMMA ShownBy ==
  ASSUME NEW u \in Users, Ask(u) \/ Serve(u) \/ Fail(u), ~(ReadLayer(u) /\ req[u].kind = "review")
  PROVE  reviewed' = reviewed
<1>1. CASE Ask(u)
  BY <1>1 DEF Ask, Review, Publish, Rollback, Discard, Begin
<1>2. CASE Serve(u) /\ ~ReadLayer(u)
  BY <1>2 DEF Serve, Lock, ReadSettings, ReadConfig, ReadTexts, ReadServed, CheckPublish,
              CheckRollback, TakeNumber, Commit, Restore, LogFailure
<1>3. CASE ReadLayer(u)
  BY <1>3 DEF ReadLayer
<1>4. CASE Fail(u)
  BY <1>4 DEF Fail
<1>. QED  BY <1>1, <1>2, <1>3, <1>4

\* While no revision is added, visitors are served what they were.
LEMMA NothingServed ==
  ASSUME UNCHANGED <<revisions, live>>
  PROVE  UNCHANGED <<Served, PastContents, UsedVersions>>
BY DEF Served, PastContents, UsedVersions, IndexesOf

\* A request that arrives: a publish or rollback is one asked for from then on.
LEMMA AskShows ==
  ASSUME IInv, NEW u \in Users, Ask(u), UNCHANGED <<Served, PastContents, UsedVersions>>
  PROVE  [Abstract!Next]_(Abstract!vars)
<1>0. /\ TypeOK /\ req \in [Users -> Request] /\ pc \in [Users -> Steps]
      /\ reviewed \in [Users -> [Sites -> Snapshots \cup {Unread}]]
  BY DEF IInv, TypeOK
<1>1. /\ pc[u] = "idle" /\ Asked[u] = Nobody
  BY DEF Ask, Review, Publish, Rollback, Discard, Begin, Asked, Pending
<1>2. \A v \in Users \ {u} : Asked'[v] = Asked[v]
  BY <1>0, OthersUntouched DEF Asked, Pending
<1>3. reviewed' = reviewed /\ Shown' = Shown
  BY DEF Ask, Review, Publish, Rollback, Discard, Begin, Shown
<1>4. PICK q, step :
        /\ step \in {"settings", "lock"}
        /\ Begin(u, q, step) /\ q.kind \in Kinds /\ q.site \in Sites /\ q.ask \in BOOLEAN
        /\ q.kind = "publish" => reviewed[u][q.site] # Unread
  <2>. DEFINE arrives(q, step) ==
                /\ step \in {"settings", "lock"}
                /\ Begin(u, q, step) /\ q.kind \in Kinds /\ q.site \in Sites /\ q.ask \in BOOLEAN
                /\ q.kind = "publish" => reviewed[u][q.site] # Unread
  <2>1. ASSUME NEW s \in Sites, Review(u, s)
        PROVE  arrives(NewRequest("review", s, clock + 1), "settings")
    BY <2>1 DEF Review, NewRequest, Kinds
  <2>2. ASSUME NEW s \in Sites, Discard(u, s)
        PROVE  arrives(NewRequest("discard", s, clock + 1), "lock")
    BY <2>2 DEF Discard, NewRequest, Kinds
  <2>3. ASSUME NEW s \in Sites, NEW ask \in BOOLEAN, Publish(u, s, ask)
        PROVE  arrives([NewRequest("publish", s, clock + 1) EXCEPT !.ask = ask], "lock")
    BY <2>3 DEF Publish, NewRequest, Kinds
  <2>4. ASSUME NEW s \in Sites, NEW i, NEW ask \in BOOLEAN, Rollback(u, s, i, ask)
        PROVE  arrives([NewRequest("rollback", s, clock + 1) EXCEPT !.ask = ask, !.source = i], "lock")
    BY <2>4 DEF Rollback, NewRequest, Kinds
  <2>. HIDE DEF arrives
  <2>5. \E q, step : arrives(q, step)
    BY <2>1, <2>2, <2>3, <2>4 DEF Ask
  <2>. QED  BY <2>5 DEF arrives
<1>5. req'[u] = q /\ pc'[u] = step
  BY <1>0, <1>4 DEF Begin, Goto
<1>6. CASE q.kind \in {"publish", "rollback"}
  <2>. DEFINE r == [site |-> q.site, kind |-> q.kind, ask |-> q.ask]
  <2>1. Asked'[u] = r
    BY <1>4, <1>5, <1>6 DEF Asked, Pending
  <2>2. r \in Abstract!Requests
    BY <1>4, <1>6 DEF Abstract!Requests
  <2>3. r.kind = "publish" => Shown[u][r.site] # Nobody
    BY <1>0, <1>4, NothingAssumption DEF Shown
  <2>. HIDE DEF r
  <2>4. Asked' = [Asked EXCEPT ![u] = Asked'[u]]
    BY <1>2 DEF Asked
  <2>5. Abstract!Ask(u)
    BY <1>1, <1>3, <2>1, <2>2, <2>3, <2>4 DEF Abstract!Ask
  <2>. QED  BY <2>5 DEF Abstract!Next
<1>7. CASE q.kind \notin {"publish", "rollback"}
  <2>1. Asked'[u] = Nobody
    BY <1>5, <1>7 DEF Asked, Pending
  <2>2. Asked' = Asked
    BY <1>1, <1>2, <2>1 DEF Asked
  <2>. QED  BY <1>3, <2>2 DEF Abstract!vars
<1>. QED  BY <1>6, <1>7

\* A review answered: its session is shown a content of the site.
LEMMA ReviewShows ==
  ASSUME IInv, NEW u \in Users, ReadLayer(u), req[u].kind = "review",
         UNCHANGED <<Served, PastContents, UsedVersions>>
  PROVE  Abstract!Next
<1>. DEFINE s == req[u].site
<1>0. /\ TypeOK /\ req[u] \in Request /\ s \in Sites /\ req[u].snapshot \in Snapshots
      /\ reviewed \in [Users -> [Sites -> Snapshots \cup {Unread}]]
  BY DEF IInv, TypeOK, Request, RequestInv, ReadSoFar, ReadLayer
<1>1. reviewed' = [reviewed EXCEPT ![u][s] = req[u].snapshot] /\ Finish(u)
  BY DEF ReadLayer
<1>2. reviewed'[u][s] = req[u].snapshot
  BY <1>0, <1>1
<1>3. Shown'[u][s] = req[u].snapshot
  BY <1>0, <1>2, NothingAssumption DEF Shown
<1>4. Shown' = [Shown EXCEPT ![u][s] = Shown'[u][s]]
  <2>1. \A v \in Users \ {u} : Shown'[v] = Shown[v]
    BY <1>0, <1>1 DEF Shown
  <2>2. \A t \in Sites \ {s} : Shown'[u][t] = Shown[u][t]
    BY <1>0, <1>1 DEF Shown
  <2>3. Shown'[u] = [Shown[u] EXCEPT ![s] = Shown'[u][s]]
    BY <1>0, <2>2 DEF Shown
  <2>4. /\ Shown = [v \in Users |-> Shown[v]]
        /\ Shown' = [v \in Users |-> Shown'[v]]
    BY DEF Shown
  <2>. QED  BY <2>1, <2>3, <2>4
<1>5. Asked' = Asked
  <2>1. Asked[u] = Nobody
    BY DEF Asked, Pending
  <2>2. Asked'[u] = Nobody
    BY <1>0, <1>1, EndedAsked
  <2>3. \A v \in Users \ {u} : Asked'[v] = Asked[v]
    BY <1>0, OthersUntouched DEF Serve, Asked, Pending
  <2>. QED  BY <2>1, <2>2, <2>3 DEF Asked
<1>6. Abstract!Show(u, s)
  BY <1>0, <1>3, <1>4, <1>5 DEF Abstract!Show
<1>. QED  BY <1>0, <1>6 DEF Abstract!Next

\* Any other step that adds no revision at most gives up what was asked.
LEMMA OtherStepsShow ==
  ASSUME IInv, NEW u \in Users, Serve(u) \/ Fail(u), ~(ReadLayer(u) /\ req[u].kind = "review"),
         UNCHANGED <<Served, PastContents, UsedVersions>>
  PROVE  [Abstract!Next]_(Abstract!vars)
<1>0. TypeOK
  BY DEF IInv
<1>1. Shown' = Shown
  BY ShownBy DEF Shown
<1>2. \A v \in Users \ {u} : Asked'[v] = Asked[v]
  BY <1>0, OthersUntouched DEF Asked, Pending
<1>3. CASE Asked'[u] = Asked[u]
  <2>1. Asked' = Asked
    BY <1>2, <1>3 DEF Asked
  <2>. QED  BY <1>1, <2>1 DEF Abstract!vars
<1>4. CASE Asked'[u] # Asked[u]
  <2>1. Asked'[u] = Nobody /\ Asked[u] # Nobody
    BY <1>0, <1>4, ServedAsked
  <2>2. Asked' = [Asked EXCEPT ![u] = Nobody]
    BY <1>2, <2>1 DEF Asked
  <2>3. Abstract!Drop(u)
    BY <1>1, <2>1, <2>2 DEF Abstract!Drop
  <2>. QED  BY <2>3 DEF Abstract!Next
<1>. QED  BY <1>3, <1>4

\* A commit serves the site what its session asked for: what it was shown, or
\* what its site once served, under the version it is to have.
LEMMA CommitServes ==
  ASSUME IInv, StoryInv, NEW u \in Users, Commit(u),
         revisions' = Append(revisions, RevisionOf(u)),
         live' = [live EXCEPT ![req[u].site] = Len(revisions) + 1]
  PROVE  Abstract!ServeNext(u)
<1>. DEFINE n == Len(revisions) + 1
            r == req[u]
            new == [content |-> r.snapshot, version |-> ConsentVersion(r)]
<1>0. TypeOK /\ HistoryInv /\ StoryOK(u)
  BY DEF IInv, StoryInv
<1>1. /\ Len(revisions) \in Nat /\ DOMAIN revisions = 1..Len(revisions)
      /\ DOMAIN revisions' = DOMAIN revisions \cup {n}
      /\ \A i \in DOMAIN revisions : revisions'[i] = revisions[i]
      /\ revisions'[n] = RevisionOf(u)
  BY Committed
<1>2. /\ r \in Request /\ r.site \in Sites /\ r.live = live[r.site] /\ pc[u] = "commit"
      /\ r.snapshot \in Snapshots /\ r.kind \in {"publish", "rollback"}
  BY AtCommit DEF Commit, IInv, RequestInv, ReadSoFar
<1>3. /\ RevisionOf(u).site = r.site /\ RevisionOf(u).snapshot = r.snapshot
      /\ RevisionOf(u).version = ConsentVersion(r)
  BY DEF RevisionOf
<1>4. \A s \in Sites : live[s] \in 0..Len(revisions)
  BY <1>0 DEF HistoryInv
<1>5. live'[r.site] = n /\ \A s \in Sites : s # r.site => live'[s] = live[s]
  BY <1>0, <1>2 DEF TypeOK
<1>6. (Served')[r.site] = new
  BY <1>1, <1>2, <1>3, <1>5 DEF Served
<1>7. Served' = [Served EXCEPT ![r.site] = new]
  <2>1. ASSUME NEW s \in Sites, s # r.site  PROVE Served'[s] = Served[s]
    BY <1>1, <1>4, <1>5, <2>1 DEF Served
  <2>2. /\ Served = [s \in Sites |-> Served[s]]
        /\ Served' = [s \in Sites |-> Served'[s]]
    BY DEF Served
  <2>. HIDE DEF new
  <2>. QED  BY <1>2, <1>6, <2>1, <2>2
<1>8. new # Nobody /\ new.content = r.snapshot /\ new.version = ConsentVersion(r)
  <2>1. ConsentVersion(r) \in Nat
    BY <1>0, <1>1, <1>2, <1>4, RevisionType DEF ConsentVersion
  <2>. QED  BY <1>2, <2>1, NothingAssumption
<1>. HIDE DEF new
<1>9. PastContents' = [PastContents EXCEPT ![r.site] = @ \cup {new.content}]
  <2>1. ASSUME NEW s \in Sites, s # r.site  PROVE PastContents'[s] = PastContents[s]
    <3>1. IndexesOf(s)' = IndexesOf(s)
      BY <1>1, <1>3, <2>1 DEF IndexesOf
    <3>. QED  BY <1>1, <3>1 DEF PastContents, IndexesOf
  <2>2. ASSUME NEW s \in Sites, s = r.site
        PROVE  PastContents'[s] = PastContents[s] \cup {new.content}
    <3>1. IndexesOf(s)' = IndexesOf(s) \cup {n}
      BY <1>1, <1>3, <2>2 DEF IndexesOf
    <3>2. \A i \in IndexesOf(s) : revisions'[i] = revisions[i]
      BY <1>1 DEF IndexesOf
    <3>3. revisions'[n].snapshot = new.content
      BY <1>1, <1>3, <1>8
    <3>4. PastContents'[s] = {revisions'[i].snapshot : i \in IndexesOf(s)'}
      BY DEF PastContents
    <3>5. PastContents[s] = {revisions[i].snapshot : i \in IndexesOf(s)}
      BY DEF PastContents
    <3>. HIDE DEF n
    <3>. QED  BY <3>1, <3>2, <3>3, <3>4, <3>5
  <2>3. /\ PastContents = [s \in Sites |-> PastContents[s]]
        /\ PastContents' = [s \in Sites |-> PastContents'[s]]
    BY DEF PastContents
  <2>. QED  BY <1>2, <2>1, <2>2, <2>3
<1>10. UsedVersions' = UsedVersions \cup {new.version}
  BY <1>1, <1>3, <1>8 DEF UsedVersions
<1>11. /\ Asked[u] = [site |-> r.site, kind |-> r.kind, ask |-> r.ask]
       /\ Asked[u] # Nobody
  BY <1>2, NothingAssumption DEF Asked, Pending, Request
<1>12. Asked' = [Asked EXCEPT ![u] = Nobody]
  <2>1. \A v \in Users \ {u} : Asked'[v] = Asked[v]
    BY <1>0, OthersUntouched DEF Serve, Asked, Pending
  <2>2. Asked'[u] = Nobody
    BY <1>0, EndedAsked DEF Commit, Codes
  <2>. QED  BY <2>1, <2>2 DEF Asked
<1>13. Shown' = Shown
  BY DEF Commit, Shown
<1>14. new.content \in IF r.kind = "publish" THEN {Shown[u][r.site]} ELSE PastContents[r.site]
  <2>1. CASE r.kind = "publish"
    <3>1. reviewed[u][r.site] = r.snapshot /\ r.snapshot # Unread
      BY <1>0, <1>2, <2>1, NothingAssumption DEF StoryOK
    <3>. QED  BY <1>2, <1>8, <2>1, <3>1 DEF Shown
  <2>2. CASE r.kind = "rollback"
    <3>1. OwnRevision(r) /\ r.snapshot = revisions[r.source].snapshot
      BY <1>0, <1>2, <2>2 DEF StoryOK
    <3>2. r.source \in IndexesOf(r.site)
      BY <3>1 DEF OwnRevision, IndexesOf
    <3>. QED  BY <1>2, <1>8, <2>2, <3>1, <3>2 DEF PastContents
  <2>. QED  BY <1>2, <2>1, <2>2
<1>15. Served[r.site] # Nobody <=> r.live # 0
  <2>1. CASE r.live = 0
    BY <1>2, <2>1 DEF Served
  <2>2. CASE r.live # 0
    <3>1. r.live \in DOMAIN revisions
      BY <1>1, <1>2, <1>4, <2>2
    <3>2. revisions[r.live].snapshot \in Snapshots /\ revisions[r.live].version \in Nat
      BY <1>0, <3>1, RevisionType DEF Revision
    <3>. QED  BY <1>2, <2>2, <3>2, NothingAssumption DEF Served
  <2>. QED  BY <2>1, <2>2
<1>16. IF Served[r.site] # Nobody /\ ~r.ask
       THEN new.version = Served[r.site].version ELSE new.version \notin UsedVersions
  <2>1. CASE r.live # 0 /\ ~r.ask
    BY <1>2, <1>8, <1>15, <2>1 DEF Served, ConsentVersion
  <2>2. CASE ~(r.live # 0 /\ ~r.ask)
    <3>1. new.version = n
      BY <1>8, <2>2 DEF ConsentVersion
    <3>2. \A i \in DOMAIN revisions : revisions[i].version # n
      BY <1>0, <1>1, RevisionType DEF HistoryInv
    <3>. QED  BY <1>15, <2>2, <3>1, <3>2 DEF UsedVersions
  <2>. QED  BY <2>1, <2>2
<1>17. Asked[u].site = r.site /\ Asked[u].kind = r.kind /\ Asked[u].ask = r.ask
  BY <1>11
<1>. HIDE DEF r, n
<1>. QED  BY <1>6, <1>7, <1>8, <1>9, <1>10, <1>11, <1>12, <1>13, <1>14, <1>16, <1>17
          DEF Abstract!ServeNext

\* Publishing keeps what ServedConfig promises a visitor: a site serves what the
\* publisher was shown or what it served before, whole, under its version or a
\* fresh one, and every other step of every session leaves it alone.
THEOREM PublishingServes == Spec => ImplementsServedConfig
<1>1. Init => Abstract!Init
  BY DEF Init, Abstract!Init, Served, PastContents, UsedVersions, Shown, Asked, Pending, IndexesOf
<1>2. IInv /\ StoryInv /\ [Next]_vars => [Abstract!Next]_(Abstract!vars)
  <2>. SUFFICES ASSUME IInv, StoryInv, [Next]_vars  PROVE [Abstract!Next]_(Abstract!vars)
    OBVIOUS
  <2>1. CASE ~UNCHANGED <<revisions, live>>
    <3>1. PICK u \in Users :
            /\ Commit(u)
            /\ revisions' = Append(revisions, RevisionOf(u))
            /\ live' = [live EXCEPT ![req[u].site] = Len(revisions) + 1]
      BY <2>1, HistoryChange
    <3>2. Abstract!ServeNext(u)
      BY <3>1, CommitServes
    <3>. QED  BY <3>2 DEF Abstract!Next
  <2>2. CASE UNCHANGED <<revisions, live>>
    <3>1. UNCHANGED <<Served, PastContents, UsedVersions>>
      BY <2>2, NothingServed
    <3>2. ASSUME NEW u \in Users, Ask(u)  PROVE [Abstract!Next]_(Abstract!vars)
      BY <3>1, <3>2, AskShows
    <3>3. ASSUME NEW u \in Users, Serve(u) \/ Fail(u)  PROVE [Abstract!Next]_(Abstract!vars)
      BY <3>1, <3>3, ReviewShows, OtherStepsShow
    <3>4. CASE EditDraft \/ (\E s \in Sites, new \in SiteStatus : SetStatus(s, new))
            \/ UNCHANGED vars
      <4>1. UNCHANGED <<pc, req, reviewed>>
        BY <3>4 DEF EditDraft, SetStatus, vars, publishVars
      <4>2. UNCHANGED <<Shown, Asked>>
        BY <4>1 DEF Shown, Asked, Pending
      <4>. QED  BY <3>1, <4>2 DEF Abstract!vars
    <3>. QED  BY <3>2, <3>3, <3>4 DEF Next
  <2>. QED  BY <2>1, <2>2
<1>. QED  BY <1>1, <1>2, StoryAlways, PTL DEF Spec, ImplementsServedConfig, Abstract!Spec
=============================================================================
