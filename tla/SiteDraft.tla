----------------------------- MODULE SiteDraft -----------------------------
(***************************************************************************)
(* The draft of each site: the live config tables an editor saves into,    *)
(* the organisation and site group defaults below them, and what a         *)
(* published snapshot takes from them.                                     *)
(*                                                                         *)
(* Every save is one committed statement (READ COMMITTED Postgres).  It    *)
(* does not take the site's row lock, with one exception: inserting a row  *)
(* that references the site makes Postgres take FOR KEY SHARE on the       *)
(* sites row, which waits for a publisher's FOR UPDATE.                    *)
(***************************************************************************)
EXTENDS Naturals, FiniteSets

CONSTANTS
  Sites,       \* sites of one organisation
  Users,       \* sessions of admins that review, publish, roll back, discard
  Fields,      \* cascade fields of a site config
  Values,      \* values of a field
  Texts,       \* a site's translations, as one value
  NoTexts,     \* those of a site that has none
  NewRow,      \* the config row create_site gives a site
  Cookies,     \* cookie rows a site may have
  Categories,  \* cookie categories, "uncategorised" among them
  Details,     \* a cookie's description and vendor, as one value
  Entries,     \* allow-list entries
  Inherit,     \* a field the site does not override (NULL)
  Nobody,      \* no transaction holds the row lock
  MaxEdits     \* bound on saves to the sites' own tables

ReviewStatus == {"pending", "approved", "rejected"}
SiteStatus == {"active", "inactive", "deleted"}

Config == [Fields -> Values]
Rows == [Fields -> Values \cup {Inherit}]
CookieRow == [category: Categories, review: ReviewStatus, detail: Details]
PartialFn(S, T) == UNION {[D -> T] : D \in SUBSET S}

Snapshots == [config: Config, texts: Texts, count: Nat,
              cookies: PartialFn(Cookies, [category: Categories, detail: Details])]
Layers == [settings: Rows, texts: Texts, allow: SUBSET Entries,
           cookies: PartialFn(Cookies, [category: Categories, review: ReviewStatus])]

ASSUME SitesAssumption == Sites # {}
ASSUME TextsAssumption == NoTexts \in Texts
ASSUME RowsAssumption == NewRow \in Rows
ASSUME EntriesAssumption == IsFiniteSet(Entries)
ASSUME NobodyAssumption == Nobody \notin Users

VARIABLES
  settings,  \* settings[s]: the site's own config row
  texts,     \* texts[s]: its translations
  cookies,   \* cookies[s]: its cookie rows, a function on those that exist
  allow,     \* allow[s]: its allow-list
  defaults,  \* what the organisation and site group give every site
  status,    \* status[s]: active, inactive or soft-deleted
  lock,      \* lock[s]: the transaction holding the sites row FOR UPDATE
  edits      \* saves so far, bounded by MaxEdits

draftVars == <<settings, texts, cookies, allow, defaults, edits>>

DraftTypeOK ==
  /\ settings \in [Sites -> Rows]
  /\ texts \in [Sites -> Texts]
  /\ cookies \in [Sites -> PartialFn(Cookies, CookieRow)]
  /\ allow \in [Sites -> SUBSET Entries]
  /\ defaults \in Config
  /\ edits \in Nat

\* New sites: each with its row, which nothing deletes; nothing translated,
\* discovered or allowed.
DraftInit ==
  /\ settings = [s \in Sites |-> NewRow]
  /\ texts = [s \in Sites |-> NoTexts]
  /\ cookies = [s \in Sites |-> <<>>]
  /\ allow = [s \in Sites |-> {}]
  /\ defaults \in Config
  /\ edits = 0

-----------------------------------------------------------------------------
(* What build_site_snapshot takes from the draft.                          *)

\* Mutation of Resolved: a cleared override is served as it is stored.
ResolvedRaw(row, inherited) == row

\* resolve_config: the site's own value of a field, else the inherited one.
Resolved(row, inherited) ==
  [f \in Fields |-> IF row[f] # Inherit THEN row[f] ELSE inherited[f]]

\* The cookies a site declares to visitors: everything not rejected.
Declared(rows) ==
  [c \in {d \in DOMAIN rows : rows[d].review # "rejected"} |->
     [category |-> rows[c].category, detail |-> rows[c].detail]]

\* What the site layer records of the same rows.
Classified(rows) ==
  [c \in DOMAIN rows |-> [category |-> rows[c].category, review |-> rows[c].review]]

\* The snapshot a build gives when nothing changes under it.
DraftSnapshot(s) ==
  [config |-> Resolved(settings[s], defaults), texts |-> texts[s],
   count |-> Cardinality(allow[s]), cookies |-> Declared(cookies[s])]

-----------------------------------------------------------------------------
(* Discard writes the recorded layer back: the config fields, the texts,   *)
(* the cookies that still exist, the whole allow-list.                     *)

RestoredCookies(s, layer) ==
  [c \in DOMAIN cookies[s] |->
     IF c \in DOMAIN layer.cookies
     THEN [cookies[s][c] EXCEPT !.category = layer.cookies[c].category,
                                !.review = layer.cookies[c].review]
     ELSE cookies[s][c]]

RestoreDraft(s, layer) ==
  /\ settings' = [settings EXCEPT ![s] = layer.settings]
  /\ texts' = [texts EXCEPT ![s] = layer.texts]
  /\ cookies' = [cookies EXCEPT ![s] = RestoredCookies(s, layer)]
  /\ allow' = [allow EXCEPT ![s] = layer.allow]
  /\ UNCHANGED <<defaults, edits>>

-----------------------------------------------------------------------------
(* Saves.  Each needs a site that is not soft-deleted.                     *)

Unlocked(s) == lock[s] = Nobody

CanEdit(s) == status[s] # "deleted" /\ edits < MaxEdits /\ edits' = edits + 1

SaveConfig(s, row) ==
  /\ CanEdit(s)
  /\ settings[s] # row
  /\ settings' = [settings EXCEPT ![s] = row]
  /\ UNCHANGED <<texts, cookies, allow, defaults>>

SaveTexts(s, t) ==
  /\ CanEdit(s)
  /\ texts[s] # t
  /\ texts' = [texts EXCEPT ![s] = t]
  /\ UNCHANGED <<settings, cookies, allow, defaults>>

SaveDefaults(config) ==
  /\ defaults' = config
  /\ UNCHANGED <<settings, texts, cookies, allow, edits>>

\* The scanner's sync or a manual entry: always pending.
CreateCookie(s, c, category, detail) ==
  /\ CanEdit(s) /\ Unlocked(s)
  /\ c \notin DOMAIN cookies[s]
  /\ cookies' = [cookies EXCEPT ![s] =
       [d \in DOMAIN @ \cup {c} |->
          IF d = c THEN [category |-> category, review |-> "pending", detail |-> detail]
          ELSE @[d]]]
  /\ UNCHANGED <<settings, texts, allow, defaults>>

UpdateCookie(s, c, row) ==
  /\ CanEdit(s)
  /\ c \in DOMAIN cookies[s] /\ cookies[s][c] # row
  /\ cookies' = [cookies EXCEPT ![s] = [@ EXCEPT ![c] = row]]
  /\ UNCHANGED <<settings, texts, allow, defaults>>

DeleteCookie(s, c) ==
  /\ CanEdit(s)
  /\ c \in DOMAIN cookies[s]
  /\ cookies' = [cookies EXCEPT ![s] = [d \in DOMAIN @ \ {c} |-> @[d]]]
  /\ UNCHANGED <<settings, texts, allow, defaults>>

CreateEntry(s, e) ==
  /\ CanEdit(s) /\ Unlocked(s)
  /\ e \notin allow[s]
  /\ allow' = [allow EXCEPT ![s] = @ \cup {e}]
  /\ UNCHANGED <<settings, texts, cookies, defaults>>

UpdateEntry(s, e, f) ==
  /\ CanEdit(s)
  /\ e \in allow[s] /\ f \notin allow[s]
  /\ allow' = [allow EXCEPT ![s] = (@ \ {e}) \cup {f}]
  /\ UNCHANGED <<settings, texts, cookies, defaults>>

DeleteEntry(s, e) ==
  /\ CanEdit(s)
  /\ e \in allow[s]
  /\ allow' = [allow EXCEPT ![s] = @ \ {e}]
  /\ UNCHANGED <<settings, texts, cookies, defaults>>

Edit ==
  \/ \E s \in Sites :
       \/ \E row \in Rows : SaveConfig(s, row)
       \/ \E t \in Texts : SaveTexts(s, t)
       \/ \E c \in Cookies :
            \/ \E g \in Categories, d \in Details : CreateCookie(s, c, g, d)
            \/ \E row \in CookieRow : UpdateCookie(s, c, row)
            \/ DeleteCookie(s, c)
       \/ \E e \in Entries : CreateEntry(s, e) \/ DeleteEntry(s, e)
       \/ \E e, f \in Entries : UpdateEntry(s, e, f)
  \/ \E config \in Config : SaveDefaults(config)
=============================================================================
