---------------------------- MODULE ServedConfig ----------------------------
(***************************************************************************)
(* What publishing promises, with no drafts, locks or steps.  A session is *)
(* shown a content of a site, as one whole; it asks for a publish or a     *)
(* rollback; and in a single step the site serves what the session was     *)
(* last shown, or again something it served before.  What a site serves    *)
(* changes in no other way.  Its consent version is kept, so that          *)
(* returning visitors are not asked again, unless the session wants them   *)
(* asked: then it is one that no site has served before, so that no        *)
(* earlier consent answers for it.                                         *)
(***************************************************************************)
EXTENDS Naturals

CONSTANTS Sites, Users, Contents, Nothing

VARIABLES
  served,  \* served[s]: [content, version], or Nothing before the first publish
  past,    \* past[s]: every content that s has served
  used,    \* every consent version served so far, by any site
  shown,   \* shown[u][s]: the content of s that session u was last shown
  asked    \* asked[u]: the publish or rollback that u waits for

vars == <<served, past, used, shown, asked>>

Requests == [site: Sites, kind: {"publish", "rollback"}, ask: BOOLEAN]

Init ==
  /\ served = [s \in Sites |-> Nothing]
  /\ past = [s \in Sites |-> {}]
  /\ used = {}
  /\ shown = [u \in Users |-> [s \in Sites |-> Nothing]]
  /\ asked = [u \in Users |-> Nothing]

Show(u, s) ==
  /\ shown'[u][s] \in Contents
  /\ shown' = [shown EXCEPT ![u][s] = shown'[u][s]]
  /\ UNCHANGED <<served, past, used, asked>>

Ask(u) ==
  /\ asked[u] = Nothing
  /\ LET r == asked'[u] IN
       /\ r \in Requests
       /\ r.kind = "publish" => shown[u][r.site] # Nothing
       /\ asked' = [asked EXCEPT ![u] = r]
  /\ UNCHANGED <<served, past, used, shown>>

\* Refused, failed or lost: nobody else sees a difference.
Drop(u) ==
  /\ asked[u] # Nothing
  /\ asked' = [asked EXCEPT ![u] = Nothing]
  /\ UNCHANGED <<served, past, used, shown>>

ServeNext(u) ==
  LET r == asked[u]
      old == served[r.site]
      new == served'[r.site]
  IN
  /\ r # Nothing
  /\ new # Nothing
  /\ new.content \in IF r.kind = "publish" THEN {shown[u][r.site]} ELSE past[r.site]
  /\ IF old # Nothing /\ ~r.ask THEN new.version = old.version ELSE new.version \notin used
  /\ served' = [served EXCEPT ![r.site] = new]
  /\ past' = [past EXCEPT ![r.site] = @ \cup {new.content}]
  /\ used' = used \cup {new.version}
  /\ asked' = [asked EXCEPT ![u] = Nothing]
  /\ UNCHANGED shown

Next ==
  \E u \in Users : Ask(u) \/ Drop(u) \/ ServeNext(u) \/ \E s \in Sites : Show(u, s)

Spec == Init /\ [][Next]_vars
=============================================================================
