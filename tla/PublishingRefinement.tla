------------------------ MODULE PublishingRefinement ------------------------
(* ConfigPublishing implements ServedConfig: what get_live_revision hands   *)
(* the banner's config endpoint is the abstract served config.             *)
EXTENDS ConfigPublishing

\* get_live_revision: the revision sites.live_revision_id points at.
Served ==
  [s \in Sites |->
     IF live[s] = 0 THEN Nobody
     ELSE [content |-> revisions[live[s]].snapshot, version |-> revisions[live[s]].version]]

PastContents == [s \in Sites |-> {revisions[i].snapshot : i \in IndexesOf(s)}]

UsedVersions == {revisions[i].version : i \in DOMAIN revisions}

Shown ==
  [u \in Users |-> [s \in Sites |-> IF reviewed[u][s] = Unread THEN Nobody ELSE reviewed[u][s]]]

\* A publish or rollback that may still take effect.
Pending(u) == pc[u] \notin {"idle", "log"} /\ req[u].kind \in {"publish", "rollback"}

Asked ==
  [u \in Users |->
     IF Pending(u) THEN [site |-> req[u].site, kind |-> req[u].kind, ask |-> req[u].ask]
     ELSE Nobody]

\* Nobody and Unread are none of the values that stand beside them.
ASSUME NothingAssumption ==
  /\ Nobody \notin [content: Snapshots, version: Nat]
  /\ Nobody \notin [site: Sites, kind: Kinds, ask: BOOLEAN]
  /\ {Nobody, Unread} \cap Snapshots = {}

Abstract == INSTANCE ServedConfig WITH
  Contents <- Snapshots, Nothing <- Nobody, served <- Served, past <- PastContents,
  used <- UsedVersions, shown <- Shown, asked <- Asked

\* Nothing a visitor is served changes except by a publish, which serves what
\* its session was shown, or a rollback, which serves what was served before;
\* each takes effect once and whole, among saves, reviews, discards, failures
\* and other publishes, and no consent version changes or comes back unasked.
ImplementsServedConfig == Abstract!Spec
=============================================================================
