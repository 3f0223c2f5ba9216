---------------------------- MODULE ConfigLayers ----------------------------
(* The layers below a site's configuration (system, organisation, site     *)
(* group, site), the saves that change them, and the site's membership of  *)
(* a group, which one request may grant while another deletes the group.   *)
(* A saved Null clears an override.                                        *)
EXTENDS Naturals, FiniteSets

CONSTANTS
  Null,           \* SQL NULL, Python None
  Expiries,       \* consent_expiry_days to choose from
  RegionalModes,  \* mappings of region keys to blocking modes to choose from
  Banners,        \* banner_config: what an editor sets against its defaults
  Known,          \* ALL_CATEGORIES, whose order the model leaves out
  Necessary,      \* REQUIRED_CATEGORIES, one category
  Unknown,        \* slugs that no category has
  MaxSaves        \* bound on saves

VARIABLES
  org, group, site,  \* one config row each
  link,              \* sites.site_group_id is the group's
  gone,              \* the group is soft-deleted
  joining,           \* a PATCH that has checked the group and not yet written
  emptying,          \* a DELETE of the group: what it has read of its sites
  saves

layerVars == <<org, group, site, link, gone, joining, emptying, saves>>

ASSUME LayersAssumption ==
  /\ Necessary \in Known /\ Known \cap Unknown = {}
  /\ 365 \in Expiries /\ Expiries \subseteq 1..730 /\ MaxSaves \in Nat

Modes == {"opt_in", "opt_out", "informational"}

\* None is no blocking mode.
ASSUME NullAssumption == Null \notin Modes

\* What a save may put in a field; "sharing" is the group's alone.
Values ==
  [mode |-> Modes, gpc |-> BOOLEAN, expiry |-> Expiries, regional |-> RegionalModes,
   categories |-> SUBSET (Known \cup Unknown), banner |-> Banners, policy |-> {"url"},
   sharing |-> BOOLEAN]

Fields == DOMAIN Values
SiteFields == Fields \ {"sharing"}

System ==
  [mode |-> "opt_in", gpc |-> TRUE, expiry |-> 365, regional |-> Null, categories |-> Known,
   banner |-> Null, policy |-> Null, sharing |-> Null]

EmptyRow == [f \in Fields |-> Null]

\* The database's and the ORM's defaults of a new site_configs row.
NewRow == [EmptyRow EXCEPT !.mode = "opt_in", !.gpc = TRUE, !.expiry = 365]

\* A row of any of the three tables.
IsRow(row) == DOMAIN row = Fields /\ \A f \in Fields : row[f] \in Values[f] \cup {Null}

LayersTypeOK ==
  /\ IsRow(org) /\ IsRow(group) /\ IsRow(site)
  /\ org.sharing = Null /\ site.sharing = Null
  /\ link \in BOOLEAN /\ gone \in BOOLEAN /\ joining \in BOOLEAN
  /\ emptying \in {"no", "linked", "unlinked"} /\ saves \in 0..MaxSaves

LayersInit ==
  /\ org = EmptyRow /\ group = EmptyRow /\ site = NewRow
  /\ link = FALSE /\ gone = FALSE /\ joining = FALSE /\ emptying = "no" /\ saves = 0

-----------------------------------------------------------------------------
(* The cascade.                                                            *)

\* Mutation of Merged: a value that Python takes for false is skipped too.
MergedTruthy(below, row) ==
  [f \in Fields |->
     IF row[f] = Null \/ (f \in {"gpc", "sharing"} /\ row[f] = FALSE) THEN below[f] ELSE row[f]]

\* _merge_non_none over what orm_to_config_dict keeps of a row.
Merged(below, row) == [f \in Fields |-> IF row[f] = Null THEN below[f] ELSE row[f]]

\* _normalise_enabled_categories
Normalised(slugs) == IF slugs = {} THEN Known ELSE (slugs \cap Known) \cup {Necessary}

GroupRow == IF link THEN group ELSE EmptyRow

\* resolve_config and apply_consent_group, for every endpoint and the snapshot.
Resolved ==
  LET merged == Merged(Merged(Merged(System, org), GroupRow), site)
  IN  [merged EXCEPT !.categories = Normalised(@)]

SharesConsent == link /\ Resolved.sharing = TRUE

\* get_config_inheritance: the layer a field's value is said to come from.
Source(f) ==
  IF site[f] # Null THEN "site"
  ELSE IF GroupRow[f] # Null THEN "group"
  ELSE IF org[f] # Null THEN "org" ELSE "system"

ValueAt(layer, f) ==
  CASE layer = "site" -> site[f] [] layer = "group" -> GroupRow[f]
    [] layer = "org" -> org[f] [] layer = "system" -> System[f]

\* Mutation of Backfilled: the migration leaves deleted groups out.
BackfilledUndeleted ==
  LET rows == IF link /\ ~gone THEN <<System, org, group, site>> ELSE <<System, org, site>>
      top(f) == {i \in DOMAIN rows : rows[i][f] # Null}
      last(f) == IF top(f) = {} THEN Null
                 ELSE rows[CHOOSE i \in top(f) : \A j \in top(f) : j <= i][f]
      merged == [f \in Fields |-> last(f)]
  IN  [config |-> [merged EXCEPT !.categories = Normalised(@)],
       shares |-> link /\ ~gone /\ merged.sharing = TRUE]

\* Migration 0013's own copy of the cascade: the last layer that has a value.
Backfilled ==
  LET rows == IF link THEN <<System, org, group, site>> ELSE <<System, org, site>>
      having(f) == {i \in DOMAIN rows : rows[i][f] # Null}
      last(f) == IF having(f) = {} THEN Null
                 ELSE rows[CHOOSE i \in having(f) : \A j \in having(f) : j <= i][f]
      merged == [f \in Fields |-> last(f)]
  IN  [config |-> [merged EXCEPT !.categories = Normalised(@)],
       shares |-> link /\ merged.sharing = TRUE]

-----------------------------------------------------------------------------
(* Saves.                                                                  *)

Saving == saves < MaxSaves /\ saves' = saves + 1
SameMembers == UNCHANGED <<link, gone, joining, emptying>>

\* Every PATCH and the PUTs of defaults: model_dump(exclude_unset=True).
Patched(row, f, v) == [row EXCEPT ![f] = v]

PatchSite(f, v) ==
  /\ Saving /\ site' = Patched(site, f, v)
  /\ UNCHANGED <<org, group>> /\ SameMembers

\* A PUT of the site's config writes every field, the defaults of its schema
\* included.
PutSite(f, v) ==
  /\ Saving /\ site' = [NewRow EXCEPT ![f] = v]
  /\ UNCHANGED <<org, group>> /\ SameMembers

SaveOrg(f, v) ==
  /\ Saving /\ org' = Patched(org, f, v)
  /\ UNCHANGED <<site, group>> /\ SameMembers

SaveGroup(f, v) ==
  /\ Saving /\ ~gone /\ group' = Patched(group, f, v)
  /\ UNCHANGED <<site, org>> /\ SameMembers

-----------------------------------------------------------------------------
(* Membership.  A PATCH of the site and a DELETE of the group each read    *)
(* before they write, in transactions of their own.                        *)

SameRows == UNCHANGED <<org, group, site>>

\* update_site: _ensure_org_group has found the group.
CheckGroup ==
  /\ Saving /\ ~joining /\ ~link /\ ~gone
  /\ joining' = TRUE
  /\ UNCHANGED <<link, gone, emptying>> /\ SameRows

WriteGroup ==
  /\ joining /\ joining' = FALSE /\ link' = TRUE
  /\ UNCHANGED <<gone, emptying, saves>> /\ SameRows

LeaveGroup ==
  /\ Saving /\ link /\ link' = FALSE
  /\ UNCHANGED <<gone, joining, emptying>> /\ SameRows

\* delete_site_group reads the group's sites, then ungroups those it read.
ReadMembers ==
  /\ Saving /\ ~gone /\ emptying = "no"
  /\ emptying' = IF link THEN "linked" ELSE "unlinked"
  /\ UNCHANGED <<link, gone, joining>> /\ SameRows

\* Only the sites that the request has read are written.
Ungrouped == link /\ emptying # "linked"

DeleteGroup ==
  /\ emptying # "no" /\ gone' = TRUE /\ link' = Ungrouped /\ emptying' = "no"
  /\ UNCHANGED <<joining, saves>> /\ SameRows

LayersNext ==
  \/ \E f \in SiteFields : \E v \in Values[f] \cup {Null} :
       PatchSite(f, v) \/ PutSite(f, v) \/ SaveOrg(f, v)
  \/ \E f \in Fields : \E v \in Values[f] \cup {Null} : SaveGroup(f, v)
  \/ CheckGroup \/ WriteGroup \/ LeaveGroup \/ ReadMembers \/ DeleteGroup

LayersSpec == LayersInit /\ [][LayersNext]_layerVars

-----------------------------------------------------------------------------

\* What /inheritance says a field's value comes from is what is served: the
\* endpoint walks the layers itself, apart from the merge that serves them.
InheritanceTrue ==
  \A f \in Fields :
    LET v == ValueAt(Source(f), f)
    IN  Resolved[f] = IF f = "categories" THEN Normalised(v) ELSE v

\* A site that upgrades is published as its draft reads, so that it shows no
\* unpublished change.
BackfillMatches == Backfilled = [config |-> Resolved, shares |-> SharesConsent]

\* Sites of a deleted group inherit nothing from it and share no consent.
DeletedGroupIsLeft == gone => ~link
=============================================================================
