------------------------- MODULE ConfigLayers_proofs -------------------------
(* The cascade is written three times: the merge that is served, the layers  *)
(* that /inheritance names, and the migration's copy.  They agree, and the    *)
(* rule that reads the site's row alone judges what the merge serves.         *)
EXTENDS ComplianceRules, Integers, TLAPS

-----------------------------------------------------------------------------
(* Types.                                                                    *)

\* A saved value is one of its field's, or clears it.
LEMMA SavedRow ==
  ASSUME NEW row, IsRow(row), NEW f \in Fields, NEW v \in Values[f] \cup {Null}
  PROVE  /\ IsRow(Patched(row, f, v))
         /\ f # "sharing" /\ row.sharing = Null => Patched(row, f, v).sharing = Null
<1>1. "sharing" \in Fields
  BY DEF Fields, Values
<1>. QED  BY <1>1, Zenon DEF IsRow, Patched

\* The empty row, and a new site's.
LEMMA FirstRows ==
  IsRow(EmptyRow) /\ IsRow(NewRow) /\ EmptyRow.sharing = Null /\ NewRow.sharing = Null
<1>1. {"mode", "gpc", "expiry", "sharing"} \subseteq Fields
  BY DEF Fields, Values
<1>2. "opt_in" \in Values["mode"] /\ TRUE \in Values["gpc"] /\ 365 \in Values["expiry"]
  BY LayersAssumption DEF Values, Modes
<1>3. IsRow(EmptyRow) /\ EmptyRow.sharing = Null
  BY <1>1 DEF IsRow, EmptyRow
<1>4. /\ DOMAIN NewRow = Fields /\ NewRow["sharing"] = Null
      /\ NewRow["mode"] = "opt_in" /\ NewRow["gpc"] = TRUE /\ NewRow["expiry"] = 365
      /\ \A f \in Fields : f \notin {"mode", "gpc", "expiry"} => NewRow[f] = Null
  BY <1>1 DEF NewRow, EmptyRow
<1>5. ASSUME NEW f \in Fields  PROVE NewRow[f] \in Values[f] \cup {Null}
  <2>1. CASE f \in {"mode", "gpc", "expiry"}
    <3>1. f = "mode" => NewRow[f] \in Values[f]
      BY <1>2, <1>4, Zenon
    <3>2. f = "gpc" => NewRow[f] \in Values[f]
      BY <1>2, <1>4, Zenon
    <3>3. f = "expiry" => NewRow[f] \in Values[f]
      BY <1>2, <1>4, Zenon
    <3>. QED  BY <2>1, <3>1, <3>2, <3>3
  <2>2. CASE f \notin {"mode", "gpc", "expiry"}
    BY <1>4, <2>2
  <2>. QED  BY <2>1, <2>2
<1>6. IsRow(NewRow)
  BY <1>4, <1>5 DEF IsRow
<1>. QED  BY <1>3, <1>4, <1>6

\* Every layer keeps its fields' types and only a group has "sharing", whatever is
\* saved in which order: each table is written by an endpoint of its own.
THEOREM LayersTypeCorrect == LayersSpec => []LayersTypeOK
<1>1. LayersInit => LayersTypeOK
  <2>1. 0 \in 0..MaxSaves
    BY LayersAssumption
  <2>. QED  BY <2>1, FirstRows DEF LayersInit, LayersTypeOK
<1>2. ASSUME LayersTypeOK, [LayersNext]_layerVars  PROVE LayersTypeOK'
  <2>0. /\ IsRow(org) /\ IsRow(group) /\ IsRow(site) /\ org.sharing = Null /\ site.sharing = Null
        /\ link \in BOOLEAN /\ gone \in BOOLEAN /\ joining \in BOOLEAN
        /\ emptying \in {"no", "linked", "unlinked"} /\ saves \in 0..MaxSaves
    BY <1>2 DEF LayersTypeOK
  <2>1. Saving => saves' \in 0..MaxSaves
    BY <2>0, LayersAssumption DEF Saving
  <2>2. SiteFields \subseteq Fields /\ "sharing" \notin SiteFields
    BY DEF SiteFields
  <2>3. ASSUME NEW f \in SiteFields, NEW v \in Values[f] \cup {Null}, PatchSite(f, v)
        PROVE  LayersTypeOK'
    BY <2>0, <2>1, <2>2, <2>3, SavedRow DEF PatchSite, SameMembers, LayersTypeOK
  <2>4. ASSUME NEW f \in SiteFields, NEW v \in Values[f] \cup {Null}, PutSite(f, v)
        PROVE  LayersTypeOK'
    <3>1. IsRow(Patched(NewRow, f, v)) /\ Patched(NewRow, f, v).sharing = Null
      BY <2>2, FirstRows, SavedRow
    <3>. QED  BY <2>0, <2>1, <2>4, <3>1 DEF PutSite, Patched, SameMembers, LayersTypeOK
  <2>5. ASSUME NEW f \in SiteFields, NEW v \in Values[f] \cup {Null}, SaveOrg(f, v)
        PROVE  LayersTypeOK'
    BY <2>0, <2>1, <2>2, <2>5, SavedRow DEF SaveOrg, SameMembers, LayersTypeOK
  <2>6. ASSUME NEW f \in Fields, NEW v \in Values[f] \cup {Null}, SaveGroup(f, v)
        PROVE  LayersTypeOK'
    BY <2>0, <2>1, <2>6, SavedRow DEF SaveGroup, SameMembers, LayersTypeOK
  <2>7. CASE CheckGroup
    BY <2>0, <2>1, <2>7 DEF CheckGroup, SameRows, LayersTypeOK
  <2>8. CASE WriteGroup
    BY <2>0, <2>8 DEF WriteGroup, SameRows, LayersTypeOK
  <2>9. CASE LeaveGroup
    BY <2>0, <2>1, <2>9 DEF LeaveGroup, SameRows, LayersTypeOK
  <2>10. CASE ReadMembers
    BY <2>0, <2>1, <2>10 DEF ReadMembers, SameRows, LayersTypeOK
  <2>11. CASE DeleteGroup
    <3>1. link' \in BOOLEAN
      BY <2>0, <2>11, Zenon DEF DeleteGroup, Ungrouped
    <3>. QED  BY <2>0, <2>11, <3>1 DEF DeleteGroup, SameRows, LayersTypeOK
  <2>12. CASE UNCHANGED layerVars
    BY <2>0, <2>12 DEF layerVars, LayersTypeOK
  <2>. QED
    BY <1>2, <2>3, <2>4, <2>5, <2>6, <2>7, <2>8, <2>9, <2>10, <2>11, <2>12 DEF LayersNext
<1>. QED  BY <1>1, <1>2, PTL DEF LayersSpec

-----------------------------------------------------------------------------
(* The cascade.                                                              *)

\* One field through the layers: the first above that has a value decides.
LEMMA MergedField ==
  ASSUME NEW below, NEW row, NEW f \in Fields
  PROVE  Merged(below, row)[f] = IF row[f] = Null THEN below[f] ELSE row[f]
BY DEF Merged

\* What is resolved of a field before categories are normalised.
Cascade(f) ==
  IF site[f] # Null THEN site[f]
  ELSE IF GroupRow[f] # Null THEN GroupRow[f]
  ELSE IF org[f] # Null THEN org[f] ELSE System[f]

LEMMA ResolvedField ==
  ASSUME NEW f \in Fields
  PROVE  Resolved[f] = IF f = "categories" THEN Normalised(Cascade(f)) ELSE Cascade(f)
<1>. DEFINE merged == Merged(Merged(Merged(System, org), GroupRow), site)
<1>1. \A g \in Fields : merged[g] = Cascade(g)
  BY MergedField DEF Cascade
<1>2. merged = [g \in Fields |-> merged[g]]
  BY DEF Merged
<1>3. "categories" \in Fields
  BY DEF Fields, Values
<1>. HIDE DEF merged
<1>4. Resolved = [merged EXCEPT !["categories"] = Normalised(merged["categories"])]
  BY DEF Resolved, merged
<1>. QED  BY <1>1, <1>2, <1>3, <1>4

\* The field named comes from where the endpoint says, for every state of the layers.
THEOREM InheritanceTold == LayersSpec => []InheritanceTrue
<1>1. InheritanceTrue
  <2>1. ASSUME NEW f \in Fields  PROVE ValueAt(Source(f), f) = Cascade(f)
    BY DEF ValueAt, Source, Cascade
  <2>. QED  BY <2>1, ResolvedField DEF InheritanceTrue
<1>. QED  BY <1>1, PTL

-----------------------------------------------------------------------------
(* The migration.                                                            *)

\* The last of some layers that has a value for a field, Null if none has.
Last(rows, f) ==
  LET having == {i \in DOMAIN rows : rows[i][f] # Null}
  IN  IF having = {} THEN Null
      ELSE rows[CHOOSE i \in having : \A j \in having : j <= i][f]

\* It is found from above.
LEMMA LastIs ==
  ASSUME NEW rows, NEW f, NEW k \in DOMAIN rows, DOMAIN rows \subseteq Int,
         rows[k][f] # Null, \A j \in DOMAIN rows : j > k => rows[j][f] = Null
  PROVE  Last(rows, f) = rows[k][f]
<1>. DEFINE having == {i \in DOMAIN rows : rows[i][f] # Null}
            top == CHOOSE i \in having : \A j \in having : j <= i
<1>1. k \in having /\ \A j \in having : j <= k
  OBVIOUS
<1>2. top \in having /\ \A j \in having : j <= top
  BY <1>1
<1>3. top = k
  BY <1>1, <1>2
<1>. QED  BY <1>1, <1>3 DEF Last

LEMMA LastCascade ==
  ASSUME NEW f \in Fields
  PROVE  Last(IF link THEN <<System, org, group, site>> ELSE <<System, org, site>>, f) = Cascade(f)
<1>1. CASE link
  <2>. DEFINE rows == <<System, org, group, site>>
  <2>0. /\ DOMAIN rows = 1..4 /\ rows[1] = System /\ rows[2] = org /\ rows[3] = group
        /\ rows[4] = site /\ GroupRow = group
    BY <1>1 DEF GroupRow
  <2>. HIDE DEF rows
  <2>1. ASSUME site[f] # Null
       PROVE  Last(rows, f) = Cascade(f)
    <3>1. 4 \in DOMAIN rows /\ DOMAIN rows \subseteq Int /\ rows[4][f] # Null
      BY <2>0, <2>1
    <3>2. \A j \in DOMAIN rows : j > 4 => rows[j][f] = Null
      BY <2>0, <2>1
    <3>3. Last(rows, f) = rows[4][f]
      BY <3>1, <3>2, LastIs
    <3>. QED  BY <2>0, <2>1, <3>3 DEF Cascade
  <2>2. ASSUME site[f] = Null /\ group[f] # Null
       PROVE  Last(rows, f) = Cascade(f)
    <3>1. 3 \in DOMAIN rows /\ DOMAIN rows \subseteq Int /\ rows[3][f] # Null
      BY <2>0, <2>2
    <3>2. \A j \in DOMAIN rows : j > 3 => rows[j][f] = Null
      BY <2>0, <2>2
    <3>3. Last(rows, f) = rows[3][f]
      BY <3>1, <3>2, LastIs
    <3>. QED  BY <2>0, <2>2, <3>3 DEF Cascade
  <2>3. ASSUME site[f] = Null /\ group[f] = Null /\ org[f] # Null
       PROVE  Last(rows, f) = Cascade(f)
    <3>1. 2 \in DOMAIN rows /\ DOMAIN rows \subseteq Int /\ rows[2][f] # Null
      BY <2>0, <2>3
    <3>2. \A j \in DOMAIN rows : j > 2 => rows[j][f] = Null
      BY <2>0, <2>3
    <3>3. Last(rows, f) = rows[2][f]
      BY <3>1, <3>2, LastIs
    <3>. QED  BY <2>0, <2>3, <3>3 DEF Cascade
  <2>4. ASSUME site[f] = Null /\ group[f] = Null /\ org[f] = Null /\ System[f] # Null
       PROVE  Last(rows, f) = Cascade(f)
    <3>1. 1 \in DOMAIN rows /\ DOMAIN rows \subseteq Int /\ rows[1][f] # Null
      BY <2>0, <2>4
    <3>2. \A j \in DOMAIN rows : j > 1 => rows[j][f] = Null
      BY <2>0, <2>4
    <3>3. Last(rows, f) = rows[1][f]
      BY <3>1, <3>2, LastIs
    <3>. QED  BY <2>0, <2>4, <3>3 DEF Cascade
  <2>5. ASSUME site[f] = Null /\ group[f] = Null /\ org[f] = Null /\ System[f] = Null
       PROVE  Last(rows, f) = Cascade(f)
    BY <2>0, <2>5 DEF Cascade, Last
  <2>6. Last(rows, f) = Cascade(f)
    BY <2>1, <2>2, <2>3, <2>4, <2>5
  <2>. QED  BY <1>1, <2>6 DEF rows
<1>2. CASE ~link
  <2>. DEFINE rows == <<System, org, site>>
  <2>0. /\ DOMAIN rows = 1..3 /\ rows[1] = System /\ rows[2] = org /\ rows[3] = site
        /\ GroupRow[f] = Null
    <3>1. DOMAIN rows = 1..3 /\ rows[1] = System /\ rows[2] = org /\ rows[3] = site
      OBVIOUS
    <3>2. GroupRow[f] = Null
      BY <1>2 DEF GroupRow, EmptyRow
    <3>. QED  BY <3>1, <3>2
  <2>. HIDE DEF rows
  <2>1. ASSUME site[f] # Null
       PROVE  Last(rows, f) = Cascade(f)
    <3>1. 3 \in DOMAIN rows /\ DOMAIN rows \subseteq Int /\ rows[3][f] # Null
      BY <2>0, <2>1
    <3>2. \A j \in DOMAIN rows : j > 3 => rows[j][f] = Null
      BY <2>0, <2>1
    <3>3. Last(rows, f) = rows[3][f]
      BY <3>1, <3>2, LastIs
    <3>. QED  BY <2>0, <2>1, <3>3 DEF Cascade
  <2>2. ASSUME site[f] = Null /\ org[f] # Null
       PROVE  Last(rows, f) = Cascade(f)
    <3>1. 2 \in DOMAIN rows /\ DOMAIN rows \subseteq Int /\ rows[2][f] # Null
      BY <2>0, <2>2
    <3>2. \A j \in DOMAIN rows : j > 2 => rows[j][f] = Null
      BY <2>0, <2>2
    <3>3. Last(rows, f) = rows[2][f]
      BY <3>1, <3>2, LastIs
    <3>. QED  BY <2>0, <2>2, <3>3 DEF Cascade
  <2>3. ASSUME site[f] = Null /\ org[f] = Null /\ System[f] # Null
       PROVE  Last(rows, f) = Cascade(f)
    <3>1. 1 \in DOMAIN rows /\ DOMAIN rows \subseteq Int /\ rows[1][f] # Null
      BY <2>0, <2>3
    <3>2. \A j \in DOMAIN rows : j > 1 => rows[j][f] = Null
      BY <2>0, <2>3
    <3>3. Last(rows, f) = rows[1][f]
      BY <3>1, <3>2, LastIs
    <3>. QED  BY <2>0, <2>3, <3>3 DEF Cascade
  <2>4. ASSUME site[f] = Null /\ org[f] = Null /\ System[f] = Null
       PROVE  Last(rows, f) = Cascade(f)
    BY <2>0, <2>4 DEF Cascade, Last
  <2>5. Last(rows, f) = Cascade(f)
    BY <2>1, <2>2, <2>3, <2>4
  <2>. QED  BY <1>2, <2>5 DEF rows
<1>. QED  BY <1>1, <1>2

\* What the migration publishes of any site is what its draft resolves to, consent
\* sharing included.
THEOREM BackfillAlways == LayersSpec => []BackfillMatches
<1>1. BackfillMatches
  <2>. DEFINE rows == IF link THEN <<System, org, group, site>> ELSE <<System, org, site>>
              merged == [f \in Fields |-> Last(rows, f)]
  <2>1. \A f \in Fields : merged[f] = Cascade(f)
    BY LastCascade
  <2>2. "categories" \in Fields /\ "sharing" \in Fields /\ "categories" # "sharing"
    BY DEF Fields, Values
  <2>3. Backfilled =
          [config |-> [merged EXCEPT !["categories"] = Normalised(merged["categories"])],
           shares |-> link /\ merged["sharing"] = TRUE]
    BY DEF Backfilled, Last
  <2>4. Resolved = [f \in Fields |-> Resolved[f]]
    BY DEF Resolved, Merged
  <2>5. [merged EXCEPT !["categories"] = Normalised(merged["categories"])] = Resolved
    <3>1. \A f \in Fields :
            [merged EXCEPT !["categories"] = Normalised(merged["categories"])][f] = Resolved[f]
      BY <2>1, <2>2, ResolvedField
    <3>. QED  BY <2>4, <3>1
  <2>6. merged["sharing"] = Resolved.sharing
    BY <2>1, <2>2, ResolvedField
  <2>. QED  BY <2>3, <2>5, <2>6 DEF BackfillMatches, SharesConsent
<1>. QED  BY <1>1, PTL

-----------------------------------------------------------------------------
(* The rule engine reads one row, visitors get what the layers resolve to.   *)

\* A site that the opt-in rule finds no issue with has set opt-in itself.
LEMMA OptInRule ==
  ASSUME NEW unsorted, "gdpr_opt_in" \notin Issues("gdpr", Context(unsorted))
  PROVE  site.mode = "opt_in"
<1>1. "gdpr_opt_in" \in RulesOf["gdpr"]
  BY DEF RulesOf, GdprRules
<1>2. ~Breaks("gdpr_opt_in", Context(unsorted))
  BY <1>1 DEF Issues
<1>3. Context(unsorted).mode = "opt_in"
  BY <1>2 DEF Breaks
<1>. QED  BY <1>3 DEF Context

\* Without a mapping that has an entry, every region gets the resolved mode.
LEMMA ServedUnmapped ==
  ASSUME NEW config, NEW region, config.regional \in {Null, <<>>}
  PROVE  Served(config, region) = config.mode
<1>1. DOMAIN <<>> = {}
  OBVIOUS
<1>2. CASE config.regional = Null
  BY <1>2 DEF Served
<1>3. CASE config.regional = <<>>
  BY <1>1, <1>3 DEF Served
<1>. QED  BY <1>2, <1>3

\* Whatever the layers below it say, a site without a mapping of regions that
\* passes the opt-in rule asks every visitor first (_gdpr_opt_in).
THEOREM OptInAlways == LayersSpec => []OptInPassIsServed
<1>1. OptInPassIsServed
  <2>. SUFFICES ASSUME Resolved.regional \in {Null, <<>>}, NEW region \in Regions,
                       "gdpr_opt_in" \notin Issues("gdpr", Context(FALSE))
       PROVE  Served(Resolved, region) = "opt_in"
    BY DEF OptInPassIsServed
  <2>1. site.mode = "opt_in"
    BY OptInRule
  <2>2. "mode" \in Fields /\ "opt_in" # Null
    BY NullAssumption DEF Fields, Values, Modes
  <2>3. Resolved.mode = "opt_in"
    BY <2>1, <2>2, ResolvedField DEF Cascade
  <2>. QED  BY <2>3, ServedUnmapped
<1>. QED  BY <1>1, PTL
=============================================================================
