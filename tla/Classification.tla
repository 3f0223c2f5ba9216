--------------------------- MODULE Classification ---------------------------
(* Classification of a site's cookies, and the matcher that decides whether *)
(* a rule's pattern fits. A call of the matcher shares nothing, so a        *)
(* behaviour is either one call or the site's life.                         *)
EXTENDS CookieClassification, PatternMatch

classificationVars == <<classifyVars, matchVars>>

\* A behaviour that does not concern the matcher, or the site: a call has an
\* answer after a turn only.
OfSite == answer = "yes" /\ turns = 0

NoMatch ==
  /\ pattern = <<>> /\ value = <<>> /\ atPattern = 0 /\ atValue = 0
  /\ lastStar = 0 /\ resume = 0 /\ OfSite

NoSite ==
  /\ rows = [c \in Names |-> Absent] /\ rules = {} /\ lasting = {}
  /\ request = NoRequest /\ scan = NoScan /\ changes = MaxChanges

ClassificationInit == (ClassifyInit /\ NoMatch) \/ (NoSite /\ MatchInit)

ClassificationNext ==
  \/ OfSite /\ ClassifyNext /\ UNCHANGED matchVars
  \/ MatchNext /\ UNCHANGED classifyVars

ClassificationSpec ==
  ClassificationInit /\ [][ClassificationNext]_classificationVars /\ ClassifyFairness
=============================================================================
