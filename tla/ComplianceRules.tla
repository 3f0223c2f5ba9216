-------------------------- MODULE ComplianceRules ---------------------------
(* The rule engine behind POST /compliance/check/{site_id}, which judges    *)
(* the site's own config row.                                               *)
EXTENDS VisitorRegion, FiniteSetsExt

GdprRules ==
  {"gdpr_opt_in", "gdpr_reject_button", "gdpr_granular", "gdpr_cookie_wall",
   "gdpr_pre_ticked", "gdpr_privacy_policy", "gdpr_uncategorised"}

\* CNIL rules include all GDPR rules.
CnilRules ==
  GdprRules \cup {"cnil_reconsent", "cnil_cookie_lifetime", "cnil_reject_first_layer"}

RulesOf ==
  [gdpr |-> GdprRules, cnil |-> CnilRules,
   ccpa |-> {"ccpa_opt_out", "ccpa_do_not_sell", "ccpa_privacy_policy"},
   eprivacy |-> {"eprivacy_consent", "eprivacy_necessary_exempt"},
   lgpd |-> {"lgpd_consent_basis", "lgpd_data_controller", "lgpd_granular"}]

Frameworks == DOMAIN RulesOf

Warnings ==
  {"gdpr_privacy_policy", "gdpr_uncategorised", "ccpa_privacy_policy",
   "lgpd_data_controller", "lgpd_granular"}

\* Mutation of Context: an inherited mode is taken for the default, as the
\* admin interface does when it has no config.
ContextDefaulted(unsorted) ==
  [mode |-> IF site.mode = Null THEN "opt_in" ELSE site.mode, expiry |-> site.expiry,
   policy |-> site.policy, unsorted |-> unsorted,
   set |-> IF site.banner = Null THEN {} ELSE site.banner]

\* _build_site_context: the site's row, a Null included, and the keys of its
\* banner_config that differ from what the engine takes as their default.
Context(unsorted) ==
  [mode |-> site.mode, expiry |-> site.expiry, policy |-> site.policy, unsorted |-> unsorted,
   set |-> IF site.banner = Null THEN {} ELSE site.banner]

Breaks(rule, c) ==
  CASE rule = "gdpr_opt_in" -> c.mode # "opt_in"
    [] rule \in {"gdpr_reject_button", "cnil_reject_first_layer"} -> "show_reject_all" \in c.set
    [] rule \in {"gdpr_granular", "lgpd_granular"} -> "show_category_toggles" \in c.set
    [] rule = "gdpr_cookie_wall" -> "cookie_wall" \in c.set
    [] rule = "gdpr_pre_ticked" -> "pre_ticked" \in c.set
    [] rule \in {"gdpr_privacy_policy", "ccpa_privacy_policy", "lgpd_data_controller"} ->
         c.policy = Null
    [] rule = "gdpr_uncategorised" -> c.unsorted
    [] rule = "cnil_reconsent" -> c.expiry > 182
    [] rule = "cnil_cookie_lifetime" -> c.expiry > 395
    [] rule = "ccpa_opt_out" -> c.mode \notin {"opt_out", "opt_in"}
    [] rule = "ccpa_do_not_sell" -> "show_do_not_sell_link" \notin c.set
    [] rule \in {"eprivacy_consent", "lgpd_consent_basis"} -> c.mode = "informational"
    [] OTHER -> FALSE

Issues(fw, c) == {rule \in RulesOf[fw] : Breaks(rule, c)}

\* Comparing None with a number raises: a 500 instead of a report.
Raises(fw, c) == fw = "cnil" /\ c.expiry = Null

\* _calculate_score
Score(issues) ==
  Max({0, 100 - 20 * Cardinality(issues \ Warnings) - 5 * Cardinality(issues \cap Warnings)})

\* _determine_status
Status(issues) ==
  IF issues \ Warnings # {} THEN "non_compliant"
  ELSE IF Score(issues) >= 100 THEN "compliant" ELSE "partial"

-----------------------------------------------------------------------------

\* Where no mapping of regions applies, a site that passes the opt-in rule asks
\* every visitor first, though the rule reads the site's row alone and the
\* visitor gets what the layers resolve to.
OptInPassIsServed ==
  Resolved.regional \in {Null, <<>>} /\ "gdpr_opt_in" \notin Issues("gdpr", Context(FALSE)) =>
    \A region \in Regions : Served(Resolved, region) = "opt_in"

\* A site that is reported to comply with the GDPR serves every visitor of the
\* European Union a banner that asks first and has a reject button, which the
\* banner hides when showRejectAll is set to false.
CompliantIsServed ==
  \A unsorted \in BOOLEAN :
    Status(Issues("gdpr", Context(unsorted))) = "compliant" =>
      /\ Resolved.banner # Null => "showRejectAll" \notin Resolved.banner
      /\ \A region \in EuropeanRegions : Served(Resolved, region) = "opt_in"
=============================================================================
