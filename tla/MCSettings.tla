----------------------------- MODULE MCSettings -----------------------------
(* The mappings, banners and countries that the rules tell apart.          *)
EXTENDS ComplianceRules, TLC

MCRegional ==
  {<<>>, EU :> "informational" @@ Default :> "opt_out", <<"GB">> :> "opt_out",
   <<"US", "CA">> :> "opt_out" @@ Default :> "opt_in"}

MCBanners == {{}, {"showRejectAll"}, {"show_reject_all"}, {"show_category_toggles", "cookie_wall"}}
=============================================================================
