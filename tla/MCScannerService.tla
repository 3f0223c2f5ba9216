------------------------- MODULE MCScannerService --------------------------
(* Two pages of a site, one elsewhere, three sitemaps that may list them,   *)
(* and a page with one tracker and two cookies.                             *)
EXTENDS ScannerService

CONSTANTS a, b

MCDefaults == <<a, b>>
=============================================================================
