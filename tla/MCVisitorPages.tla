--------------------------- MODULE MCVisitorPages ---------------------------
(* Instances of VisitorPages for TLC.                                      *)
EXTENDS VisitorPages, TLC

\* Sites are alike: no action or property names one.
Symmetry == Permutations(Sites)
=============================================================================
