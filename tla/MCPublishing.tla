--------------------------- MODULE MCPublishing ---------------------------
(* Instances of PublishingRefinement for TLC.                             *)
EXTENDS PublishingRefinement, TLC

\* A new site inherits everything.
MCNewRow == [f \in Fields |-> Inherit]

\* Users are alike.
Symmetry == Permutations(Users)
===========================================================================
