--------------------------- MODULE MCBulkPublish ---------------------------
(* Instances of BulkPublish for TLC.                                       *)
EXTENDS BulkPublish

CONSTANTS a, b, c  \* three sites, in the order of their domains

MCSites == {a, b, c}
MCTwoSites == {a, b}
MCDomain == [s \in Sites |-> CASE s = a -> 1 [] s = b -> 2 [] s = c -> 3]
=============================================================================
