---------------------------- MODULE MCScanJobs ----------------------------
(* Instances of ScanJobs for TLC.                                         *)
EXTENDS ScanJobs, TLC

\* Workers are alike, and so are cookies.
Symmetry == Permutations(Workers) \cup Permutations(Cookies)
=============================================================================
