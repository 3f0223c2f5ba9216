----------------------------- MODULE SiteVisits -----------------------------
(* What visits to a site leave with the server: its installation state and  *)
(* its consent records. They share no row and no key, so a behaviour is one *)
(* or the other.                                                            *)
EXTENDS Installation, ConsentRecords

visitVars == <<installVars, recordsVars>>

\* Nothing happens any more to the installation, or to the records.
NoInstallation ==
  /\ page = [served |-> FALSE, loader |-> "none", own |-> FALSE, base |-> FALSE, tidy |-> FALSE]
  /\ throttle = {}
  /\ tasks = [t \in Tasks |-> IdleTask] /\ checks = [k \in Checks |-> IdleCheck]
  /\ found = "none" /\ clock = <<>>
  /\ budget = [edits |-> 0, checks |-> 0, faults |-> 0]

NoRecords ==
  /\ request = [v \in Visitors |-> NoRequest]
  /\ window = MaxWindow /\ counts = [w \in Windows |-> 0] /\ passed = [w \in Windows |-> 0]
  /\ records = {} /\ open = FALSE /\ retention = None /\ today = MaxDay
  /\ purge = None /\ left = [requests |-> 0, changes |-> 0, faults |-> 0]

VisitsInit == (InstallInit /\ NoRecords) \/ (NoInstallation /\ RecordsInit)

VisitsNext ==
  \/ InstallNext /\ UNCHANGED recordsVars
  \/ RecordsNext /\ UNCHANGED installVars

VisitsSpec ==
  VisitsInit /\ [][VisitsNext]_visitVars /\ InstallFairness /\ WF_recordsVars(Purge)
=============================================================================
