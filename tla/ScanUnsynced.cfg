\* The database fails after a scan is marked completed.
SPECIFICATION Spec
CONSTANTS
  Sites = {s1}
  Sessions = {p1}
  Scheduler = beat
  Workers = {w1}
  Cookies = {c1}
  Aging = {}
  MaxRetries = 1
  MaxJobs = 1
  MaxCopies = 2
  Outages = TRUE
  MaxFaults = 1
CHECK_DEADLOCK FALSE
INVARIANTS
  CompletedIsSynced
