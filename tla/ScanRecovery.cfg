\* Crashes, lost messages and timeouts, two workers, two scans of one site.
SPECIFICATION Spec
CONSTANTS
  Sites = {s1}
  Sessions = {}
  Scheduler = beat
  Workers = {w1, w2}
  Cookies = {c1, c2}
  Aging = {"pending", "running"}
  MaxRetries = 0
  MaxJobs = 2
  MaxCopies = 1
  Outages = FALSE
  MaxFaults = 1
SYMMETRY Symmetry
CHECK_DEADLOCK FALSE
INVARIANTS
  TypeOK
  CompletedIsSynced
