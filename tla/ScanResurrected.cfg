\* One starter: a pending scan is superseded and its message still runs.
SPECIFICATION Spec
CONSTANTS
  Sites = {s1}
  Sessions = {}
  Scheduler = beat
  Workers = {w1, w2}
  Cookies = {c1}
  Aging = {"pending"}
  MaxRetries = 1
  MaxJobs = 2
  MaxCopies = 1
  Outages = FALSE
  MaxFaults = 0
CHECK_DEADLOCK FALSE
INVARIANTS
  OneScanAtATime
