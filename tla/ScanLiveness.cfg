\* Every scan ends, whatever is lost.
SPECIFICATION FairSpec
CONSTANTS
  Sites = {s1}
  Sessions = {p1}
  Scheduler = beat
  Workers = {w1, w2}
  Cookies = {}
  Aging = {"pending", "running"}
  MaxRetries = 1
  MaxJobs = 1
  MaxCopies = 2
  Outages = TRUE
  MaxFaults = 1
CHECK_DEADLOCK FALSE
PROPERTIES
  ScansEnd
