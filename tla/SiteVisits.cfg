\* Two tasks and a check; two visitors, two windows, three days.
SPECIFICATION VisitsSpec
CONSTANTS
  Hosts = {h1}
  Tasks = {t1, t2}
  Checks = {k1}
  MaxEdits = 1
  MaxChecks = 1
  Visitors = {v1, v2}
  Limit = 1
  MaxWindow = 1
  MaxDay = 2
  Retentions = {0, 1}
  MaxRequests = 3
  MaxChanges = 1
  MaxFaults = 1
  MaxFailures = 1
  None = None
CHECK_DEADLOCK FALSE
INVARIANTS
  LimitHolds
PROPERTIES
  FixIsNoticed
  YoungRecordsStay
  ExpiredGo
