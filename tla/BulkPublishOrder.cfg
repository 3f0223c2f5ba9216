\* Two batches that list two sites in any order; nothing crashes.
SPECIFICATION Spec
CONSTANTS
  Sites <- MCTwoSites
  Batches = {p1, p2}
  Nobody = Nobody
  Places = 3
  Domain <- MCDomain
  Crashes = FALSE
  MaxEdits = 1
  a = a
  b = b
  c = c
CHECK_DEADLOCK FALSE
INVARIANTS
  OthersStillPublish
