\* Two batches of two sites, by domain or not, with crashes and refusals.
SPECIFICATION FairSpec
CONSTANTS
  Sites <- MCTwoSites
  Batches = {p1, p2}
  Nobody = Nobody
  Places = 3
  Domain <- MCDomain
  Crashes = TRUE
  MaxEdits = 2
  a = a
  b = b
  c = c
CHECK_DEADLOCK FALSE
INVARIANTS
  NoDeadlock
  AsAnsweredOrNotAtAll
  NeverBackward
PROPERTIES
  BatchesEnd
