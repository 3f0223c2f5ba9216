\* Two tabs, two pages opened and two decisions, configurations in either mode at
\* each fetch; or one page with a script on it.
SPECIFICATION PagesSpec
CONSTANTS
  Sites = {s1, s2}
  Tabs = {t1, t2}
  Categories = {c1, c2}
  Null = Null
  MaxVersion = 2
  MaxLoads = 2
  MaxDecisions = 2
  MaxBanners = 2
  Watched = t1
  Category = c1
  MaxScripted = 1
SYMMETRY Symmetry
CHECK_DEADLOCK FALSE
INVARIANTS
  OnlyDecisionsStored
  WithdrawalAtHand
  OnlyChoicesCross
PROPERTIES
  HeldUntilGranted
