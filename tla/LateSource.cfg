\* A script that gets its URL after the observer saw it is never released.
SPECIFICATION PagesSpec
CONSTANTS
  Sites = {s1, s2}
  Tabs = {t1, t2}
  Categories = {c1, c2}
  Null = Null
  MaxVersion = 2
  MaxLoads = 2
  MaxDecisions = 2
  MaxBanners = 2
  Watched = t1
  Category = c1
  MaxScripted = 1
CHECK_DEADLOCK FALSE
INVARIANTS
  GrantedRuns
