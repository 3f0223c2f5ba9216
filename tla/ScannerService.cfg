SPECIFICATION ServiceSpec
CONSTANTS
  a = a
  b = b
  SitePages = {a, b}
  OtherPages = {x}
  Defaults <- MCDefaults
  LastSitemap = 3
  Cookies = {c1}
  Respelt = {c1}
  Local = {l1}
  Session = {i1}
  Planted = Planted
  MaxPages = 2
  MaxLocs = 2
  MaxChanges = 2
  Trackers = {t1}
  Necessary = {n1}
  Tracking = {k1}
  MaxActs = 3
CHECK_DEADLOCK FALSE
INVARIANTS
  StreamAddsUp
  FoundWhereSet
  VisitsApart
  RejectMissesNothing
PROPERTIES
  CrawlsListed
  ServiceEnds
