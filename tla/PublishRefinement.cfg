\* Six requests of two sessions at one site, and one save among their steps.
SPECIFICATION Spec
CONSTANTS
  Sites = {s1}
  Users = {u1, u2}
  Fields = {f1}
  Values = {v1}
  Texts = {t1}
  NoTexts = t1
  NewRow <- MCNewRow
  Cookies = {c1}
  Categories = {g1}
  Details = {d1}
  Entries = {}
  Inherit = Inherit
  Nobody = Nobody
  Unread = Unread
  MaxEdits = 1
  MaxRequests = 6
SYMMETRY Symmetry
CHECK_DEADLOCK FALSE
INVARIANTS
  TypeOK
  EachPublishChanges
  ConsentVersionOnRequest
  NumbersGapFree
  AttemptsMatchHistory
  RollbackCopiesOwn
PROPERTIES
  ImplementsServedConfig
  HistoryGrows
