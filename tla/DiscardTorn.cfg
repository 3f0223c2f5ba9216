\* No descriptions change: a cookie is rejected while a publish reads.
SPECIFICATION Spec
CONSTANTS
  Sites = {s1}
  Users = {u1}
  Fields = {f1}
  Values = {v1}
  Texts = {t1}
  NoTexts = t1
  NewRow <- MCNewRow
  Cookies = {c1}
  Categories = {g1}
  Details = {d1}
  Entries = {}
  Inherit = Inherit
  Nobody = Nobody
  Unread = Unread
  MaxEdits = 2
  MaxRequests = 3
CHECK_DEADLOCK FALSE
PROPERTIES
  DiscardReturnsToLive
