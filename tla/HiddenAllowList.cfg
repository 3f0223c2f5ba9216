\* One session, no overlap: an allow-list entry is changed after a publish.
SPECIFICATION Spec
CONSTANTS
  Sites = {s1}
  Users = {u1}
  Fields = {f1}
  Values = {v1}
  Texts = {t1}
  NoTexts = t1
  NewRow <- MCNewRow
  Cookies = {}
  Categories = {g1}
  Details = {d1}
  Entries = {e1, e2}
  Inherit = Inherit
  Nobody = Nobody
  Unread = Unread
  MaxEdits = 2
  MaxRequests = 4
CHECK_DEADLOCK FALSE
INVARIANTS
  SavedRulesCanBePublished
