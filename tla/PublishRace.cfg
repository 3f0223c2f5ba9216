\* Two sessions at two sites; two saves between the steps of a request.
SPECIFICATION FairSpec
CONSTANTS
  Sites = {s1, s2}
  Users = {u1, u2}
  Fields = {}
  Values = {v1}
  Texts = {t1, t2}
  NoTexts = t1
  NewRow <- MCNewRow
  Cookies = {}
  Categories = {g1}
  Details = {d1}
  Entries = {e1}
  Inherit = Inherit
  Nobody = Nobody
  Unread = Unread
  MaxEdits = 2
  MaxRequests = 3
CHECK_DEADLOCK FALSE
INVARIANTS
  RollbackCopiesOwn
PROPERTIES
  PublishedAsReviewed
  RequestsEnd
