\* A save lands between the read of a request and its flush.
SPECIFICATION ClassificationSpec
CONSTANTS
  c1 = c1
  c2 = c2
  x = x
  Names = {c1, c2}
  Own = {c2}
  Categories = {x, n}
  Necessary = n
  None = None
  Rules <- MCRules
  MaxChanges = 1
  Letters = {a, b}
  Star = star
  MaxLength = 4
CHECK_DEADLOCK FALSE
PROPERTIES
  EditorsChoiceKept
