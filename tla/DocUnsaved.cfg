\* One document and a user who need not answer, for one claim of a comment.
CONSTANTS
  d1 = d1
  d2 = d2
  j1 = j1
  Docs = {d1}
  Jobs = {j1}
  MaxClock = 3
  Patient = FALSE
  None = None
SPECIFICATION Spec
PROPERTY WaysOutAsk
CHECK_DEADLOCK FALSE
