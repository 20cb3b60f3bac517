\* Two documents, one running job, and a user who answers a question before the next.
CONSTANTS
  d1 = d1
  d2 = d2
  j1 = j1
  Docs = {d1, d2}
  Jobs = {j1}
  MaxClock = 4
  Patient = TRUE
  None = None
SYMMETRY Sym
SPECIFICATION Spec
INVARIANTS TypeOK EditsKept OutsideKept
CHECK_DEADLOCK FALSE
