CONSTANTS
  n1 = n1
  n2 = n2
  n3 = n3
  n4 = n4
  e1 = e1
  e2 = e2
  e3 = e3
  v1 = v1
  v2 = v2
  la = la
  lb = lb
  lc = lc
  head = head
  NULL = NULL
  Dangling = Dangling
  Lists = {la, lb}
  Cells = {n1, n2, n3, n4}
  Values = {v1, v2}
  Elems = {e1, e2, e3}
  Head_ = head
  Heads = {la, lb, lc}
  Entries = {e1, e2, e3}
SPECIFICATION MCSpec
INVARIANTS WellLinked LookupsAgree IterationComplete
PROPERTIES IsSequence DupAllOrNothing
SYMMETRY Symmetry
\* a listDup without its iterator ends the program
CHECK_DEADLOCK FALSE
