\* Two requests at a time of any kind, two returns, each may die at any step.
SPECIFICATION Spec
CONSTANTS
  i1 = i1
  i2 = i2
  q1 = q1
  q2 = q2
  t1 = t1
  t2 = t2
  Requests = {q1, q2}
  Items = {i1, i2}
  Subtotal <- MCSubtotal
  Total = 5
  Tolerance = 1
  ReturnIds = {t1, t2}
  AdminTargets = {"completed", "returned"}
  MaxRefunds = 1
SYMMETRY Symmetry
INVARIANTS TypeOK RecordedWithinTotal BooksAreBacked FlaggedItemHasReturn
CHECK_DEADLOCK FALSE
