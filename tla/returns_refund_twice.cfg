\* One request after another.
SPECIFICATION Spec
CONSTANTS
  i1 = i1
  i2 = i2
  q1 = q1
  t1 = t1
  t2 = t2
  Requests = {q1}
  Items = {i1, i2}
  Subtotal <- MCSubtotal
  Total = 5
  Tolerance = 1
  ReturnIds = {t1, t2}
  AdminTargets = {"completed", "returned"}
  MaxRefunds = 2
SYMMETRY Symmetry
INVARIANTS RefundedOnce
CHECK_DEADLOCK FALSE
