SPECIFICATION Spec
CONSTANTS
  Pages = {p, q}
  Values = {u, v}
  Scale = 2
  MaxBuilds = 2
  MaxErrors = 1
SYMMETRY Swap
INVARIANTS
  TextIsOwn
  RunIsComplete
CHECK_DEADLOCK FALSE
