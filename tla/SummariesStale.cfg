SPECIFICATION Spec
CONSTANTS
  Pages = {p, q}
  Values = {u, v}
  Scale = 2
  MaxBuilds = 2
  MaxErrors = 0
INVARIANT
  UnchangedIsUnchanged
CHECK_DEADLOCK FALSE
