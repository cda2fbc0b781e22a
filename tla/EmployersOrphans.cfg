SPECIFICATION Spec
CONSTANTS
  Workers = {w1}
  Rows = {a, b}
  Names = {A, B}
  a = a
  b = b
  A = A
  B = B
  formed = formed
  odd = odd
  NoFein = NoFein
  NameOf <- Spelling
  RowsOf <- Stateless
  FeinOf <- TwoFeins
  ValidFeins = {formed}
  Alike <- Reflexive
  Near <- Everything
  Confident = {b}
  Batch = 2
  Deliveries <- TwiceAndOnce
  MaxCanon = 2
  MaxErrors = 1
PROPERTY
  BackfillLeavesNoOrphan
CHECK_DEADLOCK FALSE
