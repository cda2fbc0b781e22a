\* Two rows, batches of one entry, three entries, two deliveries of a row.
SPECIFICATION Spec
CONSTANTS
  Records = {r1, r2}
  BatchSize = 1
  MaxEntries = 3
  r1 = r1
  r2 = r2
  MaxDeliveries <- TwiceAndOnce
INVARIANTS
  NobodyForgotten
  OverrideStands
  PassIsComplete
PROPERTIES
  DecidedIsNotSwept
  EntryDecidedOnce
CHECK_DEADLOCK FALSE
