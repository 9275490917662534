SPECIFICATION FairSpec
CONSTANTS
  r1 = r1
  r2 = r2
  Rows = {r1, r2}
  BatchSize = 2
  Unsure = TRUE
  MaxRows = 4
  MaxTable = 7
INVARIANTS KeptInOrder
PROPERTIES PipePromise EveryRowArrives
CHECK_DEADLOCK FALSE
