SPECIFICATION Spec
CONSTANTS
  Runs = {g1, g2}
  SizeA = 1
  SizeB = 2
  MaxStates = 4
  Tokens = {1}
  Prices = {2, 3}
  Peak = 2
  FirstEstimate = 3
  SpendCap = 15
  ExampleCap = 3
  Attempts = 2
  MaxStarts = 3
  MaxUnrecorded = 12
SYMMETRY Symmetry
INVARIANTS TypeOK RecordedWithinCap BillCovered
PROPERTY RestartKeepsBudget
CHECK_DEADLOCK FALSE
