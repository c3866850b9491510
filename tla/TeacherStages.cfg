SPECIFICATION Spec
CONSTANTS
  Runs = {g1}
  SizeA = 1
  SizeB = 2
  MaxStates = 4
  Tokens = {1}
  Prices = {1}
  Peak = 1
  FirstEstimate = 1
  SpendCap = 27
  ExampleCap = 9
  Attempts = 2
  MaxStarts = 1
  MaxUnrecorded = 4
INVARIANT HealthyBBeforeC
CHECK_DEADLOCK FALSE
