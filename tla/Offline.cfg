SPECIFICATION Spec
CONSTANTS
  Cases = {1, 2, 3}
  BatchCosts = {0, 2}
  BatchEstimate = 1
  AuthorCap = 4
  BatchTries = 2
  MaxAuthors = 2
  Weights = {m1, m2}
  Pools = {1, 2}
  MaxRuns = 2
  MaxScores = 1
  MaxFailures = 1
  NoFile = nofile
  Torn = torn
  Check <- Checks
  Outcomes <- Ended
  Paths = {p1, p2}
  Inserted <- InsertedTexts
  Snapshots <- SnapshotTexts
  Messages <- MessageTexts
  Completions = {"c1"}
  MaxBytes = 6
  MaxEvents = 4
  NoPath = nopath
  Blank = ""
  Lines = {"", "a"}
  MaxLines = 3
  MaxDeltas = 2
  MaxMismatches = 0
  Context = 1
  MaxGlyphs = 3
  MaxScript = 5
  MaxText = 3
  MaxFillers = 4
\* Every tool ends.
CHECK_DEADLOCK FALSE
SYMMETRY Symmetry
INVARIANTS OfflineTypeOK OneSource ReadyIsWhole ScoreEarned FaithfulVerifies RoundTrip RegionAligned HunksReachChild ScoringExact NeedleNearest
