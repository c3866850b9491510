SPECIFICATION Spec
CONSTANTS
  Procs = {p1}
  Slots = {s1, s2}
  Late = late
  NoPost = nopost
  NoFile = nofile
  BatchMax = 2
  SpoolCap = 1
  MaxSeq = 3
  MaxFiles = 4
  MaxRunning = 1
  MaxFaults = 2
  FaultPaths = {"start", "batch", "end"}
  UrlChoices = {TRUE, FALSE}
  MayPause = TRUE
  MayExit = TRUE
  MayCrash = TRUE
CHECK_DEADLOCK FALSE
INVARIANTS TypeOK Accounting
PROPERTY ImplementsStore
SYMMETRY Symmetry
