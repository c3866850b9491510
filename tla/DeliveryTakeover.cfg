SPECIFICATION FairSpec
CONSTANTS
  Procs = {p1, p2}
  Slots = {s1, s2}
  Late = late
  NoPost = nopost
  NoFile = nofile
  BatchMax = 2
  SpoolCap = 2
  MaxSeq = 1
  MaxFiles = 2
  MaxRunning = 2
  MaxFaults = 2
  FaultPaths = {"batch"}
  UrlChoices = {TRUE}
  MayPause = FALSE
  MayExit = FALSE
  MayCrash = TRUE
CHECK_DEADLOCK FALSE
PROPERTIES DeletedOnlyOnAck SpoolDrains
