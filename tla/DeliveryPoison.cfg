SPECIFICATION FairSpec
CONSTANTS
  Procs = {p1}
  Slots = {s1, s2}
  Late = late
  NoPost = nopost
  NoFile = nofile
  BatchMax = 2
  SpoolCap = 4
  MaxSeq = 3
  MaxFiles = 4
  MaxRunning = 1
  MaxFaults = 2
  FaultPaths = {"start"}
  UrlChoices = {TRUE}
  MayPause = FALSE
  MayExit = FALSE
  MayCrash = FALSE
CHECK_DEADLOCK FALSE
PROPERTY SpoolDrains
