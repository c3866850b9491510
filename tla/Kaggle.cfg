SPECIFICATION Spec
CONSTANTS
  c = c
  shell = shell
  a = a
  b = b
  Repos = {r1, r2}
  Held = {r2}
  Languages <- LanguageOrder
  Core = {c}
  TrainBlocks <- Allotted
  MicroBlocks = 2
  BlockSize = 2
  Lengths = {1, 2, 3}
  MaxRows = 4
  MaxJobs = 2
  Eos = eos
  Matrix <- CandidateOrder
  PerUpdate <- UpdateSize
  Budget <- BlockBudget
  Overrides = {0, 2}
  MaxOverflows = 2
  LabSessions = 2
  MaxOrphans = 1
  Selections <- Selected
  Specs <- Configurations
  Workers <- WorkerCounts
  Rates <- LearningRates
  PerUpdateOf <- UpdateTokens
  Measures <- Measured
  Evaluations <- Evaluated
  BaseLoss = 3
  PilotRange <- PilotBounds
  PilotWindow = 3
  ProbeTokens = 4
  CorpusTokens = 9
  KernelStarts = 2
CHECK_DEADLOCK FALSE
INVARIANTS KaggleTypeOK BlocksArePrefix MarkerMeansWhole PassIsWhole FreshUnlessOrphan MainFromEvidence
PROPERTY LabMovesOn
