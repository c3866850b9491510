SPECIFICATION Spec
CONSTANTS
  Sessions = {s1, s2}
  Machines = {m1}
  Repos = {r1}
  Files = {f1}
  Hashes = {h1}
  EmptyHash = h0
  NoHash = nohash
  NoRepo = norepo
  StartRepos = {r1}
  NoRow = norow
  NoJob = nojob
  MaxEvents = 2
  MaxLosses = 1
INVARIANTS TypeOK ForeignKeysMet BatchesWhole AnchorsHaveBlobs AckedIsStored
PROPERTY ImplementsLog
SYMMETRY Symmetry
