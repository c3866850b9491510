SPECIFICATION Spec
CONSTANTS
  Blank = ""
  Buffers = {b1}
  Paths = {p1, p2}
  NoName = noname
  Slots = {s1}
  Instances <- All
  NoLines = nolines
  Corrupt = corrupt
  NoUpload = noupload
INVARIANTS TypeOK ReplayExact RowCountExact
SYMMETRY Symmetry
