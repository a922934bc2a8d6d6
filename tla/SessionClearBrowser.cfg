\* session clear does not take the profile lock.
CONSTANTS
  Proc = {p1, p2, p3}
  NoProc = NoProc
  NoExport = NoExport
  Empty = Empty
  Broken = Broken
  MaxSignIns = 2
SPECIFICATION Spec
INVARIANT BrowserKeepsProfile
\* Every process runs one command.
SYMMETRY Symmetry
CHECK_DEADLOCK FALSE
