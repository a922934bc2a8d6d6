\* The profile lock, three commands on one account.
CONSTANTS
  Proc = {p1, p2, p3}
  NoProc = NoProc
SPECIFICATION LiveSpec
INVARIANTS
  TypeOK
  NoteNamesHolder
  NamesHolderUnlessDied
PROPERTIES
  RefinesMutex
  EveryAttemptEnds
\* Every process ends its single attempt.
CHECK_DEADLOCK FALSE
