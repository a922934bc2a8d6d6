\* Two commands on an account whose site has an adapter or not: two logins whose saves
\* overlap, or one and a clear.
CONSTANTS
  Proc = {p1, p2}
  NoProc = NoProc
  NoExport = NoExport
  Empty = Empty
  Broken = Broken
  MaxSignIns = 2
SPECIFICATION LiveSpec
INVARIANTS
  TypeOK
  BrowserUnderLock
  RowMatchesExport
PROPERTIES
  ExportNeverOlder
  LoginReleasesProfile
\* Every process runs one command.
CHECK_DEADLOCK FALSE
