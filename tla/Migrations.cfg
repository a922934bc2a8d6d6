\* Three commands of any of four builds open one database.
CONSTANTS
  Proc = {p1, p2, p3}
  NoProc = NoProc
  a = a
  b = b
  c = c
  d = d
  Text <- MCText
  NoText = NoText
  MaxVersion = 3
  Builds <- MCBuilds
SPECIFICATION Spec
INVARIANTS
  TypeOK
  SchemaMatchesLog
  DoneMeansMigrated
PROPERTY RefinesSchemaLog
\* Every process opens the database once.
CHECK_DEADLOCK FALSE
