\* Four commands open the store and use the account's export.
CONSTANTS
  Proc = {p1, p2, p3, p4}
  EnvKey = EnvKey
  NotAKey = NotAKey
  NoKey = NoKey
SPECIFICATION Spec
INVARIANTS
  TypeOK
  ExportHasItsKey
  UndecryptableMeansEnvironment
\* Every process runs one command.
CHECK_DEADLOCK FALSE
