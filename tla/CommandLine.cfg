\* Two shells with builds of two and of three migrations.
CONSTANTS
  p1 = p1
  p2 = p2
  acct1 = acct1
  acct2 = acct2
  site = site
  set = set
  unset = unset
  Proc = {p1, p2}
  NoProc = NoProc
  Build <- MCBuild
  Account = {acct1}
  Site = {site}
  Var = {set, unset}
  Absent = Absent
  Documents <- MCDocuments
  Environ = {set}
  KeyVar = KeyVar
SPECIFICATION Spec
INVARIANTS
  TypeOK
  StatementsFindTheirTables
PROPERTIES
  SignInKept
  CheckMeansSendable
  Exit0MeansDone
  RefusedChangesLittle
VIEW Distinct
