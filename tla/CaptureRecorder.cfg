\* Three responses and a cap of two exchanges.
CONSTANTS
  Response = {r1, r2, r3}
  MaxExchanges = 2
SPECIFICATION Spec
INVARIANTS
  TypeOK
  CapPassedByOverlapOnly
  CompleteUnlessCutOff
\* The command ends.
CHECK_DEADLOCK FALSE
SYMMETRY Symmetry
