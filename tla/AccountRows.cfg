\* Three commands and a config that is edited among four contents.
CONSTANTS
  Proc = {p1, p2, p3}
  NoProc = NoProc
  uk = uk
  us = us
  asos = asos
  fp = fp
  Account = {uk, us}
  Site = {asos, fp}
  Absent = Absent
  Configs <- MCConfigs
SPECIFICATION Spec
INVARIANTS
  TypeOK
  SwitchesOfOneConfig
PROPERTY RefinesRoster
\* Every process runs one command, but the config can always be edited.
