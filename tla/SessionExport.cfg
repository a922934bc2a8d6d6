\* Saves, loads and deletes of one account, four at a time.
CONSTANTS
  Proc = {p1, p2, p3, p4}
  Inode = {i1, i2, i3, i4, i5}
  NoFile = NoFile
  NoData = NoData
  Blocks = 2
SPECIFICATION Spec
INVARIANTS
  TypeOK
  ExportIsLastSave
  LoadIsWhole
  QuietExportIsFull
\* Every process makes one call.
CHECK_DEADLOCK FALSE
SYMMETRY Symmetry
