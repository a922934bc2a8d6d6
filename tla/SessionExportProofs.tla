------------------------- MODULE SessionExportProofs -------------------------
(***************************************************************************)
(* Proofs about SessionExport, for any number of processes, inodes and     *)
(* blocks.                                                                 *)
(*                                                                         *)
(* Two facts carry the argument.  An inode that a reader has open, or that *)
(* is the export, is never the temporary file (NamesDiffer, ReaderApart):  *)
(* an inode gets the temporary name only while nothing refers to it.  And  *)
(* while saves do not overlap, the one writer writes to the temporary file *)
(* only (WriterHasTemp).  So no write touches what a load may see, and     *)
(* what the rename publishes is complete.                                  *)
(***************************************************************************)
EXTENDS SessionExport, TLAPS

NamesDiffer == temp # NoFile => temp # path

OpenOnlyWhile ==
  \A p \in Proc : fd[p] # NoFile <=> pc[p] \in {"writing", "reading"}

NothingFilledYet ==
  \A p \in Proc : pc[p] \in {"start", "touched"} => filled[p] = 0

ReaderApart == \A p \in Proc : pc[p] = "reading" => fd[p] # temp

OneSaver ==
  ~overlap => \A p, q \in Proc : pc[p] \in Saving /\ pc[q] \in Saving => p = q

WriterHasTemp ==
  ~overlap =>
    \A p \in Proc :
      pc[p] = "writing" =>
        /\ fd[p] = temp
        /\ \A b \in Block : b <= filled[p] => data[temp][b] = p

ReaderHasWhole ==
  ~overlap =>
    \A p \in Proc : pc[p] = "reading" => \E q \in Proc : data[fd[p]] = Session(q)

IInv ==
  /\ TypeOK
  /\ NamesDiffer /\ OpenOnlyWhile /\ NothingFilledYet /\ ReaderApart
  /\ OneSaver /\ WriterHasTemp /\ ReaderHasWhole
  /\ ExportIsLastSave /\ LoadIsWhole

-----------------------------------------------------------------------------
LEMMA BlankContent == Blank \in Content
  BY DEF Blank, Content

\* The initial states satisfy the invariant: there is no file.
LEMMA InitIInv == Init => IInv
<1> SUFFICES ASSUME Init PROVE IInv
  OBVIOUS
<1>1. TypeOK
  <2>1. 0 \in 0 .. Blocks
    BY BlocksAssumption
  <2>2. QED
    BY <2>1, BlankContent DEF Init, TypeOK
<1>2. NamesDiffer /\ OpenOnlyWhile /\ NothingFilledYet /\ ReaderApart
  BY DEF Init, NamesDiffer, OpenOnlyWhile, NothingFilledYet, ReaderApart
<1>3. OneSaver /\ WriterHasTemp /\ ReaderHasWhole
  BY DEF Init, OneSaver, WriterHasTemp, ReaderHasWhole, Saving
<1>4. ExportIsLastSave /\ LoadIsWhole
  BY DEF Init, ExportIsLastSave, LoadIsWhole
<1>5. QED
  BY <1>1, <1>2, <1>3, <1>4 DEF IInv

\* Every step of save, load and delete keeps the invariant.
LEMMA NextIInv == IInv /\ [Next]_vars => IInv'
<1> USE BlocksAssumption, NoFileAssumption, NoDataAssumption, BlankContent
    DEF TypeOK, Saving, Over, Goto
<1> SUFFICES ASSUME IInv, [Next]_vars PROVE IInv'
  OBVIOUS
<1>inv. /\ TypeOK
        /\ NamesDiffer /\ OpenOnlyWhile /\ NothingFilledYet /\ ReaderApart
        /\ OneSaver /\ WriterHasTemp /\ ReaderHasWhole
        /\ ExportIsLastSave /\ LoadIsWhole
  BY DEF IInv
<1>1. CASE UNCHANGED vars
  BY <1>1, <1>inv
  DEF vars, IInv, NamesDiffer, OpenOnlyWhile, NothingFilledYet, ReaderApart,
      OneSaver, WriterHasTemp, ReaderHasWhole, ExportIsLastSave, LoadIsWhole
<1>2. ASSUME NEW p \in Proc, Touch(p) PROVE IInv'
  <2>1. TypeOK' /\ NothingFilledYet' /\ OpenOnlyWhile'
    BY <1>2, <1>inv DEF Touch, NothingFilledYet, OpenOnlyWhile
  \* A new temporary file is an inode that nothing refers to.
  <2>2. NamesDiffer' /\ ReaderApart'
    BY <1>2, <1>inv DEF Touch, InUse, NamesDiffer, ReaderApart
  <2>3. OneSaver'
    BY <1>2, <1>inv DEF Touch, OneSaver
  <2>4. \A i \in Inode : data'[i] = data[i] \/ ~InUse(i)
    BY <1>2, <1>inv DEF Touch
  <2>5. WriterHasTemp'
    BY <1>2, <1>inv DEF Touch, WriterHasTemp
  <2>6. ReaderHasWhole'
    <3>1. ASSUME NEW q \in Proc, pc'[q] = "reading"
          PROVE  fd'[q] = fd[q] /\ pc[q] = "reading" /\ data'[fd[q]] = data[fd[q]]
      BY <1>2, <1>inv, <2>4, <3>1 DEF Touch, InUse, OpenOnlyWhile
    <3>2. ~overlap' => ~overlap
      BY <1>2, <1>inv DEF Touch
    <3>3. QED
      BY <1>inv, <3>1, <3>2 DEF ReaderHasWhole
  <2>7. ExportIsLastSave' /\ LoadIsWhole'
    BY <1>2, <1>inv, <2>4
    DEF Touch, InUse, ExportIsLastSave, LoadIsWhole
  <2>8. QED
    BY <2>1, <2>2, <2>3, <2>5, <2>6, <2>7 DEF IInv
<1>3. ASSUME NEW p \in Proc, Open(p) PROVE IInv'
  <2>1. TypeOK' /\ NothingFilledYet' /\ OpenOnlyWhile'
    BY <1>3, <1>inv DEF Open, NothingFilledYet, OpenOnlyWhile
  <2>2. NamesDiffer' /\ ReaderApart'
    BY <1>3, <1>inv DEF Open, InUse, NamesDiffer, ReaderApart
  <2>3. OneSaver'
    BY <1>3, <1>inv DEF Open, OneSaver
  \* p is the only writer, and it has not written yet.
  <2>4. WriterHasTemp'
    BY <1>3, <1>inv
    DEF Open, OneSaver, NothingFilledYet, WriterHasTemp, Block
  \* What is emptied is the temporary file, which is neither of these.
  <2>5. ReaderHasWhole'
    <3>1. ASSUME NEW q \in Proc, pc'[q] = "reading"
          PROVE  fd'[q] = fd[q] /\ pc[q] = "reading" /\ data'[fd[q]] = data[fd[q]]
      BY <1>3, <1>inv, <3>1 DEF Open, InUse, OpenOnlyWhile, ReaderApart
    <3>2. ~overlap' => ~overlap
      BY <1>3, <1>inv DEF Open
    <3>3. QED
      BY <1>inv, <3>1, <3>2 DEF ReaderHasWhole
  <2>6. ExportIsLastSave'
    BY <1>3, <1>inv DEF Open, InUse, NamesDiffer, ExportIsLastSave
  <2>7. LoadIsWhole'
    BY <1>3, <1>inv DEF Open, LoadIsWhole
  <2>8. QED
    BY <2>1, <2>2, <2>3, <2>4, <2>5, <2>6, <2>7 DEF IInv
<1>4. ASSUME NEW p \in Proc, Write(p) PROVE IInv'
  <2>1. fd[p] \in Inode
    BY <1>4, <1>inv DEF Write, OpenOnlyWhile
  <2>2. /\ TypeOK' /\ NamesDiffer' /\ OpenOnlyWhile' /\ NothingFilledYet'
        /\ ReaderApart' /\ OneSaver'
    BY <1>4, <1>inv, <2>1
    DEF Write, NamesDiffer, OpenOnlyWhile, NothingFilledYet, ReaderApart,
        OneSaver, Block, Content
  <2>3. WriterHasTemp'
    BY <1>4, <1>inv, <2>1 DEF Write, OneSaver, WriterHasTemp, Block, Content
  \* Only the temporary file changes.
  <2>4. ~overlap => \A i \in Inode : i # temp => data'[i] = data[i]
    BY <1>4, <1>inv DEF Write, WriterHasTemp
  <2>5. ReaderHasWhole'
    BY <1>4, <1>inv, <2>4
    DEF Write, OpenOnlyWhile, ReaderApart, ReaderHasWhole
  <2>6. ExportIsLastSave' /\ LoadIsWhole'
    BY <1>4, <1>inv, <2>4
    DEF Write, NamesDiffer, ExportIsLastSave, LoadIsWhole
  <2>7. QED
    BY <2>2, <2>3, <2>5, <2>6 DEF IInv
<1>5. ASSUME NEW p \in Proc, Replace(p) PROVE IInv'
  <2>1. /\ TypeOK' /\ NamesDiffer' /\ OpenOnlyWhile' /\ NothingFilledYet'
        /\ ReaderApart' /\ OneSaver'
    BY <1>5, <1>inv
    DEF Replace, NamesDiffer, OpenOnlyWhile, NothingFilledYet, ReaderApart, OneSaver
  <2>2. WriterHasTemp' /\ ReaderHasWhole' /\ LoadIsWhole'
    BY <1>5, <1>inv
    DEF Replace, OneSaver, WriterHasTemp, ReaderHasWhole, LoadIsWhole
  \* All of p's blocks are in the file that gets the export's name.
  <2>3. ExportIsLastSave'
    <3>1. ~overlap => temp \in Inode /\ data[temp] = Session(p)
      BY <1>5, <1>inv DEF Replace, OpenOnlyWhile, WriterHasTemp, Session, Block, Content
    <3>2. QED
      BY <1>5, <1>inv, <3>1 DEF Replace, ExportIsLastSave
  <2>4. QED
    BY <2>1, <2>2, <2>3 DEF IInv
<1>6. ASSUME NEW p \in Proc, OpenExport(p) PROVE IInv'
  <2>1. TypeOK' /\ NamesDiffer' /\ OpenOnlyWhile' /\ NothingFilledYet' /\ OneSaver'
    BY <1>6, <1>inv
    DEF OpenExport, NamesDiffer, OpenOnlyWhile, NothingFilledYet, OneSaver
  <2>2. ReaderApart'
    BY <1>6, <1>inv DEF OpenExport, NamesDiffer, ReaderApart
  <2>3. WriterHasTemp' /\ ExportIsLastSave' /\ LoadIsWhole'
    BY <1>6, <1>inv
    DEF OpenExport, WriterHasTemp, ExportIsLastSave, LoadIsWhole
  \* The export p opens is the last save's session.
  <2>4. ReaderHasWhole'
    <3>1. CASE pc'[p] = "reading"
      <4>1. ~overlap => last \in Proc /\ data[path] = Session(last)
        BY <1>6, <1>inv, <3>1 DEF OpenExport, ExportIsLastSave
      <4>2. QED
        BY <1>6, <1>inv, <4>1 DEF OpenExport, ReaderHasWhole
    <3>2. CASE pc'[p] # "reading"
      BY <1>6, <1>inv, <3>2 DEF OpenExport, ReaderHasWhole
    <3>3. QED
      BY <3>1, <3>2
  <2>5. QED
    BY <2>1, <2>2, <2>3, <2>4 DEF IInv
<1>7. ASSUME NEW p \in Proc, Read(p) PROVE IInv'
  <2>1. fd[p] \in Inode
    BY <1>7, <1>inv DEF Read, OpenOnlyWhile
  <2>2. /\ TypeOK' /\ NamesDiffer' /\ OpenOnlyWhile' /\ NothingFilledYet'
        /\ ReaderApart' /\ OneSaver'
    BY <1>7, <1>inv, <2>1
    DEF Read, NamesDiffer, OpenOnlyWhile, NothingFilledYet, ReaderApart, OneSaver
  <2>3. WriterHasTemp' /\ ReaderHasWhole' /\ ExportIsLastSave'
    BY <1>7, <1>inv
    DEF Read, WriterHasTemp, ReaderHasWhole, ExportIsLastSave
  <2>4. LoadIsWhole'
    <3>1. ~overlap => \E q \in Proc : loaded'[p] = Session(q)
      BY <1>7, <1>inv, <2>1 DEF Read, ReaderHasWhole
    <3>2. QED
      BY <1>7, <1>inv, <3>1 DEF Read, LoadIsWhole
  <2>5. QED
    BY <2>2, <2>3, <2>4 DEF IInv
<1>8. ASSUME NEW p \in Proc, Delete(p) \/ Die(p) PROVE IInv'
  <2>1. /\ TypeOK' /\ NamesDiffer' /\ OpenOnlyWhile' /\ NothingFilledYet'
        /\ ReaderApart' /\ OneSaver'
    BY <1>8, <1>inv
    DEF Delete, Die, NamesDiffer, OpenOnlyWhile, NothingFilledYet, ReaderApart,
        OneSaver
  <2>2. WriterHasTemp' /\ ReaderHasWhole'
    BY <1>8, <1>inv DEF Delete, Die, WriterHasTemp, ReaderHasWhole
  <2>3. ExportIsLastSave' /\ LoadIsWhole'
    BY <1>8, <1>inv DEF Delete, Die, ExportIsLastSave, LoadIsWhole
  <2>4. QED
    BY <2>1, <2>2, <2>3 DEF IInv
<1>9. QED
  BY <1>1, <1>2, <1>3, <1>4, <1>5, <1>6, <1>7, <1>8 DEF Next

LEMMA SpecIInv == Spec => []IInv
  BY InitIInv, NextIInv, PTL DEF Spec

-----------------------------------------------------------------------------
\* Every variable keeps its type.
THEOREM TypeCorrect == Spec => []TypeOK
  BY SpecIInv, PTL DEF IInv

\* Without overlapping saves the export is, at every moment, the complete
\* session of the save that renamed last, whatever died (store.py:170-178).
THEOREM ExportComplete == Spec => []ExportIsLastSave
  BY SpecIInv, PTL DEF IInv

\* Without overlapping saves a load that races them reads one save's session
\* and never a mixture (store.py:180-194).
THEOREM LoadComplete == Spec => []LoadIsWhole
  BY SpecIInv, PTL DEF IInv

-----------------------------------------------------------------------------
(* Saves that overlap, and nobody who dies.                                *)

\* A save that will still fill block b of the file in inode i, or start on a file
\* of its own.
WillFill(i, b) ==
  \E p \in Proc :
    \/ pc[p] = "touched"
    \/ pc[p] = "writing" /\ fd[p] = i /\ filled[p] < b

\* As long as nobody has died, a block that is missing will be filled, or a save
\* that is under way will put another file in the place of this one.
FillInv ==
  (\A p \in Proc : pc[p] # "dead") =>
    \A b \in Block :
      /\ temp # NoFile /\ data[temp][b] = NoData => WillFill(temp, b)
      /\ path # NoFile /\ data[path][b] = NoData =>
           \/ WillFill(path, b)
           \/ temp # NoFile /\ \E p \in Proc : pc[p] = "writing" /\ fd[p] = temp

LEMMA NextFillInv == IInv /\ FillInv /\ [Next]_vars => FillInv'
<1> SUFFICES ASSUME IInv, FillInv, [Next]_vars,
                    \A p \in Proc : pc'[p] # "dead", NEW b \in Block
             PROVE  /\ temp' # NoFile /\ data'[temp'][b] = NoData => WillFill(temp, b)'
                    /\ path' # NoFile /\ data'[path'][b] = NoData =>
                         \/ WillFill(path, b)'
                         \/ /\ temp' # NoFile
                            /\ \E p \in Proc : pc'[p] = "writing" /\ fd'[p] = temp'
  BY DEF FillInv
<1> USE BlocksAssumption, NoFileAssumption, NoDataAssumption
    DEF Block, Goto, InUse, Saving
<1>typ. /\ TypeOK /\ NamesDiffer /\ OpenOnlyWhile /\ NothingFilledYet
  BY DEF IInv
<1>old. /\ temp # NoFile /\ data[temp][b] = NoData => WillFill(temp, b)
        /\ path # NoFile /\ data[path][b] = NoData =>
             \/ WillFill(path, b)
             \/ temp # NoFile /\ \E p \in Proc : pc[p] = "writing" /\ fd[p] = temp
  <2>1. \A p \in Proc : pc[p] # "dead"
    BY <1>typ DEF vars, Next, Touch, Open, Write, Replace, OpenExport, Read, Delete,
                  Die, TypeOK
  <2> QED BY <2>1 DEF FillInv
<1>1. CASE UNCHANGED vars
  BY <1>1, <1>old DEF vars, WillFill
<1>2. ASSUME NEW p \in Proc, Touch(p)
      PROVE  WillFill(temp, b)' /\ WillFill(path, b)'
  BY <1>2, <1>typ DEF Touch, TypeOK, WillFill
<1>3. ASSUME NEW p \in Proc, Open(p)
      PROVE  /\ WillFill(temp, b)'
             /\ temp' # NoFile /\ \E q \in Proc : pc'[q] = "writing" /\ fd'[q] = temp'
  BY <1>3, <1>typ DEF Open, TypeOK, WillFill, NothingFilledYet
<1>4. ASSUME NEW p \in Proc, Write(p)
      PROVE  /\ temp' # NoFile /\ data'[temp'][b] = NoData => WillFill(temp, b)'
             /\ path' # NoFile /\ data'[path'][b] = NoData =>
                  \/ WillFill(path, b)'
                  \/ /\ temp' # NoFile
                     /\ \E q \in Proc : pc'[q] = "writing" /\ fd'[q] = temp'
  <2>1. /\ pc' = pc /\ temp' = temp /\ path' = path /\ fd' = fd
        /\ fd[p] \in Inode /\ filled[p] + 1 \in Block /\ filled[p] \in Nat
        /\ filled' = [filled EXCEPT ![p] = filled[p] + 1]
        /\ data' = [data EXCEPT ![fd[p]][filled[p] + 1] = p]
        /\ filled \in [Proc -> 0 .. Blocks] /\ data \in [Inode -> Content]
        /\ temp \in Inode \cup {NoFile} /\ path \in Inode \cup {NoFile}
    BY <1>4, <1>typ DEF Write, TypeOK, OpenOnlyWhile
  <2>2. \A i \in Inode : data'[i][b] = NoData /\ WillFill(i, b) =>
          data[i][b] = NoData /\ WillFill(i, b)'
    BY <2>1 DEF WillFill, Content
  <2>3. \A i \in Inode : data'[i][b] = NoData => data[i][b] = NoData
    BY <2>1 DEF Content
  <2> QED BY <1>old, <2>1, <2>2, <2>3 DEF WillFill
<1>5. ASSUME NEW p \in Proc, Replace(p)
      PROVE  /\ temp' # NoFile /\ data'[temp'][b] = NoData => WillFill(temp, b)'
             /\ path' # NoFile /\ data'[path'][b] = NoData =>
                  \/ WillFill(path, b)'
                  \/ /\ temp' # NoFile
                     /\ \E q \in Proc : pc'[q] = "writing" /\ fd'[q] = temp'
  <2>1. /\ temp' = NoFile /\ data' = data /\ filled' = filled
        /\ pc[p] = "writing" /\ filled[p] = Blocks
        /\ \A q \in Proc \ {p} : pc'[q] = pc[q] /\ fd'[q] = fd[q]
    BY <1>5, <1>typ DEF Replace, TypeOK
  <2>2. \A i \in Inode : WillFill(i, b) => \E q \in Proc :
          \/ pc'[q] = "touched"
          \/ pc'[q] = "writing" /\ fd'[q] = i /\ filled'[q] < b
    BY <2>1, <1>typ DEF WillFill, TypeOK
  <2>3. CASE temp = NoFile
    BY <1>5, <1>typ, <1>old, <2>1, <2>2, <2>3 DEF Replace, WillFill, TypeOK
  <2>4. CASE temp # NoFile
    BY <1>5, <1>typ, <1>old, <2>1, <2>2, <2>4 DEF Replace, WillFill, TypeOK
  <2> QED BY <2>3, <2>4
<1>6. ASSUME NEW p \in Proc, OpenExport(p) \/ Read(p)
      PROVE  /\ temp' # NoFile /\ data'[temp'][b] = NoData => WillFill(temp, b)'
             /\ path' # NoFile /\ data'[path'][b] = NoData =>
                  \/ WillFill(path, b)'
                  \/ /\ temp' # NoFile
                     /\ \E q \in Proc : pc'[q] = "writing" /\ fd'[q] = temp'
  <2>1. /\ temp' = temp /\ path' = path /\ data' = data /\ filled' = filled
        /\ pc[p] \in {"start", "reading"}
        /\ \A q \in Proc \ {p} : pc'[q] = pc[q] /\ fd'[q] = fd[q]
    BY <1>6, <1>typ DEF OpenExport, Read, TypeOK
  <2> QED BY <1>old, <2>1 DEF WillFill
<1>7. ASSUME NEW p \in Proc, Delete(p)
      PROVE  /\ temp' # NoFile /\ data'[temp'][b] = NoData => WillFill(temp, b)'
             /\ path' = NoFile
  BY <1>7, <1>typ, <1>old DEF Delete, WillFill, TypeOK
<1>8. ASSUME NEW p \in Proc, Die(p) PROVE FALSE
  BY <1>8, <1>typ DEF Die, TypeOK
<1> QED
  BY <1>1, <1>2, <1>3, <1>4, <1>5, <1>6, <1>7, <1>8 DEF Next

\* Saves that overlap never leave a truncated export behind without a kill or a
\* failed write, whatever the order of their steps (store.py:170-178).
THEOREM QuietIsFull == Spec => []QuietExportIsFull
<1>1. Init => FillInv
  BY DEF Init, FillInv
<1>2. FillInv => QuietExportIsFull
  BY DEF FillInv, QuietExportIsFull, WillFill, Saving
<1> QED BY <1>1, <1>2, NextFillInv, SpecIInv, PTL DEF Spec

-----------------------------------------------------------------------------
(* SessionExport implements ExportStore.                                   *)

\* Without overlap, a load would find what the last rename put there.
LEMMA ExportByLast ==
  ASSUME IInv, ~overlap
  PROVE  /\ last = NoData => Export = NoData
         /\ last # NoData => last \in Proc /\ Export = Session(last)
BY DEF IInv, TypeOK, ExportIsLastSave, Export

\* A step that leaves saves apart leaves what the last rename put there, unless
\* it is a rename or a delete itself.
LEMMA StoreStep ==
  ASSUME IInv, IInv', [Next]_vars
  PROVE  [Store!Next]_(Store!storeVars)
<1> USE DEF Store!Next, Store!storeVars
<1>1. CASE overlap'
  BY <1>1 DEF Store!Mix
<1>2. CASE ~overlap'
  <2>1. ~overlap
    BY <1>2 DEF IInv, TypeOK, Next, Touch, Open, Write, Replace, OpenExport, Read,
                Delete, Die, vars
  <2>2. /\ last = NoData => Export = NoData
        /\ last # NoData => Export = Session(last)
    BY <2>1, ExportByLast
  <2>3. /\ last' = NoData => Export' = NoData
        /\ last' # NoData => last' \in Proc /\ Export' = Session(last')
    BY <1>2 DEF IInv, TypeOK, ExportIsLastSave, Export, Session, Block
  <2>4. CASE last' = last
    BY <1>2, <2>1, <2>2, <2>3, <2>4
  <2>5. CASE last' = NoData
    BY <1>2, <2>1, <2>3, <2>5 DEF Store!Delete
  <2>6. CASE last' # NoData
    BY <1>2, <2>1, <2>3, <2>6 DEF Store!Save
  <2>7. QED
    BY <2>4, <2>5, <2>6
<1>3. QED
  BY <1>1, <1>2

\* The code implements the abstract store: as long as saves do not overlap, the
\* export changes by a whole save or a delete at once (store.py:170-178).
THEOREM Refinement == Spec => RefinesStore
<1>1. Init => Store!Init
  BY DEF Init, Store!Init, Export
<1>2. QED
  BY <1>1, StoreStep, SpecIInv, PTL DEF Spec, RefinesStore, Store!Spec
=============================================================================
