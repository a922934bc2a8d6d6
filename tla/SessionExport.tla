---------------------------- MODULE SessionExport ----------------------------
(***************************************************************************)
(* The exported session of one account (session/store.py): the file        *)
(* sessions/<account>.json.enc, written by SessionStore.save through a     *)
(* temporary file and a rename, read by load, removed by delete.           *)
(*                                                                         *)
(* The temporary name depends on the account only, so every save of the    *)
(* account goes through the same one.  What keeps two saves apart is       *)
(* nothing in this code: `login` saves after it gave the profile lock      *)
(* back.  The model has the file system's view of it: names, inodes, the   *)
(* descriptors open on them, and the blocks of a file, which a write fills *)
(* one after the other.                                                    *)
(***************************************************************************)
EXTENDS Naturals

CONSTANTS
  Proc,     \* processes; each saves, loads or deletes once
  Inode,    \* bound: the inodes the file system has to give
  NoFile,   \* a name that refers to nothing, a descriptor that is not open
  NoData,   \* content of a block that has not been written
  Blocks    \* bound: how many blocks an encrypted session has

ASSUME BlocksAssumption == Blocks \in Nat \ {0}
ASSUME NoFileAssumption == NoFile \notin Inode
ASSUME NoDataAssumption == NoData \notin Proc

VARIABLES
  pc,       \* pc[p]: the step of save or load p is at
  temp,     \* the inode <account>.json.tmp refers to
  path,     \* the inode <account>.json.enc refers to
  data,     \* data[i][b]: whose save filled block b of inode i
  fd,       \* fd[p]: the inode p has open
  filled,   \* filled[p]: how many blocks p has written
  loaded,   \* loaded[p]: the content load gave p
  last,     \* history: the save that renamed last, unless deleted since
  overlap   \* history: a save began while another one was under way

vars == <<pc, temp, path, data, fd, filled, loaded, last, overlap>>

-----------------------------------------------------------------------------
Block   == 1 .. Blocks
Content == [Block -> Proc \cup {NoData}]
Blank   == [b \in Block |-> NoData]

\* The session that process p encrypts.
Session(p) == [b \in Block |-> p]

Saving == {"touched", "writing"}
Over   == {"saved", "failed", "dead", "loaded", "nothing", "deleted"}

TypeOK ==
  /\ pc \in [Proc -> {"start", "reading"} \cup Saving \cup Over]
  /\ temp \in Inode \cup {NoFile}
  /\ path \in Inode \cup {NoFile}
  /\ data \in [Inode -> Content]
  /\ fd \in [Proc -> Inode \cup {NoFile}]
  /\ filled \in [Proc -> 0 .. Blocks]
  /\ loaded \in [Proc -> Content]
  /\ last \in Proc \cup {NoData}
  /\ overlap \in BOOLEAN

Init ==
  /\ pc = [p \in Proc |-> "start"]
  /\ temp = NoFile
  /\ path = NoFile
  /\ data = [i \in Inode |-> Blank]
  /\ fd = [p \in Proc |-> NoFile]
  /\ filled = [p \in Proc |-> 0]
  /\ loaded = [p \in Proc |-> Blank]
  /\ last = NoData
  /\ overlap = FALSE

Goto(p, from, to) ==
  /\ pc[p] = from
  /\ pc' = [pc EXCEPT ![p] = to]

\* An inode without a name is kept while a descriptor is open on it.
InUse(i) == i = temp \/ i = path \/ \E p \in Proc : fd[p] = i

-----------------------------------------------------------------------------
(* save: touch, open and truncate, write, rename.                          *)

\* temp.touch(exist_ok=True) creates the file if it is not there.
Touch(p) ==
  /\ Goto(p, "start", "touched")
  /\ \/ /\ temp # NoFile
        /\ UNCHANGED <<temp, data>>
     \/ /\ temp = NoFile
        /\ \E i \in Inode :
             /\ ~InUse(i)
             /\ temp' = i
             /\ data' = [data EXCEPT ![i] = Blank]
  /\ overlap' = (overlap \/ \E q \in Proc \ {p} : pc[q] \in Saving)
  /\ UNCHANGED <<path, fd, filled, loaded, last>>

\* Bug: the export itself is opened for writing.
OpenInPlace(p) ==
  /\ Goto(p, "touched", "writing")
  /\ LET i == IF path = NoFile THEN temp ELSE path IN
     /\ i # NoFile
     /\ fd' = [fd EXCEPT ![p] = i]
     /\ data' = [data EXCEPT ![i] = Blank]
  /\ UNCHANGED <<temp, path, filled, loaded, last, overlap>>

\* write_bytes opens with O_CREAT and O_TRUNC: it empties what is there, and
\* creates the file again if another save has renamed it since the touch.
Open(p) ==
  /\ Goto(p, "touched", "writing")
  /\ \E i \in Inode :
       /\ i = temp \/ (temp = NoFile /\ ~InUse(i))
       /\ temp' = i
       /\ fd' = [fd EXCEPT ![p] = i]
       /\ data' = [data EXCEPT ![i] = Blank]
  /\ UNCHANGED <<path, filled, loaded, last, overlap>>

\* Bug: one block more than there is.
WritePastEnd(p) ==
  /\ pc[p] = "writing"
  /\ filled[p] <= Blocks
  /\ filled' = [filled EXCEPT ![p] = filled[p] + 1]
  /\ data' = [data EXCEPT ![fd[p]][filled[p] + 1] = p]
  /\ UNCHANGED <<pc, temp, path, fd, loaded, last, overlap>>

Write(p) ==
  /\ pc[p] = "writing"
  /\ filled[p] < Blocks
  /\ filled' = [filled EXCEPT ![p] = filled[p] + 1]
  /\ data' = [data EXCEPT ![fd[p]][filled[p] + 1] = p]
  /\ UNCHANGED <<pc, temp, path, fd, loaded, last, overlap>>

\* Bug: the rename does not wait for the write to be complete.
ReplaceEarly(p) ==
  /\ pc[p] = "writing"
  /\ fd' = [fd EXCEPT ![p] = NoFile]
  /\ pc' = [pc EXCEPT ![p] = IF temp = NoFile THEN "failed" ELSE "saved"]
  /\ path' = IF temp = NoFile THEN path ELSE temp
  /\ temp' = NoFile
  /\ last' = IF temp = NoFile THEN last ELSE p
  /\ UNCHANGED <<data, filled, loaded, overlap>>

\* The file is closed and renamed over the export, whichever file has the
\* temporary name now; if none has, replace raises FileNotFoundError.
Replace(p) ==
  /\ pc[p] = "writing"
  /\ filled[p] = Blocks
  /\ fd' = [fd EXCEPT ![p] = NoFile]
  /\ pc' = [pc EXCEPT ![p] = IF temp = NoFile THEN "failed" ELSE "saved"]
  /\ path' = IF temp = NoFile THEN path ELSE temp
  /\ temp' = NoFile
  /\ last' = IF temp = NoFile THEN last ELSE p
  /\ UNCHANGED <<data, filled, loaded, overlap>>

\* The process fails (a full disk) or is killed; the temporary file stays.
Die(p) ==
  /\ pc[p] \in Saving \cup {"reading"}
  /\ pc' = [pc EXCEPT ![p] = "dead"]
  /\ fd' = [fd EXCEPT ![p] = NoFile]
  /\ UNCHANGED <<temp, path, data, filled, loaded, last, overlap>>

-----------------------------------------------------------------------------
(* load and delete.                                                        *)
OpenExport(p) ==
  /\ pc[p] = "start"
  /\ pc' = [pc EXCEPT ![p] = IF path = NoFile THEN "nothing" ELSE "reading"]
  /\ fd' = [fd EXCEPT ![p] = path]
  /\ UNCHANGED <<temp, path, data, filled, loaded, last, overlap>>

Read(p) ==
  /\ Goto(p, "reading", "loaded")
  /\ loaded' = [loaded EXCEPT ![p] = data[fd[p]]]
  /\ fd' = [fd EXCEPT ![p] = NoFile]
  /\ UNCHANGED <<temp, path, data, filled, last, overlap>>

\* unlink(missing_ok=True); the temporary file is left alone.
Delete(p) ==
  /\ Goto(p, "start", "deleted")
  /\ path' = NoFile
  /\ last' = NoData
  /\ UNCHANGED <<temp, data, fd, filled, loaded, overlap>>

-----------------------------------------------------------------------------
Next ==
  \E p \in Proc :
    \/ Touch(p) \/ Open(p) \/ Write(p) \/ Replace(p)
    \/ OpenExport(p) \/ Read(p) \/ Delete(p) \/ Die(p)

Spec == Init /\ [][Next]_vars

-----------------------------------------------------------------------------
(* Properties.                                                             *)

\* As long as saves do not overlap, the export is the whole session of the
\* save that renamed last, at every moment and wherever a save was killed.
ExportIsLastSave ==
  ~overlap =>
    /\ path = NoFile <=> last = NoData
    /\ path # NoFile => data[path] = Session(last)

\* As long as saves do not overlap, what load reads is one save's session,
\* even if the export is replaced or deleted between its open and its read.
LoadIsWhole ==
  ~overlap =>
    \A p \in Proc : pc[p] = "loaded" => \E q \in Proc : loaded[p] = Session(q)

\* Saves that overlap may mix their blocks, but it takes a kill in the middle of one
\* to leave the export truncated: when all have ended by themselves, it is not.
QuietExportIsFull ==
  /\ path # NoFile
  /\ \A p \in Proc : pc[p] \notin Saving \cup {"dead"}
  => \A b \in Block : data[path][b] # NoData

-----------------------------------------------------------------------------
(* SessionExport implements ExportStore.                                   *)

\* What a load would find.
Export == IF path = NoFile THEN NoData ELSE data[path]

Store == INSTANCE ExportStore
  WITH Whole <- {Session(p) : p \in Proc}, NoExport <- NoData,
       export <- Export, apart <- ~overlap

\* session/store.py:172: the rename is what makes a save one step: as long as
\* saves do not overlap, none of the others, and no kill between them, is seen.
RefinesStore == Store!Spec
=============================================================================
