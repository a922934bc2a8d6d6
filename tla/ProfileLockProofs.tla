-------------------------- MODULE ProfileLockProofs --------------------------
(***************************************************************************)
(* Proofs about ProfileLock, for any set of processes: typing, the safety  *)
(* invariants that TLC checks on three processes, and the refinement of    *)
(* ProfileMutex.                                                           *)
(*                                                                         *)
(* The properties hold together and not one by one.  A process that is in  *)
(* its block keeps its line in the file because nobody else holds the      *)
(* flock (FlockNotLeaked); the name in an error is right because a line    *)
(* that is not a leftover is the flock holder's (StaleNoteOnlyAfterDeath   *)
(* with FlockNotLeaked) and the flock holder was noted by everybody who    *)
(* wanted the lock (WaitersSawHolder).                                     *)
(***************************************************************************)
EXTENDS ProfileLock, TLAPS

\* The line is there from the write on, not only in the block.
LineIsOwn == \A p \in Proc : pc[p] \in {"stamped", "held"} => note = p

WaitersSawHolder ==
  \A p \in Proc : pc[p] \in Wanting /\ flock \in Proc => flock \in seen[p]

NamedOnlyWhenBusy == \A p \in Proc : named[p] \in Proc => pc[p] = "busy"

IInv ==
  /\ TypeOK
  /\ FlockNotLeaked
  /\ LineIsOwn
  /\ StaleNoteOnlyAfterDeath
  /\ WaitersSawHolder
  /\ NamedOnlyWhenBusy
  /\ NamesHolderUnlessDied

-----------------------------------------------------------------------------
\* The initial states satisfy the invariant: nobody has asked for the profile.
LEMMA InitIInv == Init => IInv
  BY NoProcAssumption
  DEF Init, IInv, TypeOK, FlockNotLeaked, LineIsOwn, StaleNoteOnlyAfterDeath,
      WaitersSawHolder, NamedOnlyWhenBusy, NamesHolderUnlessDied,
      Stamping, Inside, Wanting, Over

\* Every step of profile_lock, and every failure inside it, keeps the
\* invariant.
LEMMA NextIInv == IInv /\ [Next]_vars => IInv'
<1> USE NoProcAssumption DEF TypeOK, Stamping, Inside, Wanting, Over, Goto
<1> SUFFICES ASSUME IInv, [Next]_vars PROVE IInv'
  OBVIOUS
<1>inv. /\ TypeOK /\ FlockNotLeaked /\ LineIsOwn /\ StaleNoteOnlyAfterDeath
        /\ WaitersSawHolder /\ NamedOnlyWhenBusy /\ NamesHolderUnlessDied
  BY DEF IInv
<1>1. CASE UNCHANGED vars
  BY <1>1, <1>inv
  DEF vars, IInv, FlockNotLeaked, LineIsOwn, StaleNoteOnlyAfterDeath,
      WaitersSawHolder, NamedOnlyWhenBusy, NamesHolderUnlessDied
<1>2. ASSUME NEW p \in Proc, Open(p) PROVE IInv'
  \* p begins to want the lock and notes who has it.
  <2>1. WaitersSawHolder'
    BY <1>2, <1>inv DEF Open, WaitersSawHolder
  <2>2. NamesHolderUnlessDied' /\ NamedOnlyWhenBusy'
    BY <1>2, <1>inv DEF Open, NamedOnlyWhenBusy, NamesHolderUnlessDied
  <2>3. QED
    BY <1>2, <1>inv, <2>1, <2>2
    DEF Open, IInv, FlockNotLeaked, LineIsOwn, StaleNoteOnlyAfterDeath
<1>3. ASSUME NEW p \in Proc, DeadlinePasses(p) PROVE IInv'
  BY <1>3, <1>inv
  DEF DeadlinePasses, IInv, FlockNotLeaked, LineIsOwn, StaleNoteOnlyAfterDeath,
      WaitersSawHolder, NamedOnlyWhenBusy, NamesHolderUnlessDied
<1>4. ASSUME NEW p \in Proc, TryFlock(p) PROVE IInv'
  \* Nobody was inside, so nobody's line but a leftover is in the file.
  <2>1. FlockNotLeaked'
    BY <1>4, <1>inv DEF TryFlock, FlockNotLeaked
  <2>2. LineIsOwn' /\ StaleNoteOnlyAfterDeath'
    BY <1>4, <1>inv DEF TryFlock, LineIsOwn, StaleNoteOnlyAfterDeath
  <2>3. WaitersSawHolder'
    BY <1>4, <1>inv DEF TryFlock, WaitersSawHolder
  <2>4. NamesHolderUnlessDied' /\ NamedOnlyWhenBusy'
    BY <1>4, <1>inv DEF TryFlock, NamedOnlyWhenBusy, NamesHolderUnlessDied
  <2>5. QED
    BY <1>4, <1>inv, <2>1, <2>2, <2>3, <2>4 DEF TryFlock, IInv
<1>5. ASSUME NEW p \in Proc, Refused(p) PROVE IInv'
  BY <1>5, <1>inv
  DEF Refused, IInv, FlockNotLeaked, LineIsOwn, StaleNoteOnlyAfterDeath,
      WaitersSawHolder, NamedOnlyWhenBusy, NamesHolderUnlessDied
<1>6. ASSUME NEW p \in Proc, Describe(p) PROVE IInv'
  \* The line p reads is the flock holder's, whom p has noted, or a leftover.
  <2>1. NamesHolderUnlessDied'
    <3>1. note \in Proc => note \in seen[p] \/ pc[note] \in {"error", "dead"}
      BY <1>6, <1>inv
      DEF Describe, FlockNotLeaked, StaleNoteOnlyAfterDeath, WaitersSawHolder
    <3>2. note # p
      BY <1>6, <1>inv DEF Describe, StaleNoteOnlyAfterDeath
    <3>3. QED
      BY <1>6, <1>inv, <3>1, <3>2 DEF Describe, NamesHolderUnlessDied
  <2>2. NamedOnlyWhenBusy'
    BY <1>6, <1>inv DEF Describe, NamedOnlyWhenBusy
  <2>3. QED
    BY <1>6, <1>inv, <2>1, <2>2
    DEF Describe, IInv, FlockNotLeaked, LineIsOwn, StaleNoteOnlyAfterDeath,
        WaitersSawHolder
<1>7. ASSUME NEW p \in Proc,
             Truncate(p) \/ Stamp(p) \/ Sync(p) \/ Clear(p)
      PROVE  IInv'
  \* p is inside, so no other process is and the line is nobody else's to lose.
  <2>1. \A q \in Proc \ {p} : pc[q] \notin Inside
    BY <1>7, <1>inv DEF Truncate, Stamp, Sync, Clear, FlockNotLeaked
  <2>2. FlockNotLeaked'
    BY <1>7, <1>inv DEF Truncate, Stamp, Sync, Clear, FlockNotLeaked
  <2>3. LineIsOwn' /\ StaleNoteOnlyAfterDeath'
    BY <1>7, <1>inv, <2>1
    DEF Truncate, Stamp, Sync, Clear, LineIsOwn, StaleNoteOnlyAfterDeath
  <2>4. WaitersSawHolder' /\ NamedOnlyWhenBusy' /\ NamesHolderUnlessDied'
    BY <1>7, <1>inv
    DEF Truncate, Stamp, Sync, Clear, WaitersSawHolder, NamedOnlyWhenBusy,
        NamesHolderUnlessDied
  <2>5. TypeOK'
    BY <1>7, <1>inv DEF Truncate, Stamp, Sync, Clear
  <2>6. QED
    BY <2>2, <2>3, <2>4, <2>5 DEF IInv
<1>8. ASSUME NEW p \in Proc, Unlock(p) \/ IOError(p) \/ Crash(p)
      PROVE  IInv'
  \* The flock goes with p's descriptor; p's line may stay behind.
  <2>1. FlockNotLeaked'
    BY <1>8, <1>inv DEF Unlock, IOError, Crash, DropFlock, FlockNotLeaked
  <2>2. LineIsOwn' /\ StaleNoteOnlyAfterDeath'
    BY <1>8, <1>inv
    DEF Unlock, IOError, Crash, LineIsOwn, StaleNoteOnlyAfterDeath
  <2>3. WaitersSawHolder'
    BY <1>8, <1>inv DEF Unlock, IOError, Crash, DropFlock, WaitersSawHolder
  <2>4. NamesHolderUnlessDied' /\ NamedOnlyWhenBusy'
    BY <1>8, <1>inv
    DEF Unlock, IOError, Crash, NamedOnlyWhenBusy, NamesHolderUnlessDied
  <2>5. TypeOK'
    BY <1>8, <1>inv DEF Unlock, IOError, Crash, DropFlock
  <2>6. QED
    BY <2>1, <2>2, <2>3, <2>4, <2>5 DEF IInv
<1>9. QED
  BY <1>1, <1>2, <1>3, <1>4, <1>5, <1>6, <1>7, <1>8 DEF Next, Attempt, OwnStep

LEMMA SpecIInv == Spec => []IInv
  BY InitIInv, NextIInv, PTL DEF Spec

-----------------------------------------------------------------------------
\* Every variable keeps its type.
THEOREM TypeCorrect == Spec => []TypeOK
  BY SpecIInv, PTL DEF IInv

\* A process in its block finds its own line in the lock file (lock.py:62-69).
THEOREM HolderIsNamed == Spec => []NoteNamesHolder
<1>1. IInv => NoteNamesHolder
  BY DEF IInv, LineIsOwn, NoteNamesHolder
<1>2. QED
  BY SpecIInv, <1>1, PTL

\* The flock is held exactly between the flock call and the close, whatever
\* fails and whoever dies (lock.py:47-72).
THEOREM NoLeak == Spec => []FlockNotLeaked
  BY SpecIInv, PTL DEF IInv

\* Mutual exclusion: two processes are never in the lock together.
THEOREM Exclusion ==
  Spec => [](\A p, q \in Proc : pc[p] \in Inside /\ pc[q] \in Inside => p = q)
<1>1. IInv => \A p, q \in Proc : pc[p] \in Inside /\ pc[q] \in Inside => p = q
  BY DEF IInv, FlockNotLeaked
<1>2. QED
  BY SpecIInv, <1>1, PTL

\* The process a ProfileBusyError names held the lock while the refused one
\* wanted it, or died or failed and left its line behind (lock.py:55-59).
THEOREM BusyNamesHolder == Spec => []NamesHolderUnlessDied
  BY SpecIInv, PTL DEF IInv

-----------------------------------------------------------------------------
\* A step of the lock file protocol is a step of the abstract lock or none.
LEMMA StepRefines ==
  IInv /\ [Next]_vars => [Mutex!Next]_(Mutex!mutexVars)
<1> USE NoProcAssumption
    DEF TypeOK, Stamping, Inside, Wanting, Over, Goto, turnOf, Mutex!mutexVars
<1> SUFFICES ASSUME IInv, [Next]_vars
             PROVE  Mutex!Next \/ UNCHANGED Mutex!mutexVars
  OBVIOUS
<1>inv. TypeOK /\ FlockNotLeaked
  BY DEF IInv
<1>1. CASE UNCHANGED vars
  BY <1>1 DEF vars
<1>2. ASSUME NEW p \in Proc, Open(p) PROVE Mutex!Request(p)
  BY <1>2, <1>inv DEF Open, Mutex!Request
<1>3. ASSUME NEW p \in Proc, TryFlock(p) PROVE Mutex!Enter(p)
  BY <1>3, <1>inv DEF TryFlock, Mutex!Enter
<1>4. ASSUME NEW p \in Proc, Refused(p) PROVE Mutex!Refuse(p)
  BY <1>4, <1>inv DEF Refused, FlockNotLeaked, Mutex!Refuse
<1>5. ASSUME NEW p \in Proc, Unlock(p) PROVE Mutex!Leave(p)
  BY <1>5, <1>inv DEF Unlock, DropFlock, FlockNotLeaked, Mutex!Leave
<1>6. ASSUME NEW p \in Proc, IOError(p) \/ Crash(p)
      PROVE  Mutex!Leave(p) \/ Mutex!GiveUp(p)
  <2>1. CASE pc[p] \in Inside
    BY <1>6, <1>inv, <2>1
    DEF IOError, Crash, DropFlock, FlockNotLeaked, Mutex!Leave
  <2>2. CASE pc[p] \in Wanting
    BY <1>6, <1>inv, <2>2
    DEF IOError, Crash, DropFlock, FlockNotLeaked, Mutex!GiveUp
  <2>3. QED
    BY <1>6, <2>1, <2>2 DEF IOError, Crash
<1>7. ASSUME NEW p \in Proc,
             \/ DeadlinePasses(p) \/ Describe(p) \/ Truncate(p)
             \/ Stamp(p) \/ Sync(p) \/ Clear(p)
      PROVE  UNCHANGED Mutex!mutexVars
  BY <1>7, <1>inv DEF DeadlinePasses, Describe, Truncate, Stamp, Sync, Clear
<1>8. QED
  BY <1>1, <1>2, <1>3, <1>4, <1>5, <1>6, <1>7
  DEF Next, Attempt, OwnStep, Mutex!Next

\* profile_lock implements the abstract lock the commands are checked against.
THEOREM Refinement == Spec => RefinesMutex
<1>1. Init => Mutex!Init
  BY DEF Init, Mutex!Init, turnOf, Inside, Stamping
<1>2. QED
  BY SpecIInv, StepRefines, <1>1, PTL DEF Spec, RefinesMutex, Mutex!Spec
=============================================================================
