----------------------------- MODULE ProfileLock -----------------------------
(***************************************************************************)
(* profile_lock (session/lock.py): the advisory lock on one account's      *)
(* browser profile, taken by `login` and `discover`.                       *)
(*                                                                         *)
(* The lock is an flock on a sidecar file.  The holder writes one line     *)
(* with its pid into the file, so that a process that is turned away can   *)
(* say who has the profile.  The flock and the line change in separate     *)
(* steps and a process can be killed between any two of them.              *)
(*                                                                         *)
(* A member of Proc is one run of a command: one pid, which takes the lock *)
(* at most once.  flock itself is the kernel's: it grants the file to one  *)
(* open description at a time and drops it when the description is closed, *)
(* which the death of the process does too.                                *)
(***************************************************************************)
CONSTANTS
  Proc,     \* the processes that run a command on the account
  NoProc    \* nobody: a free flock, an empty lock file

ASSUME NoProcAssumption == NoProc \notin Proc

VARIABLES
  pc,       \* pc[p]: the step of profile_lock process p is at
  expired,  \* expired[p]: p's deadline has passed
  flock,    \* the process that holds the kernel's lock, or NoProc
  note,     \* the process whose line is in the lock file, or NoProc
  named,    \* named[p]: whom p's ProfileBusyError names; NoProc if nobody
  seen      \* history: the processes that held the flock while p wanted it

vars == <<pc, expired, flock, note, named, seen>>

-----------------------------------------------------------------------------
(* The steps between the flock and the close that gives it back.           *)
Stamping == {"locked", "blank", "stamped"}
Inside   == Stamping \cup {"held", "releasing"}
Wanting  == {"trying", "describing"}
Over     == {"released", "busy", "error", "dead"}

TypeOK ==
  /\ pc \in [Proc -> {"start"} \cup Wanting \cup Inside \cup Over]
  /\ expired \in [Proc -> BOOLEAN]
  /\ flock \in Proc \cup {NoProc}
  /\ note \in Proc \cup {NoProc}
  /\ named \in [Proc -> Proc \cup {NoProc}]
  /\ seen \in [Proc -> SUBSET Proc]

Init ==
  /\ pc = [p \in Proc |-> "start"]
  /\ expired = [p \in Proc |-> FALSE]
  /\ flock = NoProc
  /\ note = NoProc
  /\ named = [p \in Proc |-> NoProc]
  /\ seen = [p \in Proc |-> {}]

Goto(p, from, to) ==
  /\ pc[p] = from
  /\ pc' = [pc EXCEPT ![p] = to]

\* What the kernel does to the lock when p's descriptor goes away.
DropFlock(p) ==
  flock' = IF flock = p THEN NoProc ELSE flock

-----------------------------------------------------------------------------
(* Acquiring.  A timeout of 0 is a deadline that has passed already.       *)
\* Bug: the file is opened with O_TRUNC, as open(path, "w") would.
OpenTruncating(p) ==
  /\ Goto(p, "start", "trying")
  /\ \E b \in BOOLEAN : expired' = [expired EXCEPT ![p] = b]
  /\ seen' = [seen EXCEPT ![p] = {flock} \ {NoProc}]
  /\ note' = NoProc
  /\ UNCHANGED <<flock, named>>

Open(p) ==
  /\ Goto(p, "start", "trying")
  /\ \E b \in BOOLEAN : expired' = [expired EXCEPT ![p] = b]
  /\ seen' = [seen EXCEPT ![p] = {flock} \ {NoProc}]
  /\ UNCHANGED <<flock, note, named>>

DeadlinePasses(p) ==
  /\ pc[p] = "trying"
  /\ ~expired[p]
  /\ expired' = [expired EXCEPT ![p] = TRUE]
  /\ UNCHANGED <<pc, flock, note, named, seen>>

\* Bug: LOCK_SH for LOCK_EX; the kernel lets everybody in.
TryFlockShared(p) ==
  /\ Goto(p, "trying", "locked")
  /\ flock' = p
  /\ seen' = [q \in Proc |->
               IF pc[q] \in Wanting THEN seen[q] \cup {p} ELSE seen[q]]
  /\ UNCHANGED <<expired, note, named>>

TryFlock(p) ==
  /\ Goto(p, "trying", "locked")
  /\ flock = NoProc
  /\ flock' = p
  /\ seen' = [q \in Proc |->
               IF pc[q] \in Wanting THEN seen[q] \cup {p} ELSE seen[q]]
  /\ UNCHANGED <<expired, note, named>>

\* Bug: the deadline test the wrong way round.
RefusedEarly(p) ==
  /\ Goto(p, "trying", "describing")
  /\ flock # NoProc
  /\ ~expired[p]
  /\ UNCHANGED <<expired, flock, note, named, seen>>

\* Before the deadline the refusal is followed by a sleep and another try,
\* which changes nothing; after it the process gives up and looks for a name.
Refused(p) ==
  /\ Goto(p, "trying", "describing")
  /\ flock # NoProc
  /\ expired[p]
  /\ UNCHANGED <<expired, flock, note, named, seen>>

Describe(p) ==
  /\ Goto(p, "describing", "busy")
  /\ named' = [named EXCEPT ![p] = note]
  /\ UNCHANGED <<expired, flock, note, seen>>

-----------------------------------------------------------------------------
(* Writing the line, the caller's block, and leaving.                      *)
Truncate(p) ==
  /\ Goto(p, "locked", "blank")
  /\ note' = NoProc
  /\ UNCHANGED <<expired, flock, named, seen>>

\* Bug: the line says what the holder does and leaves out its pid.
StampOwnerOnly(p) ==
  /\ Goto(p, "blank", "stamped")
  /\ note' = "login"
  /\ UNCHANGED <<expired, flock, named, seen>>

Stamp(p) ==
  /\ Goto(p, "blank", "stamped")
  /\ note' = p
  /\ UNCHANGED <<expired, flock, named, seen>>

Sync(p) ==
  /\ Goto(p, "stamped", "held")
  /\ UNCHANGED <<expired, flock, note, named, seen>>

\* Bug: leaving does not clear the line.
ClearNothing(p) ==
  /\ Goto(p, "held", "releasing")
  /\ UNCHANGED <<expired, flock, note, named, seen>>

\* The block ended, normally or with an exception.
Clear(p) ==
  /\ Goto(p, "held", "releasing")
  /\ note' = NoProc
  /\ UNCHANGED <<expired, flock, named, seen>>

Unlock(p) ==
  /\ Goto(p, "releasing", "released")
  /\ DropFlock(p)
  /\ UNCHANGED <<expired, note, named, seen>>

\* flock fails for a reason other than contention, or one of ftruncate, write,
\* fsync and the unlock fails (a full disk): the outer finally closes the file,
\* and whatever line is in it stays.
IOError(p) ==
  /\ pc[p] \in {"trying"} \cup Inside
  /\ pc' = [pc EXCEPT ![p] = "error"]
  /\ DropFlock(p)
  /\ UNCHANGED <<expired, note, named, seen>>

\* SIGKILL, power loss: no finally block runs.
Crash(p) ==
  /\ pc[p] \in Wanting \cup Inside
  /\ pc' = [pc EXCEPT ![p] = "dead"]
  /\ DropFlock(p)
  /\ UNCHANGED <<expired, note, named, seen>>

-----------------------------------------------------------------------------
Attempt(p) == TryFlock(p) \/ Refused(p)

OwnStep(p) ==
  Describe(p) \/ Truncate(p) \/ Stamp(p) \/ Sync(p) \/ Unlock(p)

Next ==
  \E p \in Proc :
    \/ Open(p) \/ DeadlinePasses(p) \/ Attempt(p) \/ OwnStep(p)
    \/ Clear(p) \/ IOError(p) \/ Crash(p)

Spec == Init /\ [][Next]_vars

\* Time passes and a process that is scheduled takes its steps.  Nothing says
\* that the caller's block ever ends: the browser stays open as long as the
\* operator likes.
Fairness ==
  \A p \in Proc :
    WF_vars(DeadlinePasses(p)) /\ WF_vars(Attempt(p)) /\ WF_vars(OwnStep(p))

LiveSpec == Spec /\ Fairness

-----------------------------------------------------------------------------
(* Properties.                                                             *)

\* While a process is in its block, the lock file carries its own line:
\* nobody's leaving, failing or dying wipes or replaces it (lock.py clears the
\* file before it unlocks, not after).
NoteNamesHolder ==
  \A p \in Proc : pc[p] = "held" => note = p

\* The lock is held by a process between its flock and its close, and by no
\* other: no error path and no death leaks it.
FlockNotLeaked ==
  \A p \in Proc : flock = p <=> pc[p] \in Inside

\* A ProfileBusyError that names a process names one that had the lock while
\* the refused process wanted it, or one that died or failed inside and left
\* its line behind.
NamesHolderUnlessDied ==
  \A p \in Proc :
    named[p] \in Proc =>
      named[p] \in seen[p] \/ pc[named[p]] \in {"error", "dead"}

\* The line in the file always belongs to a process that has it because it
\* holds the lock or because it never got to clear it.
StaleNoteOnlyAfterDeath ==
  note \in Proc => pc[note] \in {"stamped", "held", "error", "dead"}

\* A process that asks for the profile is in, or is told that it cannot be,
\* within its timeout, however long the holder keeps its browser open.
EveryAttemptEnds ==
  \A p \in Proc : pc[p] = "trying" ~> pc[p] \in {"held"} \cup Over

\* The abstract lock this one implements.
turnOf ==
  [p \in Proc |->
     IF pc[p] = "trying" THEN "waiting"
     ELSE IF pc[p] \in {"describing", "busy"} THEN "refused"
     ELSE IF pc[p] \in Inside THEN "inside"
     ELSE "out"]

Mutex == INSTANCE ProfileMutex WITH owner <- flock, turn <- turnOf

RefinesMutex == Mutex!Spec
=============================================================================
