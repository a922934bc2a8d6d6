---------------------------- MODULE ProfileMutex ----------------------------
(***************************************************************************)
(* What the profile lock promises to the commands that use it, without the *)
(* way it is done: one command at a time is inside, a command is turned    *)
(* away only while another one is inside, and a command that leaves -      *)
(* normally, through an error or because it was killed - lets the next one *)
(* in.  ProfileLock implements this specification; SessionCommands uses    *)
(* its actions.                                                            *)
(***************************************************************************)
CONSTANTS
  Proc,     \* the operating system processes that want the profile
  NoProc    \* owner of a free lock

VARIABLES
  owner,    \* the process inside, or NoProc
  turn      \* turn[p]: where process p stands

mutexVars == <<owner, turn>>

Turn == {"out", "waiting", "inside", "refused"}

MutexTypeOK ==
  /\ owner \in Proc \cup {NoProc}
  /\ turn \in [Proc -> Turn]

Init ==
  /\ owner = NoProc
  /\ turn = [p \in Proc |-> "out"]

Request(p) ==
  /\ turn[p] = "out"
  /\ turn' = [turn EXCEPT ![p] = "waiting"]
  /\ UNCHANGED owner

Enter(p) ==
  /\ turn[p] = "waiting"
  /\ owner = NoProc
  /\ owner' = p
  /\ turn' = [turn EXCEPT ![p] = "inside"]

\* Only a lock that someone else owns turns a process away.
Refuse(p) ==
  /\ turn[p] = "waiting"
  /\ owner \in Proc \ {p}
  /\ turn' = [turn EXCEPT ![p] = "refused"]
  /\ UNCHANGED owner

Leave(p) ==
  /\ turn[p] = "inside"
  /\ owner = p
  /\ owner' = NoProc
  /\ turn' = [turn EXCEPT ![p] = "out"]

\* A process that never got in goes away: it was refused, it failed or it was
\* killed while it waited.
GiveUp(p) ==
  /\ turn[p] \in {"waiting", "refused"}
  /\ turn' = [turn EXCEPT ![p] = "out"]
  /\ UNCHANGED owner

Next ==
  \E p \in Proc : Request(p) \/ Enter(p) \/ Refuse(p) \/ Leave(p) \/ GiveUp(p)

Spec == Init /\ [][Next]_mutexVars
=============================================================================
