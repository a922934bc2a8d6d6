--------------------------- MODULE SessionCommands ---------------------------
(***************************************************************************)
(* The commands that share one account's session (commands/login.py,       *)
(* commands/discover.py, and `session clear`, `accounts` and `init` of     *)
(* cli.py), run by several processes at once.                              *)
(*                                                                         *)
(* They share four things: the profile lock, Chromium's profile directory, *)
(* the exported session, and the account's row in the database.  `login`   *)
(* and `discover` hold the lock while their browser runs; `login` gives it *)
(* back before it saves the export and records the capture; `session       *)
(* clear` does not take it at all.  The lock is ProfileMutex, which        *)
(* ProfileLock implements.  SessionExport has the export alone, block by   *)
(* block; here a file has one content, and what matters is which file the  *)
(* saves of several logins write and rename: all of them go through one    *)
(* temporary name.                                                         *)
(*                                                                         *)
(* A session is known by the number of the sign-in it comes from, 0 for a  *)
(* browser nobody has signed in.                                           *)
(***************************************************************************)
EXTENDS Naturals

CONSTANTS
  Proc,        \* processes; each runs one command
  NoProc,      \* owner of a free lock
  NoExport,    \* there is no such file
  Empty,       \* the content of a file that is new or truncated
  Broken,      \* the content of a file that is written in part, or by two at once
  MaxSignIns   \* bound: how often somebody signs in

ASSUME NoProcAssumption == NoProc \notin Proc
ASSUME MaxSignInsAssumption == MaxSignIns \in Nat
ASSUME ContentAssumption ==
  /\ {NoExport, Empty, Broken} \cap Nat = {}
  /\ NoExport # Empty /\ NoExport # Broken /\ Empty # Broken

VARIABLES
  hasAdapter,   \* the account's site has an adapter that can verify a sign-in
  owner, turn,  \* the profile lock
  cmd,          \* cmd[p]: the command p runs
  pc,           \* pc[p]: where in it p is
  browsers,     \* the processes whose Chromium runs on the profile
  profileDir,   \* the profile directory is there
  profileJar,   \* the session in the profile directory
  jar,          \* jar[p]: the session in p's browser
  snapshot,     \* snapshot[p]: the storage state login p has in hand
  signIns,      \* how often somebody signed in
  temp,         \* the content of the file under the temporary name, or NoExport
  export,       \* the content of the export, or NoExport
  target,       \* target[p]: where the file is by now that login p has touched or
                \* opened for its save, while it has not renamed one
  rowExists,    \* the accounts table has the account
  status,       \* its status column
  captured,     \* its session_captured_at column is not NULL
  fileBy,       \* history: the command that was the last to change the export
  rowBy,        \* history: the command that was the last to update the row
  overtaken     \* history: the logins that had yet to save when another command
                \* got the lock

lockVars    == <<owner, turn>>
profileVars == <<profileDir, profileJar>>
rowVars     == <<rowExists, status, captured, rowBy>>
fileVars    == <<temp, export, target, fileBy>>
vars == <<hasAdapter, lockVars, cmd, pc, browsers, profileVars, jar, snapshot,
          signIns, fileVars, rowVars, overtaken>>

Session == 0 .. MaxSignIns

File    == Session \cup {NoExport, Empty, Broken}

\* What no load can read.
Torn == {Empty, Broken}

Lock == INSTANCE ProfileMutex

-----------------------------------------------------------------------------
Over    == {"done", "aborted", "failed", "dead"}
Running == {"waiting", "inside", "browsing", "confirmed", "closing", "aborting",
            "outside", "touched", "opened", "written", "saved",
            "unlinked", "removed"}

TypeOK ==
  /\ hasAdapter \in BOOLEAN
  /\ Lock!MutexTypeOK
  /\ cmd \in [Proc -> {"none", "login", "discover", "clear", "sync"}]
  /\ pc \in [Proc -> {"start"} \cup Running \cup Over]
  /\ browsers \subseteq Proc
  /\ profileDir \in BOOLEAN
  /\ profileJar \in Session
  /\ jar \in [Proc -> Session]
  /\ snapshot \in [Proc -> Session]
  /\ signIns \in Session
  /\ temp \in File
  /\ export \in File
  /\ target \in [Proc -> {"none", "temp", "export", "gone"}]
  /\ rowExists \in BOOLEAN
  /\ status \in {"unknown", "ok", "needs_reauth"}
  /\ captured \in BOOLEAN
  /\ fileBy \in Proc \cup {NoProc}
  /\ rowBy \in Proc \cup {NoProc}
  /\ overtaken \subseteq Proc

Init ==
  /\ hasAdapter \in BOOLEAN
  /\ Lock!Init
  /\ cmd = [p \in Proc |-> "none"]
  /\ pc = [p \in Proc |-> "start"]
  /\ browsers = {}
  /\ profileDir = FALSE
  /\ profileJar = 0
  /\ jar = [p \in Proc |-> 0]
  /\ snapshot = [p \in Proc |-> 0]
  /\ signIns = 0
  /\ temp = NoExport
  /\ export = NoExport
  /\ target = [p \in Proc |-> "none"]
  /\ rowExists \in BOOLEAN
  /\ status = "unknown"
  /\ captured = FALSE
  /\ fileBy = NoProc
  /\ rowBy = NoProc
  /\ overtaken = {}

Goto(p, from, to) ==
  /\ pc[p] = from
  /\ pc' = [pc EXCEPT ![p] = to]

-----------------------------------------------------------------------------
(* The part of login and discover that runs a browser under the lock.      *)

\* login --headless without an adapter is refused before the lock; otherwise
\* the command asks for it.
StartBrowserCommand(p) ==
  /\ pc[p] = "start"
  /\ \E c \in {"login", "discover"} : cmd' = [cmd EXCEPT ![p] = c]
  /\ \/ /\ cmd'[p] = "login" /\ ~hasAdapter
        /\ pc' = [pc EXCEPT ![p] = "aborted"]
        /\ UNCHANGED lockVars
     \/ /\ pc' = [pc EXCEPT ![p] = "waiting"]
        /\ Lock!Request(p)
  /\ UNCHANGED <<hasAdapter, browsers, profileVars, jar, snapshot, signIns,
                 fileVars, rowVars, overtaken>>

YetToSave(q) ==
  cmd[q] = "login" /\ pc[q] \in {"outside", "touched", "opened", "written"}

Enter(p) ==
  /\ Goto(p, "waiting", "inside")
  /\ Lock!Enter(p)
  /\ overtaken' = overtaken \cup {q \in Proc : YetToSave(q)}
  /\ UNCHANGED <<hasAdapter, cmd, browsers, profileVars, jar, snapshot,
                 signIns, fileVars, rowVars>>

\* ProfileBusyError.
Busy(p) ==
  /\ Goto(p, "waiting", "aborted")
  /\ Lock!Refuse(p)
  /\ UNCHANGED <<hasAdapter, cmd, browsers, profileVars, jar, snapshot,
                 signIns, fileVars, rowVars, overtaken>>

\* The directory is made and Chromium started on it, which Chromium's own lock
\* in the directory prevents while another browser runs there.
Launch(p) ==
  /\ Goto(p, "inside", "browsing")
  /\ browsers = {} \/ ~profileDir
  /\ browsers' = browsers \cup {p}
  /\ profileDir' = TRUE
  /\ jar' = [jar EXCEPT ![p] = profileJar]
  /\ UNCHANGED <<hasAdapter, lockVars, cmd, profileJar, snapshot, signIns,
                 fileVars, rowVars, overtaken>>

LaunchFails(p) ==
  /\ Goto(p, "inside", "aborting")
  /\ profileDir' = TRUE
  /\ UNCHANGED <<hasAdapter, lockVars, cmd, browsers, profileJar, jar,
                 snapshot, signIns, fileVars, rowVars, overtaken>>

\* The person at the browser signs in; Chromium keeps it in the profile, if the
\* directory is still there.
SignIn(p) ==
  /\ pc[p] = "browsing"
  /\ signIns < MaxSignIns
  /\ signIns' = signIns + 1
  /\ jar' = [jar EXCEPT ![p] = signIns + 1]
  /\ profileJar' = IF profileDir THEN signIns + 1 ELSE profileJar
  /\ UNCHANGED <<hasAdapter, lockVars, cmd, pc, browsers, profileDir, snapshot,
                 fileVars, rowVars, overtaken>>

\* Bug: login does not wait for the adapter to name the account.
ConfirmUnseen(p) ==
  /\ Goto(p, "browsing", "confirmed")
  /\ UNCHANGED <<hasAdapter, lockVars, cmd, browsers, profileVars, jar,
                 snapshot, signIns, fileVars, rowVars, overtaken>>

\* The adapter names the signed-in account, or, without an adapter or in
\* discover, the operator says yes.
Confirm(p) ==
  /\ Goto(p, "browsing", "confirmed")
  /\ cmd[p] = "login" /\ hasAdapter => jar[p] # 0
  /\ UNCHANGED <<hasAdapter, lockVars, cmd, browsers, profileVars, jar,
                 snapshot, signIns, fileVars, rowVars, overtaken>>

\* No sign-in before the timeout, the operator says no, the page fails, or the
\* browser fails under the storage state or the close.
GiveUp(p) ==
  /\ pc[p] \in {"browsing", "confirmed", "closing"}
  /\ pc' = [pc EXCEPT ![p] = "aborting"]
  /\ UNCHANGED <<hasAdapter, lockVars, cmd, browsers, profileVars, jar,
                 snapshot, signIns, fileVars, rowVars, overtaken>>

\* login takes the storage state; discover lets the requests settle.
TakeSnapshot(p) ==
  /\ Goto(p, "confirmed", "closing")
  /\ snapshot' = [snapshot EXCEPT ![p] = IF cmd[p] = "login" THEN jar[p] ELSE 0]
  /\ UNCHANGED <<hasAdapter, lockVars, cmd, browsers, profileVars, jar,
                 signIns, fileVars, rowVars, overtaken>>

\* The browser context is the inner of the two contexts and exits first.
CloseBrowser(p) ==
  /\ pc[p] \in {"closing", "aborting"}
  /\ p \in browsers
  /\ browsers' = browsers \ {p}
  /\ UNCHANGED <<hasAdapter, lockVars, cmd, pc, profileVars, jar, snapshot,
                 signIns, fileVars, rowVars, overtaken>>

\* Bug: the lock is the inner context and exits first.
LeaveEarly(p) ==
  /\ pc[p] \in {"closing", "aborting"}
  /\ Lock!Leave(p)
  /\ pc' = [pc EXCEPT ![p] = IF pc[p] = "closing" THEN "outside" ELSE "aborted"]
  /\ UNCHANGED <<hasAdapter, cmd, browsers, profileVars, jar, snapshot,
                 signIns, fileVars, rowVars, overtaken>>

\* Bug: no finally, so a command that fails inside keeps the lock.
LeaveOnSuccess(p) ==
  /\ Goto(p, "closing", "outside")
  /\ p \notin browsers
  /\ Lock!Leave(p)
  /\ UNCHANGED <<hasAdapter, cmd, browsers, profileVars, jar, snapshot,
                 signIns, fileVars, rowVars, overtaken>>

Leave(p) ==
  /\ pc[p] \in {"closing", "aborting"}
  /\ p \notin browsers
  /\ Lock!Leave(p)
  /\ pc' = [pc EXCEPT ![p] = IF pc[p] = "closing" THEN "outside" ELSE "aborted"]
  /\ UNCHANGED <<hasAdapter, cmd, browsers, profileVars, jar, snapshot,
                 signIns, fileVars, rowVars, overtaken>>

-----------------------------------------------------------------------------
(* After the lock: login saves and records, discover writes its capture.   *)

\* The process goes on in its save, and nothing of the others changes.
SaveStep(p, from, to) ==
  /\ Goto(p, from, to)
  /\ UNCHANGED <<hasAdapter, lockVars, cmd, browsers, profileVars, jar, snapshot,
                 signIns, rowVars, overtaken>>

\* Bug: discover saves the export as well, of whatever it has in hand.
TouchAnyway(p) ==
  /\ SaveStep(p, "outside", "touched")
  /\ temp' = IF temp = NoExport THEN Empty ELSE temp
  /\ target' = [target EXCEPT ![p] = "temp"]
  /\ UNCHANGED <<export, fileBy>>

\* temp.touch creates the file if it is not there.
Touch(p) ==
  /\ cmd[p] = "login"
  /\ SaveStep(p, "outside", "touched")
  /\ temp' = IF temp = NoExport THEN Empty ELSE temp
  /\ target' = [target EXCEPT ![p] = "temp"]
  /\ UNCHANGED <<export, fileBy>>

\* write_bytes truncates what is under the name, or creates it again.
Open(p) ==
  /\ SaveStep(p, "touched", "opened")
  /\ temp' = Empty
  /\ target' = [target EXCEPT ![p] = "temp"]
  /\ UNCHANGED <<export, fileBy>>

\* p's write makes its file one of the contents, wherever that file is.
Put(p, contents) ==
  /\ CASE target[p] = "temp"   -> temp' \in contents /\ UNCHANGED <<export, fileBy>>
       [] target[p] = "export" -> export' \in contents /\ fileBy' = p /\ UNCHANGED temp
       [] OTHER                -> UNCHANGED <<temp, export, fileBy>>
  /\ UNCHANGED target

Alone(p) ==
  /\ target[p] = "temp" => temp = Empty
  /\ target[p] = "export" => export = Empty
  /\ \A q \in Proc \ {p} : pc[q] = "opened" => target[q] # target[p]

\* A file that another login has written, or is writing too, may have parts of both.
Write(p) ==
  /\ SaveStep(p, "opened", "written")
  /\ Put(p, {snapshot[p]} \cup (IF Alone(p) THEN {} ELSE {Broken}))

\* The file that was under one name is now under another, or under none.
Moved(from, to) ==
  [q \in Proc |-> CASE target[q] = from -> to
                    [] target[q] = "export" -> "gone"
                    [] OTHER -> target[q]]

\* The rename takes the file that has the temporary name now, whose ever it is; if
\* there is none, replace raises FileNotFoundError.
Replace(p) ==
  \/ /\ temp = NoExport
     /\ SaveStep(p, "written", "failed")
     /\ UNCHANGED fileVars
  \/ /\ temp # NoExport
     /\ SaveStep(p, "written", "saved")
     /\ export' = temp
     /\ temp' = NoExport
     /\ target' = [Moved("temp", "export") EXCEPT ![p] = "none"]
     /\ fileBy' = p

\* An UPDATE of the account's row, which changes nothing if there is none.
Record(p) ==
  /\ Goto(p, "saved", "done")
  /\ status' = IF rowExists /\ hasAdapter THEN "ok" ELSE status
  /\ captured' = (captured \/ rowExists)
  /\ rowBy' = IF rowExists THEN p ELSE rowBy
  /\ UNCHANGED <<hasAdapter, lockVars, cmd, browsers, profileVars, jar,
                 snapshot, signIns, fileVars, rowExists, overtaken>>

\* The capture is written, or nothing was recorded.
DiscoverEnds(p) ==
  /\ cmd[p] = "discover"
  /\ pc[p] = "outside"
  /\ \E end \in {"done", "failed"} : pc' = [pc EXCEPT ![p] = end]
  /\ UNCHANGED <<hasAdapter, lockVars, cmd, browsers, profileVars, jar,
                 snapshot, signIns, fileVars, rowVars, overtaken>>

-----------------------------------------------------------------------------
(* session clear: unlink the export, remove the profile, mark the row.     *)
ClearExport(p) ==
  /\ Goto(p, "start", "unlinked")
  /\ cmd' = [cmd EXCEPT ![p] = "clear"]
  /\ export' = NoExport
  /\ target' = Moved("export", "gone")
  /\ fileBy' = p
  /\ UNCHANGED <<hasAdapter, lockVars, browsers, profileVars, jar, snapshot,
                 signIns, temp, rowVars, overtaken>>

RemoveProfile(p) ==
  /\ Goto(p, "unlinked", "removed")
  /\ profileDir' = FALSE
  /\ profileJar' = 0
  /\ UNCHANGED <<hasAdapter, lockVars, cmd, browsers, jar, snapshot, signIns,
                 fileVars, rowVars, overtaken>>

\* A running browser puts a file back into a directory that is being emptied,
\* and rmdir fails; the cookies may be gone or not.
RemoveFails(p) ==
  /\ Goto(p, "unlinked", "failed")
  /\ profileDir
  /\ profileJar' \in {0, profileJar}
  /\ UNCHANGED <<hasAdapter, lockVars, cmd, browsers, profileDir, jar,
                 snapshot, signIns, fileVars, rowVars, overtaken>>

\* Bug: the row gets another of the schema's statuses.
MarkDegraded(p) ==
  /\ Goto(p, "removed", "done")
  /\ status' = IF rowExists THEN "degraded" ELSE status
  /\ captured' = FALSE
  /\ rowBy' = IF rowExists THEN p ELSE rowBy
  /\ UNCHANGED <<hasAdapter, lockVars, cmd, browsers, profileVars, jar,
                 snapshot, signIns, fileVars, rowExists, overtaken>>

MarkReauth(p) ==
  /\ Goto(p, "removed", "done")
  /\ status' = IF rowExists THEN "needs_reauth" ELSE status
  /\ captured' = FALSE
  /\ rowBy' = IF rowExists THEN p ELSE rowBy
  /\ UNCHANGED <<hasAdapter, lockVars, cmd, browsers, profileVars, jar,
                 snapshot, signIns, fileVars, rowExists, overtaken>>

-----------------------------------------------------------------------------
\* accounts and init: sync_accounts inserts the row if it is not there.
SyncAccounts(p) ==
  /\ Goto(p, "start", "done")
  /\ cmd' = [cmd EXCEPT ![p] = "sync"]
  /\ rowExists' = TRUE
  /\ UNCHANGED <<hasAdapter, lockVars, browsers, profileVars, jar, snapshot,
                 signIns, fileVars, status, captured, rowBy, overtaken>>

\* A write that does not come to its end leaves the file as it was, or with a part.
WrittenInPart(p) ==
  IF pc[p] = "opened"
  THEN UNCHANGED fileVars \/ Put(p, {Broken})
  ELSE UNCHANGED fileVars

\* Saving the export, or opening or updating the database, fails after what
\* went before it has been done.
StepFails(p) ==
  /\ pc[p] \in {"outside", "touched", "opened", "written", "saved",
                "unlinked", "removed"}
  /\ pc' = [pc EXCEPT ![p] = "failed"]
  /\ WrittenInPart(p)
  /\ UNCHANGED <<hasAdapter, lockVars, cmd, browsers, profileVars, jar,
                 snapshot, signIns, rowVars, overtaken>>

\* SIGKILL, power loss.  The lock goes with the process; its browser may
\* outlive it for a while.
Die(p) ==
  /\ pc[p] \in Running
  /\ pc' = [pc EXCEPT ![p] = "dead"]
  /\ \/ Lock!Leave(p)
     \/ Lock!GiveUp(p)
     \/ turn[p] = "out" /\ UNCHANGED lockVars
  /\ WrittenInPart(p)
  /\ UNCHANGED <<hasAdapter, cmd, browsers, profileVars, jar, snapshot,
                 signIns, rowVars, overtaken>>

OrphanExits(p) ==
  /\ pc[p] = "dead"
  /\ p \in browsers
  /\ browsers' = browsers \ {p}
  /\ UNCHANGED <<hasAdapter, lockVars, cmd, pc, profileVars, jar, snapshot,
                 signIns, fileVars, rowVars, overtaken>>

-----------------------------------------------------------------------------
\* What a process that is scheduled does without being asked: the browser comes
\* up or does not, the adapter names the account or the time runs out.
OwnStep(p) ==
  \/ Enter(p) \/ Busy(p) \/ Launch(p) \/ LaunchFails(p)
  \/ Confirm(p) \/ GiveUp(p) \/ TakeSnapshot(p) \/ CloseBrowser(p) \/ Leave(p)

AfterLock(p) ==
  \/ Touch(p) \/ Open(p) \/ Write(p) \/ Replace(p)
  \/ Record(p) \/ DiscoverEnds(p)

Clear(p) ==
  ClearExport(p) \/ RemoveProfile(p) \/ RemoveFails(p) \/ MarkReauth(p)

Next ==
  \E p \in Proc :
    \/ StartBrowserCommand(p) \/ OwnStep(p) \/ SignIn(p) \/ AfterLock(p)
    \/ Clear(p) \/ SyncAccounts(p)
    \/ StepFails(p) \/ Die(p) \/ OrphanExits(p)

Spec == Init /\ [][Next]_vars

\* With an adapter login polls until its own deadline.  Without one, and in
\* discover, it waits for an operator whom nothing obliges to answer.
Fairness ==
  \A p \in Proc : WF_vars(cmd[p] = "login" /\ hasAdapter /\ OwnStep(p))

LiveSpec == Spec /\ Fairness

-----------------------------------------------------------------------------
(* Properties.                                                             *)

Live(p) == pc[p] # "dead"

\* A browser runs on the profile only while its process is inside the lock:
\* from the launch to the close, through errors and refusals.  So no command
\* ever starts a browser on a profile that another live command is using.
BrowserUnderLock ==
  \A p \in browsers : Live(p) => owner = p /\ turn[p] = "inside"

\* The row and the file agree.  As long as the command that was the last to change
\* the export was the last to update the row too, the row has a capture exactly if
\* there is an export, and a healthy row never stands for a browser that nobody signed
\* in.  And it takes two logins that overlap to make the export one that nobody can
\* read, one of which has not come to the end of its save, and perhaps never will.
RowMatchesExport ==
  /\ status = "ok" <=> hasAdapter /\ captured
  /\ fileBy = rowBy =>
       /\ captured <=> export # NoExport
       /\ status = "ok" => export # 0
  /\ export \in Torn => overtaken # {} /\ \E p \in Proc : target[p] # "none"

\* Where sign-ins are verified, the session that takes the place of a newer one is
\* that of a login which kept it for longer than the next command took to get the lock.
NeverOlder ==
  hasAdapter /\ export \in Session /\ export' \in Session /\ export' < export
    => \E p \in overtaken : snapshot[p] = export'

ExportNeverOlder == [][NeverOlder]_vars

\* Where sign-ins are verified, login gives the profile back: at the latest when
\* its deadline has passed, whatever the person at the browser does.
LoginReleasesProfile ==
  \A p \in Proc :
    hasAdapter /\ cmd[p] = "login" /\ owner = p ~> owner # p

\* browser.py:54-56 and lock.py:3-7: a command that holds the profile lock has
\* the profile to itself.
BrowserKeepsProfile ==
  \A p \in browsers : Live(p) => profileDir
=============================================================================
