------------------------ MODULE SessionCommandsProofs ------------------------
(***************************************************************************)
(* Proofs about SessionCommands, for any number of processes and sign-ins, *)
(* with and without an adapter.                                            *)
(*                                                                         *)
(* Each invariant is on top of those before: who holds the lock and where  *)
(* its browser is (LockInv); what each command has done to the row and to  *)
(* the export (RowInv); which logins still have to do with a file that     *)
(* cannot be read (TornInv); the order of the sessions in the profile, in  *)
(* the browsers and in the files (AgeInv); that a login which nobody has   *)
(* overtaken has the newest session there is (TurnInv); and that without   *)
(* an overtaken login every save has the temporary file to itself          *)
(* (ApartInv).                                                             *)
(***************************************************************************)
EXTENDS SessionCommands, TLAPS

Holding == {"inside", "browsing", "confirmed", "closing", "aborting"}
Saving  == {"touched", "opened", "written"}

LockInv ==
  /\ TypeOK
  /\ \A p \in Proc : turn[p] = "inside" <=> owner = p
  /\ \A p \in Proc : turn[p] = "inside" <=> pc[p] \in Holding
  /\ \A p \in Proc : turn[p] = "waiting" <=> pc[p] = "waiting"
  /\ \A p \in browsers : pc[p] \in (Holding \ {"inside"}) \cup {"dead"}

RowInv ==
  /\ \A p \in Proc :
       /\ pc[p] \in Saving \cup {"saved"} => cmd[p] = "login"
       /\ pc[p] \in {"unlinked", "removed"} => cmd[p] = "clear"
       /\ pc[p] = "start" => p # fileBy /\ p # rowBy
       /\ p = fileBy => \/ cmd[p] = "login" /\ export # NoExport
                        \/ cmd[p] = "clear" /\ export = NoExport
       /\ p = rowBy => \/ cmd[p] = "login" /\ captured
                       \/ cmd[p] = "clear" /\ ~captured
       /\ hasAdapter /\ cmd[p] = "login" =>
            /\ pc[p] = "confirmed" => jar[p] # 0
            /\ pc[p] \in Saving \cup {"closing", "outside"} => snapshot[p] # 0
  /\ hasAdapter => export # 0 /\ temp # 0
  /\ fileBy = NoProc => export = NoExport
  /\ rowBy = NoProc => ~captured
  /\ ~rowExists => ~captured
  /\ status = "ok" <=> hasAdapter /\ captured

\* Another login has touched or opened a file and has not renamed one since.
Another(p) == \E q \in Proc \ {p} : target[q] # "none"

TornInv ==
  /\ \A p \in Proc : pc[p] \in Saving => target[p] # "none"
  /\ temp # NoExport => \E q \in Proc : target[q] = "temp"
  /\ \A p \in Proc : pc[p] = "written" /\ temp \in Torn => Another(p)
  /\ \A p \in Proc :
       pc[p] = "opened" /\ target[p] = "temp" /\ temp # Empty => Another(p)
  /\ export \in Torn => \E p \in Proc : target[p] # "none"

-----------------------------------------------------------------------------
LEMMA ZeroSession == 0 \in Session
  BY MaxSignInsAssumption DEF Session

\* The initial states satisfy the invariant: nobody has run a command.
LEMMA InitLockInv == Init => LockInv
<1> SUFFICES ASSUME Init PROVE LockInv
  OBVIOUS
<1>1. TypeOK
  BY ZeroSession DEF Init, TypeOK, File, Lock!Init, Lock!MutexTypeOK, Lock!Turn
<1>2. QED
  BY <1>1, NoProcAssumption DEF Init, Lock!Init, LockInv, Holding

\* Moving a file keeps the places of the files places.
LEMMA MovedTyped ==
  ASSUME TypeOK, NEW from, NEW to \in {"export", "gone"}
  PROVE  Moved(from, to) \in [Proc -> {"none", "temp", "export", "gone"}]
  BY DEF TypeOK, Moved

LEMMA MovedEffect ==
  ASSUME NEW from, NEW to, NEW q \in Proc, from # "export"
  PROVE  /\ target[q] = from => Moved(from, to)[q] = to
         /\ target[q] # from /\ target[q] = "export" => Moved(from, to)[q] = "gone"
         /\ target[q] # from /\ target[q] # "export" => Moved(from, to)[q] = target[q]
  BY DEF Moved

\* A write changes the one file that it is about, or none that has a name.
LEMMA PutEffect ==
  ASSUME NEW p \in Proc, NEW contents, Put(p, contents)
  PROVE  /\ target' = target
         /\ target[p] = "temp" => temp' \in contents
         /\ target[p] # "temp" => temp' = temp
         /\ target[p] = "export" => export' \in contents /\ fileBy' = p
         /\ target[p] # "export" => export' = export /\ fileBy' = fileBy
  BY DEF Put

LEMMA WriteEffect ==
  ASSUME NEW p \in Proc, Write(p)
  PROVE  /\ pc[p] = "opened" /\ pc' = [pc EXCEPT ![p] = "written"]
         /\ target' = target
         /\ target[p] = "temp" =>
              temp' = snapshot[p] \/ (temp' = Broken /\ ~Alone(p))
         /\ target[p] # "temp" => temp' = temp
         /\ target[p] = "export" =>
              /\ export' = snapshot[p] \/ (export' = Broken /\ ~Alone(p))
              /\ fileBy' = p
         /\ target[p] # "export" => export' = export /\ fileBy' = fileBy
<1> DEFINE contents == {snapshot[p]} \cup (IF Alone(p) THEN {} ELSE {Broken})
<1>1. Put(p, contents) /\ SaveStep(p, "opened", "written")
  BY DEF Write
<1>2. \A c \in contents : c = snapshot[p] \/ (c = Broken /\ ~Alone(p))
  <2>1. CASE Alone(p)
    BY <2>1
  <2>2. CASE ~Alone(p)
    BY <2>2
  <2>3. QED
    BY <2>1, <2>2
<1> HIDE DEF contents
<1>3. QED
  BY <1>1, <1>2, PutEffect DEF SaveStep, Goto

\* Every step keeps it: only Enter, Leave and Die change the lock, and only
\* Launch starts a browser.
LEMMA NextLockInv == LockInv /\ [Next]_vars => LockInv'
<1> USE NoProcAssumption, MaxSignInsAssumption
    DEF LockInv, TypeOK, Lock!MutexTypeOK, Lock!Turn, Running, Over, Session,
        File, Holding, Goto, lockVars, profileVars, rowVars, fileVars
<1> SUFFICES ASSUME LockInv, [Next]_vars PROVE LockInv'
  OBVIOUS
<1>1. CASE UNCHANGED vars
  BY <1>1 DEF vars
<1>2. ASSUME NEW p \in Proc, StartBrowserCommand(p) PROVE LockInv'
  BY <1>2 DEF StartBrowserCommand, Lock!Request
<1>3. ASSUME NEW p \in Proc, Enter(p) PROVE LockInv'
  BY <1>3 DEF Enter, Lock!Enter
<1>4. ASSUME NEW p \in Proc, Busy(p) PROVE LockInv'
  BY <1>4 DEF Busy, Lock!Refuse
<1>5. ASSUME NEW p \in Proc, Launch(p) PROVE LockInv'
  BY <1>5 DEF Launch
<1>6. ASSUME NEW p \in Proc, LaunchFails(p) PROVE LockInv'
  BY <1>6 DEF LaunchFails
<1>7. ASSUME NEW p \in Proc, Confirm(p) PROVE LockInv'
  BY <1>7 DEF Confirm
<1>8. ASSUME NEW p \in Proc, GiveUp(p) PROVE LockInv'
  BY <1>8 DEF GiveUp
<1>9. ASSUME NEW p \in Proc, TakeSnapshot(p) PROVE LockInv'
  BY <1>9 DEF TakeSnapshot
<1>10. ASSUME NEW p \in Proc, CloseBrowser(p) PROVE LockInv'
  BY <1>10 DEF CloseBrowser
<1>11. ASSUME NEW p \in Proc, Leave(p) PROVE LockInv'
  BY <1>11 DEF Leave, Lock!Leave
<1>12. ASSUME NEW p \in Proc, SignIn(p) PROVE LockInv'
  BY <1>12 DEF SignIn
<1>13. ASSUME NEW p \in Proc, Touch(p) PROVE LockInv'
  BY <1>13 DEF Touch, SaveStep
<1>14. ASSUME NEW p \in Proc, Open(p) PROVE LockInv'
  BY <1>14 DEF Open, SaveStep
<1>15. ASSUME NEW p \in Proc, Write(p) PROVE LockInv'
  BY <1>15 DEF Write, SaveStep, Put
<1>16. ASSUME NEW p \in Proc, Replace(p) PROVE LockInv'
  BY <1>16, MovedTyped DEF Replace, SaveStep
<1>17. ASSUME NEW p \in Proc, Record(p) PROVE LockInv'
  BY <1>17 DEF Record
<1>18. ASSUME NEW p \in Proc, DiscoverEnds(p) PROVE LockInv'
  BY <1>18 DEF DiscoverEnds
<1>19. ASSUME NEW p \in Proc, ClearExport(p) PROVE LockInv'
  BY <1>19, MovedTyped DEF ClearExport
<1>20. ASSUME NEW p \in Proc, RemoveProfile(p) PROVE LockInv'
  <2>1. profileJar' \in 0 .. MaxSignIns
    BY <1>20 DEF RemoveProfile
  <2>2. /\ pc' \in [Proc -> {"start"} \cup Running \cup Over]
        /\ profileDir' \in BOOLEAN
    BY <1>20 DEF RemoveProfile
  <2>3. UNCHANGED <<hasAdapter, owner, turn, cmd, browsers, jar, snapshot, signIns, temp,
                    export, target, rowExists, status, captured, fileBy, rowBy, overtaken>>
    BY <1>20 DEF RemoveProfile
  <2>4. TypeOK'
    BY <2>1, <2>2, <2>3
  <2>5. QED
    BY <1>20, <2>4 DEF RemoveProfile
<1>21. ASSUME NEW p \in Proc, RemoveFails(p) PROVE LockInv'
  BY <1>21 DEF RemoveFails
<1>22. ASSUME NEW p \in Proc, MarkReauth(p) PROVE LockInv'
  BY <1>22 DEF MarkReauth
<1>23. ASSUME NEW p \in Proc, SyncAccounts(p) PROVE LockInv'
  BY <1>23 DEF SyncAccounts
<1>24. ASSUME NEW p \in Proc, StepFails(p) PROVE LockInv'
  BY <1>24 DEF StepFails, WrittenInPart, Put
<1>25. ASSUME NEW p \in Proc, Die(p) PROVE LockInv'
  BY <1>25 DEF Die, Lock!Leave, Lock!GiveUp, WrittenInPart, Put
<1>26. ASSUME NEW p \in Proc, OrphanExits(p) PROVE LockInv'
  BY <1>26 DEF OrphanExits
<1>27. QED
  BY <1>1, <1>2, <1>3, <1>4, <1>5, <1>6, <1>7, <1>8, <1>9, <1>10, <1>11,
     <1>12, <1>13, <1>14, <1>15, <1>16, <1>17, <1>18, <1>19, <1>20, <1>21,
     <1>22, <1>23, <1>24, <1>25, <1>26
  DEF Next, OwnStep, AfterLock, Clear

LEMMA SpecLockInv == Spec => []LockInv
  BY InitLockInv, NextLockInv, PTL DEF Spec
-----------------------------------------------------------------------------
LEMMA InitRowInv == Init => RowInv
  BY NoProcAssumption, ContentAssumption DEF Init, RowInv, Saving

\* Only the saves and a clear change the export, only a record and a clear the row,
\* and each command is one of the two.
LEMMA NextRowInv == LockInv /\ RowInv /\ [Next]_vars => RowInv'
<1> USE NoProcAssumption, ContentAssumption
    DEF LockInv, TypeOK, Running, Over, RowInv, Saving, Goto, profileVars, rowVars,
        fileVars, Session
<1> SUFFICES ASSUME LockInv, RowInv, [Next]_vars PROVE RowInv'
  OBVIOUS
<1>1. CASE UNCHANGED vars
  BY <1>1 DEF vars
<1>2. ASSUME NEW p \in Proc, StartBrowserCommand(p) PROVE RowInv'
  BY <1>2 DEF StartBrowserCommand
<1>3. ASSUME NEW p \in Proc, Enter(p) PROVE RowInv'
  BY <1>3 DEF Enter, Lock!Enter
<1>4. ASSUME NEW p \in Proc, Busy(p) PROVE RowInv'
  BY <1>4 DEF Busy
<1>5. ASSUME NEW p \in Proc, Launch(p) PROVE RowInv'
  BY <1>5 DEF Launch
<1>6. ASSUME NEW p \in Proc, LaunchFails(p) PROVE RowInv'
  BY <1>6 DEF LaunchFails
<1>7. ASSUME NEW p \in Proc, Confirm(p) PROVE RowInv'
  BY <1>7 DEF Confirm
<1>8. ASSUME NEW p \in Proc, GiveUp(p) PROVE RowInv'
  BY <1>8 DEF GiveUp
<1>9. ASSUME NEW p \in Proc, TakeSnapshot(p) PROVE RowInv'
  BY <1>9 DEF TakeSnapshot
<1>10. ASSUME NEW p \in Proc, CloseBrowser(p) PROVE RowInv'
  BY <1>10 DEF CloseBrowser
<1>11. ASSUME NEW p \in Proc, Leave(p) PROVE RowInv'
  BY <1>11 DEF Leave
<1>12. ASSUME NEW p \in Proc, SignIn(p) PROVE RowInv'
  BY <1>12 DEF SignIn
<1>13. ASSUME NEW p \in Proc, Touch(p) PROVE RowInv'
  BY <1>13 DEF Touch, SaveStep
<1>14. ASSUME NEW p \in Proc, Open(p) PROVE RowInv'
  BY <1>14 DEF Open, SaveStep
<1>15. ASSUME NEW p \in Proc, Write(p) PROVE RowInv'
  BY <1>15 DEF Write, SaveStep, Put
<1>16. ASSUME NEW p \in Proc, Replace(p) PROVE RowInv'
  BY <1>16 DEF Replace, SaveStep, Moved
<1>17. ASSUME NEW p \in Proc, Record(p) PROVE RowInv'
  BY <1>17 DEF Record
<1>18. ASSUME NEW p \in Proc, DiscoverEnds(p) PROVE RowInv'
  BY <1>18 DEF DiscoverEnds
<1>19. ASSUME NEW p \in Proc, ClearExport(p) PROVE RowInv'
  BY <1>19 DEF ClearExport, Moved
<1>20. ASSUME NEW p \in Proc, RemoveProfile(p) PROVE RowInv'
  BY <1>20 DEF RemoveProfile
<1>21. ASSUME NEW p \in Proc, RemoveFails(p) PROVE RowInv'
  BY <1>21 DEF RemoveFails
<1>22. ASSUME NEW p \in Proc, MarkReauth(p) PROVE RowInv'
  BY <1>22 DEF MarkReauth
<1>23. ASSUME NEW p \in Proc, SyncAccounts(p) PROVE RowInv'
  BY <1>23 DEF SyncAccounts
<1>24. ASSUME NEW p \in Proc, StepFails(p) PROVE RowInv'
  BY <1>24 DEF StepFails, WrittenInPart, Put
<1>25. ASSUME NEW p \in Proc, Die(p) PROVE RowInv'
  BY <1>25 DEF Die, WrittenInPart, Put
<1>26. ASSUME NEW p \in Proc, OrphanExits(p) PROVE RowInv'
  BY <1>26 DEF OrphanExits
<1>27. QED
  BY <1>1, <1>2, <1>3, <1>4, <1>5, <1>6, <1>7, <1>8, <1>9, <1>10, <1>11,
     <1>12, <1>13, <1>14, <1>15, <1>16, <1>17, <1>18, <1>19, <1>20, <1>21,
     <1>22, <1>23, <1>24, <1>25, <1>26
  DEF Next, OwnStep, AfterLock, Clear

LEMMA SpecRowInv == Spec => []RowInv
  BY InitRowInv, NextRowInv, SpecLockInv, PTL DEF Spec

-----------------------------------------------------------------------------
LEMMA InitTornInv == Init => TornInv
  BY ContentAssumption DEF Init, TornInv, Saving, Torn

\* A login that truncates a file or writes into one is counted among those that have
\* not renamed until it renames, and it renames a file that nobody can read only if
\* another is counted too.
LEMMA NextTornInv == LockInv /\ TornInv /\ [Next]_vars => TornInv'
<1> USE ContentAssumption
    DEF LockInv, TypeOK, Running, Over, TornInv, Another, Saving, Torn, Goto,
        fileVars, Session
<1> SUFFICES ASSUME LockInv, TornInv, [Next]_vars PROVE TornInv'
  OBVIOUS
<1>1. CASE UNCHANGED vars
  BY <1>1 DEF vars
<1>2. ASSUME NEW p \in Proc, StartBrowserCommand(p) PROVE TornInv'
  BY <1>2 DEF StartBrowserCommand
<1>3. ASSUME NEW p \in Proc, Enter(p) PROVE TornInv'
  BY <1>3 DEF Enter, Lock!Enter
<1>4. ASSUME NEW p \in Proc, Busy(p) PROVE TornInv'
  BY <1>4 DEF Busy
<1>5. ASSUME NEW p \in Proc, Launch(p) PROVE TornInv'
  BY <1>5 DEF Launch
<1>6. ASSUME NEW p \in Proc, LaunchFails(p) PROVE TornInv'
  BY <1>6 DEF LaunchFails
<1>7. ASSUME NEW p \in Proc, Confirm(p) PROVE TornInv'
  BY <1>7 DEF Confirm
<1>8. ASSUME NEW p \in Proc, GiveUp(p) PROVE TornInv'
  BY <1>8 DEF GiveUp
<1>9. ASSUME NEW p \in Proc, TakeSnapshot(p) PROVE TornInv'
  BY <1>9 DEF TakeSnapshot
<1>10. ASSUME NEW p \in Proc, CloseBrowser(p) PROVE TornInv'
  BY <1>10 DEF CloseBrowser
<1>11. ASSUME NEW p \in Proc, Leave(p) PROVE TornInv'
  BY <1>11 DEF Leave
<1>12. ASSUME NEW p \in Proc, SignIn(p) PROVE TornInv'
  BY <1>12 DEF SignIn
<1>13. ASSUME NEW p \in Proc, Touch(p) PROVE TornInv'
  BY <1>13 DEF Touch, SaveStep
<1>14. ASSUME NEW p \in Proc, Open(p) PROVE TornInv'
  BY <1>14 DEF Open, SaveStep
<1>15. ASSUME NEW p \in Proc, Write(p) PROVE TornInv'
  <2>1. /\ pc[p] = "opened" /\ pc' = [pc EXCEPT ![p] = "written"]
        /\ target' = target /\ target[p] # "none"
    BY <1>15 DEF Write, SaveStep, Put
  <2>2. CASE target[p] = "temp"
    <3>1. /\ export' = export
          /\ temp' = snapshot[p] \/ (temp' = Broken /\ ~Alone(p))
      BY <1>15, <2>2, WriteEffect
    <3>2. ~Alone(p) => Another(p)
      BY <2>1, <2>2 DEF Alone
    <3>3. QED
      BY <2>1, <2>2, <3>1, <3>2
  <2>3. CASE target[p] # "temp"
    <3>1. temp' = temp
      BY <1>15, <2>3, WriteEffect
    <3>2. temp # NoExport => Another(p)
      BY <2>3
    <3>3. export' = export \/ export' = snapshot[p] \/ export' = Broken
      BY <1>15, WriteEffect
    <3>4. QED
      BY <2>1, <2>3, <3>1, <3>2, <3>3
  <2>4. QED
    BY <2>2, <2>3
<1>16. ASSUME NEW p \in Proc, Replace(p) PROVE TornInv'
  <2>1. CASE temp = NoExport
    BY <1>16, <2>1 DEF Replace, SaveStep
  <2>2. CASE temp # NoExport
    <3>1. /\ pc[p] = "written" /\ pc' = [pc EXCEPT ![p] = "saved"]
          /\ export' = temp /\ temp' = NoExport
      BY <1>16, <2>2 DEF Replace, SaveStep
    <3>2. /\ target'[p] = "none"
          /\ \A q \in Proc \ {p} : /\ target[q] # "none" => target'[q] # "none"
                                  /\ target'[q] # "temp"
      <4>1. target' = [Moved("temp", "export") EXCEPT ![p] = "none"]
        BY <1>16, <2>2 DEF Replace
      <4>2. Moved("temp", "export") \in [Proc -> {"none", "temp", "export", "gone"}]
        BY MovedTyped
      <4>3. QED
        BY <4>1, <4>2, MovedEffect
    <3>3. temp \in Torn => Another(p)
      BY <3>1
    <3>4. QED
      BY <3>1, <3>2, <3>3
  <2>3. QED
    BY <2>1, <2>2
<1>17. ASSUME NEW p \in Proc, Record(p) PROVE TornInv'
  BY <1>17 DEF Record
<1>18. ASSUME NEW p \in Proc, DiscoverEnds(p) PROVE TornInv'
  BY <1>18 DEF DiscoverEnds
<1>19. ASSUME NEW p \in Proc, ClearExport(p) PROVE TornInv'
  BY <1>19 DEF ClearExport, Moved
<1>20. ASSUME NEW p \in Proc, RemoveProfile(p) PROVE TornInv'
  BY <1>20 DEF RemoveProfile
<1>21. ASSUME NEW p \in Proc, RemoveFails(p) PROVE TornInv'
  BY <1>21 DEF RemoveFails
<1>22. ASSUME NEW p \in Proc, MarkReauth(p) PROVE TornInv'
  BY <1>22 DEF MarkReauth
<1>23. ASSUME NEW p \in Proc, SyncAccounts(p) PROVE TornInv'
  BY <1>23 DEF SyncAccounts
<1>24. ASSUME NEW p \in Proc, StepFails(p) PROVE TornInv'
  BY <1>24 DEF StepFails, WrittenInPart, Put
<1>25. ASSUME NEW p \in Proc, Die(p) PROVE TornInv'
  BY <1>25 DEF Die, WrittenInPart, Put
<1>26. ASSUME NEW p \in Proc, OrphanExits(p) PROVE TornInv'
  BY <1>26 DEF OrphanExits
<1>27. QED
  BY <1>1, <1>2, <1>3, <1>4, <1>5, <1>6, <1>7, <1>8, <1>9, <1>10, <1>11,
     <1>12, <1>13, <1>14, <1>15, <1>16, <1>17, <1>18, <1>19, <1>20, <1>21,
     <1>22, <1>23, <1>24, <1>25, <1>26
  DEF Next, OwnStep, AfterLock, Clear

LEMMA SpecTornInv == Spec => []TornInv
  BY InitTornInv, NextTornInv, SpecLockInv, PTL DEF Spec

-----------------------------------------------------------------------------
\* A session that is older than another one has a smaller number; the profile
\* directory never holds an older session than a browser that uses it, and the
\* files are not ahead of it.
AgeInv ==
  /\ ~profileDir => profileJar = 0
  /\ profileJar <= signIns
  /\ \A p \in Proc : jar[p] <= signIns /\ snapshot[p] <= signIns
  /\ export \in Session => export <= signIns
  /\ temp \in Session => temp <= signIns
  /\ profileJar # 0 =>
       /\ \A p \in Proc : jar[p] <= profileJar /\ snapshot[p] <= profileJar
       /\ export \in Session => export <= profileJar
       /\ temp \in Session => temp <= profileJar

\* No session that is saved, or that a login has yet to save, is newer.
Newest(n) ==
  /\ export \in Session => export <= n
  /\ temp \in Session => temp <= n
  /\ \A p \in Proc : YetToSave(p) => snapshot[p] <= n

\* A login was overtaken when any other got the lock; who has not been has the
\* newest session, and so has the temporary file, unless an overtaken one wrote it.
Overtakers ==
  /\ \A p \in overtaken : pc[p] \notin Holding \cup {"start", "waiting"}
  /\ \A p, q \in Proc : YetToSave(p) /\ pc[q] \in Holding => p \in overtaken
  /\ \A p, q \in Proc :
       YetToSave(p) /\ YetToSave(q) /\ p # q => p \in overtaken \/ q \in overtaken

Fresh ==
  hasAdapter =>
    \A p \in Proc : cmd[p] = "login" =>
      /\ pc[p] \in {"browsing", "confirmed"} /\ jar[p] # 0 => Newest(jar[p])
      /\ pc[p] = "closing" => Newest(snapshot[p])
      /\ YetToSave(p) /\ p \notin overtaken => Newest(snapshot[p])

FreshTemp ==
  hasAdapter /\ temp \in Session /\ (\A p \in overtaken : snapshot[p] # temp) =>
    /\ export \in Session => export <= temp
    /\ \A p \in Proc :
         pc[p] = "opened" /\ target[p] = "export" => snapshot[p] <= temp

TurnInv == Overtakers /\ Fresh /\ FreshTemp

\* One save at a time, unless a login is overtaken.
SavesApart ==
  \A p, q \in Proc : YetToSave(p) /\ YetToSave(q) /\ p # q => overtaken # {}

\* Then each save has the temporary file to itself.
ApartInv ==
  overtaken = {} =>
    /\ \A p \in Proc : pc[p] = "opened" => target[p] = "temp" /\ temp = Empty
    /\ \A p \in Proc : pc[p] = "written" => temp = snapshot[p]
    /\ export \notin Torn

LEMMA InitAgeInv == Init => AgeInv
  BY ContentAssumption DEF Init, AgeInv, Session

LEMMA NextAgeInv == LockInv /\ AgeInv /\ [Next]_vars => AgeInv'
<1> USE ContentAssumption, MaxSignInsAssumption
    DEF LockInv, TypeOK, Session, AgeInv, profileVars, fileVars
<1> SUFFICES ASSUME LockInv, AgeInv, [Next]_vars PROVE AgeInv'
  OBVIOUS
<1>1. CASE UNCHANGED vars
  BY <1>1 DEF vars
<1>2. ASSUME NEW p \in Proc, StartBrowserCommand(p) PROVE AgeInv'
  BY <1>2 DEF StartBrowserCommand
<1>3. ASSUME NEW p \in Proc, Enter(p) PROVE AgeInv'
  BY <1>3 DEF Enter, Lock!Enter
<1>4. ASSUME NEW p \in Proc, Busy(p) PROVE AgeInv'
  BY <1>4 DEF Busy
<1>5. ASSUME NEW p \in Proc, Launch(p) PROVE AgeInv'
  BY <1>5 DEF Launch
<1>6. ASSUME NEW p \in Proc, LaunchFails(p) PROVE AgeInv'
  BY <1>6 DEF LaunchFails
<1>7. ASSUME NEW p \in Proc, Confirm(p) PROVE AgeInv'
  BY <1>7 DEF Confirm
<1>8. ASSUME NEW p \in Proc, GiveUp(p) PROVE AgeInv'
  BY <1>8 DEF GiveUp
<1>9. ASSUME NEW p \in Proc, TakeSnapshot(p) PROVE AgeInv'
  BY <1>9 DEF TakeSnapshot
<1>10. ASSUME NEW p \in Proc, CloseBrowser(p) PROVE AgeInv'
  BY <1>10 DEF CloseBrowser
<1>11. ASSUME NEW p \in Proc, Leave(p) PROVE AgeInv'
  BY <1>11 DEF Leave
<1>12. ASSUME NEW p \in Proc, SignIn(p) PROVE AgeInv'
  BY <1>12 DEF SignIn
<1>13. ASSUME NEW p \in Proc, Touch(p) PROVE AgeInv'
  BY <1>13 DEF Touch, SaveStep
<1>14. ASSUME NEW p \in Proc, Open(p) PROVE AgeInv'
  BY <1>14 DEF Open, SaveStep
<1>15. ASSUME NEW p \in Proc, Write(p) PROVE AgeInv'
  BY <1>15 DEF Write, SaveStep, Put
<1>16. ASSUME NEW p \in Proc, Replace(p) PROVE AgeInv'
  BY <1>16 DEF Replace, SaveStep, Moved
<1>17. ASSUME NEW p \in Proc, Record(p) PROVE AgeInv'
  BY <1>17 DEF Record
<1>18. ASSUME NEW p \in Proc, DiscoverEnds(p) PROVE AgeInv'
  BY <1>18 DEF DiscoverEnds
<1>19. ASSUME NEW p \in Proc, ClearExport(p) PROVE AgeInv'
  BY <1>19 DEF ClearExport, Moved
<1>20. ASSUME NEW p \in Proc, RemoveProfile(p) PROVE AgeInv'
  BY <1>20 DEF RemoveProfile
<1>21. ASSUME NEW p \in Proc, RemoveFails(p) PROVE AgeInv'
  BY <1>21 DEF RemoveFails
<1>22. ASSUME NEW p \in Proc, MarkReauth(p) PROVE AgeInv'
  BY <1>22 DEF MarkReauth
<1>23. ASSUME NEW p \in Proc, SyncAccounts(p) PROVE AgeInv'
  BY <1>23 DEF SyncAccounts
<1>24. ASSUME NEW p \in Proc, StepFails(p) PROVE AgeInv'
  BY <1>24 DEF StepFails, WrittenInPart, Put
<1>25. ASSUME NEW p \in Proc, Die(p) PROVE AgeInv'
  BY <1>25 DEF Die, WrittenInPart, Put
<1>26. ASSUME NEW p \in Proc, OrphanExits(p) PROVE AgeInv'
  BY <1>26 DEF OrphanExits
<1>27. QED
  BY <1>1, <1>2, <1>3, <1>4, <1>5, <1>6, <1>7, <1>8, <1>9, <1>10, <1>11,
     <1>12, <1>13, <1>14, <1>15, <1>16, <1>17, <1>18, <1>19, <1>20, <1>21,
     <1>22, <1>23, <1>24, <1>25, <1>26
  DEF Next, OwnStep, AfterLock, Clear

LEMMA SpecAgeInv == Spec => []AgeInv
  BY InitAgeInv, NextAgeInv, SpecLockInv, PTL DEF Spec

LEMMA InitTurnInv == Init => TurnInv
  BY ContentAssumption DEF Init, TurnInv, Overtakers, Fresh, FreshTemp, YetToSave, Session, Holding

LEMMA NotOvertaken ==
  ASSUME TurnInv, hasAdapter, NEW p \in Proc, cmd[p] = "login",
         NEW n, n = jar[p], NEW m, m = snapshot[p]
  PROVE  /\ pc[p] \in {"browsing", "confirmed"} /\ n # 0 => Newest(n)
         /\ pc[p] = "closing" => Newest(m)
         /\ YetToSave(p) /\ p \notin overtaken => Newest(m)
  BY DEF TurnInv, Fresh

LEMMA NextTurnInv ==
  LockInv /\ RowInv /\ AgeInv /\ TurnInv /\ [Next]_vars => TurnInv'
<1> USE ContentAssumption, MaxSignInsAssumption
    DEF LockInv, TypeOK, Session, RowInv, Saving, AgeInv, TurnInv, Newest, YetToSave,
        Overtakers, Fresh, FreshTemp, Holding, Goto, profileVars, fileVars
<1> SUFFICES ASSUME LockInv, RowInv, AgeInv, TurnInv, [Next]_vars PROVE TurnInv'
  OBVIOUS
<1>1. CASE UNCHANGED vars
  BY <1>1 DEF vars
<1>2. ASSUME NEW p \in Proc, StartBrowserCommand(p) PROVE TurnInv'
  BY <1>2 DEF StartBrowserCommand
<1>3. ASSUME NEW p \in Proc, Enter(p) PROVE TurnInv'
  BY <1>3 DEF Enter, Lock!Enter
<1>4. ASSUME NEW p \in Proc, Busy(p) PROVE TurnInv'
  BY <1>4 DEF Busy
<1>5. ASSUME NEW p \in Proc, Launch(p) PROVE TurnInv'
  BY <1>5 DEF Launch
<1>6. ASSUME NEW p \in Proc, LaunchFails(p) PROVE TurnInv'
  BY <1>6 DEF LaunchFails
<1>7. ASSUME NEW p \in Proc, Confirm(p) PROVE TurnInv'
  BY <1>7 DEF Confirm
<1>8. ASSUME NEW p \in Proc, GiveUp(p) PROVE TurnInv'
  BY <1>8 DEF GiveUp
<1>9. ASSUME NEW p \in Proc, TakeSnapshot(p) PROVE TurnInv'
  BY <1>9 DEF TakeSnapshot
<1>10. ASSUME NEW p \in Proc, CloseBrowser(p) PROVE TurnInv'
  BY <1>10 DEF CloseBrowser
<1>11. ASSUME NEW p \in Proc, Leave(p) PROVE TurnInv'
  BY <1>11 DEF Leave
<1>12. ASSUME NEW p \in Proc, SignIn(p) PROVE TurnInv'
  BY <1>12 DEF SignIn
<1>13. ASSUME NEW p \in Proc, Touch(p) PROVE TurnInv'
  BY <1>13 DEF Touch, SaveStep
<1>14. ASSUME NEW p \in Proc, Open(p) PROVE TurnInv'
  BY <1>14 DEF Open, SaveStep
<1>15. ASSUME NEW p \in Proc, Write(p) PROVE TurnInv'
  <2>1. /\ pc[p] = "opened" /\ pc' = [pc EXCEPT ![p] = "written"]
        /\ target' = target /\ YetToSave(p) /\ snapshot[p] \in Nat
        /\ UNCHANGED <<hasAdapter, cmd, jar, snapshot, overtaken>>
    BY <1>15 DEF Write, SaveStep, Put
  <2>2. \A q \in Proc : /\ YetToSave(q)' <=> YetToSave(q)
                       /\ pc'[q] \in Holding <=> pc[q] \in Holding
    BY <2>1
  <2>3. /\ temp' = temp \/ temp' = snapshot[p] \/ temp' = Broken
        /\ export' = export \/ export' = snapshot[p] \/ export' = Broken
        /\ target[p] # "temp" => temp' = temp
        /\ target[p] # "export" => export' = export
    BY <1>15 DEF Write, Put
  <2>4. \A n \in Nat : Newest(n) => Newest(n)'
    BY <2>1, <2>2, <2>3
  <2>5. hasAdapter /\ p \notin overtaken => Newest(snapshot[p])
    BY <2>1
  <2>6. hasAdapter' /\ temp' \in Session /\ (\A q \in overtaken : snapshot[q] # temp')
          => /\ export' \in Session => export' <= temp'
             /\ \A q \in Proc :
                  pc'[q] = "opened" /\ target'[q] = "export" => snapshot'[q] <= temp'
    <3>1. CASE target[p] = "temp"
      <4>1. CASE temp' = temp
        BY <2>1, <2>3, <3>1, <4>1
      <4>2. CASE temp' = snapshot[p]
        BY <2>1, <2>3, <2>5, <3>1, <4>2
      <4>3. QED
        BY <2>3, <4>1, <4>2
    <3>2. CASE target[p] # "temp"
      BY <2>1, <2>3, <3>2
    <3>3. QED
      BY <3>1, <3>2
  <2>7. /\ \A q \in overtaken' : pc'[q] \notin Holding \cup {"start", "waiting"}
        /\ \A q, r \in Proc : YetToSave(q)' /\ pc'[r] \in Holding => q \in overtaken'
        /\ \A q, r \in Proc : YetToSave(q)' /\ YetToSave(r)' /\ q # r
             => q \in overtaken' \/ r \in overtaken'
    BY <2>1, <2>2
  <2>8. ASSUME hasAdapter', NEW q \in Proc, cmd'[q] = "login"
        PROVE  /\ (pc[q] \in {"browsing", "confirmed"} /\ jar[q] # 0 => Newest(jar[q]))'
               /\ (pc[q] = "closing" => Newest(snapshot[q]))'
               /\ (YetToSave(q) /\ q \notin overtaken => Newest(snapshot[q]))'
    <3>1. PICK n \in Nat, m \in Nat : n = jar[q] /\ m = snapshot[q]
      OBVIOUS
    <3>2. /\ n = jar'[q] /\ m = snapshot'[q]
          /\ hasAdapter /\ cmd[q] = "login"
      BY <2>1, <2>8, <3>1
    <3>3. (Newest(n) => Newest(n)') /\ (Newest(m) => Newest(m)')
      BY <2>4
    <3>4. /\ pc[q] \in {"browsing", "confirmed"} /\ n # 0 => Newest(n)
          /\ pc[q] = "closing" => Newest(m)
          /\ YetToSave(q) /\ q \notin overtaken => Newest(m)
      BY <3>1, <3>2, NotOvertaken
    <3>5. pc'[q] \in {"browsing", "confirmed", "closing"} => pc'[q] = pc[q]
      BY <2>1
    <3>6. YetToSave(q)' <=> YetToSave(q)
      BY <2>1
    <3>7. /\ Newest(n)' => Newest(jar[q])'
          /\ Newest(m)' => Newest(snapshot[q])'
      BY <3>2
    <3> HIDE DEF Newest, YetToSave
    <3>8. QED
      BY <2>1, <3>1, <3>2, <3>3, <3>4, <3>5, <3>6, <3>7
  <2>9. Overtakers'
    BY <2>7
  <2>10. FreshTemp'
    BY <2>1, <2>6
  <2>11. Fresh'
    BY <2>8
  <2> HIDE DEF Overtakers, Fresh, FreshTemp
  <2>12. QED
    BY <2>9, <2>10, <2>11
<1>16. ASSUME NEW p \in Proc, Replace(p) PROVE TurnInv'
  BY <1>16 DEF Replace, SaveStep, Moved
<1>17. ASSUME NEW p \in Proc, Record(p) PROVE TurnInv'
  BY <1>17 DEF Record
<1>18. ASSUME NEW p \in Proc, DiscoverEnds(p) PROVE TurnInv'
  BY <1>18 DEF DiscoverEnds
<1>19. ASSUME NEW p \in Proc, ClearExport(p) PROVE TurnInv'
  BY <1>19 DEF ClearExport, Moved
<1>20. ASSUME NEW p \in Proc, RemoveProfile(p) PROVE TurnInv'
  BY <1>20 DEF RemoveProfile
<1>21. ASSUME NEW p \in Proc, RemoveFails(p) PROVE TurnInv'
  BY <1>21 DEF RemoveFails
<1>22. ASSUME NEW p \in Proc, MarkReauth(p) PROVE TurnInv'
  BY <1>22 DEF MarkReauth
<1>23. ASSUME NEW p \in Proc, SyncAccounts(p) PROVE TurnInv'
  BY <1>23 DEF SyncAccounts
<1>24. ASSUME NEW p \in Proc, StepFails(p) PROVE TurnInv'
  BY <1>24 DEF StepFails, WrittenInPart, Put
<1>25. ASSUME NEW p \in Proc, Die(p) PROVE TurnInv'
  BY <1>25 DEF Die, WrittenInPart, Put
<1>26. ASSUME NEW p \in Proc, OrphanExits(p) PROVE TurnInv'
  BY <1>26 DEF OrphanExits
<1>27. QED
  BY <1>1, <1>2, <1>3, <1>4, <1>5, <1>6, <1>7, <1>8, <1>9, <1>10, <1>11,
     <1>12, <1>13, <1>14, <1>15, <1>16, <1>17, <1>18, <1>19, <1>20, <1>21,
     <1>22, <1>23, <1>24, <1>25, <1>26
  DEF Next, OwnStep, AfterLock, Clear

LEMMA SpecTurnInv == Spec => []TurnInv
  BY InitTurnInv, NextTurnInv, SpecLockInv, SpecRowInv, SpecAgeInv, PTL DEF Spec

-----------------------------------------------------------------------------
LEMMA InitApartInv == Init => ApartInv
  BY ContentAssumption DEF Init, ApartInv, Torn

\* Two logins with a save before them at once have one that was overtaken.
LEMMA TurnApart == TurnInv => SavesApart
  BY DEF TurnInv, Overtakers, SavesApart

LEMMA NextApartInv ==
  LockInv /\ RowInv /\ SavesApart /\ ApartInv /\ [Next]_vars => ApartInv'
<1> USE ContentAssumption
    DEF LockInv, TypeOK, Session, RowInv, Saving, SavesApart, ApartInv, YetToSave,
        Torn, Goto, fileVars
<1> SUFFICES ASSUME LockInv, RowInv, SavesApart, ApartInv, [Next]_vars PROVE ApartInv'
  OBVIOUS
<1>1. CASE UNCHANGED vars
  BY <1>1 DEF vars
<1>2. ASSUME NEW p \in Proc, StartBrowserCommand(p) PROVE ApartInv'
  BY <1>2 DEF StartBrowserCommand
<1>3. ASSUME NEW p \in Proc, Enter(p) PROVE ApartInv'
  BY <1>3 DEF Enter, Lock!Enter
<1>4. ASSUME NEW p \in Proc, Busy(p) PROVE ApartInv'
  BY <1>4 DEF Busy
<1>5. ASSUME NEW p \in Proc, Launch(p) PROVE ApartInv'
  BY <1>5 DEF Launch
<1>6. ASSUME NEW p \in Proc, LaunchFails(p) PROVE ApartInv'
  BY <1>6 DEF LaunchFails
<1>7. ASSUME NEW p \in Proc, Confirm(p) PROVE ApartInv'
  BY <1>7 DEF Confirm
<1>8. ASSUME NEW p \in Proc, GiveUp(p) PROVE ApartInv'
  BY <1>8 DEF GiveUp
<1>9. ASSUME NEW p \in Proc, TakeSnapshot(p) PROVE ApartInv'
  BY <1>9 DEF TakeSnapshot
<1>10. ASSUME NEW p \in Proc, CloseBrowser(p) PROVE ApartInv'
  BY <1>10 DEF CloseBrowser
<1>11. ASSUME NEW p \in Proc, Leave(p) PROVE ApartInv'
  BY <1>11 DEF Leave
<1>12. ASSUME NEW p \in Proc, SignIn(p) PROVE ApartInv'
  BY <1>12 DEF SignIn
<1>13. ASSUME NEW p \in Proc, Touch(p) PROVE ApartInv'
  BY <1>13 DEF Touch, SaveStep
<1>14. ASSUME NEW p \in Proc, Open(p) PROVE ApartInv'
  BY <1>14 DEF Open, SaveStep
<1>15. ASSUME NEW p \in Proc, Write(p) PROVE ApartInv'
  <2>1. /\ target' = target /\ pc' = [pc EXCEPT ![p] = "written"]
        /\ UNCHANGED <<cmd, snapshot, overtaken>>
    BY <1>15, WriteEffect DEF Write, SaveStep
  <2>2. SUFFICES ASSUME overtaken = {} PROVE ApartInv'
    BY <2>1
  <2>3. pc[p] = "opened" /\ target[p] = "temp" /\ temp = Empty /\ cmd[p] = "login"
    BY <1>15, <2>2, WriteEffect
  <2>4. \A q \in Proc \ {p} : pc[q] \notin {"opened", "written"}
    BY <2>2, <2>3
  <2>5. Alone(p)
    BY <2>3, <2>4 DEF Alone
  <2>6. temp' = snapshot[p] /\ export' = export
    BY <1>15, <2>3, <2>5, WriteEffect
  <2>7. QED
    BY <2>1, <2>2, <2>3, <2>4, <2>6
<1>16. ASSUME NEW p \in Proc, Replace(p) PROVE ApartInv'
  BY <1>16 DEF Replace, SaveStep, Moved
<1>17. ASSUME NEW p \in Proc, Record(p) PROVE ApartInv'
  BY <1>17 DEF Record
<1>18. ASSUME NEW p \in Proc, DiscoverEnds(p) PROVE ApartInv'
  BY <1>18 DEF DiscoverEnds
<1>19. ASSUME NEW p \in Proc, ClearExport(p) PROVE ApartInv'
  BY <1>19 DEF ClearExport, Moved
<1>20. ASSUME NEW p \in Proc, RemoveProfile(p) PROVE ApartInv'
  BY <1>20 DEF RemoveProfile
<1>21. ASSUME NEW p \in Proc, RemoveFails(p) PROVE ApartInv'
  BY <1>21 DEF RemoveFails
<1>22. ASSUME NEW p \in Proc, MarkReauth(p) PROVE ApartInv'
  BY <1>22 DEF MarkReauth
<1>23. ASSUME NEW p \in Proc, SyncAccounts(p) PROVE ApartInv'
  BY <1>23 DEF SyncAccounts
<1>24. ASSUME NEW p \in Proc, StepFails(p) PROVE ApartInv'
  BY <1>24 DEF StepFails, WrittenInPart, Put
<1>25. ASSUME NEW p \in Proc, Die(p) PROVE ApartInv'
  BY <1>25 DEF Die, WrittenInPart, Put
<1>26. ASSUME NEW p \in Proc, OrphanExits(p) PROVE ApartInv'
  BY <1>26 DEF OrphanExits
<1>27. QED
  BY <1>1, <1>2, <1>3, <1>4, <1>5, <1>6, <1>7, <1>8, <1>9, <1>10, <1>11,
     <1>12, <1>13, <1>14, <1>15, <1>16, <1>17, <1>18, <1>19, <1>20, <1>21,
     <1>22, <1>23, <1>24, <1>25, <1>26
  DEF Next, OwnStep, AfterLock, Clear

LEMMA SpecApartInv == Spec => []ApartInv
  BY InitApartInv, NextApartInv, TurnApart, SpecLockInv, SpecRowInv, SpecTurnInv, PTL
  DEF Spec

-----------------------------------------------------------------------------
\* Every variable keeps its type.
THEOREM TypeCorrect == Spec => []TypeOK
  BY SpecLockInv, PTL DEF LockInv

\* A live browser's process is inside the profile lock (login.py:82-85,
\* discover.py:65-68): no command starts a browser on a profile that another
\* live command is using.
THEOREM BrowsersLocked == Spec => []BrowserUnderLock
<1>1. LockInv => BrowserUnderLock
  BY DEF LockInv, TypeOK, BrowserUnderLock, Live, Holding
<1>2. QED
  BY SpecLockInv, <1>1, PTL

\* As long as one command was the last to change the export and the last to update
\* the row, the two agree; and an export that nobody can read takes a login that was
\* overtaken before its save and one that has not come to the end of it
\* (login.py:98-99, cli.py:417-422, session/store.py:174-177).
THEOREM RowAndExportAgree == Spec => []RowMatchesExport
<1>1. LockInv /\ RowInv /\ TornInv /\ ApartInv => RowMatchesExport
  BY DEF LockInv, TypeOK, RowInv, TornInv, ApartInv, RowMatchesExport
<1>2. QED
  BY SpecLockInv, SpecRowInv, SpecTornInv, SpecApartInv, <1>1, PTL

\* With an adapter the session that replaces a newer one is that of a login which
\* was overtaken between its release of the lock and its save (login.py:96-98).
THEOREM ExportAges == Spec => ExportNeverOlder
<1>1. LockInv /\ RowInv /\ TurnInv /\ [Next]_vars => [NeverOlder]_vars
  <2> SUFFICES ASSUME LockInv, RowInv, TurnInv, Next, hasAdapter, export \in Session,
                      export' \in Session, export' < export
               PROVE  \E p \in overtaken : snapshot[p] = export'
    BY DEF NeverOlder
  <2> USE ContentAssumption, MaxSignInsAssumption
      DEF LockInv, TypeOK, Session, RowInv, Saving
  <2>1. export \in Nat /\ export' # export
    OBVIOUS
  <2>2. ASSUME NEW p \in Proc, Write(p)
        PROVE  \E q \in overtaken : snapshot[q] = export'
    <3>1. target[p] = "export" /\ export' = snapshot[p]
      BY <2>1, <2>2 DEF Write, Put
    <3>2. pc[p] = "opened" /\ YetToSave(p)
      BY <2>2 DEF Write, SaveStep, Goto, YetToSave
    <3>3. CASE p \notin overtaken
      BY <3>1, <3>2, <3>3 DEF TurnInv, Fresh, Newest, YetToSave
    <3>4. QED
      BY <3>1, <3>3
  <2>3. ASSUME NEW p \in Proc, Replace(p)
        PROVE  \E q \in overtaken : snapshot[q] = export'
    <3>1. export' = temp
      BY <2>1, <2>3 DEF Replace, SaveStep, fileVars
    <3>2. QED
      BY <2>1, <3>1 DEF TurnInv, FreshTemp
  <2>4. ASSUME NEW p \in Proc, ClearExport(p) PROVE FALSE
    BY <2>4 DEF ClearExport
  <2>5. ASSUME NEW p \in Proc, WrittenInPart(p) PROVE FALSE
    BY <2>1, <2>5 DEF WrittenInPart, Put, fileVars
  <2>6. (\A p \in Proc : /\ ~Write(p) /\ ~Replace(p) /\ ~ClearExport(p)
                         /\ ~WrittenInPart(p)) => export' = export
    BY DEF Next, OwnStep, AfterLock, Clear, StartBrowserCommand, Enter, Busy,
           Launch, LaunchFails, Confirm, GiveUp, TakeSnapshot, CloseBrowser,
           Leave, SignIn, Touch, Open, Record, DiscoverEnds, RemoveProfile,
           RemoveFails, MarkReauth, SyncAccounts, StepFails, Die, OrphanExits,
           fileVars
  <2>7. QED
    BY <2>1, <2>2, <2>3, <2>4, <2>5, <2>6
<1>2. QED
  BY SpecLockInv, SpecRowInv, SpecTurnInv, <1>1, PTL
  DEF Spec, ExportNeverOlder

\* Two logins save at once only if one has got the lock while the other had yet to
\* save (login.py:96-98).
THEOREM OneSaveAtATime == Spec => []SavesApart
  BY SpecTurnInv, TurnApart, PTL
=============================================================================
