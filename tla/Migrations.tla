----------------------------- MODULE Migrations ------------------------------
(***************************************************************************)
(* The migration runner (db/__init__.py), run by every command that opens  *)
(* the database, several of them at once and of different builds.          *)
(*                                                                         *)
(* A runner reads the record of applied migrations outside any             *)
(* transaction, decides from it what is pending, and applies the pending   *)
(* migrations one transaction each, without reading the record again.      *)
(* What protects the schema from two runners with the same plan is that a  *)
(* script does not run twice (its tables are there) and that the version   *)
(* is the primary key of schema_migrations.                                *)
(*                                                                         *)
(* The version of a migration is its place in the build; migrations are    *)
(* numbered from 001 without gaps.                                         *)
(***************************************************************************)
EXTENDS Naturals, Sequences

CONSTANTS
  Proc,        \* processes; each opens the database once
  NoProc,      \* nobody has the write lock
  Text,        \* the migration scripts, by checksum
  NoText,      \* a version that is not recorded
  MaxVersion,  \* bound: the highest version (999: the file names have 3 digits)
  Builds       \* the builds that are run: each the sequence of its migrations

ASSUME NoProcAssumption == NoProc \notin Proc
ASSUME NoTextAssumption == NoText \notin Text
ASSUME MaxVersionAssumption == MaxVersion \in Nat
ASSUME BuildsAssumption ==
  /\ Builds # {}
  /\ \A b \in Builds : b \in Seq(Text) /\ Len(b) <= MaxVersion

VARIABLES
  pc,       \* pc[p]: the step of migrate p is at
  build,    \* build[p]: the build p is
  pending,  \* pending[p]: the versions p has still to apply
  log,      \* log[v]: the script schema_migrations has for version v
  ran,      \* ran[v]: how often version v's script was run on the schema
  writer,   \* the process in a write transaction
  newLog,   \* log as the writer's transaction has it
  newRan    \* ran as the writer's transaction has it

vars == <<pc, build, pending, log, ran, writer, newLog, newRan>>

-----------------------------------------------------------------------------
Version    == 1 .. MaxVersion
Shipped(p) == 1 .. Len(build[p])
Recorded   == {v \in Version : log[v] # NoText}

Inside == {"begun", "altered", "recorded"}
Over   == {"done", "refused", "failed", "dead"}

TypeOK ==
  /\ pc \in [Proc -> {"start", "applying"} \cup Inside \cup Over]
  /\ build \in [Proc -> Builds]
  /\ pending \in [Proc -> SUBSET Version]
  /\ log \in [Version -> Text \cup {NoText}]
  /\ ran \in [Version -> Nat]
  /\ writer \in Proc \cup {NoProc}
  /\ newLog \in [Version -> Text \cup {NoText}]
  /\ newRan \in [Version -> Nat]

Init ==
  /\ pc = [p \in Proc |-> "start"]
  /\ build \in [Proc -> Builds]
  /\ pending = [p \in Proc |-> {}]
  /\ log = [v \in Version |-> NoText]
  /\ ran = [v \in Version |-> 0]
  /\ writer = NoProc
  /\ newLog = log
  /\ newRan = ran

Goto(p, from, to) ==
  /\ pc[p] = from
  /\ pc' = [pc EXCEPT ![p] = to]

-----------------------------------------------------------------------------
(* Reading the record.                                                     *)

\* No migration that was applied has been edited, and none is unknown.
Compatible(p) ==
  \A v \in Recorded : v \in Shipped(p) /\ log[v] = build[p][v]

Plan(p) ==
  /\ Goto(p, "start", "applying")
  /\ Compatible(p)
  /\ pending' = [pending EXCEPT ![p] = Shipped(p) \ Recorded]
  /\ UNCHANGED <<build, log, ran, writer, newLog, newRan>>

\* MigrationError: an applied migration was modified, or the database is newer.
Refuse(p) ==
  /\ Goto(p, "start", "refused")
  /\ ~Compatible(p)
  /\ UNCHANGED <<build, pending, log, ran, writer, newLog, newRan>>

-----------------------------------------------------------------------------
(* Applying one migration: BEGIN IMMEDIATE, the script, the row, COMMIT.   *)

\* Bug: the files are taken in the order the directory lists them.
IsAnyPending(p, v) == v \in pending[p]

IsNextPending(p, v) == v \in pending[p] /\ \A w \in pending[p] : v <= w

Begin(p) ==
  /\ Goto(p, "applying", "begun")
  /\ pending[p] # {}
  /\ writer = NoProc
  /\ writer' = p
  /\ newLog' = log
  /\ newRan' = ran
  /\ UNCHANGED <<build, pending, log, ran>>

\* Bug: the script commits, and the row is written in a transaction of its own.
RunScriptApart(p) ==
  /\ Goto(p, "begun", "altered")
  /\ \E v \in Version :
       /\ IsNextPending(p, v)
       /\ newRan[v] = 0
       /\ newRan' = [newRan EXCEPT ![v] = newRan[v] + 1]
  /\ ran' = newRan'
  /\ UNCHANGED <<build, pending, log, writer, newLog>>

\* A script that has been run cannot run again: its tables are there.
RunScript(p) ==
  /\ Goto(p, "begun", "altered")
  /\ \E v \in Version :
       /\ IsNextPending(p, v)
       /\ newRan[v] = 0
       /\ newRan' = [newRan EXCEPT ![v] = newRan[v] + 1]
  /\ UNCHANGED <<build, pending, log, ran, writer, newLog>>

\* Bug: the row has the version in the column of the checksum.
InsertSwapped(p) ==
  /\ Goto(p, "altered", "recorded")
  /\ \E v \in Version :
       /\ IsNextPending(p, v)
       /\ newLog[v] = NoText
       /\ newLog' = [newLog EXCEPT ![v] = v]
  /\ UNCHANGED <<build, pending, log, ran, writer, newRan>>

InsertRow(p) ==
  /\ Goto(p, "altered", "recorded")
  /\ \E v \in Version :
       /\ IsNextPending(p, v)
       /\ newLog[v] = NoText
       /\ newLog' = [newLog EXCEPT ![v] = build[p][v]]
  /\ UNCHANGED <<build, pending, log, ran, writer, newRan>>

Commit(p) ==
  /\ Goto(p, "recorded", "applying")
  /\ log' = newLog
  /\ ran' = newRan
  /\ writer' = NoProc
  /\ pending' = [pending EXCEPT ![p] = {v \in pending[p] : ~IsNextPending(p, v)}]
  /\ UNCHANGED <<build, newLog, newRan>>

Finish(p) ==
  /\ Goto(p, "applying", "done")
  /\ pending[p] = {}
  /\ UNCHANGED <<build, pending, log, ran, writer, newLog, newRan>>

\* Bug: a migration that fails is logged and left out.
FailSkipping(p) ==
  /\ pc[p] \in {"start", "applying"} \cup Inside
  /\ pc' = [pc EXCEPT ![p] = "done"]
  /\ writer' = IF writer = p THEN NoProc ELSE writer
  /\ UNCHANGED <<build, pending, log, ran, newLog, newRan>>

\* The write lock is not free within the busy timeout, the script or the row is
\* there already, or the disk is full: what the transaction did is rolled back,
\* and the migrations that come after it are not tried.
Fail(p) ==
  /\ pc[p] \in {"start", "applying"} \cup Inside
  /\ pc' = [pc EXCEPT ![p] = "failed"]
  /\ writer' = IF writer = p THEN NoProc ELSE writer
  /\ UNCHANGED <<build, pending, log, ran, newLog, newRan>>

\* The process is killed; SQLite rolls back what it had not committed.
Die(p) ==
  /\ pc[p] \in {"applying"} \cup Inside
  /\ pc' = [pc EXCEPT ![p] = "dead"]
  /\ writer' = IF writer = p THEN NoProc ELSE writer
  /\ UNCHANGED <<build, pending, log, ran, newLog, newRan>>

-----------------------------------------------------------------------------
Next ==
  \E p \in Proc :
    \/ Plan(p) \/ Refuse(p)
    \/ Begin(p) \/ RunScript(p) \/ InsertRow(p) \/ Commit(p) \/ Finish(p)
    \/ Fail(p) \/ Die(p)

Spec == Init /\ [][Next]_vars

-----------------------------------------------------------------------------
(* Properties.                                                             *)

\* The schema is what the record says it is: every recorded migration ran on it
\* exactly once and no other did, however many runners planned it and whichever
\* of them died half-way.
SchemaMatchesLog ==
  \A v \in Version : ran[v] = IF log[v] = NoText THEN 0 ELSE 1

\* What is recorded is the beginning of one build, even when builds with
\* different ideas of a migration run at the same time.
LogIsOneBuild ==
  \E b \in Builds : \E n \in 0 .. Len(b) :
    \A v \in Version : log[v] = IF v <= n THEN b[v] ELSE NoText

\* A command that got its connection has all of its build's migrations, as it
\* ships them, from then on.
DoneMeansMigrated ==
  \A p \in Proc : pc[p] = "done" => \A v \in Shipped(p) : log[v] = build[p][v]

\* The versions that are recorded without a gap from the first.
Unbroken(n) ==
  /\ \A v \in 1 .. n : log[v] # NoText
  /\ n < MaxVersion => log[n + 1] = NoText

History ==
  LET n == CHOOSE n \in 0 .. MaxVersion : Unbroken(n)
  IN  [v \in 1 .. n |-> log[v]]

Schema == INSTANCE SchemaLog WITH history <- History

\* The record grows by the next migration of a build it agrees with, one at a
\* time, and never in another way.
RefinesSchemaLog == Schema!Spec
=============================================================================
