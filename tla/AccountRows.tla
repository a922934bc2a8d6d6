----------------------------- MODULE AccountRows -----------------------------
(***************************************************************************)
(* The accounts table (accounts.py and the accounts part of                *)
(* 001_initial.sql) under the commands that write it: `accounts` and       *)
(* `init` sync it with the config in one transaction of several            *)
(* statements, `login` and `session clear` update the row of one account   *)
(* in a statement of their own.  The config file is edited meanwhile, and  *)
(* a command goes by the config it loaded when it started.                 *)
(***************************************************************************)
CONSTANTS
  Proc,     \* processes; each runs one command
  NoProc,   \* nobody has the write lock of the database
  Account, Site, Absent,
  Configs   \* bound: the contents that the config file takes

VARIABLES
  file,     \* the content of the config file
  pc,       \* pc[p]: the step p is at
  loaded,   \* loaded[p]: the config p goes by
  todo,     \* todo[p]: the accounts that sync has still to upsert
  rows,     \* the table
  writer,   \* the process in a write transaction
  newRows,  \* the table as the writer's transaction has it
  synced    \* history: the config of the last sync that was committed

vars == <<file, pc, loaded, todo, rows, writer, newRows, synced>>

Roster == INSTANCE AccountRoster

ASSUME NoProcAssumption == NoProc \notin Proc
ASSUME AbsentAssumption == Absent \notin Roster!Entry \cup Roster!Row
ASSUME ConfigsAssumption == Configs \subseteq Roster!Config

-----------------------------------------------------------------------------
NoConfig == [a \in Account |-> Absent]

InTransaction == {"upserting", "disabled"}
Over == {"done", "failed", "dead"}

TypeOK ==
  /\ file \in Configs
  /\ pc \in [Proc -> {"start", "loaded"} \cup InTransaction \cup Over]
  /\ loaded \in [Proc -> Configs \cup {NoConfig}]
  /\ todo \in [Proc -> SUBSET Account]
  /\ rows \in Roster!Rows
  /\ writer \in Proc \cup {NoProc}
  /\ newRows \in Roster!Rows
  /\ synced \in Roster!Config

Init ==
  /\ file \in Configs
  /\ pc = [p \in Proc |-> "start"]
  /\ loaded = [p \in Proc |-> NoConfig]
  /\ todo = [p \in Proc |-> {}]
  /\ Roster!Init
  /\ writer = NoProc
  /\ newRows = rows
  /\ synced = NoConfig

Goto(p, from, to) ==
  /\ pc[p] = from
  /\ pc' = [pc EXCEPT ![p] = to]

\* The accounts that a config names.
Named(config) == {a \in Account : config[a] # Absent}

-----------------------------------------------------------------------------
EditConfig ==
  /\ file' \in Configs
  /\ UNCHANGED <<pc, loaded, todo, rows, writer, newRows, synced>>

Load(p) ==
  /\ Goto(p, "start", "loaded")
  /\ loaded' = [loaded EXCEPT ![p] = file]
  /\ UNCHANGED <<file, todo, rows, writer, newRows, synced>>

-----------------------------------------------------------------------------
(* sync_accounts: one transaction.                                         *)
Begin(p) ==
  /\ Goto(p, "loaded", "upserting")
  /\ writer = NoProc
  /\ writer' = p
  /\ newRows' = rows
  /\ todo' = [todo EXCEPT ![p] = Named(loaded[p])]
  /\ UNCHANGED <<file, loaded, rows, synced>>

\* Bug: the statements are not in one transaction.
UpsertAtOnce(p) ==
  /\ pc[p] = "upserting"
  /\ \E a \in todo[p] :
       /\ newRows' = [newRows EXCEPT ![a] = Roster!Synced(newRows[a], loaded[p][a])]
       /\ todo' = [todo EXCEPT ![p] = todo[p] \ {a}]
  /\ rows' = newRows'
  /\ UNCHANGED <<file, pc, loaded, writer, synced>>

\* Bug: the columns with a default are left out of the row.
UpsertEntry(p) ==
  /\ pc[p] = "upserting"
  /\ \E a \in todo[p] :
       /\ newRows' = [newRows EXCEPT ![a] = loaded[p][a]]
       /\ todo' = [todo EXCEPT ![p] = todo[p] \ {a}]
  /\ UNCHANGED <<file, pc, loaded, rows, writer, synced>>

\* INSERT ... ON CONFLICT (name) DO UPDATE of the site and the switch.
Upsert(p) ==
  /\ pc[p] = "upserting"
  /\ \E a \in todo[p] :
       /\ newRows' =
            [newRows EXCEPT ![a] =
               IF newRows[a] = Absent THEN Roster!Inserted(loaded[p][a])
               ELSE Roster!Updated(newRows[a], loaded[p][a])]
       /\ todo' = [todo EXCEPT ![p] = todo[p] \ {a}]
  /\ UNCHANGED <<file, pc, loaded, rows, writer, synced>>

\* Bug: a config without accounts is taken for one that was not read.
DisableOthersIfAny(p) ==
  /\ Goto(p, "upserting", "disabled")
  /\ todo[p] = {}
  /\ newRows' =
       [a \in Account |->
          IF newRows[a] = Absent \/ a \in Named(loaded[p]) \/ Named(loaded[p]) = {}
          THEN newRows[a] ELSE Roster!Disabled(newRows[a])]
  /\ UNCHANGED <<file, loaded, todo, rows, writer, synced>>

\* UPDATE ... WHERE name NOT IN (...), and without a WHERE if the config has no
\* account.
DisableOthers(p) ==
  /\ Goto(p, "upserting", "disabled")
  /\ todo[p] = {}
  /\ newRows' =
       [a \in Account |->
          IF newRows[a] = Absent \/ a \in Named(loaded[p]) THEN newRows[a]
          ELSE Roster!Disabled(newRows[a])]
  /\ UNCHANGED <<file, loaded, todo, rows, writer, synced>>

Commit(p) ==
  /\ Goto(p, "disabled", "done")
  /\ rows' = newRows
  /\ writer' = NoProc
  /\ synced' = loaded[p]
  /\ UNCHANGED <<file, loaded, todo, newRows>>

-----------------------------------------------------------------------------
(* login and session clear: an UPDATE is a transaction of its own, which   *)
(* changes nothing if the account has no row.                              *)
RecordCapture(p) ==
  /\ Goto(p, "loaded", "done")
  /\ writer = NoProc
  /\ \E a \in Named(loaded[p]), verified \in BOOLEAN :
       rows' = IF rows[a] = Absent THEN rows
               ELSE [rows EXCEPT ![a] = Roster!Captured(rows[a], verified)]
  /\ UNCHANGED <<file, loaded, todo, writer, newRows, synced>>

MarkReauth(p) ==
  /\ Goto(p, "loaded", "done")
  /\ writer = NoProc
  /\ \E a \in Named(loaded[p]) :
       rows' = IF rows[a] = Absent THEN rows
               ELSE [rows EXCEPT ![a] = Roster!Cleared(rows[a])]
  /\ UNCHANGED <<file, loaded, todo, writer, newRows, synced>>

\* The write lock is not free in time, the disk is full: ROLLBACK.
Fail(p) ==
  /\ pc[p] \in {"loaded"} \cup InTransaction
  /\ pc' = [pc EXCEPT ![p] = "failed"]
  /\ writer' = IF writer = p THEN NoProc ELSE writer
  /\ UNCHANGED <<file, loaded, todo, rows, newRows, synced>>

\* The kill of a process: SQLite rolls back what was not committed.
Die(p) ==
  /\ pc[p] \in InTransaction
  /\ pc' = [pc EXCEPT ![p] = "dead"]
  /\ writer' = IF writer = p THEN NoProc ELSE writer
  /\ UNCHANGED <<file, loaded, todo, rows, newRows, synced>>

-----------------------------------------------------------------------------
SyncAccounts(p) == Begin(p) \/ Upsert(p) \/ DisableOthers(p) \/ Commit(p)

Next ==
  \/ EditConfig
  \/ \E p \in Proc :
       \/ Load(p) \/ SyncAccounts(p) \/ RecordCapture(p) \/ MarkReauth(p)
       \/ Fail(p) \/ Die(p)

Spec == Init /\ [][Next]_vars

-----------------------------------------------------------------------------
(* Properties.                                                             *)

\* The switches in the table are those of one config, the one that was synced
\* last, at every moment: accounts it does not name are off, the others are
\* there, at its sites, on or off as it says.
SwitchesOfOneConfig ==
  \A a \in Account :
    IF synced[a] = Absent
    THEN rows[a] # Absent => ~rows[a].enabled
    ELSE /\ rows[a] # Absent
         /\ rows[a].site = synced[a].site
         /\ rows[a].enabled = synced[a].enabled

\* A sync leaves what is known of an account's session alone, and no step
\* forgets an account (accounts.py:3-6: "its price history survives a config
\* edit").
Survives ==
  \A a \in Account :
    rows[a] # Absent =>
      /\ rows'[a] # Absent
      /\ writer' # writer =>
           rows'[a].status = rows[a].status /\ rows'[a].captured = rows[a].captured

HistorySurvives == [][Survives]_vars

\* A sync takes effect at once and as a whole.
RefinesRoster == Roster!Spec
=============================================================================
