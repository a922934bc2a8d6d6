-------------------------- MODULE CommandLineProofs --------------------------
(***************************************************************************)
(* Theorems about CommandLine.                                             *)
(***************************************************************************)
EXTENDS CommandLine, TLAPS

USE NoProcAssumption, BuildAssumption

-----------------------------------------------------------------------------
(* The scripts.                                                            *)

\* Every script begins with the only loading of the config.
LEMMA ScriptsLoadFirst ==
  ASSUME NEW c \in Commands
  PROVE  /\ c # "none"
         /\ Len(Script[c]) \in Nat /\ Len(Script[c]) >= 2
         /\ DOMAIN Script[c] = 1 .. Len(Script[c])
         /\ \A i \in 1 .. Len(Script[c]) : Script[c][i] = "load" <=> i = 1
<1> USE DEF Commands, Script
<1>1. CASE c = "config_check"   BY <1>1 DEF config_check
<1>2. CASE c = "init"           BY <1>2 DEF init
<1>3. CASE c = "db_version"     BY <1>3 DEF db_version
<1>4. CASE c = "db_upgrade"     BY <1>4 DEF db_upgrade
<1>5. CASE c = "accounts"       BY <1>5 DEF accounts_cmd
<1>6. CASE c = "login"          BY <1>6 DEF login
<1>7. CASE c = "discover"       BY <1>7 DEF discover
<1>8. CASE c = "session_status" BY <1>8 DEF session_status
<1>9. CASE c = "session_clear"  BY <1>9 DEF session_clear
<1>10. CASE c = "run"           BY <1>10 DEF unbuilt
<1> QED BY <1>1, <1>2, <1>3, <1>4, <1>5, <1>6, <1>7, <1>8, <1>9, <1>10

\* Whatever uses the table of accounts comes after the database was migrated.
LEMMA ScriptsMigrateFirst ==
  ASSUME NEW c \in Commands, NEW j \in 1 .. Len(Script[c]),
         Script[c][j] \in {"sync", "list", "record", "mark"}
  PROVE  \E i \in 1 .. (j - 1) : Script[c][i] = "migrate"
<1> USE DEF Commands, Script
<1>1. CASE c = "config_check"   BY <1>1 DEF config_check
<1>2. CASE c = "init"           BY <1>2 DEF init
<1>3. CASE c = "db_version"     BY <1>3 DEF db_version
<1>4. CASE c = "db_upgrade"     BY <1>4 DEF db_upgrade
<1>5. CASE c = "accounts"       BY <1>5 DEF accounts_cmd
<1>6. CASE c = "login"          BY <1>6 DEF login
<1>7. CASE c = "discover"       BY <1>7 DEF discover
<1>8. CASE c = "session_status" BY <1>8 DEF session_status
<1>9. CASE c = "session_clear"  BY <1>9 DEF session_clear
<1>10. CASE c = "run"           BY <1>10 DEF unbuilt
<1> QED BY <1>1, <1>2, <1>3, <1>4, <1>5, <1>6, <1>7, <1>8, <1>9, <1>10

-----------------------------------------------------------------------------
(* The inductive invariant.                                                *)

\* Behind its first stage a command has a config that loads.
Settled ==
  \A p \in Proc :
    Running(p) /\ at[p] > 1 =>
      config[p] \in Documents /\ Configuration!Loads(config[p])

\* Behind "migrate" a command has a database with all of its migrations.
Migrated ==
  \A p \in Proc :
    Running(p) =>
      \A i \in 1 .. (at[p] - 1) :
        Script[command[p]][i] = "migrate" => version >= Build[p]

\* A command that runs has not ended.
Unfinished == \A p \in Proc : Running(p) => outcome[p] = "none"

IInv == TypeOK /\ Settled /\ Migrated /\ Unfinished

\* The config is loaded.
Enters(p) ==
  /\ At(p, "load")
  /\ Configuration!Loads(file)
  /\ config' = [config EXCEPT ![p] = file]
  /\ at' = [at EXCEPT ![p] = at[p] + 1]
  /\ UNCHANGED <<command, account, outcome>>

\* The three ways in which a stage moves its command.
LEMMA StageForms ==
  ASSUME NEW p \in Proc, Stage(p)
  PROVE  /\ Running(p)
         /\ \/ Enters(p)
            \/ GoesOn(p) /\ ~At(p, "load")
            \/ \E how \in Outcomes \ {"none", "ok"} : Ends(p, how)
<1> USE DEF Passes, Stops, Asks, At, Outcomes
<1>1. CASE LoadConfig(p)     BY <1>1 DEF LoadConfig, Enters
<1>2. CASE FindAccount(p)    BY <1>2 DEF FindAccount
<1>3. CASE CheckSecrets(p)   BY <1>3 DEF CheckSecrets
<1>4. CASE OpenStore(p) \/ RefuseKey(p) \/ CreateKeyPartly(p)
  BY <1>4 DEF OpenStore, RefuseKey, CreateKeyPartly
<1>5. CASE Connect(p) \/ ConnectPartly(p)
  BY <1>5 DEF Connect, ConnectPartly
<1>6. CASE Migrate(p) \/ RefuseNewer(p) \/ MigratePartly(p)
  BY <1>6 DEF Migrate, RefuseNewer, MigratePartly
<1>7. CASE Sync(p)           BY <1>7 DEF Sync
<1>8. CASE ReadOnly(p)       BY <1>8 DEF ReadOnly
<1>9. CASE Browse(p)         BY <1>9 DEF Browse
<1>10. CASE RefuseBrowse(p)  BY <1>10 DEF RefuseBrowse
<1>11. CASE WriteCapture(p) \/ Save(p)
  BY <1>11 DEF WriteCapture, Save
<1>12. CASE Record(p)        BY <1>12 DEF Record, Update
<1>13. CASE LoadSession(p) \/ RefuseExport(p)
  BY <1>13 DEF LoadSession, RefuseExport
<1>14. CASE ConfirmClear(p)  BY <1>14 DEF ConfirmClear
<1>15. CASE Delete(p)        BY <1>15 DEF Delete
<1>16. CASE DeletePartly(p)  BY <1>16 DEF DeletePartly
<1>17. CASE Mark(p)          BY <1>17 DEF Mark, Update
<1>18. CASE NotImplemented(p) BY <1>18 DEF NotImplemented
<1>19. CASE Break(p)         BY <1>19 DEF Break
<1> QED
  BY <1>1, <1>2, <1>3, <1>4, <1>5, <1>6, <1>7, <1>8, <1>9, <1>10, <1>11, <1>12,
     <1>13, <1>14, <1>15, <1>16, <1>17, <1>18, <1>19 DEF Stage

-----------------------------------------------------------------------------
(* What a stage does to the installation.                                  *)

\* The statements on the accounts make rows of rows.
LEMMA RowTypes ==
  /\ \A row \in Roster!Row \cup {Absent}, entry \in Roster!Entry \cup {Absent} :
       Roster!Synced(row, entry) \in Roster!Row \cup {Absent}
  /\ \A row \in Roster!Row :
       /\ Roster!Cleared(row) \in Roster!Row
       /\ \A verified \in BOOLEAN : Roster!Captured(row, verified) \in Roster!Row
<1>1. \A row \in Roster!Row, entry \in Roster!Entry :
        Roster!Updated(row, entry) \in Roster!Row
  BY DEF Roster!Row, Roster!Entry, Roster!Updated
<1>2. \A entry \in Roster!Entry : Roster!Inserted(entry) \in Roster!Row
  BY DEF Roster!Row, Roster!Entry, Roster!Inserted
<1>3. \A row \in Roster!Row : Roster!Disabled(row) \in Roster!Row
  BY DEF Roster!Row, Roster!Disabled
<1>4. \A row \in Roster!Row :
        /\ Roster!Cleared(row) \in Roster!Row
        /\ \A verified \in BOOLEAN : Roster!Captured(row, verified) \in Roster!Row
  BY DEF Roster!Row, Roster!Cleared, Roster!Captured
<1> QED BY <1>1, <1>2, <1>3, <1>4, AbsentAssumption DEF Roster!Synced

\* A config that loads says of every account an entry or nothing.
LEMMA LoadedConfig ==
  ASSUME NEW d \in Documents, Configuration!Loads(d)
  PROVE  [a \in Account |-> Configuration!AccountOf(d, a)] \in Roster!Config
<1>1. [a \in Account |-> Configuration!AccountOf(d, a)] \in Configs
  BY DEF Configs
<1> QED BY <1>1, DocumentsAssumption

\* Most stages leave the database alone, and the sessions of other accounts.
Local(p) ==
  /\ UNCHANGED <<version, rows>>
  /\ files' \subseteq files \cup Database \cup KeyFiles
  /\ export' \subseteq export \cup {account[p]}
  /\ profiles' \subseteq profiles \cup {account[p]}
  /\ captures' \subseteq captures \cup {account[p]}

LEMMA StageEffects ==
  ASSUME NEW p \in Proc, Stage(p)
  PROVE  \/ Migrate(p) \/ MigratePartly(p) \/ Sync(p) \/ Record(p) \/ Mark(p)
         \/ Local(p)
<1> USE DEF Local
<1>1. UNCHANGED installation => Local(p)
  BY DEF installation
<1>2. CASE LoadConfig(p)     BY <1>1, <1>2 DEF LoadConfig, Stops
<1>3. CASE FindAccount(p)    BY <1>1, <1>3 DEF FindAccount, Asks
<1>4. CASE CheckSecrets(p)   BY <1>1, <1>4 DEF CheckSecrets, Asks
<1>5. CASE OpenStore(p)      BY <1>5 DEF OpenStore, StoreFiles
<1>6. CASE RefuseKey(p)      BY <1>1, <1>6 DEF RefuseKey, Stops
<1>7. CASE CreateKeyPartly(p) BY <1>7 DEF CreateKeyPartly, KeyFiles
<1>8. CASE Connect(p)        BY <1>8 DEF Connect
<1>9. CASE ConnectPartly(p)  BY <1>9 DEF ConnectPartly, Database
<1>10. CASE RefuseNewer(p)   BY <1>1, <1>10 DEF RefuseNewer, Stops
<1>11. CASE ReadOnly(p)      BY <1>1, <1>11 DEF ReadOnly, Passes
<1>12. CASE Browse(p)        BY <1>12 DEF Browse, Database
<1>13. CASE RefuseBrowse(p)  BY <1>13 DEF RefuseBrowse, Database
<1>14. CASE WriteCapture(p)  BY <1>14 DEF WriteCapture
<1>15. CASE Save(p)          BY <1>15 DEF Save
<1>16. CASE LoadSession(p) \/ RefuseExport(p)
  BY <1>1, <1>16 DEF LoadSession, RefuseExport, Asks, Stops
<1>17. CASE ConfirmClear(p)  BY <1>1, <1>17 DEF ConfirmClear, Passes, Stops
<1>18. CASE Delete(p)        BY <1>18 DEF Delete
<1>19. CASE DeletePartly(p)  BY <1>19 DEF DeletePartly
<1>20. CASE NotImplemented(p) BY <1>1, <1>20 DEF NotImplemented, Stops
<1>21. CASE Break(p)         BY <1>1, <1>21 DEF Break
<1> QED
  BY <1>2, <1>3, <1>4, <1>5, <1>6, <1>7, <1>8, <1>9, <1>10, <1>11, <1>12, <1>13,
     <1>14, <1>15, <1>16, <1>17, <1>18, <1>19, <1>20, <1>21 DEF Stage

\* A command that comes out of "migrate" alive has migrated.
LEMMA StageMigrates ==
  ASSUME TypeOK, NEW p \in Proc, Stage(p), At(p, "migrate"), Running(p)'
  PROVE  Migrate(p)
<1>1. /\ ~LoadConfig(p) /\ ~FindAccount(p) /\ ~CheckSecrets(p) /\ ~OpenStore(p)
      /\ ~RefuseKey(p) /\ ~CreateKeyPartly(p) /\ ~Connect(p) /\ ~ConnectPartly(p)
      /\ ~Sync(p) /\ ~ReadOnly(p) /\ ~Browse(p) /\ ~RefuseBrowse(p)
      /\ ~WriteCapture(p) /\ ~Save(p) /\ ~Record(p) /\ ~LoadSession(p)
      /\ ~RefuseExport(p) /\ ~ConfirmClear(p) /\ ~Delete(p) /\ ~DeletePartly(p)
      /\ ~Mark(p) /\ ~NotImplemented(p)
  BY DEF At, LoadConfig, FindAccount, CheckSecrets, OpenStore, RefuseKey,
         CreateKeyPartly, Connect, ConnectPartly, Sync, ReadOnly, Browse, RefuseBrowse,
         WriteCapture, Save, Record, LoadSession, RefuseExport, ConfirmClear, Delete,
         DeletePartly, Mark, NotImplemented, Passes, Stops, Asks
<1>2. Migrate(p) \/ RefuseNewer(p) \/ MigratePartly(p) \/ Break(p)
  BY <1>1 DEF Stage
<1>3. \A how : ~Ends(p, how)
  BY DEF Running, Ends, TypeOK
<1> QED BY <1>2, <1>3 DEF RefuseNewer, MigratePartly, Break, Stops

\* A stage keeps the types, never takes the database back, and a command that
\* comes out of "migrate" alive has all of its migrations there.
LEMMA StageInstalls ==
  ASSUME TypeOK, Settled, NEW p \in Proc, Stage(p)
  PROVE  /\ version' \in Nat /\ version' >= version
         /\ Found' \in Installation
         /\ At(p, "migrate") /\ Running(p)' => version' >= Build[p]
<1>1. /\ version \in Nat /\ rows \in Roster!Rows
      /\ files \subseteq Database \cup KeyFiles
      /\ export \subseteq Account /\ profiles \subseteq Account
      /\ captures \subseteq Account
      /\ account[p] \in Account /\ Build[p] \in Nat
  BY DEF TypeOK, Found, Installation
<1>2. At(p, "migrate") /\ Running(p)' => version' >= Build[p]
  BY <1>1, StageMigrates DEF Migrate
<1>3. ASSUME version' \in Nat, rows' \in Roster!Rows,
             UNCHANGED <<files, export, profiles, captures>>
      PROVE  Found' \in Installation
  BY <1>1, <1>3 DEF Found, Installation
<1>4. CASE Local(p)
  <2>1. /\ version' \in Nat /\ rows' \in Roster!Rows
        /\ files' \subseteq Database \cup KeyFiles
        /\ export' \subseteq Account /\ profiles' \subseteq Account
        /\ captures' \subseteq Account
    BY <1>1, <1>4 DEF Local
  <2> QED BY <1>1, <1>2, <1>4, <2>1 DEF Found, Installation, Local
<1>5. CASE Migrate(p) \/ MigratePartly(p)
  BY <1>1, <1>2, <1>3, <1>5 DEF Migrate, MigratePartly
<1>6. CASE Sync(p)
  <2>1. /\ At(p, "sync") /\ version' = version
        /\ UNCHANGED <<files, export, profiles, captures>>
        /\ Roster!Sync([a \in Account |-> Configuration!AccountOf(config[p], a)])
    BY <1>6 DEF Sync
  <2>2. config[p] \in Documents /\ Configuration!Loads(config[p])
    <3>1. command[p] \in Commands /\ at[p] \in DOMAIN Script[command[p]]
          /\ Script[command[p]][at[p]] # "load"
      BY <2>1 DEF TypeOK, At, Running
    <3>2. at[p] \in 1 .. Len(Script[command[p]]) /\ at[p] # 1
      BY <3>1, ScriptsLoadFirst
    <3> QED BY <2>1, <3>1, <3>2, ScriptsLoadFirst DEF Settled, At
  <2>3. \A a \in Account :
          Configuration!AccountOf(config[p], a) \in Roster!Entry \cup {Absent}
    <3>1. [a \in Account |-> Configuration!AccountOf(config[p], a)] \in Roster!Config
      BY <2>2, LoadedConfig
    <3> QED BY <3>1 DEF Roster!Config
  <2>4. rows' \in Roster!Rows
    BY <1>1, <2>1, <2>3, RowTypes DEF Roster!Sync, Roster!Rows
  <2> QED BY <1>1, <1>2, <1>3, <2>1, <2>4
<1>7. CASE Record(p) \/ Mark(p)
  <2>1. \/ \E verified \in BOOLEAN :
             Update(p, Roster!Captured(rows[account[p]], verified))
        \/ Update(p, Roster!Cleared(rows[account[p]]))
    BY <1>7 DEF Record, Mark
  <2>2. /\ rows' \in Roster!Rows /\ version' = version
        /\ UNCHANGED <<files, export, profiles, captures>>
    BY <1>1, <2>1, RowTypes DEF Update, Roster!Rows
  <2> QED BY <1>1, <1>2, <1>3, <2>2
<1> QED
  BY <1>4, <1>5, <1>6, <1>7, StageEffects

-----------------------------------------------------------------------------
(* The invariant holds.                                                    *)

\* The types of what a shell has of its command.
LEMMA StageMoves ==
  ASSUME IInv, NEW p \in Proc, Stage(p)
  PROVE  /\ command' \in [Proc -> Commands \cup {"none"}]
         /\ account' \in [Proc -> Account]
         /\ at' \in [Proc -> Nat]
         /\ config' \in [Proc -> Documents \cup {Absent}]
         /\ outcome' \in [Proc -> Outcomes]
         /\ IF Running(p)' THEN at'[p] \in DOMAIN Script[command'[p]]
            ELSE at'[p] = 1
         /\ Running(p)' =>
              /\ command'[p] = command[p] /\ at'[p] = at[p] + 1
              /\ outcome'[p] = outcome[p]
              /\ config'[p] \in Documents /\ Configuration!Loads(config'[p])
         /\ \A q \in Proc \ {p} :
              /\ command'[q] = command[q] /\ at'[q] = at[q]
              /\ config'[q] = config[q] /\ outcome'[q] = outcome[q]
<1>1. /\ TypeOK /\ Running(p) /\ command[p] \in Commands /\ at[p] \in Nat
      /\ at[p] \in DOMAIN Script[command[p]]
  BY StageForms DEF IInv, TypeOK, Running
<1>2. /\ Len(Script[command[p]]) \in Nat /\ Len(Script[command[p]]) >= 2
      /\ DOMAIN Script[command[p]] = 1 .. Len(Script[command[p]])
      /\ Script[command[p]][at[p]] = "load" <=> at[p] = 1
  BY <1>1, ScriptsLoadFirst
<1>3. CASE Enters(p)
  <2>1. at[p] = 1
    BY <1>2, <1>3 DEF Enters, At
  <2> QED BY <1>1, <1>2, <1>3, <2>1 DEF Enters, TypeOK, Running
<1>4. CASE \E how \in Outcomes : Ends(p, how)
  BY <1>1, <1>4 DEF Ends, TypeOK, Running
<1>5. CASE GoesOn(p) /\ at[p] = Len(Script[command[p]])
  BY <1>4, <1>5 DEF GoesOn, Outcomes
<1>6. CASE GoesOn(p) /\ ~At(p, "load") /\ at[p] # Len(Script[command[p]])
  <2>1. at[p] > 1 /\ at[p] + 1 \in 1 .. Len(Script[command[p]])
    BY <1>1, <1>2, <1>6 DEF At
  <2>2. config[p] \in Documents /\ Configuration!Loads(config[p])
    BY <1>1, <2>1 DEF IInv, Settled
  <2>3. /\ at' = [at EXCEPT ![p] = at[p] + 1]
        /\ UNCHANGED <<command, account, config, outcome>>
    BY <1>6 DEF GoesOn
  <2> QED BY <1>1, <1>2, <2>1, <2>2, <2>3 DEF TypeOK, Running
<1> QED BY <1>3, <1>4, <1>5, <1>6, StageForms

LEMMA InitIInv == Init => IInv
<1> SUFFICES ASSUME Init PROVE IInv
  OBVIOUS
<1>1. TypeOK
  BY DEF Init, TypeOK, Roster!Init, Roster!Rows, Running, Outcomes, Nothing, Found,
         Installation
<1>2. Settled /\ Migrated /\ Unfinished
  BY DEF Init, Settled, Migrated, Unfinished, Running
<1> QED BY <1>1, <1>2 DEF IInv

LEMMA EditKeeps == IInv /\ EditConfig => IInv'
BY DEF IInv, TypeOK, Settled, Migrated, Unfinished, EditConfig, installation, process,
       Running, Nothing, Found, Installation, Roster!Rows

LEMMA StartKeeps ==
  ASSUME IInv, NEW p \in Proc, NEW c \in Commands, NEW a \in Account, Start(p, c, a)
  PROVE  IInv'
<1>1. /\ UNCHANGED <<file, version, at, config>> /\ Found' = Found
      /\ ~Running(p) /\ at[p] = 1 /\ c # "none" /\ TypeOK
      /\ command' = [command EXCEPT ![p] = c]
      /\ account' = [account EXCEPT ![p] = a]
      /\ outcome' = [outcome EXCEPT ![p] = "none"]
      /\ solo' \in Proc \cup {NoProc}
      /\ before' = Found \/ before' = Nothing
  BY ScriptsLoadFirst DEF Start, IInv, TypeOK, installation, Found
<1>2. Found \in Installation /\ Nothing \in Installation
  BY <1>1 DEF TypeOK, Nothing, Installation, Roster!Rows
<1>3. 1 \in DOMAIN Script[c]
  BY ScriptsLoadFirst
<1>4. TypeOK'
  BY <1>1, <1>2, <1>3 DEF TypeOK, Running, Outcomes
<1>5. \A q \in Proc : Running(q)' =>
        at'[q] = at[q] /\ config'[q] = config[q]
        /\ (at[q] > 1 => Running(q) /\ command'[q] = command[q])
  BY <1>1 DEF Running, TypeOK
<1>6. \A q \in Proc : at[q] \in Nat
  BY <1>1 DEF TypeOK
<1>7. Settled'
  BY <1>5, <1>6 DEF IInv, Settled
<1>8. Migrated'
  <2> SUFFICES ASSUME NEW q \in Proc, Running(q)', NEW i \in 1 .. (at'[q] - 1),
                      Script[command'[q]][i] = "migrate"
               PROVE  version' >= Build[q]
    BY DEF Migrated
  <2>1. at[q] > 1 /\ i \in 1 .. (at[q] - 1)
    BY <1>5, <1>6
  <2> QED BY <1>1, <1>5, <2>1 DEF IInv, Migrated
<1>9. Unfinished'
  BY <1>1 DEF IInv, Unfinished, Running, TypeOK
<1> QED BY <1>4, <1>7, <1>8, <1>9 DEF IInv

LEMMA StageKeeps ==
  ASSUME IInv, NEW p \in Proc, Stage(p)
  PROVE  IInv'
<1>1. /\ version' \in Nat /\ version' >= version /\ version \in Nat
      /\ UNCHANGED <<file, solo, before>>
      /\ TypeOK /\ at \in [Proc -> Nat] /\ Build \in [Proc -> Nat]
  BY StageInstalls DEF IInv, TypeOK, Stage, Found, Installation
<1>2. TypeOK'
  <2>1. Found' \in Installation
    BY StageInstalls DEF IInv
  <2>2. \A q \in Proc : IF Running(q)' THEN at'[q] \in DOMAIN Script[command'[q]]
                        ELSE at'[q] = 1
    BY <1>1, StageMoves DEF TypeOK, Running
  <2> QED BY <1>1, <2>1, <2>2, StageMoves DEF TypeOK
<1>3. Settled'
  BY <1>1, StageMoves DEF IInv, Settled, Running
<1>4. Migrated'
  <2> SUFFICES ASSUME NEW q \in Proc, Running(q)', NEW i \in 1 .. (at'[q] - 1),
                      Script[command'[q]][i] = "migrate"
               PROVE  version' >= Build[q]
    BY DEF Migrated
  <2>1. Running(q) /\ command'[q] = command[q]
    BY StageMoves, StageForms DEF Running
  <2>2. CASE i \in 1 .. (at[q] - 1)
    BY <1>1, <2>1, <2>2 DEF IInv, Migrated
  <2>3. CASE i \notin 1 .. (at[q] - 1)
    <3>1. q = p /\ i = at[p]
      BY <1>1, <2>3, StageMoves
    <3>2. At(p, "migrate")
      BY <2>1, <3>1 DEF At
    <3> QED BY <3>1, <3>2, StageInstalls DEF IInv
  <2> QED BY <2>2, <2>3
<1>5. Unfinished'
  BY StageMoves, StageForms DEF IInv, Unfinished, Running
<1> QED BY <1>2, <1>3, <1>4, <1>5 DEF IInv

LEMMA NextIInv == IInv /\ [Next]_vars => IInv'
<1> SUFFICES ASSUME IInv, [Next]_vars PROVE IInv'
  OBVIOUS
<1>1. CASE EditConfig
  BY <1>1, EditKeeps
<1>2. ASSUME NEW p \in Proc, NEW c \in Commands, NEW a \in Account, Start(p, c, a)
      PROVE  IInv'
  BY <1>2, StartKeeps
<1>3. ASSUME NEW p \in Proc, Stage(p)
      PROVE  IInv'
  BY <1>3, StageKeeps
<1>4. CASE UNCHANGED vars
  BY <1>4 DEF vars, IInv, TypeOK, Settled, Migrated, Unfinished, Running, Found
<1> QED BY <1>1, <1>2, <1>3, <1>4 DEF Next

THEOREM Invariance == Spec => []IInv
BY InitIInv, NextIInv, PTL DEF Spec

\* Commands of any builds, at any stage, on any contents of the config file: the
\* table holds rows of the accounts, and a command is at a stage of its script.
THEOREM TypeCorrect == Spec => []TypeOK
BY Invariance, PTL DEF IInv

\* Builds that differ may take turns between any two stages: a command still finds
\* the table and the columns that its statements name.
THEOREM StatementsFind == Spec => []StatementsFindTheirTables
<1>1. IInv => StatementsFindTheirTables
  <2> SUFFICES ASSUME IInv, NEW p \in Proc, Running(p)
               PROVE  version >= Needs(Script[command[p]][at[p]])
    BY DEF StatementsFindTheirTables
  <2> DEFINE stage == Script[command[p]][at[p]]
  <2>1. /\ command[p] \in Commands /\ at[p] \in 1 .. Len(Script[command[p]])
        /\ version \in Nat /\ Build[p] \in Nat /\ Build[p] >= 2
    BY ScriptsLoadFirst DEF IInv, TypeOK, Running, Found, Installation
  <2>2. CASE stage \in {"sync", "list", "record", "mark"}
    <3>1. version >= 2
      BY <2>1, <2>2, ScriptsMigrateFirst DEF IInv, Migrated
    <3> QED BY <2>1, <2>2, <3>1 DEF Needs
  <2>3. CASE stage \notin {"sync", "list", "record", "mark"}
    BY <2>1, <2>3 DEF Needs
  <2> QED BY <2>2, <2>3
<1> QED BY <1>1, Invariance, PTL

\* A login that has gone through the browser is never refused afterwards.
THEOREM SignInIsKept == Spec => SignInKept
<1>1. ASSUME IInv, [Next]_vars, NEW p \in Proc, Asked(p)
      PROVE  outcome'[p] # "refused"
  <2>1. /\ command[p] = "login" /\ Running(p) /\ outcome[p] = "none"
        /\ TypeOK /\ at[p] \in Nat
    BY <1>1 DEF Asked, Running, IInv, Unfinished, TypeOK
  <2>2. /\ DOMAIN login = 1 .. 8
        /\ login[1] = "load" /\ login[2] = "find" /\ login[3] = "open_store"
        /\ login[4] = "connect" /\ login[5] = "migrate" /\ login[6] = "browse"
        /\ login[7] = "save" /\ login[8] = "record"
        /\ Script["login"] = login
    BY DEF login, Script
  <2>3. at[p] \in DOMAIN login
    BY <2>1, <2>2 DEF TypeOK
  <2>4. at[p] \in {7, 8}
    <3>1. PICK i \in 1 .. (at[p] - 1) : login[i] = "browse"
      BY <1>1 DEF Asked
    <3> QED BY <2>1, <2>2, <2>3, <3>1
  <2>5. Script[command[p]][at[p]] \in {"save", "record"}
    BY <2>1, <2>2, <2>4
  <2>6. CASE Stage(p)
    <3>1. Save(p) \/ Record(p) \/ Break(p)
      BY <2>5, <2>6
      DEF Stage, At, LoadConfig, FindAccount, CheckSecrets, OpenStore, RefuseKey,
          CreateKeyPartly, Connect, ConnectPartly, Migrate, RefuseNewer,
          MigratePartly, Sync, ReadOnly, Browse, RefuseBrowse, WriteCapture,
          LoadSession, RefuseExport, ConfirmClear, Delete, DeletePartly, Mark,
          NotImplemented, Passes, Stops, Asks
    <3>2. GoesOn(p) \/ Ends(p, "failed")
      BY <3>1 DEF Save, Record, Update, Break
    <3> QED BY <2>1, <3>2 DEF GoesOn, Ends, TypeOK
  <2>7. CASE ~Stage(p)
    <3>1. ASSUME NEW q \in Proc \ {p}, Stage(q)
          PROVE  outcome'[p] = outcome[p]
      BY <1>1, <3>1, StageMoves
    <3>2. ASSUME NEW q \in Proc, NEW c \in Commands, NEW a \in Account, Start(q, c, a)
          PROVE  outcome'[p] # "refused"
      BY <2>1, <3>2 DEF Start, TypeOK
    <3>3. CASE EditConfig \/ UNCHANGED vars
      BY <2>1, <3>3 DEF EditConfig, process, vars
    <3> QED BY <1>1, <2>1, <2>7, <3>1, <3>2, <3>3 DEF Next
  <2> QED BY <2>6, <2>7
<1>2. IInv /\ [Next]_vars => [\A p \in Proc : Asked(p) => outcome'[p] # "refused"]_vars
  BY <1>1
<1> QED BY <1>2, Invariance, PTL DEF Spec, SignInKept

-----------------------------------------------------------------------------
(* config check.                                                           *)

\* The list of names that config check goes through leaves out no secret.
LEMMA CheckedCovers ==
  ASSUME NEW d, Configuration!Loads(d), NEW environ,
         Configuration!AllResolved(d, environ),
         NEW i \in DOMAIN d.notifiers, d.notifiers[i].enabled
  PROVE  Configuration!CanSend(d.notifiers[i], environ)
<1> DEFINE type == d.notifiers[i].type
<1>1. type \in DOMAIN Configuration!SecretFields
  BY DEF Configuration!Loads, Configuration!ValidNotifier
<1>2. Configuration!SecretFields[type] \subseteq Configuration!CheckedFields
  BY <1>1 DEF Configuration!SecretFields, Configuration!CheckedFields
<1> QED
  BY <1>2 DEF Configuration!AllResolved, Configuration!CanSend

\* A command that ends in a step of the system has taken a stage.
LEMMA EndsByStage ==
  ASSUME IInv, [Next]_vars, NEW p \in Proc, NEW how, EndsWith(p, how)
  PROVE  Stage(p) /\ Running(p) /\ ~Running(p)'
<1>1. Running(p) /\ command'[p] # command[p] /\ ~Running(p)'
  BY DEF EndsWith, Running
<1>2. ASSUME NEW q \in Proc \ {p}, Stage(q)
      PROVE  command'[p] = command[p]
  BY <1>2, StageMoves
<1>3. ASSUME NEW q \in Proc, NEW c \in Commands, NEW a \in Account, Start(q, c, a)
      PROVE  command'[p] = command[p]
  BY <1>1, <1>3 DEF Start, Running, IInv, TypeOK
<1>4. CASE EditConfig \/ UNCHANGED vars
  BY <1>1, <1>4 DEF EditConfig, process, vars
<1> QED BY <1>1, <1>2, <1>3, <1>4 DEF Next

\* Every secret of every enabled notifier resolves after a check that ended well,
\* whichever types of notifier the config has.
THEOREM CheckedIsSendable == Spec => CheckMeansSendable
<1>1. ASSUME IInv, [Next]_vars, NEW p \in Proc, command[p] = "config_check",
             EndsWith(p, "ok"),
             NEW i \in DOMAIN config[p].notifiers, config[p].notifiers[i].enabled
      PROVE  Configuration!CanSend(config[p].notifiers[i], Environ)
  <2>1. Stage(p) /\ Running(p) /\ ~Running(p)' /\ outcome'[p] = "ok" /\ TypeOK
    BY <1>1, EndsByStage DEF EndsWith, IInv
  <2>2. \A how : how # "ok" => ~Ends(p, how)
    BY <2>1 DEF Ends, TypeOK
  <2>3. ~Enters(p)
    BY <2>1 DEF Enters, Running
  <2>4. GoesOn(p) /\ ~At(p, "load")
    BY <2>1, <2>2, <2>3, StageForms
  <2>5. at[p] \in DOMAIN config_check /\ Script[command[p]] = config_check
    BY <1>1, <2>1 DEF TypeOK, Script
  <2>6. At(p, "check_secrets") /\ at[p] = 2
    BY <1>1, <2>1, <2>4, <2>5 DEF config_check, At
  <2>7. CheckSecrets(p) \/ Break(p)
    BY <2>1, <2>6
    DEF Stage, At, LoadConfig, FindAccount, OpenStore, RefuseKey, CreateKeyPartly,
        Connect, ConnectPartly, Migrate, RefuseNewer, MigratePartly, Sync, ReadOnly,
        Browse, RefuseBrowse, WriteCapture, Save, Record, LoadSession, RefuseExport,
        ConfirmClear, Delete, DeletePartly, Mark, NotImplemented, Passes, Stops, Asks
  <2>8. Configuration!AllResolved(config[p], Environ)
    BY <2>2, <2>7 DEF CheckSecrets, Asks, Break
  <2>9. Configuration!Loads(config[p])
    BY <1>1, <2>1, <2>6 DEF IInv, Settled
  <2> QED BY <1>1, <2>8, <2>9, CheckedCovers
<1>2. IInv /\ [Next]_vars =>
        [\A p \in Proc :
           command[p] = "config_check" /\ EndsWith(p, "ok") =>
             \A i \in DOMAIN config[p].notifiers :
               config[p].notifiers[i].enabled =>
                 Configuration!CanSend(config[p].notifiers[i], Environ)]_vars
  BY <1>1
<1> QED BY <1>2, Invariance, PTL DEF Spec, CheckMeansSendable

-----------------------------------------------------------------------------
(* Commands that have the installation to themselves.                      *)

Behind(c, k, stage) == \E i \in 1 .. (k - 1) : Script[c][i] = stage

\* The stages that write the export, the profile and the table.
Writes == {{"save", "delete"}, {"browse", "delete"}, {"sync", "record", "mark"}}

\* No script writes the export, the profile or the table twice.
LEMMA ScriptsWriteOnce ==
  ASSUME NEW c \in Commands,
         NEW i \in 1 .. Len(Script[c]), NEW j \in 1 .. Len(Script[c])
  PROVE  \A S \in Writes : Script[c][i] \in S /\ Script[c][j] \in S => i = j
<1> USE DEF Commands, Script, Writes
<1>1. CASE c = "config_check"   BY <1>1 DEF config_check
<1>2. CASE c = "init"           BY <1>2 DEF init
<1>3. CASE c = "db_version"     BY <1>3 DEF db_version
<1>4. CASE c = "db_upgrade"     BY <1>4 DEF db_upgrade
<1>5. CASE c = "accounts"       BY <1>5 DEF accounts_cmd
<1>6. CASE c = "login"          BY <1>6 DEF login
<1>7. CASE c = "discover"       BY <1>7 DEF discover
<1>8. CASE c = "session_status" BY <1>8 DEF session_status
<1>9. CASE c = "session_clear"  BY <1>9 DEF session_clear
<1>10. CASE c = "run"           BY <1>10 DEF unbuilt
<1> QED BY <1>1, <1>2, <1>3, <1>4, <1>5, <1>6, <1>7, <1>8, <1>9, <1>10

\* The stages that can refuse, or answer with exit code 1.
Asking == {"load", "find", "open_store", "browse", "migrate", "check_secrets",
           "load_session", "confirm"}

\* The stages that change the installation.
Effective == {"open_store", "connect", "migrate", "sync", "browse", "write_capture",
              "save", "record", "delete", "mark"}

\* A script writes after it has asked, except that clear deletes and migrates.
LEMMA ScriptsAskFirst ==
  ASSUME NEW c \in Commands, NEW j \in 1 .. Len(Script[c]), Script[c][j] \in Asking
  PROVE  \A i \in 1 .. (j - 1) :
           /\ Script[c][i] \notin {"sync", "record", "mark", "save", "browse",
                                  "write_capture"}
           /\ Script[c][i] = "delete" =>
                c = "session_clear" /\ Script[c][j] = "migrate"
           /\ Script[c][i] = "connect" => c = "login" \/ Script[c][j] = "migrate"
           /\ Script[c][i] = "migrate" => c = "login"
           /\ Script[c][j] \in {"load", "find", "check_secrets", "open_store"} =>
                Script[c][i] \notin Effective
<1> USE DEF Commands, Script, Asking, Effective
<1>1. CASE c = "config_check"   BY <1>1 DEF config_check
<1>2. CASE c = "init"           BY <1>2 DEF init
<1>3. CASE c = "db_version"     BY <1>3 DEF db_version
<1>4. CASE c = "db_upgrade"     BY <1>4 DEF db_upgrade
<1>5. CASE c = "accounts"       BY <1>5 DEF accounts_cmd
<1>6. CASE c = "login"          BY <1>6 DEF login
<1>7. CASE c = "discover"       BY <1>7 DEF discover
<1>8. CASE c = "session_status" BY <1>8 DEF session_status
<1>9. CASE c = "session_clear"  BY <1>9 DEF session_clear
<1>10. CASE c = "run"           BY <1>10 DEF unbuilt
<1> QED BY <1>1, <1>2, <1>3, <1>4, <1>5, <1>6, <1>7, <1>8, <1>9, <1>10

\* A clear has deleted when it opens the database.
LEMMA ClearDeletesFirst ==
  Script["session_clear"][7] = "migrate" /\ Script["session_clear"][5] = "delete"
BY DEF Script, session_clear

LEMMA ClearMigratesOnce ==
  ASSUME NEW j \in 1 .. Len(Script["session_clear"]),
         Script["session_clear"][j] = "migrate"
  PROVE  Behind("session_clear", j, "delete")
<1>1. j = 7
  BY DEF Script, session_clear
<1> QED BY <1>1, ClearDeletesFirst DEF Behind

\* What the stages of c behind k have made of the rows that its shell found.
AchievedRows(p, c, a, k, r) ==
  IF Behind(c, k, "sync")
  THEN r = [x \in Account |->
              Roster!Synced(before.rows[x], Configuration!AccountOf(file, x))]
  ELSE IF before.rows[a] # Absent /\ Behind(c, k, "record")
  THEN \E verified \in BOOLEAN :
         r = [before.rows EXCEPT ![a] = Roster!Captured(before.rows[a], verified)]
  ELSE IF before.rows[a] # Absent /\ Behind(c, k, "mark")
  THEN r = [before.rows EXCEPT ![a] = Roster!Cleared(before.rows[a])]
  ELSE r = before.rows

\* And of the rest of the installation.
Achieved(p, c, a, k, now) ==
  /\ now.version = IF Behind(c, k, "migrate") THEN Build[p] ELSE before.version
  /\ now.files = before.files
                 \cup (IF Behind(c, k, "open_store") THEN StoreFiles ELSE {})
                 \cup (IF Behind(c, k, "connect") THEN Database ELSE {})
                 \cup (IF Behind(c, k, "browse") THEN {"state_dir"} ELSE {})
  /\ now.export = IF Behind(c, k, "save") THEN before.export \cup {a}
                  ELSE IF Behind(c, k, "delete") THEN before.export \ {a}
                  ELSE before.export
  /\ now.profiles = IF Behind(c, k, "browse") THEN before.profiles \cup {a}
                    ELSE IF Behind(c, k, "delete") THEN before.profiles \ {a}
                    ELSE before.profiles
  /\ now.captures = before.captures
                    \cup (IF Behind(c, k, "write_capture") THEN {a} ELSE {})
  /\ AchievedRows(p, c, a, k, now.rows)

SoloInv ==
  \A p \in Proc :
    solo = p =>
      /\ \A q \in Proc \ {p} : ~Running(q)
      /\ Running(p) =>
           /\ at[p] > 1 => config[p] = file
           /\ Achieved(p, command[p], account[p], at[p], Found)

\* A stage that does not end its command badly does what it is for.
LEMMA StageWorks ==
  ASSUME NEW p \in Proc, Stage(p), \A how : how # "ok" => ~Ends(p, how)
  PROVE  \/ OpenStore(p) \/ Connect(p) \/ Migrate(p) \/ Sync(p) \/ Browse(p)
         \/ WriteCapture(p) \/ Save(p) \/ Record(p) \/ Delete(p) \/ Mark(p)
         \/ /\ UNCHANGED installation
            /\ Script[command[p]][at[p]] \notin Effective
<1> USE DEF Effective
<1>1. CASE LoadConfig(p)     BY <1>1 DEF LoadConfig, Stops, At
<1>2. CASE FindAccount(p)    BY <1>2 DEF FindAccount, Asks, At
<1>3. CASE CheckSecrets(p)   BY <1>3 DEF CheckSecrets, Asks, At
<1>4. CASE RefuseKey(p) \/ RefuseNewer(p)
  BY <1>4 DEF RefuseKey, RefuseNewer, Stops
<1>5. CASE CreateKeyPartly(p) \/ ConnectPartly(p)
  BY <1>5 DEF CreateKeyPartly, ConnectPartly
<1>6. CASE ReadOnly(p)       BY <1>6 DEF ReadOnly, Passes, At
<1>7. CASE RefuseBrowse(p)   BY <1>7 DEF RefuseBrowse
<1>8. CASE LoadSession(p) \/ RefuseExport(p)
  BY <1>8 DEF LoadSession, RefuseExport, Asks, Stops, At
<1>9. CASE ConfirmClear(p)   BY <1>9 DEF ConfirmClear, Passes, Stops, At
<1>10. CASE NotImplemented(p) BY <1>10 DEF NotImplemented, Stops
<1>11. CASE Break(p) \/ MigratePartly(p) \/ DeletePartly(p)
  BY <1>11 DEF Break, MigratePartly, DeletePartly
<1> QED
  BY <1>1, <1>2, <1>3, <1>4, <1>5, <1>6, <1>7, <1>8, <1>9, <1>10, <1>11 DEF Stage

\* A refusal comes from a stage that asks, which leaves all but the migrations and
\* the profile as they were.
LEMMA StageRefuses ==
  ASSUME TypeOK, NEW p \in Proc, Stage(p), NEW how \in {"refused", "told"},
         outcome'[p] = how, ~Running(p)'
  PROVE  /\ UNCHANGED <<rows, export, captures>>
         /\ version' # version => version' <= Build[p] /\ At(p, "migrate")
         /\ files' = files \/ (At(p, "browse") /\ files' = files \cup {"state_dir"})
         /\ \/ profiles' = profiles
            \/ At(p, "browse") /\ profiles' = profiles \cup {account[p]}
         /\ Script[command[p]][at[p]] \in Asking
<1>1. ~Ends(p, "ok") /\ ~Ends(p, "failed") /\ ~Ends(p, "unbuilt")
  BY DEF Ends, TypeOK
<1>2. Running(p)
  BY StageForms
<1>3. ~GoesOn(p)
  BY <1>1, <1>2 DEF GoesOn, Running
<1>4. ~(OpenStore(p) \/ CreateKeyPartly(p) \/ Connect(p) \/ ConnectPartly(p)
        \/ Migrate(p) \/ Sync(p) \/ ReadOnly(p) \/ Browse(p) \/ WriteCapture(p)
        \/ Save(p) \/ Record(p) \/ Delete(p) \/ DeletePartly(p) \/ Mark(p)
        \/ NotImplemented(p) \/ Break(p))
  BY <1>1, <1>3
  DEF OpenStore, CreateKeyPartly, Connect, ConnectPartly, Migrate, Sync, ReadOnly,
      Browse, WriteCapture, Save, Record, Update, Delete, DeletePartly, Mark,
      NotImplemented, Break, Passes, Stops
<1>5. LoadConfig(p) \/ FindAccount(p) \/ CheckSecrets(p) \/ RefuseKey(p)
      \/ RefuseNewer(p) \/ MigratePartly(p) \/ RefuseBrowse(p) \/ LoadSession(p)
      \/ RefuseExport(p) \/ ConfirmClear(p)
  BY <1>4 DEF Stage
<1> USE DEF installation
<1>6. CASE LoadConfig(p)   BY <1>2, <1>3, <1>6 DEF LoadConfig, Stops, At, Asking, Running
<1>7. CASE FindAccount(p)  BY <1>7 DEF FindAccount, Asks, At, Asking
<1>8. CASE CheckSecrets(p) BY <1>8 DEF CheckSecrets, Asks, At, Asking
<1>9. CASE RefuseKey(p)    BY <1>9 DEF RefuseKey, Stops, At, Asking
<1>10. CASE RefuseNewer(p) BY <1>10 DEF RefuseNewer, Stops, At, Asking
<1>11. CASE RefuseBrowse(p) BY <1>11 DEF RefuseBrowse, At, Asking
<1>12. CASE LoadSession(p) \/ RefuseExport(p)
  BY <1>12 DEF LoadSession, RefuseExport, Asks, Stops, At, Asking
<1>13. CASE ConfirmClear(p) BY <1>13 DEF ConfirmClear, Passes, Stops, At, Asking
<1>14. CASE MigratePartly(p)
  <2>1. version \in Nat /\ Build[p] \in Nat
    BY DEF TypeOK, Found, Installation
  <2> QED BY <1>14, <2>1 DEF MigratePartly, At, Asking
<1> QED BY <1>5, <1>6, <1>7, <1>8, <1>9, <1>10, <1>11, <1>12, <1>13, <1>14

\* One stage more is achieved when a stage goes on, or ends its command well.
LEMMA StageAchieves ==
  ASSUME IInv, SoloInv, NEW p \in Proc, solo = p, Stage(p),
         \A how : how # "ok" => ~Ends(p, how)
  PROVE  Achieved(p, command[p], account[p], at[p] + 1, Found')
<1> DEFINE c == command[p]
           k == at[p]
           a == account[p]
           stage == Script[c][k]
<1> SUFFICES Achieved(p, c, a, k + 1, Found')
  OBVIOUS
<1>1. /\ c \in Commands /\ k \in 1 .. Len(Script[c]) /\ Running(p)
      /\ Len(Script[c]) \in Nat
  BY StageForms, ScriptsLoadFirst DEF IInv, TypeOK, Running
<1>2. /\ k > 1 => config[p] = file
      /\ Achieved(p, c, a, k, Found)
  BY <1>1 DEF SoloInv
<1>3. \A s : Behind(c, k + 1, s) <=> Behind(c, k, s) \/ stage = s
  BY <1>1 DEF Behind
<1>4. \A S \in Writes : stage \in S => \A s \in S : ~Behind(c, k, s)
  <2> SUFFICES ASSUME NEW S \in Writes,
                      stage \in S, NEW i \in 1 .. (k - 1), Script[c][i] \in S
               PROVE  FALSE
    BY DEF Behind
  <2>1. i \in 1 .. Len(Script[c]) /\ i # k
    BY <1>1
  <2> QED BY <1>1, <2>1, ScriptsWriteOnce
<1> HIDE DEF c, k, a, stage
<1>5. CASE /\ UNCHANGED installation
           /\ stage \notin Effective
  <2>1. Found' = Found
    BY <1>5 DEF installation, Found
  <2>2. \A s \in Effective : Behind(c, k + 1, s) <=> Behind(c, k, s)
    BY <1>3, <1>5
  <2> QED BY <1>2, <2>1, <2>2 DEF Achieved, AchievedRows, Effective
<1>6. CASE OpenStore(p)
  <2>1. stage = "open_store" /\ files' = files \cup StoreFiles
        /\ UNCHANGED <<version, rows, export, profiles, captures>>
    BY <1>6 DEF OpenStore, At, stage, c, k
  <2> QED BY <1>2, <1>3, <2>1 DEF Achieved, AchievedRows, Found
<1>7. CASE Connect(p)
  <2>1. stage = "connect" /\ files' = files \cup Database
        /\ UNCHANGED <<version, rows, export, profiles, captures>>
    BY <1>7 DEF Connect, At, stage, c, k
  <2> QED BY <1>2, <1>3, <2>1 DEF Achieved, AchievedRows, Found
<1>8. CASE Migrate(p)
  <2>1. stage = "migrate" /\ version' = Build[p]
        /\ UNCHANGED <<rows, files, export, profiles, captures>>
    BY <1>8 DEF Migrate, At, stage, c, k
  <2> QED BY <1>2, <1>3, <2>1 DEF Achieved, AchievedRows, Found
<1>9. CASE Browse(p)
  <2>1. stage = "browse" /\ files' = files \cup {"state_dir"}
        /\ profiles' = profiles \cup {a}
        /\ UNCHANGED <<version, rows, export, captures>>
    BY <1>9 DEF Browse, At, stage, c, k, a
  <2>2. ~Behind(c, k, "browse") /\ ~Behind(c, k, "delete")
    BY <1>4, <2>1 DEF Writes
  <2> QED BY <1>2, <1>3, <2>1, <2>2 DEF Achieved, AchievedRows, Found
<1>10. CASE WriteCapture(p)
  <2>1. stage = "write_capture" /\ captures' = captures \cup {a}
        /\ UNCHANGED <<version, rows, files, export, profiles>>
    BY <1>10 DEF WriteCapture, At, stage, c, k, a
  <2> QED BY <1>2, <1>3, <2>1 DEF Achieved, AchievedRows, Found
<1>11. CASE Save(p)
  <2>1. stage = "save" /\ export' = export \cup {a}
        /\ UNCHANGED <<version, rows, files, profiles, captures>>
    BY <1>11 DEF Save, At, stage, c, k, a
  <2>2. ~Behind(c, k, "save") /\ ~Behind(c, k, "delete")
    BY <1>4, <2>1 DEF Writes
  <2> QED BY <1>2, <1>3, <2>1, <2>2 DEF Achieved, AchievedRows, Found
<1>12. CASE Delete(p)
  <2>1. stage = "delete" /\ export' = export \ {a} /\ profiles' = profiles \ {a}
        /\ UNCHANGED <<version, rows, files, captures>>
    BY <1>12 DEF Delete, At, stage, c, k, a
  <2>2. ~Behind(c, k, "save") /\ ~Behind(c, k, "browse") /\ ~Behind(c, k, "delete")
    BY <1>4, <2>1 DEF Writes
  <2> QED BY <1>2, <1>3, <2>1, <2>2 DEF Achieved, AchievedRows, Found
<1>13. CASE Sync(p) \/ Record(p) \/ Mark(p)
  <2>1. /\ stage \in {"sync", "record", "mark"}
        /\ UNCHANGED <<version, files, export, profiles, captures>>
    BY <1>13 DEF Sync, Record, Mark, Update, At, stage, c, k
  <2>2. ~Behind(c, k, "sync") /\ ~Behind(c, k, "record") /\ ~Behind(c, k, "mark")
    BY <1>4, <2>1 DEF Writes
  <2>3. rows = before.rows
    BY <1>2, <2>2 DEF Achieved, AchievedRows, Found
  <2>4. SUFFICES AchievedRows(p, c, a, k + 1, rows')
    BY <1>2, <1>3, <2>1, <2>4 DEF Achieved, Found
  <2>5. CASE Sync(p)
    <3>1. stage = "sync"
      BY <2>5 DEF Sync, At, stage, c, k
    <3>2. stage # "load"
      BY <3>1
    <3>3. config[p] = file
      BY <1>1, <1>2, <3>2, ScriptsLoadFirst DEF stage
    <3>4. rows' = [x \in Account |->
                     Roster!Synced(before.rows[x], Configuration!AccountOf(file, x))]
      BY <2>3, <2>5, <3>3 DEF Sync, Roster!Sync
    <3> QED BY <1>3, <3>1, <3>4 DEF AchievedRows
  <2>6. CASE Record(p)
    <3>1. stage = "record"
      BY <2>6 DEF Record, At, stage, c, k
    <3>2. IF before.rows[a] = Absent THEN rows' = before.rows
          ELSE \E verified \in BOOLEAN :
                 rows' = [before.rows EXCEPT
                            ![a] = Roster!Captured(before.rows[a], verified)]
      BY <2>3, <2>6 DEF Record, Update, a
    <3> QED BY <1>3, <2>2, <3>1, <3>2 DEF AchievedRows
  <2>7. CASE Mark(p)
    <3>1. stage = "mark"
      BY <2>7 DEF Mark, At, stage, c, k
    <3>2. IF before.rows[a] = Absent THEN rows' = before.rows
          ELSE rows' = [before.rows EXCEPT ![a] = Roster!Cleared(before.rows[a])]
      BY <2>3, <2>7 DEF Mark, Update, a
    <3> QED BY <1>3, <2>2, <3>1, <3>2 DEF AchievedRows
  <2> QED BY <1>13, <2>5, <2>6, <2>7
<1> QED
  BY <1>5, <1>6, <1>7, <1>8, <1>9, <1>10, <1>11, <1>12, <1>13, StageWorks
  DEF c, k, a, stage

LEMMA InitSolo == Init => SoloInv
BY DEF Init, SoloInv

LEMMA NextSolo == IInv /\ SoloInv /\ [Next]_vars => SoloInv'
<1> SUFFICES ASSUME IInv, SoloInv, [Next]_vars, NEW p \in Proc, solo' = p
             PROVE  /\ \A q \in Proc \ {p} : ~Running(q)'
                    /\ Running(p)' =>
                         /\ at'[p] > 1 => config'[p] = file'
                         /\ Achieved(p, command[p], account[p], at[p], Found)'
  BY DEF SoloInv
<1>1. CASE EditConfig \/ UNCHANGED vars
  <2>1. CASE EditConfig
    BY <2>1 DEF EditConfig
  <2>2. CASE UNCHANGED vars
    BY <2>2 DEF vars, SoloInv, Running, Achieved, AchievedRows, Found
  <2> QED BY <1>1, <2>1, <2>2
<1>2. ASSUME NEW r \in Proc, NEW c \in Commands, NEW a \in Account, Start(r, c, a)
      PROVE  /\ \A q \in Proc \ {p} : ~Running(q)'
             /\ Running(p)' =>
                  /\ at'[p] > 1 => config'[p] = file'
                  /\ Achieved(p, command[p], account[p], at[p], Found)'
  <2>1. /\ r = p /\ (\A q \in Proc : ~Running(q)) /\ before' = Found
        /\ at' = at /\ Found' = Found
        /\ command' = [command EXCEPT ![p] = c]
    BY <1>2 DEF Start, installation, Found
  <2>2. \A q \in Proc \ {p} : ~Running(q)'
    BY <2>1 DEF Running, IInv, TypeOK
  <2>3. at'[p] = 1
    BY <2>1 DEF IInv, TypeOK
  <2>4. \A c2, s : ~Behind(c2, at'[p], s)
    BY <2>3 DEF Behind
  <2>5. Achieved(p, command[p], account[p], at[p], Found)'
    <3>1. before' = Found'
      BY <2>1
    <3> QED BY <2>4, <3>1 DEF Achieved, AchievedRows
  <2> QED BY <2>2, <2>3, <2>5
<1>3. ASSUME NEW r \in Proc, Stage(r)
      PROVE  /\ \A q \in Proc \ {p} : ~Running(q)'
             /\ Running(p)' =>
                  /\ at'[p] > 1 => config'[p] = file'
                  /\ Achieved(p, command[p], account[p], at[p], Found)'
  <2>1. r = p /\ solo = p /\ UNCHANGED <<file, before>> /\ TypeOK
    BY <1>3, StageForms DEF SoloInv, Stage, IInv
  <2>2. \A q \in Proc \ {p} : ~Running(q)'
    BY <1>3, <2>1, StageMoves DEF SoloInv, Running
  <2>3. ASSUME Running(p)'
        PROVE  /\ at'[p] > 1 => config'[p] = file'
               /\ Achieved(p, command[p], account[p], at[p], Found)'
    <3>1. \A how : ~Ends(p, how)
      BY <2>1, <2>3 DEF Ends, Running, TypeOK
    <3>2. Achieved(p, command[p], account[p], at[p] + 1, Found')
      BY <1>3, <2>1, <3>1, StageAchieves
    <3>3. command'[p] = command[p] /\ at'[p] = at[p] + 1
      BY <1>3, <2>1, <2>3, StageMoves
    <3>4. account'[p] = account[p]
      BY <1>3, <2>1, <3>1, StageForms DEF Enters, GoesOn
    <3>5. config'[p] = file
      <4>1. CASE Enters(p)
        BY <2>1, <4>1 DEF Enters, TypeOK
      <4>2. CASE GoesOn(p) /\ ~At(p, "load")
        <5>1. /\ command[p] \in Commands /\ at[p] \in 1 .. Len(Script[command[p]])
              /\ Script[command[p]][at[p]] # "load" /\ Running(p)
          BY <1>3, <2>1, <4>2, StageForms, ScriptsLoadFirst
          DEF TypeOK, At, Running
        <5>2. at[p] > 1
          BY <5>1, ScriptsLoadFirst
        <5> QED BY <2>1, <3>1, <4>2, <5>1, <5>2 DEF SoloInv, GoesOn
      <4> QED BY <1>3, <2>1, <3>1, <4>1, <4>2, StageForms
    <3> QED BY <2>1, <3>2, <3>3, <3>4, <3>5 DEF Achieved, AchievedRows
  <2> QED BY <2>2, <2>3
<1> QED BY <1>1, <1>2, <1>3 DEF Next

LEMMA SoloInvariance == Spec => [](IInv /\ SoloInv)
<1>1. Init => IInv /\ SoloInv
  BY InitIInv, InitSolo
<1>2. IInv /\ SoloInv /\ [Next]_vars => IInv' /\ SoloInv'
  BY NextIInv, NextSolo
<1> QED BY <1>1, <1>2, PTL DEF Spec

\* A command that has the installation to itself and is refused, or answers with
\* exit code 1, has touched neither rows nor captures; what it leaves of the rest is
\* a key, a database, a profile that a browser opened; and one clear has deleted.
THEOREM RefusedChanges == Spec => RefusedChangesLittle
<1>1. ASSUME IInv, SoloInv, [Next]_vars, NEW p \in Proc, solo = p,
             NEW how \in {"refused", "told"}, EndsWith(p, how)
      PROVE  RefusedLeaves(p)
  <2> DEFINE c == command[p]
             k == at[p]
             a == account[p]
  <2>1. /\ Stage(p) /\ Running(p) /\ ~Running(p)' /\ outcome'[p] = how /\ TypeOK
        /\ c \in Commands /\ k \in 1 .. Len(Script[c])
    BY <1>1, EndsByStage, ScriptsLoadFirst DEF EndsWith, IInv, TypeOK, Running
  <2>2. \A stage : At(p, stage) <=> Script[c][k] = stage
    BY <2>1 DEF At
  <2>3. /\ rows' = rows /\ export' = export /\ captures' = captures
        /\ version' # version => version' <= Build[p] /\ At(p, "migrate")
        /\ files' = files \/ (At(p, "browse") /\ files' = files \cup {"state_dir"})
        /\ profiles' = profiles \/ (At(p, "browse") /\ profiles' = profiles \cup {a})
        /\ Script[c][k] \in Asking
    BY <2>1, StageRefuses
  <2>4. Achieved(p, c, a, k, Found)
    BY <1>1, <2>1 DEF SoloInv
  <2>5. /\ ~Behind(c, k, "sync") /\ ~Behind(c, k, "record") /\ ~Behind(c, k, "mark")
        /\ ~Behind(c, k, "save") /\ ~Behind(c, k, "browse")
        /\ ~Behind(c, k, "write_capture")
        /\ Behind(c, k, "delete") => c = "session_clear" /\ At(p, "migrate")
        /\ Behind(c, k, "connect") => c = "login" \/ At(p, "migrate")
        /\ Behind(c, k, "migrate") => c = "login"
    <3>1. ASSUME NEW i \in 1 .. (k - 1)
          PROVE  /\ Script[c][i] \notin {"sync", "record", "mark", "save", "browse",
                                        "write_capture"}
                 /\ Script[c][i] = "delete" =>
                      c = "session_clear" /\ Script[c][k] = "migrate"
                 /\ Script[c][i] = "connect" => c = "login" \/ Script[c][k] = "migrate"
                 /\ Script[c][i] = "migrate" => c = "login"
      BY <2>1, <2>3, ScriptsAskFirst
    <3> QED BY <2>2, <3>1 DEF Behind
  <2>6. ASSUME NEW stage \in {"load", "find", "check_secrets", "open_store"},
               At(p, stage)
        PROVE  \A s \in Effective : ~Behind(c, k, s)
    <3>1. Script[c][k] = stage
      BY <2>2, <2>6
    <3> QED BY <2>1, <2>3, <3>1, ScriptsAskFirst DEF Behind
  <2>7. c = "session_clear" /\ At(p, "migrate") => Behind(c, k, "delete")
    BY <2>1, <2>2, ClearMigratesOnce
  <2>8. /\ version = before.version \/ (version = Build[p] /\ c = "login")
        /\ captures = before.captures /\ rows = before.rows
        /\ files = before.files
                   \cup (IF Behind(c, k, "open_store") THEN StoreFiles ELSE {})
                   \cup (IF Behind(c, k, "connect") THEN Database ELSE {})
        /\ IF Behind(c, k, "delete")
           THEN export = before.export \ {a} /\ profiles = before.profiles \ {a}
           ELSE export = before.export /\ profiles = before.profiles
    <3> HIDE DEF c, k, a
    <3> QED BY <2>4, <2>5 DEF Achieved, AchievedRows, Found
  <2>9. At(p, "browse") => ~At(p, "migrate")
    BY <2>2
  <2>10. Build[p] \in Nat
    OBVIOUS
  <2>11. ASSUME NEW stage \in {"load", "find", "check_secrets", "open_store"},
                At(p, stage)
         PROVE  Found' = before
    <3>1. ~At(p, "migrate") /\ ~At(p, "browse")
      BY <2>2, <2>11
    <3>2. /\ version = before.version /\ files = before.files
          /\ export = before.export /\ profiles = before.profiles
      <4>1. /\ ~Behind(c, k, "open_store") /\ ~Behind(c, k, "connect")
            /\ ~Behind(c, k, "migrate") /\ ~Behind(c, k, "delete")
        BY <2>6, <2>11 DEF Effective
      <4> HIDE DEF c, k, a
      <4> QED BY <2>4, <2>8, <4>1 DEF Achieved, Found
    <3>3. before = [version |-> before.version, rows |-> before.rows,
                    files |-> before.files, export |-> before.export,
                    profiles |-> before.profiles, captures |-> before.captures]
      BY <2>1 DEF TypeOK, Installation
    <3> QED BY <2>3, <2>8, <3>1, <3>2, <3>3 DEF Found
  <2>12. /\ before.files \subseteq files'
         /\ "session.key" \in files' \ before.files => KeyVar \notin Environ
         /\ "database" \in files' \ before.files =>
              At(p, "migrate") \/ c = "login"
    <3> HIDE DEF c, k, a
    <3> QED BY <2>3, <2>5, <2>8 DEF StoreFiles, KeyFiles, Database
  <2>13. version' # before.version =>
           version' <= Build[p] /\ (At(p, "migrate") \/ c = "login")
    BY <2>3, <2>8, <2>10
  <2>14. IF c = "session_clear" /\ At(p, "migrate")
         THEN export' = before.export \ {a} /\ profiles' = before.profiles \ {a}
         ELSE /\ export' = before.export
              /\ profiles' \in {before.profiles} \cup
                   (IF At(p, "browse") THEN {before.profiles \cup {a}} ELSE {})
    <3> HIDE DEF c, k, a
    <3> QED BY <2>3, <2>5, <2>7, <2>8, <2>9
  <2> QED BY <2>3, <2>8, <2>11, <2>12, <2>13, <2>14 DEF RefusedLeaves
<1>2. IInv /\ SoloInv /\ [Next]_vars =>
        [\A p \in Proc :
           solo = p /\ (EndsWith(p, "refused") \/ EndsWith(p, "told"))
             => RefusedLeaves(p)]_vars
  BY <1>1
<1> QED BY <1>2, SoloInvariance, PTL DEF Spec, RefusedChangesLittle

\* A whole script is achieved: what each command is for is done.
LEMMA AchievedIsDone ==
  ASSUME IInv, NEW p \in Proc, NEW c \in Commands, command[p] = c,
         file' = file, Configuration!Loads(file),
         c = "session_status" => account[p] \in export,
         Achieved(p, c, account[p], Len(Script[c]) + 1, Found')
  PROVE  Done(p)
<1> DEFINE k == Len(Script[c]) + 1
           a == account[p]
<1>1. /\ before \in Installation /\ a \in Account /\ file \in Documents
      /\ before.rows \in Roster!Rows
      /\ before = [version |-> before.version, rows |-> before.rows,
                   files |-> before.files, export |-> before.export,
                   profiles |-> before.profiles, captures |-> before.captures]
  BY DEF IInv, TypeOK, Installation
<1>2. CASE c \in {"config_check", "run"}
  <2>1. \A s \in Effective : ~Behind(c, k, s)
    <3> USE DEF Behind, Script, Effective
    <3>1. CASE c = "config_check"   BY <3>1 DEF config_check
    <3>2. CASE c = "run"            BY <3>2 DEF unbuilt
    <3> QED BY <1>2, <3>1, <3>2
  <2>2. Found' = before
    BY <1>1, <2>1 DEF Achieved, AchievedRows, Found, Effective
  <2> QED BY <1>2, <2>2 DEF Done
<1>3. CASE c \in {"init", "accounts"}
  <2>1. /\ \A s \in {"connect", "migrate", "sync"} : Behind(c, k, s)
        /\ \A s \in Effective \ {"connect", "migrate", "sync"} : ~Behind(c, k, s)
    <3> USE DEF Behind, Script, Effective
    <3>1. CASE c = "init"     BY <3>1 DEF init
    <3>2. CASE c = "accounts" BY <3>2 DEF accounts_cmd
    <3> QED BY <1>3, <3>1, <3>2
  <2>2. Found' = [before EXCEPT !.version = Build[p], !.rows = rows',
                                !.files = @ \cup Database]
    <3>1. /\ version' = Build[p] /\ files' = before.files \cup Database
          /\ export' = before.export /\ profiles' = before.profiles
          /\ captures' = before.captures
      BY <2>1 DEF Achieved, Found, Effective
    <3>2. PICK new : new = [before EXCEPT !.version = Build[p], !.rows = rows',
                                     !.files = @ \cup Database]
      OBVIOUS
    <3>3. /\ new.version = Build[p] /\ new.rows = rows' /\ new.files = files'
          /\ new.export = export' /\ new.profiles = profiles'
          /\ new.captures = captures'
      BY <1>1, <3>1, <3>2
    <3>4. new = [version |-> new.version, rows |-> new.rows, files |-> new.files,
                 export |-> new.export, profiles |-> new.profiles,
                 captures |-> new.captures]
      BY <1>1, <3>2
    <3>5. Found' = new
      BY <3>1, <3>3, <3>4 DEF Found
    <3> QED BY <3>2, <3>5
  <2>3. rows' = [x \in Account |->
                   Roster!Synced(before.rows[x], Configuration!AccountOf(file, x))]
    BY <2>1 DEF Achieved, AchievedRows, Found
  <2>4. AsConfigured'
    <3> SUFFICES ASSUME NEW x \in Account
                 PROVE  LET entry == Configuration!AccountOf(file, x)
                        IN  IF entry = Absent
                            THEN rows'[x] = Absent \/ ~rows'[x].enabled
                            ELSE /\ rows'[x] # Absent
                                 /\ rows'[x].site = entry.site
                                 /\ rows'[x].enabled = entry.enabled
      BY DEF AsConfigured
    <3> DEFINE entry == Configuration!AccountOf(file, x)
               row == before.rows[x]
    <3>1. entry \in Roster!Entry \cup {Absent} /\ row \in Roster!Row \cup {Absent}
      <4>1. [y \in Account |-> Configuration!AccountOf(file, y)] \in Roster!Config
        BY <1>1, LoadedConfig
      <4> QED BY <1>1, <4>1 DEF Roster!Config, Roster!Rows
    <3>2. rows'[x] = Roster!Synced(row, entry)
      BY <2>3
    <3> HIDE DEF entry, row
    <3>3. IF entry = Absent THEN rows'[x] = Absent \/ ~rows'[x].enabled
          ELSE /\ rows'[x] # Absent
               /\ rows'[x].site = entry.site /\ rows'[x].enabled = entry.enabled
      <4>1. CASE entry = Absent
        BY <3>1, <3>2, <4>1
        DEF Roster!Synced, Roster!Disabled, Roster!Row
      <4>2. CASE entry # Absent /\ row = Absent
        <5>1. entry \in Roster!Entry /\ rows'[x] = Roster!Inserted(entry)
          BY <3>1, <3>2, <4>2 DEF Roster!Synced
        <5>2. Roster!Inserted(entry) \in Roster!Row
          BY <5>1 DEF Roster!Row, Roster!Entry, Roster!Inserted
        <5>3. /\ Roster!Inserted(entry).site = entry.site
              /\ Roster!Inserted(entry).enabled = entry.enabled
          BY DEF Roster!Inserted
        <5> QED BY <4>2, <5>1, <5>2, <5>3, AbsentAssumption
      <4>3. CASE entry # Absent /\ row # Absent
        <5>1. entry \in Roster!Entry /\ row \in Roster!Row
              /\ rows'[x] = Roster!Updated(row, entry)
          BY <3>1, <3>2, <4>3 DEF Roster!Synced
        <5>2. Roster!Updated(row, entry) \in Roster!Row
          BY <5>1 DEF Roster!Row, Roster!Entry, Roster!Updated
        <5>3. /\ Roster!Updated(row, entry).site = entry.site
              /\ Roster!Updated(row, entry).enabled = entry.enabled
          BY <5>1 DEF Roster!Row, Roster!Updated
        <5> QED BY <4>3, <5>1, <5>2, <5>3, AbsentAssumption
      <4> QED BY <4>1, <4>2, <4>3
    <3> QED BY <3>3 DEF entry
  <2> QED BY <1>3, <2>2, <2>4 DEF Done
<1>4. CASE c = "db_version"
  <2>1. /\ Behind(c, k, "connect")
        /\ \A s \in Effective \ {"connect"} : ~Behind(c, k, s)
    BY <1>4 DEF Behind, Script, Effective, db_version
  <2>2. Found' = [before EXCEPT !.files = @ \cup Database]
    BY <1>1, <2>1 DEF Achieved, AchievedRows, Found, Effective
  <2> QED BY <1>4, <2>2 DEF Done
<1>5. CASE c = "db_upgrade"
  <2>1. /\ \A s \in {"connect", "migrate"} : Behind(c, k, s)
        /\ \A s \in Effective \ {"connect", "migrate"} : ~Behind(c, k, s)
    BY <1>5 DEF Behind, Script, Effective, db_upgrade
  <2>2. Found' = [before EXCEPT !.version = Build[p], !.files = @ \cup Database]
    BY <1>1, <2>1 DEF Achieved, AchievedRows, Found, Effective
  <2> QED BY <1>5, <2>2 DEF Done
<1>6. CASE c = "discover"
  <2>1. /\ \A s \in {"open_store", "browse", "write_capture"} : Behind(c, k, s)
        /\ \A s \in Effective \ {"open_store", "browse", "write_capture"} :
             ~Behind(c, k, s)
    BY <1>6 DEF Behind, Script, Effective, discover
  <2>2. Found' = [before EXCEPT !.files = @ \cup StoreFiles \cup {"state_dir"},
                                !.profiles = @ \cup {a},
                                !.captures = @ \cup {a}]
    BY <1>1, <2>1 DEF Achieved, AchievedRows, Found, Effective
  <2> QED BY <1>6, <2>2 DEF Done
<1>7. CASE c = "session_status"
  <2>1. /\ Behind(c, k, "open_store")
        /\ \A s \in Effective \ {"open_store"} : ~Behind(c, k, s)
    BY <1>7 DEF Behind, Script, Effective, session_status
  <2>2. Found' = [before EXCEPT !.files = @ \cup StoreFiles]
    BY <1>1, <2>1 DEF Achieved, AchievedRows, Found, Effective
  <2> QED BY <1>7, <2>2 DEF Done
<1>8. CASE c = "login"
  <2>1. /\ \A s \in {"open_store", "connect", "migrate", "browse", "save", "record"} :
             Behind(c, k, s)
        /\ \A s \in {"sync", "mark", "delete", "write_capture"} : ~Behind(c, k, s)
    BY <1>8 DEF Behind, Script, login
  <2>2. Found'.files = before.files \cup StoreFiles \cup Database
    BY <2>1 DEF Achieved, Database
  <2>3. Found' = [before EXCEPT !.version = Build[p], !.rows = rows',
                                !.files = @ \cup StoreFiles \cup Database,
                                !.export = @ \cup {a},
                                !.profiles = @ \cup {a}]
    <3>1. /\ version' = Build[p] /\ files' = before.files \cup StoreFiles \cup Database
          /\ export' = before.export \cup {a} /\ profiles' = before.profiles \cup {a}
          /\ captures' = before.captures
      BY <2>1, <2>2 DEF Achieved, Found
    <3>2. PICK new : new = [before EXCEPT !.version = Build[p], !.rows = rows',
                                     !.files = @ \cup StoreFiles \cup Database,
                                     !.export = @ \cup {a},
                                     !.profiles = @ \cup {a}]
      OBVIOUS
    <3>3. /\ new.version = Build[p] /\ new.rows = rows' /\ new.files = files'
          /\ new.export = export' /\ new.profiles = profiles'
          /\ new.captures = captures'
      BY <1>1, <3>1, <3>2
    <3>4. new = [version |-> new.version, rows |-> new.rows, files |-> new.files,
                 export |-> new.export, profiles |-> new.profiles,
                 captures |-> new.captures]
      BY <1>1, <3>2
    <3>5. Found' = new
      BY <3>1, <3>3, <3>4 DEF Found
    <3> QED BY <3>2, <3>5
  <2>4. CASE before.rows[a] = Absent
    <3>1. rows' = before.rows
      BY <2>1, <2>4 DEF Achieved, AchievedRows, Found
    <3> QED BY <1>8, <2>3, <2>4, <3>1 DEF Done, OthersKept
  <2>5. CASE before.rows[a] # Absent
    <3>1. PICK verified \in BOOLEAN :
            rows' = [before.rows EXCEPT ![a] = Roster!Captured(before.rows[a], verified)]
      BY <2>1, <2>5 DEF Achieved, AchievedRows, Found
    <3>2. before.rows[a] \in Roster!Row
      BY <1>1, <2>5 DEF Roster!Rows
    <3>3. rows'[a] = Roster!Captured(before.rows[a], verified) /\ OthersKept(a)
      BY <1>1, <3>1 DEF Roster!Rows, OthersKept
    <3>4. rows'[a].captured
      BY <3>2, <3>3 DEF Roster!Captured, Roster!Row
    <3> QED BY <1>8, <2>3, <2>5, <3>3, <3>4 DEF Done
  <2> QED BY <2>4, <2>5
<1>9. CASE c = "session_clear"
  <2>1. /\ \A s \in {"open_store", "connect", "migrate", "delete", "mark"} :
             Behind(c, k, s)
        /\ \A s \in {"sync", "record", "save", "browse", "write_capture"} :
             ~Behind(c, k, s)
    BY <1>9 DEF Behind, Script, session_clear
  <2>2. Found' = [before EXCEPT !.version = Build[p], !.rows = rows',
                                !.files = @ \cup StoreFiles \cup Database,
                                !.export = @ \ {a},
                                !.profiles = @ \ {a}]
    <3>1. /\ version' = Build[p] /\ files' = before.files \cup StoreFiles \cup Database
          /\ export' = before.export \ {a} /\ profiles' = before.profiles \ {a}
          /\ captures' = before.captures
      BY <2>1 DEF Achieved, Found
    <3>2. PICK new : new = [before EXCEPT !.version = Build[p], !.rows = rows',
                                     !.files = @ \cup StoreFiles \cup Database,
                                     !.export = @ \ {a},
                                     !.profiles = @ \ {a}]
      OBVIOUS
    <3>3. /\ new.version = Build[p] /\ new.rows = rows' /\ new.files = files'
          /\ new.export = export' /\ new.profiles = profiles'
          /\ new.captures = captures'
      BY <1>1, <3>1, <3>2
    <3>4. new = [version |-> new.version, rows |-> new.rows, files |-> new.files,
                 export |-> new.export, profiles |-> new.profiles,
                 captures |-> new.captures]
      BY <1>1, <3>2
    <3>5. Found' = new
      BY <3>1, <3>3, <3>4 DEF Found
    <3> QED BY <3>2, <3>5
  <2>3. CASE before.rows[a] = Absent
    <3>1. rows' = before.rows
      BY <2>1, <2>3 DEF Achieved, AchievedRows, Found
    <3> QED BY <1>9, <2>2, <2>3, <3>1 DEF Done, OthersKept
  <2>4. CASE before.rows[a] # Absent
    <3>1. rows' = [before.rows EXCEPT ![a] = Roster!Cleared(before.rows[a])]
      BY <2>1, <2>4 DEF Achieved, AchievedRows, Found
    <3>2. before.rows[a] \in Roster!Row
      BY <1>1, <2>4 DEF Roster!Rows
    <3>3. rows'[a] = Roster!Cleared(before.rows[a]) /\ OthersKept(a)
      BY <1>1, <3>1 DEF Roster!Rows, OthersKept
    <3>4. ~rows'[a].captured /\ rows'[a].status = "needs_reauth"
      BY <3>2, <3>3 DEF Roster!Cleared, Roster!Row
    <3> QED BY <1>9, <2>2, <2>4, <3>3, <3>4 DEF Done
  <2> QED BY <2>3, <2>4
<1> QED
  BY <1>2, <1>3, <1>4, <1>5, <1>6, <1>7, <1>8, <1>9 DEF Commands, Script

\* A command that had the installation to itself and ends with exit code 0 has made
\* of what it found what Done says, and changed nothing else of it.
THEOREM Exit0IsDone == Spec => Exit0MeansDone
<1>1. ASSUME IInv, SoloInv, [Next]_vars, NEW p \in Proc, solo = p,
             EndsWith(p, "ok")
      PROVE  Done(p)
  <2>1. /\ Stage(p) /\ Running(p) /\ ~Running(p)' /\ outcome'[p] = "ok" /\ TypeOK
        /\ command[p] \in Commands /\ at[p] \in 1 .. Len(Script[command[p]])
    BY <1>1, EndsByStage, ScriptsLoadFirst DEF EndsWith, IInv, TypeOK, Running
  <2>2. \A how : how # "ok" => ~Ends(p, how)
    BY <2>1 DEF Ends, TypeOK
  <2>3. ~Enters(p)
    BY <2>1 DEF Enters, Running
  <2>4. GoesOn(p) /\ ~At(p, "load")
    BY <2>1, <2>2, <2>3, StageForms
  <2>5. at[p] = Len(Script[command[p]])
    BY <2>1, <2>4 DEF GoesOn, Running
  <2>6. config[p] = file /\ Configuration!Loads(file)
    <3>1. at[p] > 1
      BY <2>1, <2>5, ScriptsLoadFirst
    <3> QED BY <1>1, <2>1, <3>1 DEF SoloInv, IInv, Settled
  <2>7. Achieved(p, command[p], account[p], Len(Script[command[p]]) + 1, Found')
    BY <1>1, <2>1, <2>2, <2>5, StageAchieves
  <2>8. file' = file
    BY <2>1 DEF Stage
  <2>9. ASSUME command[p] = "session_status"
        PROVE  account[p] \in export
    <3>1. Script[command[p]][at[p]] = "load_session"
      BY <2>5, <2>9 DEF Script, session_status
    <3>2. LoadSession(p) \/ RefuseExport(p) \/ Break(p)
      BY <2>1, <3>1
      DEF Stage, At, LoadConfig, FindAccount, CheckSecrets, OpenStore, RefuseKey,
          CreateKeyPartly, Connect, ConnectPartly, Migrate, RefuseNewer,
          MigratePartly, Sync, ReadOnly, Browse, RefuseBrowse, WriteCapture, Save,
          Record, ConfirmClear, Delete, DeletePartly, Mark, NotImplemented, Passes,
          Stops, Asks
    <3> QED BY <2>2, <3>2 DEF LoadSession, RefuseExport, Break, Asks, Stops
  <2> QED BY <1>1, <2>1, <2>6, <2>7, <2>8, <2>9, AchievedIsDone
<1>2. IInv /\ SoloInv /\ [Next]_vars =>
        [\A p \in Proc : solo = p /\ EndsWith(p, "ok") => Done(p)]_vars
  BY <1>1
<1> QED BY <1>2, SoloInvariance, PTL DEF Spec, Exit0MeansDone

-----------------------------------------------------------------------------
(* The table of accounts.                                                  *)

\* A stage changes the table as a sync, a record or a clear does, or not at all.
LEMMA StageRoster ==
  ASSUME TypeOK, Settled, NEW p \in Proc, Stage(p)
  PROVE  Roster!Next \/ UNCHANGED rows
<1>1. account[p] \in Account
  BY DEF TypeOK
<1>2. CASE Migrate(p) \/ MigratePartly(p) \/ Local(p)
  BY <1>2 DEF Migrate, MigratePartly, Local
<1>3. CASE Sync(p)
  <2>1. config[p] \in Documents /\ Configuration!Loads(config[p])
    <3>1. command[p] \in Commands /\ at[p] \in 1 .. Len(Script[command[p]])
          /\ Script[command[p]][at[p]] # "load"
      BY <1>3, ScriptsLoadFirst DEF Sync, TypeOK, At, Running
    <3>2. at[p] > 1
      BY <3>1, ScriptsLoadFirst
    <3> QED BY <1>3, <3>2 DEF Settled, Sync, At
  <2>2. [a \in Account |-> Configuration!AccountOf(config[p], a)] \in Configs
    BY <2>1 DEF Configs
  <2> QED BY <1>3, <2>2 DEF Sync, Roster!Next
<1>4. CASE Record(p)
  <2>1. PICK verified \in BOOLEAN :
          Update(p, Roster!Captured(rows[account[p]], verified))
    BY <1>4 DEF Record
  <2>2. Roster!Record(account[p], verified) \/ UNCHANGED rows
    BY <2>1 DEF Update, Roster!Record
  <2> QED BY <1>1, <2>2 DEF Roster!Next
<1>5. CASE Mark(p)
  <2>1. Roster!Clear(account[p]) \/ UNCHANGED rows
    BY <1>5 DEF Mark, Update, Roster!Clear
  <2> QED BY <1>1, <2>1 DEF Roster!Next
<1> QED BY <1>2, <1>3, <1>4, <1>5, StageEffects

\* The commands implement the abstract table of accounts, whatever shells, builds
\* and edits of the config there are.
THEOREM Refinement == Spec => RefinesRoster
<1>1. Init => Roster!Init
  BY DEF Init
<1>2. ASSUME IInv, [Next]_vars
      PROVE  [Roster!Next]_rows
  <2>1. CASE UNCHANGED vars
    BY <2>1 DEF vars
  <2>2. CASE EditConfig
    BY <2>2 DEF EditConfig, installation
  <2>3. ASSUME NEW p \in Proc, NEW c \in Commands, NEW a \in Account, Start(p, c, a)
        PROVE  UNCHANGED rows
    BY <2>3 DEF Start, installation
  <2>4. ASSUME NEW p \in Proc, Stage(p)
        PROVE  Roster!Next \/ UNCHANGED rows
    BY <1>2, <2>4, StageRoster DEF IInv
  <2> QED BY <1>2, <2>1, <2>2, <2>3, <2>4 DEF Next
<1> QED BY <1>1, <1>2, Invariance, PTL DEF Spec, RefinesRoster, Roster!Spec
=============================================================================
