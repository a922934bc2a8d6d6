----------------------------- MODULE CommandLine -----------------------------
(***************************************************************************)
(* The commands (cli.py) from the reading of the config to the exit code,  *)
(* on one installation: its config file, its state directory with the key, *)
(* the database, the exported sessions, the browser profiles and the       *)
(* captures in it.  A command is a script of stages; between two stages    *)
(* others may run, also commands of another build of the program, and each *)
(* stage may be the last because something is refused, fails or is killed. *)
(*                                                                         *)
(* The database is where it is by default, in the state directory, and so  *)
(* are the captures.  Directories within it and lock files are left out.   *)
(*                                                                         *)
(* A stage is one step here: that it may be taken for one is what          *)
(* Migrations, AccountRows, SessionExport and SessionCommands are about.   *)
(***************************************************************************)
EXTENDS Integers, Sequences

CONSTANTS
  Proc,       \* shells; each runs one command after the other
  NoProc,     \* no shell
  Build,      \* Build[p]: the migrations that the program in p ships
  Account, Site, Var, Absent,
  Documents,  \* bound: the contents that the config file takes
  Environ,    \* the variables that are set and not empty
  KeyVar      \* the variable that holds the session key, if it is set

VARIABLES
  file,       \* the content of the config file
  version,    \* the migrations applied to the database
  rows,       \* its table of accounts
  files,      \* which of the state directory, the key and the database are there
  export,     \* the accounts with an exported session
  profiles,   \* the accounts with a browser profile
  captures,   \* the accounts with a capture
  command,    \* command[p]: what p runs, or "none"
  account,    \* account[p]: the account it was given
  at,         \* at[p]: the stage of its script
  config,     \* config[p]: the config it has loaded
  outcome,    \* outcome[p]: how its last command ended
  solo,       \* history: a shell whose command has had no other beside it and
              \* no edit of the config since it began
  before      \* history: what solo found

installation == <<version, rows, files, export, profiles, captures>>
process == <<command, account, at, config, outcome>>
vars == <<file, version, rows, files, export, profiles, captures,
          command, account, at, config, outcome, solo, before>>

Configuration == INSTANCE Configuration
Configs ==
  {[a \in Account |-> Configuration!AccountOf(d, a)] :
     d \in {document \in Documents : Configuration!Loads(document)}}
Roster == INSTANCE AccountRoster

ASSUME NoProcAssumption == NoProc \notin Proc
\* session_captured_at comes with the second migration, and with the code here.
ASSUME BuildAssumption ==
  Build \in [Proc -> Nat] /\ \A p \in Proc : Build[p] >= 2
ASSUME AbsentAssumption == Absent \notin Roster!Entry \cup Roster!Row
ASSUME DocumentsAssumption == Configs \subseteq Roster!Config

-----------------------------------------------------------------------------
(* The scripts.                                                            *)
\* Bug: the table is filled before it is there.
init_unmigrated == <<"load", "connect", "sync", "migrate">>
\* Bug: the database is opened when it is needed.
login_late == <<"load", "find", "open_store", "browse", "save", "connect",
                "migrate", "record">>
\* Bug: the session is deleted before the operator is asked.
session_clear_unasked == <<"load", "find", "open_store", "delete", "confirm",
                           "connect", "migrate", "mark">>
\* Bug: every opening of the database migrates it.
db_version_migrating == <<"load", "connect", "migrate", "ask_version">>

config_check   == <<"load", "check_secrets">>
init           == <<"load", "connect", "migrate", "sync">>
db_version     == <<"load", "connect", "ask_version">>
db_upgrade     == <<"load", "connect", "migrate">>
accounts_cmd   == <<"load", "connect", "migrate", "sync", "list">>
login          == <<"load", "find", "open_store", "connect", "migrate", "browse",
                    "save", "record">>
discover       == <<"load", "find", "open_store", "browse", "write_capture",
                    "summarise">>
session_status == <<"load", "find", "open_store", "load_session">>
session_clear  == <<"load", "find", "open_store", "confirm", "delete", "connect",
                    "migrate", "mark">>
unbuilt        == <<"load", "not_implemented">>

\* "run" stands for every command that is not implemented yet.
Script ==
  [config_check |-> config_check, init |-> init, db_version |-> db_version,
   db_upgrade |-> db_upgrade, accounts |-> accounts_cmd, login |-> login,
   discover |-> discover, session_status |-> session_status,
   session_clear |-> session_clear, run |-> unbuilt]

Commands == DOMAIN Script

Running(p) == command[p] # "none"
At(p, stage) == Running(p) /\ Script[command[p]][at[p]] = stage

-----------------------------------------------------------------------------
Database == {"state_dir", "database"}
KeyFiles == {"state_dir", "session.key"}

Installation ==
  [version : Nat, rows : Roster!Rows, files : SUBSET (Database \cup KeyFiles),
   export : SUBSET Account, profiles : SUBSET Account, captures : SUBSET Account]

Found ==
  [version |-> version, rows |-> rows, files |-> files,
   export |-> export, profiles |-> profiles, captures |-> captures]

Nothing ==
  [version |-> 0, rows |-> [a \in Account |-> Absent], files |-> {},
   export |-> {}, profiles |-> {}, captures |-> {}]

Outcomes ==
  {"none", "ok",   \* exit code 0
   "told",         \* 1, after an answer: no session, not confirmed, unresolved
   "refused",      \* 1, a PricewatchError
   "unbuilt",      \* 3
   "failed"}       \* anything else, and killed

TypeOK ==
  /\ file \in Documents
  /\ Found \in Installation
  /\ command \in [Proc -> Commands \cup {"none"}]
  /\ account \in [Proc -> Account]
  /\ at \in [Proc -> Nat]
  /\ \A p \in Proc :
       IF Running(p) THEN at[p] \in DOMAIN Script[command[p]] ELSE at[p] = 1
  /\ config \in [Proc -> Documents \cup {Absent}]
  /\ outcome \in [Proc -> Outcomes]
  /\ solo \in Proc \cup {NoProc}
  /\ before \in Installation

Init ==
  /\ file \in Documents
  /\ version = 0 /\ Roster!Init /\ files = {}
  /\ export = {} /\ profiles = {} /\ captures = {}
  /\ command = [p \in Proc |-> "none"]
  /\ account \in [Proc -> Account]
  /\ at = [p \in Proc |-> 1]
  /\ config = [p \in Proc |-> Absent]
  /\ outcome = [p \in Proc |-> "none"]
  /\ solo = NoProc
  /\ before = Nothing

-----------------------------------------------------------------------------
(* The person.                                                             *)
EditConfig ==
  /\ file' \in Documents \ {file}
  /\ solo' = NoProc
  /\ before' = Nothing
  /\ UNCHANGED <<installation, process>>

Start(p, c, a) ==
  /\ ~Running(p)
  /\ command' = [command EXCEPT ![p] = c]
  /\ account' = [account EXCEPT ![p] = a]
  /\ outcome' = [outcome EXCEPT ![p] = "none"]
  /\ IF \A q \in Proc : ~Running(q)
     THEN solo' = p /\ before' = Found
     ELSE solo' = NoProc /\ before' = Nothing
  /\ UNCHANGED <<file, installation, at, config>>

-----------------------------------------------------------------------------
(* A command ends, or goes on to its next stage.                           *)
Ends(p, how) ==
  /\ command' = [command EXCEPT ![p] = "none"]
  /\ outcome' = [outcome EXCEPT ![p] = how]
  /\ at' = [at EXCEPT ![p] = 1]
  /\ config' = [config EXCEPT ![p] = Absent]
  /\ UNCHANGED account

\* Bug: the end of the script is noticed one stage late.
GoesOnPast(p) ==
  IF at[p] > Len(Script[command[p]])
  THEN Ends(p, "ok")
  ELSE /\ at' = [at EXCEPT ![p] = at[p] + 1]
       /\ UNCHANGED <<command, account, config, outcome>>

GoesOn(p) ==
  IF at[p] = Len(Script[command[p]])
  THEN Ends(p, "ok")
  ELSE /\ at' = [at EXCEPT ![p] = at[p] + 1]
       /\ UNCHANGED <<command, account, config, outcome>>

\* A stage that changes nothing, and goes on or ends the command.
Passes(p, stage) == At(p, stage) /\ GoesOn(p) /\ UNCHANGED installation
Stops(p, stage, how) ==
  At(p, stage) /\ Ends(p, how) /\ UNCHANGED installation

\* A stage that goes on if what it asks for holds.
Asks(p, stage, holds, how) ==
  /\ At(p, stage)
  /\ IF holds THEN GoesOn(p) ELSE Ends(p, how)
  /\ UNCHANGED installation

-----------------------------------------------------------------------------
(* The stages.                                                             *)
LoadConfig(p) ==
  \/ /\ At(p, "load")
     /\ Configuration!Loads(file)
     /\ config' = [config EXCEPT ![p] = file]
     /\ at' = [at EXCEPT ![p] = at[p] + 1]
     /\ UNCHANGED <<command, account, outcome>>
     /\ UNCHANGED installation
  \/ ~Configuration!Loads(file) /\ Stops(p, "load", "refused")

FindAccount(p) ==
  Asks(p, "find", Configuration!HasAccount(config[p], account[p]), "refused")

CheckSecrets(p) ==
  Asks(p, "check_secrets", Configuration!AllResolved(config[p], Environ), "told")

\* The key is in the environment, or in its file, which is made if it is not there.
StoreFiles == IF KeyVar \in Environ THEN {} ELSE KeyFiles

OpenStore(p) ==
  /\ At(p, "open_store")
  /\ files' = files \cup StoreFiles
  /\ GoesOn(p)
  /\ UNCHANGED <<version, rows, export, profiles, captures>>

\* The key is not one, or its file is not private.
RefuseKey(p) ==
  /\ KeyVar \in Environ \/ "session.key" \in files
  /\ Stops(p, "open_store", "refused")

\* The directory, the key file or what is in it cannot be written.
CreateKeyPartly(p) ==
  /\ At(p, "open_store")
  /\ KeyVar \notin Environ /\ "session.key" \notin files
  /\ files' \in {files \cup {"state_dir"}, files \cup KeyFiles}
  /\ Ends(p, "failed")
  /\ UNCHANGED <<version, rows, export, profiles, captures>>

Connect(p) ==
  /\ At(p, "connect")
  /\ files' = files \cup Database
  /\ GoesOn(p)
  /\ UNCHANGED <<version, rows, export, profiles, captures>>

\* The database cannot be made where it should be, or not be set up.
ConnectPartly(p) ==
  /\ At(p, "connect")
  /\ files' \in {files \cup {"state_dir"}, files \cup Database}
  /\ Ends(p, "failed")
  /\ UNCHANGED <<version, rows, export, profiles, captures>>

Migrate(p) ==
  /\ At(p, "migrate")
  /\ version <= Build[p]
  /\ version' = Build[p]
  /\ GoesOn(p)
  /\ UNCHANGED <<rows, files, export, profiles, captures>>

\* The database is newer than the code.
RefuseNewer(p) == version > Build[p] /\ Stops(p, "migrate", "refused")

\* A migration fails, which is a MigrationError, or the command is killed between
\* two of them.
MigratePartly(p) ==
  /\ At(p, "migrate")
  /\ version' \in version .. Build[p]
  /\ \E how \in {"refused", "failed"} : Ends(p, how)
  /\ UNCHANGED <<rows, files, export, profiles, captures>>

Sync(p) ==
  /\ At(p, "sync")
  /\ Roster!Sync([a \in Account |-> Configuration!AccountOf(config[p], a)])
  /\ GoesOn(p)
  /\ UNCHANGED <<version, files, export, profiles, captures>>

\* list_accounts, db version and the summary of a capture read; the summary may fail.
ReadOnly(p) ==
  \E stage \in {"list", "ask_version", "summarise"} : Passes(p, stage)

\* The lock makes the directory of the profiles, the browser that of its profile.
Browse(p) ==
  /\ At(p, "browse")
  /\ files' = files \cup {"state_dir"}
  /\ profiles' = profiles \cup {account[p]}
  /\ GoesOn(p)
  /\ UNCHANGED <<version, rows, export, captures>>

\* There is no adapter for a login without a window, or the profile is busy; the
\* browser does not start, sign-in is not seen in time, the operator says no, or
\* nothing was recorded.
RefuseBrowse(p) ==
  /\ At(p, "browse")
  /\ files' \in {files, files \cup {"state_dir"}}
  /\ profiles' \in {profiles} \cup
       (IF "state_dir" \in files' THEN {profiles \cup {account[p]}} ELSE {})
  /\ \E how \in {"refused", "failed"} : Ends(p, how)
  /\ UNCHANGED <<version, rows, export, captures>>

WriteCapture(p) ==
  /\ At(p, "write_capture")
  /\ captures' = captures \cup {account[p]}
  /\ GoesOn(p)
  /\ UNCHANGED <<version, rows, files, export, profiles>>

Save(p) ==
  /\ At(p, "save")
  /\ export' = export \cup {account[p]}
  /\ GoesOn(p)
  /\ UNCHANGED <<version, rows, files, profiles, captures>>

\* An UPDATE changes nothing if there is no row.
Update(p, row) ==
  /\ rows' = IF rows[account[p]] = Absent THEN rows
             ELSE [rows EXCEPT ![account[p]] = row]
  /\ GoesOn(p)
  /\ UNCHANGED <<version, files, export, profiles, captures>>

Record(p) ==
  /\ At(p, "record")
  /\ \E verified \in BOOLEAN :
       Update(p, Roster!Captured(rows[account[p]], verified))

LoadSession(p) == Asks(p, "load_session", account[p] \in export, "told")

\* The export is under another key.
RefuseExport(p) == account[p] \in export /\ Stops(p, "load_session", "refused")

ConfirmClear(p) == Passes(p, "confirm") \/ Stops(p, "confirm", "told")

Delete(p) ==
  /\ At(p, "delete")
  /\ export' = export \ {account[p]}
  /\ profiles' = profiles \ {account[p]}
  /\ GoesOn(p)
  /\ UNCHANGED <<version, rows, files, captures>>

\* The profile cannot be removed, when the export is gone.
DeletePartly(p) ==
  /\ At(p, "delete")
  /\ export' = export \ {account[p]}
  /\ Ends(p, "failed")
  /\ UNCHANGED <<version, rows, files, profiles, captures>>

Mark(p) == At(p, "mark") /\ Update(p, Roster!Cleared(rows[account[p]]))

NotImplemented(p) == Stops(p, "not_implemented", "unbuilt")

\* An error of the system that nobody catches, or a kill.
Break(p) == Running(p) /\ Ends(p, "failed") /\ UNCHANGED installation

-----------------------------------------------------------------------------
Stage(p) ==
  /\ \/ LoadConfig(p) \/ FindAccount(p) \/ CheckSecrets(p)
     \/ OpenStore(p) \/ RefuseKey(p) \/ CreateKeyPartly(p)
     \/ Connect(p) \/ ConnectPartly(p)
     \/ Migrate(p) \/ RefuseNewer(p) \/ MigratePartly(p)
     \/ Sync(p) \/ ReadOnly(p)
     \/ Browse(p) \/ RefuseBrowse(p) \/ WriteCapture(p)
     \/ Save(p) \/ Record(p)
     \/ LoadSession(p) \/ RefuseExport(p)
     \/ ConfirmClear(p) \/ Delete(p) \/ DeletePartly(p) \/ Mark(p)
     \/ NotImplemented(p) \/ Break(p)
  /\ UNCHANGED <<file, solo, before>>

Next ==
  \/ EditConfig
  \/ \E p \in Proc :
       \/ \E c \in Commands, a \in Account : Start(p, c, a)
       \/ Stage(p)

Spec == Init /\ [][Next]_vars

-----------------------------------------------------------------------------
(* Properties.                                                             *)

\* What a statement on the accounts needs: the table comes with the first
\* migration, session_captured_at with the second.
Needs(stage) ==
  CASE stage \in {"sync", "list"}    -> 1
    [] stage \in {"record", "mark"}  -> 2
    [] OTHER                         -> 0

\* Every statement finds its table and its columns, whatever other builds have
\* made of the database since it was opened.
StatementsFindTheirTables ==
  \A p \in Proc : Running(p) => version >= Needs(Script[command[p]][at[p]])

\* Once somebody has signed in, login is not refused any more: the config, the
\* account, the store and the schema were asked before (cli.py:270-284).
Asked(p) == command[p] = "login" /\ \E i \in 1 .. (at[p] - 1) : login[i] = "browse"
SignInKept == [][\A p \in Proc : Asked(p) => outcome'[p] # "refused"]_vars

\* The command of p comes to an end in this step.
EndsWith(p, how) == Running(p) /\ command'[p] = "none" /\ outcome'[p] = how

\* A config check that ends with exit code 0 has seen every secret that the
\* notifiers it loaded would need: sending does not find one missing
\* (config.py:71-73), whatever the type of the notifier.
CheckMeansSendable ==
  [][\A p \in Proc :
       command[p] = "config_check" /\ EndsWith(p, "ok") =>
         \A i \in DOMAIN config[p].notifiers :
           config[p].notifiers[i].enabled =>
             Configuration!CanSend(config[p].notifiers[i], Environ)]_vars

\* The table has the accounts, sites and switches of the config file, and no
\* other account is on.
AsConfigured ==
  \A a \in Account :
    LET entry == Configuration!AccountOf(file, a)
    IN  IF entry = Absent THEN rows[a] = Absent \/ ~rows[a].enabled
        ELSE /\ rows[a] # Absent
             /\ rows[a].site = entry.site /\ rows[a].enabled = entry.enabled

OthersKept(a) == \A x \in Account \ {a} : rows'[x] = before.rows[x]

\* What exit code 0 means of a command that had the installation to itself: all that
\* it is for has been done to what it found, and nothing else.  The commands that
\* open the store leave a key behind, those that open the database leave that, and a
\* login of an account that is not in the table leaves the table alone.  A table that
\* an overlapping command has filled from an older config is put right by the next
\* `accounts`.
Done(p) ==
  LET a == account[p]
  IN  CASE command[p] \in {"init", "accounts"} ->
             /\ AsConfigured'
             /\ Found' = [before EXCEPT !.version = Build[p], !.rows = rows',
                                        !.files = @ \cup Database]
        [] command[p] = "db_version" ->
             Found' = [before EXCEPT !.files = @ \cup Database]
        [] command[p] = "db_upgrade" ->
             Found' = [before EXCEPT !.version = Build[p], !.files = @ \cup Database]
        [] command[p] = "login" ->
             /\ Found' = [before EXCEPT !.version = Build[p], !.rows = rows',
                                        !.files = @ \cup StoreFiles \cup Database,
                                        !.export = @ \cup {a},
                                        !.profiles = @ \cup {a}]
             /\ OthersKept(a)
             /\ IF before.rows[a] = Absent THEN rows'[a] = Absent
                ELSE rows'[a].captured
        [] command[p] = "discover" ->
             Found' = [before EXCEPT !.files = @ \cup StoreFiles \cup {"state_dir"},
                                     !.profiles = @ \cup {a},
                                     !.captures = @ \cup {a}]
        [] command[p] = "session_status" ->
             /\ Found' = [before EXCEPT !.files = @ \cup StoreFiles]
             /\ a \in export
        [] command[p] = "session_clear" ->
             /\ Found' = [before EXCEPT !.version = Build[p], !.rows = rows',
                                        !.files = @ \cup StoreFiles \cup Database,
                                        !.export = @ \ {a},
                                        !.profiles = @ \ {a}]
             /\ OthersKept(a)
             /\ IF before.rows[a] = Absent THEN rows'[a] = Absent
                ELSE ~rows'[a].captured /\ rows'[a].status = "needs_reauth"
        [] OTHER -> Found' = before

Exit0MeansDone ==
  [][\A p \in Proc : solo = p /\ EndsWith(p, "ok") => Done(p)]_vars

\* What a command leaves behind that is refused, or ends with an answer and exit code
\* 1.  Before the store is open: nothing.  After that: the key, if one had to be made;
\* the database, migrated wholly or in part, if that was opened; and the profile, if a
\* browser got as far as that.  Rows, exports and captures are as they were, with one
\* exception: a clear that is refused at the migration has removed the export and the
\* profile by then, and its row tells of them still (cli.py:417-418).
RefusedLeaves(p) ==
  LET a == account[p]
  IN  /\ rows' = before.rows
      /\ captures' = before.captures
      /\ IF \E stage \in {"load", "find", "check_secrets", "open_store"} : At(p, stage)
         THEN Found' = before
         ELSE /\ before.files \subseteq files'
              /\ "session.key" \in files' \ before.files => KeyVar \notin Environ
      /\ version' # before.version =>
           version' <= Build[p] /\ (At(p, "migrate") \/ command[p] = "login")
      /\ "database" \in files' \ before.files => At(p, "migrate") \/ command[p] = "login"
      /\ IF command[p] = "session_clear" /\ At(p, "migrate")
         THEN export' = before.export \ {a} /\ profiles' = before.profiles \ {a}
         ELSE /\ export' = before.export
              /\ profiles' \in {before.profiles} \cup
                   (IF At(p, "browse") THEN {before.profiles \cup {a}} ELSE {})

RefusedChangesLittle ==
  [][\A p \in Proc :
       solo = p /\ (EndsWith(p, "refused") \/ EndsWith(p, "told"))
         => RefusedLeaves(p)]_vars

\* Whatever the commands of both builds do side by side, and wherever they end,
\* the table of accounts changes by syncs, records and clears alone: AccountRoster
\* is what it promises here too (accounts.py).
RefinesRoster == Roster!Spec
=============================================================================
