----------------------------- MODULE SessionKey ------------------------------
(***************************************************************************)
(* The key of the exported sessions (session/crypto.py), as the commands   *)
(* get it: `login`, `discover`, `session status` and `session clear` each  *)
(* open the session store once, which loads the key or makes one, and then *)
(* save, load or delete an export with it.                                 *)
(*                                                                         *)
(* The key comes from the environment of the command or from the key file, *)
(* which the first command that finds none creates and then fills, in two  *)
(* steps that other commands and a kill can come between.                  *)
(*                                                                         *)
(* The key that process p generates is called p.                           *)
(***************************************************************************)
CONSTANTS
  Proc,     \* processes; each opens the store once
  EnvKey,   \* the key in PRICEWATCH_SESSION_KEY
  NotAKey,  \* content that is no Fernet key; the empty file is one
  NoKey     \* no file, no variable, no export

ASSUME KeysAssumption ==
  /\ EnvKey \notin Proc
  /\ NotAKey \notin Proc \cup {EnvKey}
  /\ NoKey \notin Proc \cup {EnvKey, NotAKey}

VARIABLES
  pc,       \* pc[p]: the step p is at
  env,      \* env[p]: PRICEWATCH_SESSION_KEY where p runs
  keyFile,  \* the content of session.key
  private,  \* nobody but the owner has access to session.key
  held,     \* held[p]: the key of p's store
  export    \* the key the account's exported session is encrypted with

vars == <<pc, env, keyFile, private, held, export>>

-----------------------------------------------------------------------------
Opening == {"start", "found", "checked", "missing", "created"}
Over    == {"done", "undecryptable", "refused", "escaped", "dead"}

TypeOK ==
  /\ pc \in [Proc -> Opening \cup {"ready"} \cup Over]
  /\ env \in [Proc -> {EnvKey, NotAKey, NoKey}]
  /\ keyFile \in Proc \cup {NotAKey, NoKey}
  /\ private \in BOOLEAN
  /\ held \in [Proc -> Proc \cup {EnvKey, NoKey}]
  /\ export \in Proc \cup {EnvKey, NoKey}

Init ==
  /\ pc = [p \in Proc |-> "start"]
  /\ env \in [Proc -> {EnvKey, NotAKey, NoKey}]
  /\ keyFile = NoKey
  /\ private = TRUE
  /\ held = [p \in Proc |-> NoKey]
  /\ export = NoKey

Goto(p, from, to) ==
  /\ pc[p] = from
  /\ pc' = [pc EXCEPT ![p] = to]

Hold(p, key) == held' = [held EXCEPT ![p] = key]

-----------------------------------------------------------------------------
(* load_or_create: the environment has precedence.                         *)
TakeEnvKey(p) ==
  /\ Goto(p, "start", "ready")
  /\ env[p] = EnvKey
  /\ Hold(p, EnvKey)
  /\ UNCHANGED <<env, keyFile, private, export>>

RejectEnvKey(p) ==
  /\ Goto(p, "start", "refused")
  /\ env[p] = NotAKey
  /\ UNCHANGED <<env, keyFile, private, held, export>>

\* A variable with a character outside ASCII fails as it is encoded, before the key
\* is tried: UnicodeEncodeError, which nothing catches.
EnvKeyEscapes(p) ==
  /\ Goto(p, "start", "escaped")
  /\ env[p] = NotAKey
  /\ UNCHANGED <<env, keyFile, private, held, export>>

LookForFile(p) ==
  /\ pc[p] = "start"
  /\ env[p] = NoKey
  /\ pc' = [pc EXCEPT ![p] = IF keyFile = NoKey THEN "missing" ELSE "found"]
  /\ UNCHANGED <<env, keyFile, private, held, export>>

\* A key file that group or others may open is refused.
RequirePrivate(p) ==
  /\ pc[p] = "found"
  /\ pc' = [pc EXCEPT ![p] = IF private THEN "checked" ELSE "refused"]
  /\ UNCHANGED <<env, keyFile, private, held, export>>

ReadKey(p) ==
  /\ Goto(p, "checked", "ready")
  /\ keyFile # NotAKey
  /\ Hold(p, keyFile)
  /\ UNCHANGED <<env, keyFile, private, export>>

RejectKey(p) ==
  /\ Goto(p, "checked", "refused")
  /\ keyFile = NotAKey
  /\ UNCHANGED <<env, keyFile, private, held, export>>

\* Bug: no O_EXCL; a file that is there is emptied.
CreateOrTruncate(p) ==
  /\ Goto(p, "missing", "created")
  /\ keyFile' = NotAKey
  /\ private' = TRUE
  /\ UNCHANGED <<env, held, export>>

\* O_EXCL: only one process creates the file.  It is empty at first.
Create(p) ==
  /\ Goto(p, "missing", "created")
  /\ keyFile = NoKey
  /\ keyFile' = NotAKey
  /\ private' = TRUE
  /\ UNCHANGED <<env, held, export>>

\* FileExistsError, which nothing between here and the entry point catches.
CreateFails(p) ==
  /\ Goto(p, "missing", "escaped")
  /\ keyFile # NoKey
  /\ UNCHANGED <<env, keyFile, private, held, export>>

\* Bug: the store gets the content of the file as it was created.
WriteUnheld(p) ==
  /\ Goto(p, "created", "ready")
  /\ keyFile' = p
  /\ Hold(p, NotAKey)
  /\ UNCHANGED <<env, private, export>>

WriteKey(p) ==
  /\ Goto(p, "created", "ready")
  /\ keyFile' = p
  /\ Hold(p, p)
  /\ UNCHANGED <<env, private, export>>

-----------------------------------------------------------------------------
(* What the commands do with the store.                                    *)
Save(p) ==
  /\ Goto(p, "ready", "done")
  /\ export' = held[p]
  /\ UNCHANGED <<env, keyFile, private, held>>

\* InvalidToken: the export is another key's.
Load(p) ==
  /\ pc[p] = "ready"
  /\ pc' = [pc EXCEPT ![p] =
             IF export \in {NoKey, held[p]} THEN "done" ELSE "undecryptable"]
  /\ UNCHANGED <<env, keyFile, private, held, export>>

Delete(p) ==
  /\ Goto(p, "ready", "done")
  /\ export' = NoKey
  /\ UNCHANGED <<env, keyFile, private, held>>

\* The process is killed, or a write fails.
Die(p) ==
  /\ pc[p] \in (Opening \cup {"ready"}) \ {"start"}
  /\ pc' = [pc EXCEPT ![p] = "dead"]
  /\ UNCHANGED <<env, keyFile, private, held, export>>

\* The user, a backup or a sync tool changes the mode of the file.
ChangeMode ==
  /\ keyFile # NoKey
  /\ private' = ~private
  /\ UNCHANGED <<pc, env, keyFile, held, export>>

-----------------------------------------------------------------------------
LoadOrCreate(p) ==
  \/ TakeEnvKey(p) \/ RejectEnvKey(p) \/ EnvKeyEscapes(p) \/ LookForFile(p)
  \/ RequirePrivate(p) \/ ReadKey(p) \/ RejectKey(p)
  \/ Create(p) \/ CreateFails(p) \/ WriteKey(p)

Next ==
  \/ \E p \in Proc :
       LoadOrCreate(p) \/ Save(p) \/ Load(p) \/ Delete(p) \/ Die(p)
  \/ ChangeMode

Spec == Init /\ [][Next]_vars

-----------------------------------------------------------------------------
(* Properties.                                                             *)

\* A session saved under a generated key can be read by whoever reads the key
\* file: two first commands that both found no key file, and deaths at any
\* point, do not leave an export whose key is nowhere.
ExportHasItsKey == export \in Proc => keyFile = export

\* An export that cannot be decrypted is the doing of the environment variable
\* (the one cause that decrypt's message offers), never of two commands that
\* raced for the key file.
UndecryptableMeansEnvironment ==
  \A p \in Proc :
    pc[p] = "undecryptable" => \E q \in Proc : env[q] = EnvKey

\* Once the file has a key, no later command replaces or empties it.
KeepsKey    == keyFile \in Proc => keyFile' = keyFile
KeySurvives == [][KeepsKey]_vars
=============================================================================
