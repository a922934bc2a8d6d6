---------------------------- MODULE Configuration ----------------------------
(***************************************************************************)
(* The config file (config.py): which documents load, what a secret is     *)
(* worth in an environment, and what `config check` (cli.py) looks at.     *)
(* Definitions only; CommandLine has the commands that use them.           *)
(***************************************************************************)
EXTENDS Naturals

CONSTANTS
  Var,     \* environment variables
  Absent   \* an entry that a document leaves out, and a file that is missing
           \* or not TOML or has a key that is not known

-----------------------------------------------------------------------------
(* Secrets.                                                                *)

\* A literal, a reference to a variable, or (refused) both or neither.
Secret == [literal : BOOLEAN, env : Var \cup {Absent}]

ExactlyOneSource(secret) == secret.literal # (secret.env # Absent)

\* resolve: environ is the set of the variables that are set and not empty.
Resolves(secret, environ) == secret.literal \/ secret.env \in environ

\* The fields of each type of notifier that hold a secret.
SecretFields ==
  [ntfy     |-> {"token"},
   telegram |-> {"bot_token"},
   discord  |-> {"webhook_url"},
   smtp     |-> {"password"}]

Required == {"bot_token", "webhook_url"}

-----------------------------------------------------------------------------
(* Loading.  A document has a sequence of accounts and one of notifiers.   *)
UniqueNames(list) ==
  \A i, j \in DOMAIN list : list[i].name = list[j].name => i = j

ValidNotifier(notifier) ==
  /\ notifier.type \in DOMAIN SecretFields
  /\ \A field \in SecretFields[notifier.type] :
       IF notifier.secrets[field] = Absent THEN field \notin Required
       ELSE ExactlyOneSource(notifier.secrets[field])

Loads(document) ==
  /\ document # Absent
  /\ UniqueNames(document.accounts)
  /\ UniqueNames(document.notifiers)
  /\ \A i \in DOMAIN document.notifiers : ValidNotifier(document.notifiers[i])

HasAccount(document, name) ==
  \E i \in DOMAIN document.accounts : document.accounts[i].name = name

\* What the document says of an account.
AccountOf(document, name) ==
  IF HasAccount(document, name)
  THEN LET i == CHOOSE k \in DOMAIN document.accounts :
                  document.accounts[k].name = name
       IN  [site    |-> document.accounts[i].site,
            enabled |-> document.accounts[i].enabled]
  ELSE Absent

-----------------------------------------------------------------------------
(* config check.                                                           *)
\* Bug: the type that was added last is forgotten.
CheckedFieldsButLast == {"token", "bot_token", "webhook_url"}

CheckedFields == {"token", "bot_token", "webhook_url", "password"}

\* getattr: a notifier has the fields of its type only.
AllResolved(document, environ) ==
  \A i \in DOMAIN document.notifiers :
    LET notifier == document.notifiers[i]
    IN  notifier.enabled =>
          \A field \in CheckedFields \cap SecretFields[notifier.type] :
            \/ notifier.secrets[field] = Absent
            \/ Resolves(notifier.secrets[field], environ)

\* A notifier can be sent through: none of its secrets would raise.
CanSend(notifier, environ) ==
  \A field \in SecretFields[notifier.type] :
    \/ notifier.secrets[field] = Absent
    \/ Resolves(notifier.secrets[field], environ)
=============================================================================
