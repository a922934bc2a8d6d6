---------------------------- MODULE MCCommandLine ----------------------------
(* Instances of CommandLine for TLC.                                       *)
EXTENDS CommandLine

CONSTANTS p1, p2, acct1, acct2, site, set, unset

\* One shell has the build of this commit, the other a later one.
MCBuild == [p \in Proc |-> IF p = p1 THEN 2 ELSE 3]

Literal   == [literal |-> TRUE, env |-> Absent]
From(var) == [literal |-> FALSE, env |-> var]
Both(var) == [literal |-> TRUE, env |-> var]

Entry(name, enabled) == [name |-> name, site |-> site, enabled |-> enabled]
Notifier(name, type, enabled, secrets) ==
  [name |-> name, type |-> type, enabled |-> enabled, secrets |-> secrets]

Document(accounts, notifiers) == [accounts |-> accounts, notifiers |-> notifiers]

Given == [p \in Proc |-> IF Running(p) THEN account[p] ELSE NoProc]

Progress == <<file, version, command, at, config, Given>>

\* A command that has another beside it, or an edit of the config since it began, is
\* told apart by what decides about the order of its stages: the properties that are
\* about such commands read no more.  One that has the installation to itself, and an
\* installation on which nothing runs, is told apart by all that there is.
Distinct ==
  IF solo = NoProc /\ \E p \in Proc : Running(p)
  THEN Progress
  ELSE <<Progress, installation, before>>

\* No file, a valid one for each outcome of the check, and two that are refused.
MCDocuments ==
  {Absent,
   Document(<<Entry(acct1, TRUE)>>,
            <<Notifier("n1", "ntfy", TRUE, [token |-> Absent]),
              Notifier("n2", "smtp", TRUE, [password |-> From(unset)]),
              Notifier("n3", "telegram", TRUE, [bot_token |-> Literal])>>),
   Document(<<Entry(acct2, TRUE), Entry(acct1, FALSE)>>,
            <<Notifier("n1", "discord", TRUE, [webhook_url |-> From(set)]),
              Notifier("n2", "ntfy", FALSE, [token |-> From(unset)])>>),
   Document(<<Entry(acct1, TRUE), Entry(acct1, FALSE)>>, <<>>),
   Document(<<>>, <<Notifier("n1", "discord", TRUE, [webhook_url |-> Both(set)])>>)}
=============================================================================
