------------------------------ MODULE SchemaLog ------------------------------
(***************************************************************************)
(* What migrate (db/__init__.py) promises about the schema, without the    *)
(* way it is done: the migrations the database records are, in order, the  *)
(* first ones of some build, and the only thing that ever happens to the   *)
(* record is that the next migration of a build it agrees with is added.   *)
(***************************************************************************)
EXTENDS Naturals, Sequences

CONSTANTS
  Builds    \* the builds that are run: each the sequence of its migrations

VARIABLES
  history   \* the migrations the database records, in the order of versions

\* The database is no further than the build, and has the build's migrations.
Agrees(build) ==
  /\ Len(history) <= Len(build)
  /\ \A v \in 1 .. Len(history) : history[v] = build[v]

Init == history = <<>>

Apply(build) ==
  /\ Agrees(build)
  /\ Len(history) < Len(build)
  /\ history' = Append(history, build[Len(history) + 1])

Next == \E build \in Builds : Apply(build)

Spec == Init /\ [][Next]_history
=============================================================================
