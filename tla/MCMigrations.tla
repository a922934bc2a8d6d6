---------------------------- MODULE MCMigrations -----------------------------
(* Instances of Migrations for TLC.                                        *)
EXTENDS Migrations, TLC

CONSTANTS a, b, c, d

\* A build with the first migration only, one with the next, one in which
\* somebody has edited that one, and one that goes on from it.
MCText   == {a, b, c, d}
MCBuilds == {<<a>>, <<a, b>>, <<a, c>>, <<a, b, d>>}
=============================================================================
