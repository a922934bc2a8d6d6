---------------------------- MODULE MCAccountRows ----------------------------
(* Instances of AccountRows for TLC.                                       *)
EXTENDS AccountRows, TLC

CONSTANTS uk, us, asos, fp

On(site)  == [site |-> site, enabled |-> TRUE]
Off(site) == [site |-> site, enabled |-> FALSE]

\* Both accounts; one dropped and the other switched off; one moved to another
\* site; none.
MCConfigs ==
  {(uk :> On(asos) @@ us :> On(asos)), (uk :> Off(asos) @@ us :> Absent),
   (uk :> Absent @@ us :> On(fp)), (uk :> Absent @@ us :> Absent)}
=============================================================================
