--------------------------- MODULE MCSessionExport ---------------------------
(* Instances of SessionExport for TLC.                                     *)
EXTENDS SessionExport, TLC

Symmetry == Permutations(Proc) \cup Permutations(Inode)
=============================================================================
