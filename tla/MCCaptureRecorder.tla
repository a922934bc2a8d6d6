-------------------------- MODULE MCCaptureRecorder --------------------------
(* Instances of CaptureRecorder for TLC.                                   *)
EXTENDS CaptureRecorder, TLC

Symmetry == Permutations(Response)
=============================================================================
