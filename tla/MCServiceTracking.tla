-------------------------- MODULE MCServiceTracking --------------------------
(***************************************************************************)
(* ServiceTracking for TLC.  The identifiers but the sample's are alike.   *)
(***************************************************************************)
EXTENDS ServiceTracking, TLC

Symmetry == Permutations(Pid \ {RootPid})
=============================================================================
