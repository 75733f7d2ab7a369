-------------------------- MODULE MCDebugRendezvous --------------------------
(***************************************************************************)
(* DebugRendezvous for TLC.  The callers are interchangeable; no temporal  *)
(* property of liveness is checked, so their symmetry is sound.            *)
(***************************************************************************)
EXTENDS DebugRendezvous, TLC

Symmetry == Permutations(Caller)
=============================================================================
