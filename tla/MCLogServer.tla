----------------------------- MODULE MCLogServer -----------------------------
(***************************************************************************)
(* LogServer for TLC.  Log servers are numbers in the order they are made, *)
(* and the run checks a liveness property, so there is no symmetry.        *)
(***************************************************************************)
EXTENDS LogServer
=============================================================================
