--------------------------- MODULE MCResultStore ---------------------------
(***************************************************************************)
(* ResultStore for TLC.  One of its properties is a liveness property, so  *)
(* the connections, which are alike, are not declared symmetric.           *)
(***************************************************************************)
EXTENDS ResultStore
=============================================================================
