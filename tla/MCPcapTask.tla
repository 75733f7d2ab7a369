----------------------------- MODULE MCPcapTask -----------------------------
(***************************************************************************)
(* PcapTask for TLC.  The attempts are numbers in the order they are made, *)
(* so there is no symmetry.                                                *)
(***************************************************************************)
EXTENDS PcapTask
=============================================================================
