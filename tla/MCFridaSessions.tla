--------------------------- MODULE MCFridaSessions ---------------------------
(***************************************************************************)
(* FridaSessions for TLC.  The processes have different parts to play, so  *)
(* there is no symmetry.                                                   *)
(***************************************************************************)
EXTENDS FridaSessions
=============================================================================
