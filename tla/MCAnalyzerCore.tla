--------------------------- MODULE MCAnalyzerCore ---------------------------
(***************************************************************************)
(* AnalyzerCore for TLC.  Root is distinguished, so there is no symmetry.  *)
(***************************************************************************)
EXTENDS AnalyzerCore
=============================================================================
