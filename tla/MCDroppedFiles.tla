--------------------------- MODULE MCDroppedFiles ---------------------------
(***************************************************************************)
(* DroppedFiles for TLC: a process with two files, and another with one.   *)
(***************************************************************************)
EXTENDS DroppedFiles, TLC

CONSTANTS proc1, proc2, file1, file2, file3

MCOwner == file1 :> proc1 @@ file2 :> proc1 @@ file3 :> proc2

\* file1 and file2 have the same owner.
MCSymmetry == Permutations(Content) \cup Permutations({file1, file2})
=============================================================================
