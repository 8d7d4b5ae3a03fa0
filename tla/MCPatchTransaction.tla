------------------------- MODULE MCPatchTransaction -------------------------
(* A run, the other runs of its process and an outside writer on two files. *)
EXTENDS PatchTransaction, TLC

CONSTANTS r1, f1, f2

\* The files are interchangeable.
FileSymmetry == Permutations({f1, f2})
=============================================================================
