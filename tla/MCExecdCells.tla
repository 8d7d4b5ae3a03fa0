---------------------------- MODULE MCExecdCells ----------------------------
(* Two cells of one run, two idempotency keys, one crash of the daemon. *)
EXTENDS ExecdCells, TLC

CONSTANTS k1, k2, r1

OneRun == [c \in Cells |-> r1]

\* The keys are interchangeable.
KeySymmetry == Permutations({k1, k2})
=============================================================================
