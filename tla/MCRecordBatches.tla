--------------------------- MODULE MCRecordBatches ---------------------------
(***************************************************************************)
(* Small instances of RecordBatches for TLC.                               *)
(***************************************************************************)
EXTENDS RecordBatches, TLC

CONSTANTS k1, k2

\* A batch of two slices or more, and one of a single apex.
MCUnits == [k \in Key |-> IF k = k1 THEN 3 ELSE 1]

MCSymmetry == Permutations(Worker)
=============================================================================
