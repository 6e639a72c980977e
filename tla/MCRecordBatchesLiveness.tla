----------------------- MODULE MCRecordBatchesLiveness -----------------------
(***************************************************************************)
(* Small instances of RecordBatchesLiveness for TLC.                       *)
(***************************************************************************)
EXTENDS RecordBatchesLiveness

CONSTANTS k1, k2

\* A batch of one slice or two, and one of a single apex.
MCUnits == [k \in Key |-> IF k = k1 THEN 2 ELSE 1]
=============================================================================
