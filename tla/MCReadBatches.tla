---------------------------- MODULE MCReadBatches ----------------------------
(***************************************************************************)
(* Small instances of ReadBatches for TLC.                                 *)
(***************************************************************************)
EXTENDS ReadBatches

CONSTANTS k1, k2

\* A batch of more than one row of apexes, and one of a single apex.
MCUnits == [k \in Key |-> IF k = k1 THEN 3 ELSE 1]
=============================================================================
