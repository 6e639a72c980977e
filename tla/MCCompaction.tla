---------------------------- MODULE MCCompaction ----------------------------
(***************************************************************************)
(* Small instances of Compaction for TLC.                                  *)
(***************************************************************************)
EXTENDS Compaction, TLC

CONSTANTS d1, d2, p1, p2

\* One delta with records in one partition and one that spans both.
MCPrefixesOf == [d \in Delta |-> IF d = d1 THEN {p1} ELSE Prefix]

MCSymmetry == Permutations(Worker) \cup Permutations(Cron) \cup Permutations(Admin)
=============================================================================
