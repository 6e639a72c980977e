------------------------ MODULE MCCompactionLiveness ------------------------
(***************************************************************************)
(* Small instances of CompactionLiveness for TLC.                          *)
(***************************************************************************)
EXTENDS CompactionLiveness, TLC

CONSTANTS d1, d2, p1, p2

MCPrefixesOf == [d \in Delta |-> IF d = d1 THEN {p1} ELSE Prefix]
=============================================================================
