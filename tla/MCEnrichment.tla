---------------------------- MODULE MCEnrichment ----------------------------
(***************************************************************************)
(* Small instances of Enrichment for TLC.                                  *)
(***************************************************************************)
EXTENDS Enrichment, TLC

CONSTANT a1

\* All requests are for one apex.
MCTarget == [r \in Request |-> a1]

MCSymmetry == Permutations(Worker) \cup Permutations(Client)
=============================================================================
