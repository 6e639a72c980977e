------------------------------ MODULE MCUrlScan ------------------------------
(***************************************************************************)
(* Small instances of UrlScan for TLC.                                     *)
(***************************************************************************)
EXTENDS UrlScan, TLC

CONSTANT a1

\* Requests for the apex that recurs.
MCTarget == [r \in Request |-> a1]

MCSymmetry == Permutations(Worker) \cup Permutations(Cron) \cup Permutations(Client)
=============================================================================
