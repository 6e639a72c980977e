----------------------------- MODULE MCDirectCt -----------------------------
(***************************************************************************)
(* Small instances of DirectCt for TLC.                                    *)
(***************************************************************************)
EXTENDS DirectCt, TLC

MCSymmetry == Permutations(Worker) \cup Permutations(Cron)
=============================================================================
