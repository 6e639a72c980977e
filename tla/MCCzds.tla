------------------------------- MODULE MCCzds -------------------------------
(***************************************************************************)
(* Small instances of Czds for TLC.                                        *)
(***************************************************************************)
EXTENDS Czds, TLC

MCSymmetry == Permutations(Stager)
=============================================================================
