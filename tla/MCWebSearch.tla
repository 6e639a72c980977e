----------------------------- MODULE MCWebSearch -----------------------------
(***************************************************************************)
(* Small instances of WebSearch for TLC.                                   *)
(***************************************************************************)
EXTENDS WebSearch

\* The second of three apexes has no names at first, and the last a single one.
MCCatalog(names) == <<names, <<Absent, Absent, Absent>>, <<Absent, 0, Absent>>>>

\* Names in the order of their dates, against it, and some without a date or absent.
MCStarts == {MCCatalog(names) : names \in {<<0, 0, 1>>, <<1, 0, Absent>>}}
=============================================================================
