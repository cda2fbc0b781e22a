------------------------------ MODULE MCIngest ------------------------------
(* Small instances of Ingest for TLC. *)
EXTENDS Ingest

CONSTANTS y1, y2

\* Both quarters of a new year, one of a year that is there already.
NewAndLegacy == {<<y1, 1>>, <<y1, 2>>, <<y2, 1>>}

EveryFile == Years \X (1..MaxQuarter)
=============================================================================
