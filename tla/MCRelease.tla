------------------------------ MODULE MCRelease ------------------------------
(* Small instances of Release for TLC. *)
EXTENDS Release
\* Two quarters of one year, the first of which the cli-tool may have loaded.
MCFiles == {<<1, 1>>, <<1, 2>>}
MCSeeds == {<<1, 1>>}
=============================================================================
