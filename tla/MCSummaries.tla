----------------------------- MODULE MCSummaries -----------------------------
(* Small instances of Summaries for TLC. *)
EXTENDS Summaries, TLC

\* Pages differ in nothing, nor do the values.
Swap == Permutations(Pages) \union Permutations(Values)
=============================================================================
