----------------------------- MODULE MCBurstNlp -----------------------------
(* Small instances of BurstNlp for TLC. *)
EXTENDS BurstNlp, TLC

SlotSymmetry == Permutations(Slots)
=============================================================================
