----------------------------- MODULE MCNlpQueue -----------------------------
(* Small instances of NlpQueue for TLC. *)
EXTENDS NlpQueue, TLC

\* Slots are interchangeable: no action or property names one.
SlotSymmetry == Permutations(Slots)
=============================================================================
