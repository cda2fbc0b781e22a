------------------------------- MODULE MCHitl -------------------------------
(* Small instances of Hitl for TLC. *)
EXTENDS Hitl

CONSTANTS r1, r2

\* One row may be delivered twice.
TwiceAndOnce == [r \in Records |-> IF r = r1 THEN 2 ELSE 1]
Once == [r \in Records |-> 1]
=============================================================================
