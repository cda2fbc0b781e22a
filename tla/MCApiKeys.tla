------------------------------ MODULE MCApiKeys ------------------------------
(* Small instances of ApiKeys for TLC. *)
EXTENDS ApiKeys

CONSTANT key

MCLimit == [k \in {key} |-> 2]
=============================================================================
