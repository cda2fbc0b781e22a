---------------------------- MODULE CoverageGate ----------------------------
(***************************************************************************)
(* What the NLP stage of a burst promises (infra/aws/scripts/              *)
(* burst-nlp-coverage.sh and assert-coverage.sh), said without queue,      *)
(* workers or polls: rows become covered one set after another and never   *)
(* become uncovered, some get a reason to stay uncovered, and one verdict  *)
(* is given.  "passed" lets a candidate be built, and is given only when   *)
(* the uncovered rows are few enough and each has such a reason.           *)
(***************************************************************************)
CONSTANTS
  Rows,      \* the just-ingested rows
  Tolerable  \* the sets of rows within COVERAGE_MAX_UNCLASSIFIED

VARIABLES covered, excused, verdict

gateVars == <<covered, excused, verdict>>

Uncovered == Rows \ covered

Init == covered = {} /\ excused = {} /\ verdict = "open"

Work ==
  /\ covered' \in SUBSET Rows /\ excused' \in SUBSET Rows
  /\ covered \subseteq covered'
  /\ UNCHANGED verdict

Pass ==
  /\ verdict = "open"
  /\ Uncovered \in Tolerable
  /\ Uncovered \subseteq excused
  /\ verdict' = "passed"
  /\ UNCHANGED <<covered, excused>>

Fail ==
  /\ verdict = "open"
  /\ verdict' = "failed"
  /\ UNCHANGED <<covered, excused>>

Next == Work \/ Pass \/ Fail

Spec == Init /\ [][Next]_gateVars

\* A candidate is never built from data with too many rows left unclassified
\* and unquarantined, not even if the check was long ago.
PassedMeansCovered == verdict = "passed" => Uncovered \in Tolerable
=============================================================================
