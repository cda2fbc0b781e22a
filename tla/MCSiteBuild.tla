----------------------------- MODULE MCSiteBuild -----------------------------
(* Small instances of SiteBuild and Pages for TLC. *)
EXTENDS Pages, TLC

CONSTANTS x, y, z, foo, foo2, foo3, other, soc, tech, rare, st, terr, sec

\* Two employers of one name, and one whose name is the other's with a 2.
Names == (x :> foo) @@ (y :> foo) @@ (z :> foo2)
WithNumber == [s \in Slugs |-> [n \in 2..4 |->
  IF s = foo THEN (IF n = 2 THEN foo2 ELSE foo3) ELSE other]]
\* rare and terr are in top tables and have no page.
Pagers == [k \in OtherKinds |->
  CASE k = "occupation" -> {soc, tech} [] k = "state" -> {st} [] k = "sector" -> {sec}]
Namers == [t \in Tables |->
  IF t \in {"occupation_top_state", "sector_top_state"} THEN {st, terr} ELSE {soc, rare}]
\* x and y have the same name and nothing else.
Swap == Permutations({x, y})
=============================================================================
