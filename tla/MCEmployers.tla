----------------------------- MODULE MCEmployers -----------------------------
(* Small instances of Employers for TLC. *)
EXTENDS Employers, TLC

CONSTANTS a, b, A, B, formed, odd

\* Two rows, two spellings; one FEIN is not of the form.
Spelling == (a :> A) @@ (b :> B)
TwoFeins == (a :> formed) @@ (b :> odd)
\* Entry B has no state and matches the rows of A too.
Stateless == (A :> {a}) @@ (B :> {a, b})
\* A second delivery for one of the rows.
TwiceAndOnce == (a :> 2) @@ (b :> 1)
Reflexive == {<<n, n>> : n \in Names}
Everything == Names \X Names
=============================================================================
