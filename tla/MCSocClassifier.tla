--------------------------- MODULE MCSocClassifier ---------------------------
(* Small instances of SocClassifier for TLC. *)
EXTENDS SocClassifier, TLC

CONSTANTS dev, devBlank, lead, boss, e, c, d, alt

\* "dev " is "dev" with a blank; "lead" and "boss" are as alike.
MCTitles == {dev, devBlank, lead, boss}
MCTrim == [t \in MCTitles |-> IF t = devBlank THEN dev ELSE t]
MCSim == [t \in MCTitles |-> [a \in MCTitles |->
            IF t = a THEN 100
            ELSE IF {t, a} \in {{dev, devBlank}, {lead, boss}} THEN 97 ELSE 60]]

\* The employer calls a boss d once and c once; the file says c, after its other
\* titles: mined in between, a boss is d, and with alt there are more codes than K.
MCCases == {[id |-> 1, fein |-> e, title |-> boss, code |-> d],
            [id |-> 2, fein |-> e, title |-> boss, code |-> c]}
MCDmtf == << <<lead, c>>, <<dev, alt>>, <<boss, c>> >>
MCRecords == {[title |-> boss, fein |-> e], [title |-> devBlank, fein |-> None],
              [title |-> None, fein |-> e]}
=============================================================================
