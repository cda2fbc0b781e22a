---------------------------- MODULE ReleaseProofs ----------------------------
(***************************************************************************)
(* Proofs about Release: what the snapshot and production hold is not      *)
(* lost, for any number of boxes, commands, files and edits.               *)
(***************************************************************************)
EXTENDS Release, TLAPS

-----------------------------------------------------------------------------
(* What a database keeps of another, whatever failed: KeptIn and Carried   *)
(* for the years Y of dropped files.                                       *)

Dropped(i, Y) == \E f \in Loads : OfRows(i, f) /\ Year(f) \in Y
KeptBy(i, D, Y) == i \in D \/ Superseded(i, D) \/ Dropped(i, Y)
CarriedBy(C, D, Y) == \A i \in C : KeptBy(i, D, Y)

LEMMA KeptIsKeptBy ==
  /\ \A i, D : KeptIn(i, D) <=> KeptBy(i, D, dropped)
  /\ \A C, D : Carried(C, D) <=> CarriedBy(C, D, dropped)
  BY DEF KeptIn, KeptBy, GivenUp, Dropped, Carried, CarriedBy

\* A file is its year and its quarter.
LEMMA FileParts ==
  ASSUME NEW f \in Loads
  PROVE  Year(f) \in Nat /\ f[2] \in 1..4 /\ f = <<f[1], f[2]>>
  BY ReleaseAssumption DEF Year

LEMMA NewerOrders ==
  ASSUME NEW f \in Loads, NEW g \in Loads, Year(f) = Year(g)
  PROVE  /\ \A h \in Loads : Newer(h, g) /\ Newer(g, f) => Newer(h, f)
         /\ f[2] <= g[2] => f = g \/ Newer(g, f)
         /\ ~(g[2] <= f[2]) => Newer(g, f)
<1>1. \A h \in Loads : Newer(h, g) /\ Newer(g, f) => Newer(h, f)
  BY FileParts DEF Newer
<1>2. f[2] <= g[2] => f[2] = g[2] \/ f[2] < g[2]
  BY FileParts
<1>3. f[2] = g[2] => f = g
  BY FileParts DEF Year
<1>4. ~(g[2] <= f[2]) => f[2] < g[2]
  BY FileParts
<1> QED BY <1>1, <1>2, <1>3, <1>4 DEF Newer

LEMMA RowsAreOf == \A f, g : OfRows(Rows(g), f) <=> f = g
  BY DEF OfRows, Rows
LEMMA ClassesAreOf == \A f, g : OfRows(Soc(g), f) <=> f = g
  BY DEF OfRows, Soc
LEMMA RecordsAreOfNone ==
  \A f, g : /\ ~OfRows(Harvested(g), f)
            /\ Harvested(f) = Harvested(g) => f = g
            /\ Rows(f) # Harvested(g) /\ Soc(f) # Harvested(g)
  BY DEF OfRows, Harvested, Rows, Soc

\* More items and more dropped years keep more.
LEMMA KeepsMore ==
  ASSUME NEW D, NEW E, NEW Y, NEW Z, D \subseteq E, Y \subseteq Z
  PROVE  /\ \A i : KeptBy(i, D, Y) => KeptBy(i, E, Z)
         /\ \A C : CarriedBy(C, D, Y) => CarriedBy(C, E, Z)
  BY DEF KeptBy, CarriedBy, Superseded, Dropped

LEMMA HasAll ==
  ASSUME NEW C, NEW D, NEW Y, C \subseteq D
  PROVE  CarriedBy(C, D, Y)
  BY DEF CarriedBy, KeptBy

\* A newer file stands for an older one.
LEMMA NewerStands ==
  ASSUME NEW f \in Loads, NEW g \in Loads, NEW D, NEW Y, NEW i,
         OfRows(i, f), Newer(g, f), KeptBy(Rows(g), D, Y)
  PROVE  KeptBy(i, D, Y)
<1>1. CASE Rows(g) \in D
  BY <1>1 DEF KeptBy, Superseded
<1>2. CASE Superseded(Rows(g), D)
  <2>1. PICK k, h \in Loads : OfRows(Rows(g), k) /\ Newer(h, k) /\ Rows(h) \in D
    BY <1>2 DEF Superseded
  <2>2. k = g
    BY <2>1, RowsAreOf
  <2>3. Newer(h, f)
    BY <2>1, <2>2, NewerOrders DEF Newer
  <2> QED BY <2>1, <2>3 DEF KeptBy, Superseded
<1>3. CASE Dropped(Rows(g), Y)
  <2>1. Year(g) \in Y
    BY <1>3, RowsAreOf DEF Dropped
  <2> QED BY <2>1 DEF KeptBy, Dropped, Newer
<1> QED BY <1>1, <1>2, <1>3 DEF KeptBy

\* What is kept goes on being kept.
LEMMA KeptThrough ==
  ASSUME NEW C, NEW D, NEW Y, CarriedBy(C, D, Y), NEW i, KeptBy(i, C, Y)
  PROVE  KeptBy(i, D, Y)
<1>1. CASE i \in C
  BY <1>1 DEF CarriedBy
<1>2. CASE Superseded(i, C)
  <2>1. PICK f, g \in Loads : OfRows(i, f) /\ Newer(g, f) /\ Rows(g) \in C
    BY <1>2 DEF Superseded
  <2>2. KeptBy(Rows(g), D, Y)
    BY <2>1 DEF CarriedBy
  <2> QED BY <2>1, <2>2, NewerStands
<1>3. CASE Dropped(i, Y)
  BY <1>3 DEF KeptBy
<1> QED BY <1>1, <1>2, <1>3 DEF KeptBy

LEMMA CarriedThrough ==
  ASSUME NEW B, NEW C, NEW D, NEW Y, CarriedBy(B, C, Y), CarriedBy(C, D, Y)
  PROVE  CarriedBy(B, D, Y)
  BY KeptThrough DEF CarriedBy

-----------------------------------------------------------------------------
(* A database as it ought to be: what is about a file comes with its rows; *)
(* in a year with a record every file with rows has one; and a file with a *)
(* record, unless it is queued (in Q), is kept.                            *)

Whole(D) == \A f \in Loads : (\E i \in D : OfRows(i, f)) => Rows(f) \in D
Recorded(D) ==
  \A f, g \in Loads : Rows(f) \in D /\ Harvested(g) \in D /\ Year(f) = Year(g)
                        => Harvested(f) \in D
HasRecorded(D, Q, Y) ==
  \A f \in Loads : Harvested(f) \in D /\ f \notin Q => KeptBy(Rows(f), D, Y)
Sane(D, Q, Y) == Whole(D) /\ Recorded(D) /\ HasRecorded(D, Q, Y)

LEMMA EmptyIsSane ==
  ASSUME NEW Y PROVE Sane({}, {}, Y)
  BY DEF Sane, Whole, Recorded, HasRecorded

LEMMA SaneWithMoreDropped ==
  ASSUME NEW D, NEW Q, NEW Y, NEW Z, Y \subseteq Z, Sane(D, Q, Y)
  PROVE  Sane(D, Q, Z)
  BY KeepsMore DEF Sane, HasRecorded

\* The queue of a box: one file a year, newer than all there is of the year.
QueueFits(D, Q) ==
  /\ \A g \in Q : Harvested(g) \in D
  /\ \A f \in Loads, g \in Q : Rows(f) \in D /\ Year(f) = Year(g) => Newer(g, f)
\* Each file is in the database, passed over or dropped, or it or a newer one
\* is queued.
Handled(f, D, Q, P, Y) ==
  \/ Year(f) \in P
  \/ KeptBy(Rows(f), D, Y)
  \/ \E g \in Q : f = g \/ Newer(g, f)

\* In a year there is a newest file.
LEMMA NewestExists ==
  ASSUME NEW L, L \subseteq Loads, NEW f \in L
  PROVE  \E g \in L : (g = f \/ Newer(g, f)) /\ ~\E h \in L : Newer(h, g)
<1> DEFINE Top(g) == ~\E h \in L : Newer(h, g)
           Has(g) == \E h \in L : (h = g \/ Newer(h, g)) /\ Top(h)
<1>0. ASSUME NEW g \in L, NEW h \in L, Newer(h, g), Has(h)
      PROVE  Has(g)
  <2>1. PICK k \in L : (k = h \/ Newer(k, h)) /\ Top(k)
    BY <1>0
  <2>2. k = g \/ Newer(k, g)
    BY <1>0, <2>1, NewerOrders DEF Newer
  <2> QED BY <2>1, <2>2
<1>1. ASSUME NEW g \in L, g[2] = 4 PROVE Has(g)
  <2>1. Top(g)
    BY <1>1, FileParts DEF Newer
  <2> QED BY <2>1
<1>2. ASSUME NEW g \in L, g[2] = 3 PROVE Has(g)
  <2>1. ASSUME NEW h \in L, Newer(h, g) PROVE Has(h)
    <3>1. h[2] = 4
      BY <1>2, <2>1, FileParts DEF Newer
    <3> QED BY <1>1, <3>1
  <2> QED BY <1>0, <2>1
<1>3. ASSUME NEW g \in L, g[2] = 2 PROVE Has(g)
  <2>1. ASSUME NEW h \in L, Newer(h, g) PROVE Has(h)
    <3>1. h[2] = 3 \/ h[2] = 4
      BY <1>3, <2>1, FileParts DEF Newer
    <3> QED BY <1>1, <1>2, <3>1
  <2> QED BY <1>0, <2>1
<1>4. ASSUME NEW g \in L, g[2] = 1 PROVE Has(g)
  <2>1. ASSUME NEW h \in L, Newer(h, g) PROVE Has(h)
    <3>1. h[2] = 2 \/ h[2] = 3 \/ h[2] = 4
      BY <1>4, <2>1, FileParts DEF Newer
    <3> QED BY <1>1, <1>2, <1>3, <3>1
  <2> QED BY <1>0, <2>1
<1>5. f[2] = 1 \/ f[2] = 2 \/ f[2] = 3 \/ f[2] = 4
  BY FileParts
<1>6. Has(f)
  BY <1>1, <1>2, <1>3, <1>4, <1>5
<1> QED BY <1>6

\* What the harvester makes of a file in the local directory.
LEMMA LookedAt ==
  ASSUME NEW D, NEW Y, Sane(D, {}, Y), NEW L, L \subseteq Loads, NEW f \in L
  PROVE  \/ Untracked(D, f)
         \/ KeptBy(Rows(f), D, Y)
         \/ \E g \in Candidates(D, L) : g = f \/ Newer(g, f)
<1>1. PICK g \in L : (g = f \/ Newer(g, f)) /\ ~\E h \in L : Newer(h, g)
  BY NewestExists
<1>2. Year(g) = Year(f)
  BY <1>1 DEF Newer
<1>3. CASE Untracked(D, g)
  BY <1>2, <1>3 DEF Untracked
<1>4. ASSUME NEW h \in Loads, Harvested(h) \in D, Year(h) = Year(g), g[2] <= h[2]
      PROVE  KeptBy(Rows(f), D, Y)
  <2>1. KeptBy(Rows(h), D, Y)
    BY <1>4 DEF Sane, HasRecorded
  <2>2. f[2] <= h[2]
    BY <1>1, <1>4, FileParts DEF Newer
  <2>3. h = f \/ Newer(h, f)
    BY <1>2, <1>4, <2>2, NewerOrders
  <2> QED BY <2>1, <2>3, NewerStands, RowsAreOf
<1>5. CASE ~Skipped(D, g)
  BY <1>1, <1>5 DEF Candidates
<1> QED BY <1>3, <1>4, <1>5 DEF Skipped

\* The files that a harvest queues.
LEMMA HarvestFits ==
  ASSUME NEW D, NEW Y, Sane(D, {}, Y), NEW L, L \subseteq Loads,
         NEW Q, Q \subseteq Candidates(D, L)
  PROVE  LET E == D \union {Harvested(f) : f \in Q} IN Sane(E, Q, Y) /\ QueueFits(E, Q)
<1> DEFINE E == D \union {Harvested(f) : f \in Q}
<1>1. \A f : /\ Rows(f) \in E <=> Rows(f) \in D
             /\ Harvested(f) \in E <=> Harvested(f) \in D \/ f \in Q
  BY RecordsAreOfNone
<1>2. Whole(E)
  <2>1. \A i \in E, f \in Loads : OfRows(i, f) => i \in D
    BY RecordsAreOfNone
  <2> QED BY <1>1, <2>1 DEF Sane, Whole
<1>3. ASSUME NEW f \in Loads, NEW g \in Q, Rows(f) \in D, Year(f) = Year(g)
      PROVE  Harvested(f) \in D /\ Newer(g, f)
  <2>1. ~Skipped(D, g) /\ g \in Loads
    BY DEF Candidates
  <2>2. ~Untracked(D, g)
    BY <2>1 DEF Skipped
  <2>3. PICK h \in Loads : Harvested(h) \in D /\ Year(h) = Year(g)
    BY <1>3, <2>2 DEF Untracked
  <2>4. Harvested(f) \in D
    BY <1>3, <2>3 DEF Sane, Recorded
  <2>5. ~(g[2] <= f[2])
    BY <1>3, <2>1, <2>4 DEF Skipped
  <2> QED BY <1>3, <2>1, <2>4, <2>5, NewerOrders
<1>4. Recorded(E)
  BY <1>1, <1>3 DEF Sane, Recorded
<1>5. HasRecorded(E, Q, Y)
  BY <1>1, KeepsMore DEF Sane, HasRecorded
<1>6. QueueFits(E, Q)
  BY <1>1, <1>3 DEF QueueFits
<1> QED BY <1>2, <1>4, <1>5, <1>6 DEF Sane

\* The database that the barrier leaves.
LEMMA IngestedFits ==
  ASSUME NEW D, NEW Q, NEW Y, Q \subseteq Loads, Sane(D, Q, Y), QueueFits(D, Q),
         NEW ok, ok \subseteq Q, NEW wiped, wiped \subseteq Q \ ok, NEW d \in BOOLEAN
  PROVE  LET E == Ingested(D, ok, wiped, d)
             Z == Y \union Years(Q \ ok)
         IN  /\ Sane(E, {}, Z) /\ CarriedBy(D, E, Z)
             /\ \A f \in Loads : \A P : Handled(f, D, Q, P, Y) => Handled(f, E, {}, P, Z)
<1> DEFINE E == Ingested(D, ok, wiped, d)
           Z == Y \union Years(Q \ ok)
           Left == Cleared(D, ok \union wiped)
<1>1. /\ Left \subseteq D /\ Left \subseteq E
      /\ \A f \in ok : Rows(f) \in E
      /\ \A i \in E : i \in Left \/ \E f \in ok : i = Rows(f) \/ i = Soc(f)
  BY DEF Ingested, Cleared
<1>2. ASSUME NEW i \in D, i \notin Left
      PROVE  \E f \in Loads : OfRows(i, f) /\ \E g \in ok \union wiped : Year(g) = Year(f)
  BY <1>2 DEF Cleared
<1>3. \A i \in Left, f \in Loads : OfRows(i, f) => ~\E g \in ok \union wiped : Year(g) = Year(f)
  BY DEF Cleared
<1>y. Y \subseteq Z /\ \A g \in Q \ ok : Year(g) \in Z
  BY DEF Years
<1>4. \A f : Harvested(f) \in E <=> Harvested(f) \in D
  <2>1. ASSUME NEW f, Harvested(f) \in E PROVE Harvested(f) \in D
    BY <1>1, <2>1, RecordsAreOfNone
  <2>2. ASSUME NEW f, Harvested(f) \in D PROVE Harvested(f) \in E
    BY <1>1, <1>2, <2>2, RecordsAreOfNone
  <2> QED BY <2>1, <2>2
<1>5. CarriedBy(D, E, Z)
  <2> SUFFICES ASSUME NEW i \in D, i \notin Left PROVE KeptBy(i, E, Z)
    BY <1>1 DEF CarriedBy, KeptBy
  <2>1. PICK f \in Loads, g \in ok \union wiped : OfRows(i, f) /\ Year(g) = Year(f)
    BY <1>2
  <2>2. CASE g \in ok
    <3>1. Rows(f) \in D
      BY <2>1 DEF Sane, Whole
    <3>2. Newer(g, f)
      BY <2>1, <2>2, <3>1 DEF QueueFits
    <3> QED BY <1>1, <2>1, <2>2, <3>2 DEF KeptBy, Superseded
  <2>3. CASE g \in wiped
    BY <1>y, <2>1, <2>3 DEF KeptBy, Dropped
  <2> QED BY <2>2, <2>3
<1>6. Whole(E)
  <2> SUFFICES ASSUME NEW f \in Loads, NEW i \in E, OfRows(i, f) PROVE Rows(f) \in E
    BY DEF Whole
  <2>1. CASE i \in Left
    <3>1. Rows(f) \in D
      BY <1>1, <2>1 DEF Sane, Whole
    <3>2. ~\E g \in ok \union wiped : Year(g) = Year(f)
      BY <1>3, <2>1
    <3>3. Rows(f) \in Left
      <4>1. \A k \in Loads : OfRows(Rows(f), k) => k = f
        BY RowsAreOf
      <4> QED BY <3>1, <3>2, <4>1 DEF Cleared
    <3> QED BY <1>1, <3>3
  <2>2. ASSUME NEW g \in ok, i = Rows(g) \/ i = Soc(g)
        PROVE  Rows(f) \in E
    BY <1>1, <2>2, RowsAreOf, ClassesAreOf
  <2> QED BY <1>1, <2>1, <2>2
<1>7. Recorded(E)
  <2> SUFFICES ASSUME NEW f \in Loads, NEW g \in Loads, Rows(f) \in E, Harvested(g) \in E,
                      Year(f) = Year(g)
               PROVE  Harvested(f) \in E
    BY DEF Recorded
  <2>1. CASE Rows(f) \in D
    BY <1>4, <2>1 DEF Sane, Recorded
  <2>2. CASE f \in ok
    BY <1>4, <2>2 DEF QueueFits
  <2>3. Rows(f) \in D \/ f \in ok
    <3>1. \A g1 : Rows(f) = Rows(g1) => f = g1
      BY RowsAreOf
    <3>2. \A g1 : Rows(f) # Soc(g1)
      BY DEF Rows, Soc
    <3> QED BY <1>1, <3>1, <3>2
  <2> QED BY <2>1, <2>2, <2>3
<1>8. ASSUME NEW f \in Loads, f \in Q
      PROVE  KeptBy(Rows(f), E, Z)
  <2>1. CASE f \in ok
    BY <1>1, <2>1 DEF KeptBy
  <2>2. CASE f \notin ok
    BY <1>8, <1>y, <2>2, RowsAreOf DEF KeptBy, Dropped
  <2> QED BY <2>1, <2>2
<1>9. ASSUME NEW i, KeptBy(i, D, Y)
      PROVE  KeptBy(i, E, Z)
  <2>1. KeptBy(i, D, Z)
    BY <1>9, <1>y, KeepsMore
  <2> HIDE DEF E, Z
  <2> QED BY <1>5, <2>1, KeptThrough
<1>10. HasRecorded(E, {}, Z)
  BY <1>4, <1>8, <1>9 DEF Sane, HasRecorded
<1>11. ASSUME NEW f \in Loads, NEW P, Handled(f, D, Q, P, Y)
       PROVE  Handled(f, E, {}, P, Z)
  <2>1. CASE Year(f) \in P
    BY <2>1 DEF Handled
  <2>2. CASE KeptBy(Rows(f), D, Y)
    BY <1>9, <2>2 DEF Handled
  <2>3. ASSUME NEW g \in Q, f = g \/ Newer(g, f)
        PROVE  Handled(f, E, {}, P, Z)
    <3>1. g \in Loads /\ KeptBy(Rows(g), E, Z)
      BY <1>8
    <3>2. KeptBy(Rows(f), E, Z)
      <4> HIDE DEF E, Z
      <4> QED BY <2>3, <3>1, NewerStands, RowsAreOf
    <3> QED BY <3>2 DEF Handled
  <2> QED BY <1>11, <2>1, <2>2, <2>3 DEF Handled
<1> HIDE DEF E, Z
<1>12. Sane(E, {}, Z) /\ CarriedBy(D, E, Z)
       /\ \A f \in Loads : \A P : Handled(f, D, Q, P, Y) => Handled(f, E, {}, P, Z)
  BY <1>5, <1>6, <1>7, <1>10, <1>11 DEF Sane
<1> QED BY <1>12 DEF E, Z

\* What the workers and an operator add.
LEMMA AddedFits ==
  ASSUME NEW D, NEW Y, Sane(D, {}, Y), NEW A,
         \A i \in A : \A f \in Loads : ~(i = Harvested(f)) /\ (OfRows(i, f) => Rows(f) \in D),
         \A f \in Loads : Rows(f) \in A => Rows(f) \in D
  PROVE  Sane(D \union A, {}, Y)
<1>1. \A f \in Loads : /\ Rows(f) \in D \union A <=> Rows(f) \in D
                       /\ Harvested(f) \in D \union A <=> Harvested(f) \in D
  OBVIOUS
<1>2. Whole(D \union A)
  BY <1>1 DEF Sane, Whole
<1>3. Recorded(D \union A)
  BY <1>1 DEF Sane, Recorded
<1>4. HasRecorded(D \union A, {}, Y)
  BY <1>1, KeepsMore DEF Sane, HasRecorded
<1> QED BY <1>2, <1>3, <1>4 DEF Sane
-----------------------------------------------------------------------------
(* Where things are, whatever fails.                                       *)

\* A box that was not launched is as it was; one that has not ingested has no
\* lca.db; only the ingest of a box has a queue.
Unlaunched ==
  \A b \in Boxes : /\ flow[b] # "launched" => box[b] = BoxOff
                   /\ box[b].pc \in {"boot", "harvest", "barrier"} => box[b].file = {}
                   /\ box[b].pc \notin {"barrier", "failed"} => box[b].queued = {}
\* A command runs on one box, and that box is under review; only a promote
\* has the production key to upload.
CommandsInReview ==
  \A c \in Commands :
    \/ command[c] = CommandOff
    \/ /\ command[c].pc # "off"
       /\ command[c].pc \in {"key", "save"} => command[c].kind = "promote"
       /\ \E b \in Boxes : command[c].on = {b} /\ box[b].pc = "review"
\* An lca.db has nothing that its box's database has not.
FileIsOfDb == \A b \in Boxes : box[b].file \subseteq box[b].db

Places == TypeOK /\ Unlaunched /\ CommandsInReview /\ FileIsOfDb

\* The types of a box and of a command.
BoxType == [pc : BoxPcs, mode : {"ingest", "nlp"},
       defer : BOOLEAN, age : 0..Watchdog, db : SUBSET Items,
       local : SUBSET Files, queued : SUBSET Files, file : SUBSET Items,
       by : Commands \union {"script"}]
CommandType == [kind : {"promote", "preview"}, pc : CommandPcs, on : SUBSET Boxes]

LEMMA NamesOfTypes ==
  TypeOK <=>
    /\ inbox \subseteq Files /\ archived \subseteq Files /\ latest \subseteq Items
    /\ prodKey \subseteq Items /\ prod \subseteq Items
    /\ flow \in [Boxes -> {"idle", "skipped", "launch", "launched"}]
    /\ box \in [Boxes -> BoxType] /\ command \in [Commands -> CommandType]
    /\ \A c \in Commands : command[c].on \subseteq UpBoxes
    /\ made \subseteq Edits /\ failures \in 0..MaxFailures
    /\ cut \in BOOLEAN /\ blank \in BOOLEAN
    /\ passed \subseteq Years(Loads) /\ dropped \subseteq Years(Loads)
  BY DEF TypeOK, BoxType, CommandType

LEMMA BoxTypes ==
  /\ BoxOff \in BoxType /\ BoxGone \in BoxType
  /\ BoxGone.pc = "gone" /\ BoxGone.db = {} /\ BoxGone.file = {} /\ BoxGone.queued = {}
<1>1. 0 \in 0..Watchdog
  BY ReleaseAssumption
<1>2. BoxOff \in BoxType
  BY <1>1 DEF BoxType, BoxPcs, BoxOff
<1>3. BoxGone \in BoxType
  BY <1>1 DEF BoxType, BoxPcs, BoxGone, BoxOff
<1>4. BoxGone.pc = "gone" /\ BoxGone.db = {} /\ BoxGone.file = {} /\ BoxGone.queued = {}
  BY DEF BoxGone, BoxOff
<1> QED BY <1>2, <1>3, <1>4

\* What may be in a database.
LEMMA ItemTypes ==
  /\ Files \subseteq Loads
  /\ \A f \in Loads : Rows(f) \in Items /\ Soc(f) \in Items /\ Harvested(f) \in Items
  /\ \A e \in Edits, f \in Loads : Decision(e, f) \in Items
  /\ \A e \in Edits : Merge(e) \in Items
  BY DEF Items, Kinds, Loads, Rows, Soc, Harvested, Decision, Merge

LEMMA InitPlaces == Init => Places
<1> SUFFICES ASSUME Init PROVE Places
  OBVIOUS
<1>1. /\ box \in [Boxes -> BoxType] /\ command \in [Commands -> CommandType]
      /\ \A c \in Commands : command[c].on = {}
  <2>1. CommandOff \in CommandType /\ CommandOff.on = {}
    BY DEF CommandOff, CommandType, CommandPcs
  <2> QED BY <2>1, BoxTypes DEF Init
<1>2. failures \in 0..MaxFailures
  BY ReleaseAssumption DEF Init
<1>3. latest \subseteq Items
  BY DEF Init, Items, Kinds, Loads
<1>4. TypeOK
  <2>1. /\ cut \in BOOLEAN /\ blank \in BOOLEAN
        /\ flow \in [Boxes -> {"idle", "skipped", "launch", "launched"}]
    BY DEF Init
  <2>2. inbox = {} /\ archived = {} /\ prodKey = {} /\ prod = {} /\ made = {}
        /\ passed = {} /\ dropped = {}
    BY DEF Init
  <2> QED BY <1>1, <1>2, <1>3, <2>1, <2>2, NamesOfTypes
<1>5. Unlaunched /\ CommandsInReview /\ FileIsOfDb
  BY DEF Init, Unlaunched, CommandsInReview, FileIsOfDb, BoxOff, CommandOff
<1> QED BY <1>4, <1>5 DEF Places

\* What is added to a database is about rows it has.
Fits(A, D) ==
  /\ A \subseteq Items
  /\ \A i \in A, f \in Loads : i # Harvested(f) /\ (OfRows(i, f) => Rows(f) \in D)
  /\ \A f \in Loads : Rows(f) \in A => Rows(f) \in D

\* A step takes box b, and no other, from one record to another.
Alone(b) == /\ box' = [box EXCEPT ![b] = box'[b]]
            /\ box'[b] \in BoxType
Moves(b, p, q) == Alone(b) /\ box[b].pc = p /\ box'[b].pc = q
\* What most steps leave as it is, or add to.
Keeps(b) == /\ box'[b].file = box[b].file /\ box'[b].by = box[b].by
            /\ box'[b].queued = box[b].queued
            /\ \E A : Fits(A, box[b].db) /\ box'[b].db = box[b].db \union A
\* The box ends.
Ends(b) == /\ Alone(b) /\ Up(b) /\ box'[b].pc = "gone"
           /\ box'[b].db = {} /\ box'[b].file = {} /\ box'[b].queued = {}
\* The box pulls the snapshot, or goes on without it.
Pulls(b, p) ==
  /\ Moves(b, "boot", p) /\ box'[b].file = {} /\ box'[b].queued = {}
  /\ \/ box'[b].db = latest /\ blank' = blank
     \/ box'[b].db = {} /\ blank'
\* The box queues some of what there is to harvest.
Harvests(b) ==
  /\ Moves(b, "harvest", "barrier")
  /\ box'[b].file = box[b].file /\ box'[b].local = box[b].local
  /\ box'[b].queued \subseteq ToHarvest(b)
  /\ Looked(b, ToHarvest(b) \ box'[b].queued)
  /\ box'[b].db = box[b].db \union {Harvested(f) : f \in box'[b].queued}
\* The box has ingested some of its queue.
Ingests(b) ==
  /\ Moves(b, "barrier", "archive")
  /\ box'[b].file = box[b].file /\ box'[b].local = box[b].local /\ box'[b].queued = {}
  /\ \E ok \in SUBSET box[b].queued : \E wiped \in SUBSET (box[b].queued \ ok) :
       /\ box'[b].db = Ingested(box[b].db, ok, wiped, box[b].defer)
       /\ dropped' = dropped \union Years(box[b].queued \ ok)
  /\ passed' = passed

LEMMA KeepsDb ==
  ASSUME NEW b \in Boxes, Keeps(b)
  PROVE  box[b].db \subseteq box'[b].db
  BY DEF Keeps

LEMMA SameDb ==
  ASSUME NEW b \in Boxes, box'[b].db = box[b].db, box'[b].file = box[b].file,
         box'[b].by = box[b].by, box'[b].queued = box[b].queued
  PROVE  Keeps(b)
<1>1. Fits({}, box[b].db) /\ box'[b].db = box[b].db \union {}
  BY DEF Fits
<1> QED BY <1>1 DEF Keeps

LEMMA EndOfBox ==
  ASSUME NEW b \in Boxes, Up(b),
         box \in [Boxes -> BoxType], box' = [box EXCEPT ![b] = BoxGone]
  PROVE  Ends(b)
<1>1. box'[b] = BoxGone
  OBVIOUS
<1> QED BY <1>1, BoxTypes DEF Ends, Alone

LEMMA ClassesFit ==
  ASSUME NEW D
  PROVE  Fits(Classified(D), D)
<1>1. \A i \in Classified(D) : \E f \in Loads : i = Soc(f) /\ Rows(f) \in D
  BY DEF Classified
<1>2. \A f, g : Rows(f) # Soc(g)
  BY DEF Rows, Soc
<1>3. ASSUME NEW i \in Classified(D)
      PROVE  /\ i \in Items
             /\ \A f \in Loads : i # Harvested(f) /\ i # Rows(f) /\ (OfRows(i, f) => Rows(f) \in D)
  <2>1. PICK g \in Loads : i = Soc(g) /\ Rows(g) \in D
    BY <1>1
  <2>2. \A f \in Loads : i # Harvested(f) /\ i # Rows(f)
    BY <1>2, <2>1, RecordsAreOfNone
  <2>3. \A f \in Loads : OfRows(i, f) => Rows(f) \in D
    BY <2>1, ClassesAreOf
  <2>4. i \in Items
    BY <2>1, ItemTypes
  <2> QED BY <2>2, <2>3, <2>4

<1> QED BY <1>3 DEF Fits

LEMMA DecisionsFit ==
  ASSUME NEW D, NEW e \in Edits,
         NEW i \in {Merge(e)} \union {Decision(e, f) : f \in {g \in Loads : Rows(g) \in D}}
  PROVE  Fits({i}, D)
<1>1. e \notin Kinds
  BY ReleaseAssumption
<1>2. \A f \in Loads : i # Harvested(f) /\ i # Rows(f)
  <2>1. ASSUME i = Merge(e) PROVE i[1] = e
    BY <2>1 DEF Merge
  <2>2. ASSUME NEW f \in Loads, i = Decision(e, f) PROVE i[1] = e
    BY <2>2 DEF Decision
  <2>3. i[1] = e
    BY <2>1, <2>2
  <2>4. \A f : Harvested(f)[1] \in Kinds /\ Rows(f)[1] \in Kinds
    BY DEF Harvested, Rows, Kinds
  <2> QED BY <1>1, <2>3, <2>4
<1>3. ASSUME NEW f \in Loads, OfRows(i, f)
      PROVE  Rows(f) \in D
  <2>1. f # <<>>
    BY FileParts
  <2>2. ~OfRows(Merge(e), f)
    BY <2>1 DEF OfRows, Merge
  <2>3. PICK g \in Loads : i = Decision(e, g) /\ Rows(g) \in D
    BY <1>3, <2>2
  <2>4. g = f
    BY <1>3, <2>3 DEF OfRows, Decision
  <2> QED BY <2>3, <2>4
<1>4. i \in Items
  BY ItemTypes
<1> QED BY <1>2, <1>3, <1>4 DEF Fits

\* From the arrival of a box to its harvest.
LEMMA EarlySteps ==
  ASSUME Places, NEW b \in Boxes
  PROVE  /\ Launch(b) => /\ Moves(b, "off", "boot")
                         /\ box'[b].file = {} /\ box'[b].db = {} /\ box'[b].queued = {}
         /\ NoFiles(b) => Ends(b) /\ box[b].pc = "boot"
         /\ Boot(b) => Pulls(b, "harvest")
         /\ Restore(b) => \E p \in {"drain", "build", "failed"} : Pulls(b, p)
         /\ NothingNew(b) \/ SummaryLost(b) => Ends(b) /\ box[b].pc = "harvest"
         /\ Harvest(b) => Harvests(b)
<1>0. /\ box \in [Boxes -> BoxType] /\ box[b] \in BoxType
      /\ latest \subseteq Items /\ inbox \subseteq Files
      /\ box[b].pc = "boot" => box[b].file = {} /\ box[b].queued = {}
  BY NamesOfTypes DEF Places, Unlaunched
<1>1. ASSUME Launch(b)
      PROVE  /\ Moves(b, "off", "boot")
             /\ box'[b].file = {} /\ box'[b].db = {} /\ box'[b].queued = {}
  <2>1. box[b] = BoxOff
    BY <1>1 DEF Launch, Places, Unlaunched
  <2>2. PICK m \in {"ingest", "nlp"} : box' = [box EXCEPT ![b].pc = "boot", ![b].mode = m]
    BY <1>1 DEF Launch
  <2>3. box' = [box EXCEPT ![b] = box'[b]]
    <3> DEFINE r == [box[b] EXCEPT !.pc = "boot", !.mode = m]
    <3>1. box' = [box EXCEPT ![b] = r]
      BY <2>2
    <3> HIDE DEF r
    <3> QED BY <1>0, <3>1
  <2>4. box'[b].pc = "boot" /\ box'[b].file = {} /\ box'[b].db = {} /\ box'[b].queued = {}
    BY <1>0, <2>1, <2>2 DEF BoxOff, BoxType
  <2>5. box'[b] \in BoxType
    BY <1>0, <2>2 DEF BoxType, BoxPcs
  <2> QED BY <2>1, <2>3, <2>4, <2>5 DEF Moves, Alone, BoxOff
<1>2. ASSUME NEW D \in {latest, {}}, Pulled(D)
      PROVE  /\ D \subseteq Items
             /\ \/ D = latest /\ blank' = blank
                \/ D = {} /\ blank'
  BY <1>0, <1>2 DEF Pulled
<1>3. ASSUME Boot(b)
      PROVE  Pulls(b, "harvest")
  <2>1. PICK D \in {latest, {}} :
          /\ Pulled(D)
          /\ box' = [box EXCEPT ![b] = [@ EXCEPT !.pc = "harvest", !.db = D, !.local = inbox]]
    BY <1>3 DEF Boot
  <2>2. box[b].pc = "boot"
    BY <1>3 DEF Boot
  <2>3. /\ Moves(b, "boot", "harvest") /\ box'[b].file = {} /\ box'[b].queued = {}
        /\ box'[b].db = D
    BY <1>0, <1>2, <2>1, <2>2 DEF Moves, Alone, BoxType, BoxPcs
  <2> QED BY <1>2, <2>1, <2>3 DEF Pulls
<1>4. ASSUME Restore(b)
      PROVE  \E p \in {"drain", "build", "failed"} : Pulls(b, p)
  <2>1. PICK D \in {latest, {}}, p \in {"drain", "build", "failed"} :
          Pulled(D) /\ box' = [box EXCEPT ![b] = [@ EXCEPT !.db = D, !.pc = p]]
    BY <1>4 DEF Restore
  <2>2. box[b].pc = "boot"
    BY <1>4 DEF Restore
  <2>3. p \in BoxPcs
    BY DEF BoxPcs
  <2>4. /\ Moves(b, "boot", p) /\ box'[b].file = {} /\ box'[b].queued = {}
        /\ box'[b].db = D
    BY <1>0, <1>2, <2>1, <2>2, <2>3 DEF Moves, Alone, BoxType
  <2> QED BY <1>2, <2>1, <2>4 DEF Pulls
<1>5. ASSUME NothingNew(b) \/ SummaryLost(b)
      PROVE  Ends(b) /\ box[b].pc = "harvest"
  BY <1>0, <1>5, EndOfBox DEF NothingNew, SummaryLost, Up
<1>6. ASSUME NoFiles(b)
      PROVE  Ends(b) /\ box[b].pc = "boot"
  BY <1>0, <1>6, EndOfBox DEF NoFiles, Up
<1>7. ASSUME Harvest(b)
      PROVE  Harvests(b)
  <2>1. PICK Q \in SUBSET ToHarvest(b), d \in BOOLEAN :
          /\ Looked(b, ToHarvest(b) \ Q)
          /\ box' = [box EXCEPT ![b] = [@ EXCEPT !.pc = "barrier", !.queued = Q,
                      !.defer = d, !.db = box[b].db \union {Harvested(f) : f \in Q}]]
    BY <1>7 DEF Harvest
  <2> DEFINE D == box[b].db \union {Harvested(f) : f \in Q}
  <2>2. Q \subseteq Files
    BY <1>0 DEF ToHarvest, Candidates, BoxType
  <2>3. D \subseteq Items
    BY <1>0, <2>2, ItemTypes DEF BoxType
  <2>4. /\ box' = [box EXCEPT ![b] = [@ EXCEPT !.pc = "barrier", !.queued = Q,
                      !.defer = d, !.db = D]]
        /\ box[b].pc = "harvest"
    BY <1>7, <2>1 DEF Harvest
  <2>5. /\ Moves(b, "harvest", "barrier") /\ box'[b].file = box[b].file
        /\ box'[b].local = box[b].local /\ box'[b].queued = Q /\ box'[b].db = D
    <3> HIDE DEF D
    <3> QED BY <1>0, <2>2, <2>3, <2>4 DEF Moves, Alone, BoxType, BoxPcs
  <2> QED BY <2>1, <2>5 DEF Harvests
<1> QED BY <1>1, <1>3, <1>4, <1>5, <1>6, <1>7

\* From the barrier to the review, and failures.
LEMMA LateSteps ==
  ASSUME Places, NEW b \in Boxes
  PROVE  /\ Barrier(b) => Ingests(b)
         /\ Archive(b) => /\ Moves(b, "archive", "build") /\ Keeps(b)
                          /\ box'[b].db = box[b].db
         /\ Drained(b) \/ DrainCapped(b) => Moves(b, "drain", "build") /\ Keeps(b)
         /\ Build(b) => /\ Moves(b, "build", "show") /\ box'[b].queued = box[b].queued
                        /\ box'[b].file = box[b].db /\ box'[b].db = box[b].db
         /\ Show(b) => Moves(b, "show", "save") /\ Keeps(b)
         /\ Save(b) => /\ box[b].pc = "save"
                       /\ \/ Ends(b)
                          \/ Moves(b, "save", "review") /\ Keeps(b) /\ box'[b].db = box[b].db
         /\ ScriptFails(b) => /\ Moves(b, box[b].pc, "failed") /\ Keeps(b)
                              /\ Up(b) /\ box[b].pc # "review" /\ box'[b].db = box[b].db
<1>0. box \in [Boxes -> BoxType] /\ box[b] \in BoxType
  BY NamesOfTypes DEF Places
<1>1. ASSUME Barrier(b)
      PROVE  Ingests(b)
  <2>a. PICK ok \in SUBSET box[b].queued : \E wiped \in SUBSET (box[b].queued \ ok) :
          /\ dropped' = dropped \union Years(box[b].queued \ ok)
          /\ box' = [box EXCEPT ![b] = [@ EXCEPT !.pc = "archive", !.queued = {},
                      !.db = Ingested(box[b].db, ok, wiped, box[b].defer)]]
    BY <1>1 DEF Barrier
  <2>1. PICK wiped \in SUBSET (box[b].queued \ ok) :
          /\ dropped' = dropped \union Years(box[b].queued \ ok)
          /\ box' = [box EXCEPT ![b] = [@ EXCEPT !.pc = "archive", !.queued = {},
                      !.db = Ingested(box[b].db, ok, wiped, box[b].defer)]]
    BY <2>a
  <2> DEFINE D == Ingested(box[b].db, ok, wiped, box[b].defer)
  <2>2. ok \subseteq Loads
    BY <1>0, ItemTypes DEF BoxType
  <2>3. D \subseteq Items
    BY <1>0, <2>2, ItemTypes DEF Ingested, Cleared, BoxType
  <2>4. /\ box' = [box EXCEPT ![b] = [@ EXCEPT !.pc = "archive", !.queued = {}, !.db = D]]
        /\ box[b].pc = "barrier"
    BY <1>1, <2>1 DEF Barrier
  <2>5. /\ Moves(b, "barrier", "archive") /\ box'[b].file = box[b].file
        /\ box'[b].local = box[b].local /\ box'[b].queued = {} /\ box'[b].db = D
    <3> HIDE DEF D
    <3> QED BY <1>0, <2>3, <2>4 DEF Moves, Alone, BoxType, BoxPcs
  <2>6. passed' = passed
    BY <1>1 DEF Barrier
  <2> QED BY <2>1, <2>5, <2>6 DEF Ingests
<1>2. ASSUME Archive(b)
      PROVE  Moves(b, "archive", "build") /\ Keeps(b) /\ box'[b].db = box[b].db
  <2>1. /\ Moves(b, "archive", "build") /\ box'[b].db = box[b].db
        /\ box'[b].file = box[b].file /\ box'[b].by = box[b].by
        /\ box'[b].queued = box[b].queued
    BY <1>0, <1>2 DEF Archive, Moves, Alone, BoxType, BoxPcs
  <2> QED BY <2>1, SameDb
<1>3. ASSUME Drained(b)
      PROVE  Moves(b, "drain", "build") /\ Keeps(b)
  <2> DEFINE A == Classified(box[b].db)
             D == box[b].db \union A
  <2>1. Fits(A, box[b].db) /\ D \subseteq Items
    BY <1>0, ClassesFit DEF BoxType, Fits
  <2>2. box' = [box EXCEPT ![b].pc = "build", ![b].db = D] /\ box[b].pc = "drain"
    BY <1>3 DEF Drained
  <2>3. /\ Moves(b, "drain", "build") /\ box'[b].db = D
        /\ box'[b].file = box[b].file /\ box'[b].by = box[b].by
        /\ box'[b].queued = box[b].queued
    <3> HIDE DEF D
    <3> QED BY <1>0, <2>1, <2>2 DEF Moves, Alone, BoxType, BoxPcs
  <2> QED BY <2>1, <2>3 DEF Keeps
<1>4. ASSUME DrainCapped(b)
      PROVE  Moves(b, "drain", "build") /\ Keeps(b)
  <2>1. /\ Moves(b, "drain", "build") /\ box'[b].db = box[b].db
        /\ box'[b].file = box[b].file /\ box'[b].by = box[b].by
        /\ box'[b].queued = box[b].queued
    BY <1>0, <1>4 DEF DrainCapped, Step, Moves, Alone, BoxType, BoxPcs
  <2> QED BY <2>1, SameDb
<1>5. ASSUME Build(b)
      PROVE  /\ Moves(b, "build", "show") /\ box'[b].queued = box[b].queued
             /\ box'[b].file = box[b].db /\ box'[b].db = box[b].db
  BY <1>0, <1>5 DEF Build, Moves, Alone, BoxType, BoxPcs
<1>6. ASSUME Show(b)
      PROVE  Moves(b, "show", "save") /\ Keeps(b)
  <2>1. /\ Moves(b, "show", "save") /\ box'[b].db = box[b].db
        /\ box'[b].file = box[b].file /\ box'[b].by = box[b].by
        /\ box'[b].queued = box[b].queued
    BY <1>0, <1>6 DEF Show, Step, Moves, Alone, BoxType, BoxPcs
  <2> QED BY <2>1, SameDb
<1>7. ASSUME Save(b), box[b].mode = "ingest"
      PROVE  Moves(b, "save", "review") /\ Keeps(b) /\ box'[b].db = box[b].db
  <2>1. /\ Moves(b, "save", "review") /\ box'[b].db = box[b].db
        /\ box'[b].file = box[b].file /\ box'[b].by = box[b].by
        /\ box'[b].queued = box[b].queued
    BY <1>0, <1>7 DEF Save, Moves, Alone, BoxType, BoxPcs
  <2> QED BY <2>1, SameDb
<1>8. ASSUME Save(b), box[b].mode # "ingest"
      PROVE  Ends(b)
  BY <1>0, <1>8, EndOfBox DEF Save, Up
<1>9. ASSUME ScriptFails(b)
      PROVE  /\ Moves(b, box[b].pc, "failed") /\ Keeps(b) /\ Up(b)
             /\ box[b].pc # "review" /\ box'[b].db = box[b].db
  <2>1. /\ Moves(b, box[b].pc, "failed") /\ box'[b].db = box[b].db
        /\ box'[b].file = box[b].file /\ box'[b].by = box[b].by
        /\ box'[b].queued = box[b].queued
    BY <1>0, <1>9 DEF ScriptFails, Moves, Alone, BoxType, BoxPcs
  <2> QED BY <1>9, <2>1, SameDb DEF ScriptFails
<1>10. Save(b) => box[b].pc = "save"
  BY DEF Save
<1> QED BY <1>1, <1>2, <1>3, <1>4, <1>5, <1>6, <1>7, <1>8, <1>9, <1>10

\* The review, the commands and the clock.
LEMMA ReviewSteps ==
  ASSUME Places, NEW b \in Boxes
  PROVE  /\ \A e \in Edits : Edit(b, e) => Moves(b, "review", "review") /\ Keeps(b)
         /\ BackgroundNlp(b) => Moves(b, "review", "review") /\ Keeps(b)
         /\ TimePasses(b) => /\ Moves(b, box[b].pc, box[b].pc) /\ Keeps(b) /\ Up(b)
                             /\ box'[b].db = box[b].db /\ box'[b].local = box[b].local
         /\ Teardown(b) \/ WatchdogEnds(b) => Ends(b)
<1>0. box \in [Boxes -> BoxType] /\ box[b] \in BoxType
  BY NamesOfTypes DEF Places
<1>1. ASSUME NEW e \in Edits, Edit(b, e)
      PROVE  Moves(b, "review", "review") /\ Keeps(b)
  <2>1. PICK i \in {Merge(e)} \union
                    {Decision(e, f) : f \in {g \in Loads : Rows(g) \in box[b].db}} :
          box' = [box EXCEPT ![b].db = @ \union {i}]
    BY <1>1 DEF Edit
  <2> DEFINE D == box[b].db \union {i}
  <2>2. Fits({i}, box[b].db)
    BY DecisionsFit
  <2>3. D \subseteq Items
    BY <1>0, <2>2 DEF BoxType, Fits
  <2>4. box' = [box EXCEPT ![b].db = D] /\ box[b].pc = "review"
    BY <1>1, <2>1 DEF Edit
  <2>5. /\ Moves(b, "review", "review") /\ box'[b].db = D
        /\ box'[b].file = box[b].file /\ box'[b].by = box[b].by
        /\ box'[b].queued = box[b].queued
    <3> HIDE DEF D
    <3> QED BY <1>0, <2>3, <2>4 DEF Moves, Alone, BoxType, BoxPcs
  <2> QED BY <2>2, <2>5 DEF Keeps
<1>2. ASSUME BackgroundNlp(b)
      PROVE  Moves(b, "review", "review") /\ Keeps(b)
  <2> DEFINE A == Classified(box[b].db)
             D == box[b].db \union A
  <2>1. Fits(A, box[b].db) /\ D \subseteq Items
    BY <1>0, ClassesFit DEF BoxType, Fits
  <2>2. box' = [box EXCEPT ![b].defer = FALSE, ![b].db = D] /\ box[b].pc = "review"
    BY <1>2 DEF BackgroundNlp
  <2>3. /\ Moves(b, "review", "review") /\ box'[b].db = D
        /\ box'[b].file = box[b].file /\ box'[b].by = box[b].by
        /\ box'[b].queued = box[b].queued
    <3> HIDE DEF D
    <3> QED BY <1>0, <2>1, <2>2 DEF Moves, Alone, BoxType, BoxPcs
  <2> QED BY <2>1, <2>3 DEF Keeps
<1>3. ASSUME TimePasses(b)
      PROVE  /\ Moves(b, box[b].pc, box[b].pc) /\ Keeps(b) /\ Up(b)
             /\ box'[b].db = box[b].db /\ box'[b].local = box[b].local
  <2>1. box[b].age + 1 \in 0..Watchdog
    BY <1>0, <1>3, ReleaseAssumption DEF TimePasses, BoxType
  <2>2. /\ Moves(b, box[b].pc, box[b].pc) /\ box'[b].db = box[b].db
        /\ box'[b].file = box[b].file /\ box'[b].by = box[b].by
        /\ box'[b].queued = box[b].queued /\ box'[b].local = box[b].local
    BY <1>0, <1>3, <2>1 DEF TimePasses, Moves, Alone, BoxType, BoxPcs
  <2>3. Up(b)
    BY <1>3 DEF TimePasses, Waiting, Up
  <2> QED BY <2>2, <2>3, SameDb
<1>4. ASSUME Gone(b), Up(b)
      PROVE  Ends(b)
  BY <1>0, <1>4, EndOfBox DEF Gone
<1> QED BY <1>1, <1>2, <1>3, <1>4 DEF Teardown, WatchdogEnds, Fires, Up

\* A step of a command: the box is under review and stays so; its database
\* is left alone, and its lca.db is removed, made anew or left.
Turns(b, c) ==
  /\ command' = [command EXCEPT ![c] = command'[c]] /\ command'[c] \in CommandType
  /\ \/ command'[c] = CommandOff
     \/ /\ command'[c].on = {b} /\ command'[c].pc # "off"
        /\ command'[c].pc \in {"key", "save"} => command'[c].kind = "promote"

LEMMA CommandTypes ==
  ASSUME Places, NEW b \in Boxes, NEW c \in Commands, command[c].on = {b}
  PROVE  /\ \A p \in CommandPcs : To(c, p) /\ (p \in {"key", "save"} => command[c].kind = "promote") =>
              /\ Turns(b, c)
              /\ p # "off" => /\ command'[c].pc = p /\ command'[c].on = {b}
                             /\ command'[c].kind = command[c].kind
         /\ box[b].pc = "review"
<1>0. command \in [Commands -> CommandType] /\ command[c] \in CommandType
  BY NamesOfTypes DEF Places
<1>1. CommandOff \in CommandType /\ CommandOff.on = {}
  BY DEF CommandOff, CommandType, CommandPcs
<1>2. box[b].pc = "review"
  <2>1. command[c] # CommandOff
    BY <1>1
  <2>2. PICK d \in Boxes : command[c].on = {d} /\ box[d].pc = "review"
    BY <2>1 DEF Places, CommandsInReview
  <2> QED BY <2>2
<1>3. ASSUME NEW p \in CommandPcs, To(c, p), p \in {"key", "save"} => command[c].kind = "promote"
      PROVE  /\ Turns(b, c)
             /\ p # "off" => /\ command'[c].pc = p /\ command'[c].on = {b}
                            /\ command'[c].kind = command[c].kind
  <2>1. CASE p = "off"
    BY <1>0, <1>1, <1>3, <2>1 DEF To, Turns
  <2>2. CASE p # "off"
    BY <1>0, <1>3, <2>2 DEF To, Turns, CommandType
  <2> QED BY <2>1, <2>2
<1> QED BY <1>2, <1>3

LEMMA CommandSteps ==
  ASSUME Places, NEW b \in Boxes, NEW c \in Commands, Command(b, c)
  PROVE  /\ box[b].pc = "review" /\ command[c].on = {b} /\ Turns(b, c)
         /\ \/ box' = box
            \/ /\ Moves(b, "review", "review") /\ box'[b].db = box[b].db
               /\ box'[b].file \in {{}, box[b].db} /\ box'[b].queued = box[b].queued
<1>0. box \in [Boxes -> BoxType] /\ box[b] \in BoxType
  BY NamesOfTypes DEF Places
<1>1. command[c].on = {b}
  BY DEF Command, BuildStart, BuildEnd, UploadKey, PromoteImage, PreviewImage,
         PromoteSave, CommandFails, Runs
<1>2. PICK p \in CommandPcs : To(c, p) /\ (p \in {"key", "save"} => command[c].kind = "promote")
  BY DEF Command, BuildStart, BuildEnd, UploadKey, PromoteImage, PreviewImage,
         PromoteSave, CommandFails, CommandPcs
<1>3. box[b].pc = "review" /\ Turns(b, c)
  BY <1>1, <1>2, CommandTypes
<1>4. CASE BuildStart(b, c)
  <2>1. /\ Moves(b, "review", "review") /\ box'[b].db = box[b].db
        /\ box'[b].file = {} /\ box'[b].queued = box[b].queued
    BY <1>0, <1>3, <1>4 DEF BuildStart, Moves, Alone, BoxType
  <2> QED BY <1>1, <1>3, <2>1
<1>5. CASE BuildEnd(b, c) /\ box[b].by = c
  <2>1. /\ Moves(b, "review", "review") /\ box'[b].db = box[b].db
        /\ box'[b].file = box[b].db /\ box'[b].queued = box[b].queued
    BY <1>0, <1>3, <1>5 DEF BuildEnd, Moves, Alone, BoxType
  <2> QED BY <1>1, <1>3, <2>1
<1>6. CASE ~BuildStart(b, c) /\ ~(BuildEnd(b, c) /\ box[b].by = c)
  BY <1>1, <1>3, <1>6 DEF Command, BuildEnd, UploadKey, PromoteImage, PreviewImage,
         PromoteSave, CommandFails
<1> QED BY <1>4, <1>5, <1>6

LEMMA ClickStep ==
  ASSUME Places, NEW b \in Boxes, NEW c \in Commands, NEW kind \in {"promote", "preview"},
         Click(b, c, kind)
  PROVE  /\ box[b].pc = "review" /\ Turns(b, c) /\ command'[c].on = {b}
         /\ command'[c].pc = "build" /\ command[c] = CommandOff
<1>1. command \in [Commands -> CommandType]
  BY NamesOfTypes DEF Places
<1>2. command[c] = CommandOff
  BY <1>1 DEF Places, CommandsInReview, Click
<1> QED BY <1>1, <1>2 DEF Click, Turns, CommandType, CommandPcs

-----------------------------------------------------------------------------
(* Every step keeps Places.                                                *)

\* The variables whose types are plain sets.
Rest ==
  /\ inbox \subseteq Files /\ archived \subseteq Files /\ latest \subseteq Items
  /\ prodKey \subseteq Items /\ prod \subseteq Items
  /\ flow \in [Boxes -> {"idle", "skipped", "launch", "launched"}]
  /\ made \subseteq Edits /\ failures \in 0..MaxFailures
Past ==
  /\ cut \in BOOLEAN /\ blank \in BOOLEAN
  /\ passed \subseteq Years(Loads) /\ dropped \subseteq Years(Loads)

LEMMA RestStep == Places /\ Next => Rest'
<1> SUFFICES ASSUME Places, Next PROVE Rest'
  OBVIOUS
<1>0. Rest /\ MaxFailures \in Nat
  BY NamesOfTypes, ReleaseAssumption DEF Places, Rest
<1>b. ASSUME NEW b \in Boxes
      PROVE  /\ box[b].db \subseteq Items /\ box[b].file \subseteq Items
             /\ box[b].local \subseteq Files
  BY NamesOfTypes DEF Places, BoxType
<1>f. ASSUME Fails \/ failures' = failures
      PROVE  failures' \in 0..MaxFailures
  BY <1>0, <1>f DEF Rest, Fails
<1>1. ASSUME NEW f \in Files, Upload(f)
      PROVE  Rest'
  BY <1>0, <1>1 DEF Upload, Rest
<1>2. ASSUME NEW b \in Boxes, Trigger(b)
      PROVE  Rest'
  BY <1>0, <1>2 DEF Trigger, Rest, s3
<1>3. ASSUME NEW b \in Boxes, Launch(b)
      PROVE  Rest'
  BY <1>0, <1>3 DEF Launch, Rest, s3
<1>4. ASSUME NEW b \in Boxes, Script(b)
      PROVE  Rest'
  <2>1. CASE NoFiles(b) \/ Drained(b) \/ DrainCapped(b) \/ Build(b) \/ Show(b)
    BY <1>0, <2>1 DEF NoFiles, Drained, DrainCapped, Build, Show, OnBox, Rest, s3
  <2>2. CASE Boot(b) \/ Restore(b) \/ Harvest(b) \/ Barrier(b) \/ ScriptFails(b)
    <3>1. Fails \/ failures' = failures
      BY <2>2 DEF Boot, Restore, Harvest, Barrier, ScriptFails, Pulled
    <3>2. failures' \in 0..MaxFailures
      BY <3>1, <1>f
    <3> QED BY <1>0, <2>2, <3>2 DEF Boot, Restore, Harvest, Barrier, ScriptFails, Rest, s3
  <2>3. CASE NothingNew(b) \/ Archive(b)
    <3>1. ArchiveInbox(b)
      BY <2>3 DEF NothingNew, Archive
    <3>2. PICK moved \in SUBSET (inbox \intersect box[b].local) :
            /\ archived' = archived \union moved /\ inbox' = inbox \ moved
            /\ Fails \/ failures' = failures
      BY <3>1 DEF ArchiveInbox
    <3>3. failures' \in 0..MaxFailures
      BY <3>2, <1>f
    <3> QED BY <1>0, <2>3, <3>2, <3>3 DEF NothingNew, Archive, Rest
  <2>4. CASE SummaryLost(b)
    <3>1. failures' \in 0..MaxFailures
      BY <2>4, <1>f DEF SummaryLost
    <3> QED BY <1>0, <1>b, <2>4, <3>1 DEF SummaryLost, Rest
  <2>5. CASE Save(b)
    BY <1>0, <1>b, <2>5 DEF Save, OnBox, Rest
  <2> QED BY <1>4, <2>1, <2>2, <2>3, <2>4, <2>5 DEF Script
<1>5. ASSUME NEW b \in Boxes, NEW e \in Edits, Edit(b, e)
      PROVE  Rest'
  BY <1>0, <1>5 DEF Edit, Rest, s3
<1>6. ASSUME NEW b \in Boxes, BackgroundNlp(b) \/ TimePasses(b)
      PROVE  Rest'
  BY <1>0, <1>6 DEF BackgroundNlp, TimePasses, OnBox, Rest, s3
<1>7. ASSUME NEW b \in Boxes, NEW c \in Commands, NEW k \in {"promote", "preview"}, Click(b, c, k)
      PROVE  Rest'
  BY <1>0, <1>7 DEF Click, Rest, s3
<1>8. ASSUME NEW b \in Boxes, NEW c \in Commands, Command(b, c)
      PROVE  Rest'
  <2>1. CASE CommandFails(b, c)
    <3>1. failures' \in 0..MaxFailures
      BY <2>1, <1>f DEF CommandFails
    <3> QED BY <1>0, <2>1, <3>1 DEF CommandFails, Rest, s3
  <2>2. CASE BuildStart(b, c) \/ BuildEnd(b, c) \/ UploadKey(b, c) \/ PromoteImage(b, c)
             \/ PreviewImage(b, c) \/ PromoteSave(b, c)
    BY <1>0, <1>b, <2>2 DEF BuildStart, BuildEnd, UploadKey, PromoteImage, PreviewImage,
         PromoteSave, ByCommand, Rest
  <2> QED BY <1>8, <2>1, <2>2 DEF Command
<1>9. ASSUME NEW b \in Boxes, Teardown(b) \/ WatchdogEnds(b)
      PROVE  Rest'
  BY <1>0, <1>9 DEF Teardown, WatchdogEnds, Rest, s3
<1> QED BY <1>1, <1>2, <1>3, <1>4, <1>5, <1>6, <1>7, <1>8, <1>9 DEF Next

\* What may become of the history: years join those passed over and those
\* of dropped files, and a file is dropped between harvest and barrier.
LEMMA PastStep ==
  ASSUME Places, Next
  PROVE  /\ Past' /\ passed \subseteq passed' /\ dropped \subseteq dropped'
         /\ \/ dropped' = dropped /\ passed' = passed
            \/ \E b \in Boxes : NothingNew(b) \/ SummaryLost(b) \/ Harvest(b) \/ Barrier(b)
<1>0. Past
  BY NamesOfTypes DEF Places, Past
<1>y. ASSUME NEW S, S \subseteq Loads PROVE Years(S) \subseteq Years(Loads)
  BY <1>y DEF Years
<1>1. ASSUME NEW b \in Boxes, NothingNew(b) \/ SummaryLost(b) \/ Harvest(b)
      PROVE  Past' /\ passed \subseteq passed' /\ dropped \subseteq dropped'
  <2>l. box[b].local \subseteq Loads
    BY NamesOfTypes, ItemTypes DEF Places, BoxType
  <2>1. cut' = cut /\ blank' = blank
    BY <1>1 DEF NothingNew, SummaryLost, Harvest
  <2>2. \E S \in SUBSET ToHarvest(b) : Looked(b, S)
    BY <1>1 DEF NothingNew, SummaryLost, Harvest
  <2>3. PICK S \in SUBSET ToHarvest(b) : Looked(b, S)
    BY <2>2
  <2>4. S \subseteq Loads
    BY <2>l DEF ToHarvest, Candidates
  <2>5. Years(S) \subseteq Years(Loads)
        /\ Years({f \in box[b].local : Untracked(box[b].db, f)}) \subseteq Years(Loads)
    BY <1>y, <2>l, <2>4
  <2> QED BY <1>0, <2>1, <2>3, <2>5 DEF Looked, Past
<1>2. ASSUME NEW b \in Boxes, Barrier(b)
      PROVE  Past' /\ passed \subseteq passed' /\ dropped \subseteq dropped'
  <2>1. cut' = cut /\ blank' = blank /\ passed' = passed
    BY <1>2 DEF Barrier
  <2>2. PICK ok \in SUBSET box[b].queued : dropped' = dropped \union Years(box[b].queued \ ok)
    BY <1>2 DEF Barrier
  <2>3. box[b].queued \subseteq Loads
    BY NamesOfTypes, ItemTypes DEF Places, BoxType
  <2>4. Years(box[b].queued \ ok) \subseteq Years(Loads)
    BY <1>y, <2>3
  <2> QED BY <1>0, <2>1, <2>2, <2>4 DEF Past
<1>3. CASE \E b \in Boxes : Launch(b) \/ Boot(b) \/ Restore(b) \/ Teardown(b) \/ WatchdogEnds(b)
  <2>1. dropped' = dropped /\ passed' = passed
    BY <1>3 DEF Launch, Boot, Restore, Teardown, WatchdogEnds
  <2>2. cut' \in BOOLEAN /\ blank' \in BOOLEAN
    BY <1>0, <1>3 DEF Launch, Boot, Restore, Teardown, WatchdogEnds, Gone, Pulled, Past
  <2> QED BY <1>0, <2>1, <2>2 DEF Past
<1>4. CASE \E b \in Boxes : \/ NoFiles(b) \/ Archive(b) \/ Drained(b) \/ DrainCapped(b)
                          \/ Build(b) \/ Show(b) \/ Save(b) \/ ScriptFails(b)
  <2>1. UNCHANGED past
    BY <1>4 DEF NoFiles, Archive, Drained, DrainCapped, Build, Show, Save, ScriptFails, OnBox
  <2> QED BY <1>0, <2>1 DEF past, Past
<1>5. CASE \/ \E f \in Files : Upload(f)
           \/ \E b \in Boxes :
                \/ Trigger(b) \/ BackgroundNlp(b) \/ TimePasses(b) \/ \E e \in Edits : Edit(b, e)
                \/ \E c \in Commands : Click(b, c, "promote") \/ Click(b, c, "preview")
  <2>1. UNCHANGED past
    BY <1>5 DEF Upload, Trigger, BackgroundNlp, TimePasses, Edit, Click, OnBox
  <2> QED BY <1>0, <2>1 DEF past, Past
<1>6. ASSUME NEW b \in Boxes, NEW c \in Commands, Command(b, c)
      PROVE  Past' /\ dropped' = dropped /\ passed' = passed
  <2>1. CASE CommandFails(b, c)
    <3>1. dropped' = dropped /\ passed' = passed /\ blank' = blank /\ cut' \in BOOLEAN
      BY <2>1 DEF CommandFails
    <3> QED BY <1>0, <3>1 DEF Past
  <2>2. CASE ~CommandFails(b, c)
    <3>1. UNCHANGED past
      BY <1>6, <2>2 DEF Command, BuildStart, BuildEnd, UploadKey, PromoteImage, PreviewImage,
           PromoteSave, ByCommand
    <3> QED BY <1>0, <3>1 DEF past, Past
  <2> QED BY <2>1, <2>2
<1> QED BY <1>1, <1>2, <1>3, <1>4, <1>5, <1>6 DEF Next, Script

\* What a step that keeps Places says of the boxes and the commands.
Sound ==
  /\ box \in [Boxes -> BoxType] /\ command \in [Commands -> CommandType]
  /\ Unlaunched /\ CommandsInReview /\ FileIsOfDb

\* A box moves, the commands do not.
LEMMA BoxMoves ==
  ASSUME Places, NEW b \in Boxes, Alone(b), box'[b].pc # "off",
         box'[b].pc \in {"boot", "harvest", "barrier"} => box'[b].file = {},
         box'[b].pc \notin {"barrier", "failed"} => box'[b].queued = {},
         flow' = flow, command' = command,
         box[b].pc # "off" \/ flow[b] = "launched",
         box[b].pc = "review" => box'[b].pc = "review",
         box'[b].file \subseteq box'[b].db
  PROVE  Sound'
<1>1. box \in [Boxes -> BoxType] /\ command \in [Commands -> CommandType]
  BY NamesOfTypes DEF Places
<1>2. flow[b] = "launched"
  BY DEF Places, Unlaunched, BoxOff
<1>3. /\ box' \in [Boxes -> BoxType]
      /\ \A d \in Boxes : d # b => box'[d] = box[d]
  BY <1>1 DEF Alone
<1>4. Unlaunched'
  BY <1>2, <1>3 DEF Places, Unlaunched
<1>5. CommandsInReview'
  BY <1>3 DEF Places, CommandsInReview
<1>6. FileIsOfDb'
  BY <1>3 DEF Places, FileIsOfDb
<1> QED BY <1>1, <1>3, <1>4, <1>5, <1>6 DEF Sound

\* A command moves on a box under review, whose database stays.
LEMMA CommandMoves ==
  ASSUME Places, NEW b \in Boxes, NEW c \in Commands, flow' = flow,
         box[b].pc = "review", Turns(b, c),
         \/ box' = box
         \/ /\ Moves(b, "review", "review") /\ box'[b].db = box[b].db
            /\ box'[b].file \in {{}, box[b].db} /\ box'[b].queued = box[b].queued
  PROVE  Sound'
<1>1. box \in [Boxes -> BoxType] /\ command \in [Commands -> CommandType]
  BY NamesOfTypes DEF Places
<1>2. /\ box' \in [Boxes -> BoxType] /\ command' \in [Commands -> CommandType]
      /\ \A d \in Boxes : d # b => box'[d] = box[d]
      /\ \A d \in Commands : d # c => command'[d] = command[d]
      /\ box'[b].pc = "review"
  BY <1>1 DEF Moves, Alone, Turns
<1>3. Unlaunched'
  <2>1. flow[b] = "launched"
    BY DEF Places, Unlaunched, BoxOff
  <2> QED BY <1>2, <2>1 DEF Places, Unlaunched
<1>4. CommandsInReview'
  BY <1>2 DEF Places, CommandsInReview, Turns
<1>5. FileIsOfDb'
  BY <1>1, <1>2 DEF Places, FileIsOfDb
<1> QED BY <1>2, <1>3, <1>4, <1>5 DEF Sound

LEMMA StepPlaces == Places /\ [Next]_vars => Places'
<1> SUFFICES ASSUME Places, [Next]_vars PROVE Places'
  OBVIOUS
<1>0. /\ box \in [Boxes -> BoxType] /\ command \in [Commands -> CommandType]
      /\ Unlaunched /\ CommandsInReview /\ FileIsOfDb
  BY NamesOfTypes DEF Places
<1>1. CASE UNCHANGED vars
  BY <1>1 DEF vars, s3, past, Places, TypeOK, UpBoxes, Up, Unlaunched, CommandsInReview, FileIsOfDb
<1>2. CASE Next
  <2>s. ASSUME Sound' PROVE Places'
    <3>1. \A c \in Commands : (command[c].on \subseteq UpBoxes)'
      BY <2>s DEF Sound, CommandsInReview, CommandOff, UpBoxes, Up
    <3>2. TypeOK'
      BY <1>2, <2>s, <3>1, RestStep, PastStep DEF Sound, Rest, Past, TypeOK, BoxType, CommandType
    <3> QED BY <2>s, <3>2 DEF Sound, Places
  <2>f. \A b \in Boxes : box[b].file \subseteq box[b].db
    BY <1>0 DEF FileIsOfDb
  <2>1. ASSUME NEW f \in Files, Upload(f)
        PROVE  Sound'
    BY <1>0, <2>1 DEF Upload, Sound, Unlaunched, CommandsInReview, FileIsOfDb
  <2>2. ASSUME NEW b \in Boxes, Trigger(b)
        PROVE  Sound'
    <3>1. Unlaunched'
      BY <1>0, <2>2, NamesOfTypes DEF Places, Trigger, Unlaunched
    <3> QED BY <1>0, <2>2, <3>1 DEF Trigger, Sound, CommandsInReview, FileIsOfDb
  <2>3. ASSUME NEW b \in Boxes, Launch(b)
        PROVE  Sound'
    <3>1. /\ Moves(b, "off", "boot") /\ box'[b].file = {} /\ box'[b].queued = {}
          /\ flow' = [flow EXCEPT ![b] = "launched"] /\ command' = command
      BY <2>3, EarlySteps DEF Launch
    <3>2. /\ box' \in [Boxes -> BoxType]
          /\ \A d \in Boxes : d # b => box'[d] = box[d] /\ flow'[d] = flow[d]
          /\ flow'[b] = "launched"
      BY <1>0, <3>1, NamesOfTypes DEF Places, Moves, Alone
    <3>3. Unlaunched' /\ FileIsOfDb'
      BY <1>0, <3>1, <3>2 DEF Unlaunched, FileIsOfDb, Moves
    <3>4. CommandsInReview'
      BY <1>0, <3>1, <3>2 DEF CommandsInReview, Moves
    <3> QED BY <1>0, <3>1, <3>2, <3>3, <3>4 DEF Sound
  <2>4. ASSUME NEW b \in Boxes, Script(b)
        PROVE  Sound'
    <3>1. flow' = flow /\ command' = command
      BY <2>4 DEF Script, NoFiles, Boot, NothingNew, SummaryLost, Harvest, Barrier, Archive,
           Restore, Drained, DrainCapped, Build, Show, Save, ScriptFails, OnBox
    <3>u. /\ box[b].pc \in {"boot", "harvest", "barrier"} => box[b].file = {}
          /\ box[b].pc \notin {"barrier", "failed"} => box[b].queued = {}
      BY <1>0 DEF Unlaunched
    <3> DEFINE Fine == /\ Alone(b) /\ box'[b].pc # "off"
                       /\ box[b].pc \notin {"off", "review"}
                       /\ box'[b].file \subseteq box'[b].db
                       /\ box'[b].pc \in {"boot", "harvest", "barrier"} => box'[b].file = {}
                       /\ box'[b].pc \notin {"barrier", "failed"} => box'[b].queued = {}
    <3>2. ASSUME NoFiles(b) \/ NothingNew(b) \/ SummaryLost(b) PROVE Fine
      <4>1. Ends(b) /\ box[b].pc \in {"boot", "harvest"}
        BY <3>2, EarlySteps
      <4> QED BY <4>1 DEF Ends
    <3>3. ASSUME NEW p \in {"harvest", "drain", "build", "failed"}, Pulls(b, p) PROVE Fine
      BY <3>3 DEF Pulls, Moves
    <3>4. ASSUME Harvest(b) PROVE Fine
      <4>1. Harvests(b)
        BY <3>4, EarlySteps
      <4> QED BY <3>u, <4>1 DEF Harvests, Moves
    <3>5. ASSUME Barrier(b) PROVE Fine
      <4>1. Ingests(b)
        BY <3>5, LateSteps
      <4> QED BY <3>u, <4>1 DEF Ingests, Moves
    <3>6. ASSUME Build(b) PROVE Fine
      <4>1. /\ Moves(b, "build", "show") /\ box'[b].queued = box[b].queued
            /\ box'[b].file = box[b].db /\ box'[b].db = box[b].db
        BY <3>6, LateSteps
      <4> QED BY <3>u, <4>1 DEF Moves
    <3>7. ASSUME NEW p \in {"archive", "drain", "show", "save"}, NEW q \in {"build", "save", "review"},
                 Moves(b, p, q), Keeps(b)
          PROVE  Fine
      BY <2>f, <3>u, <3>7, KeepsDb DEF Moves, Keeps
    <3>8. ASSUME Save(b) PROVE Fine
      <4>1. CASE Ends(b)
        BY <3>8, <4>1, LateSteps DEF Ends
      <4> QED BY <3>7, <3>8, <4>1, LateSteps
    <3>9. ASSUME ScriptFails(b) PROVE Fine
      <4>1. Moves(b, box[b].pc, "failed") /\ Keeps(b) /\ Up(b) /\ box[b].pc # "review"
        BY <3>9, LateSteps
      <4> QED BY <2>f, <4>1, KeepsDb DEF Moves, Keeps, Up
    <3>10. Fine
      <4>1. CASE Boot(b) \/ Restore(b)
        <5>1. \E p \in {"harvest", "drain", "build", "failed"} : Pulls(b, p)
          BY <4>1, EarlySteps
        <5> QED BY <3>3, <5>1
      <4>2. CASE Archive(b) \/ Drained(b) \/ DrainCapped(b) \/ Show(b)
        <5>1. \E p \in {"archive", "drain", "show", "save"}, q \in {"build", "save", "review"} :
                Moves(b, p, q) /\ Keeps(b)
          BY <4>2, LateSteps
        <5> QED BY <3>7, <5>1
      <4> HIDE DEF Fine
      <4> QED BY <2>4, <3>2, <3>4, <3>5, <3>6, <3>8, <3>9, <4>1, <4>2 DEF Script
    <3> QED BY <3>1, <3>10, BoxMoves
  <2>5. ASSUME NEW b \in Boxes,
               BackgroundNlp(b) \/ (\E e \in Edits : Edit(b, e)) \/ TimePasses(b)
        PROVE  Sound'
    <3>1. flow' = flow /\ command' = command
      BY <2>5 DEF BackgroundNlp, Edit, TimePasses, OnBox
    <3>2. /\ Moves(b, box[b].pc, box[b].pc) /\ Keeps(b) /\ Up(b)
      BY <2>5, ReviewSteps DEF Moves, Up
    <3>3. /\ box[b].pc \in {"boot", "harvest", "barrier"} => box[b].file = {}
          /\ box[b].pc \notin {"barrier", "failed"} => box[b].queued = {}
      BY <1>0 DEF Unlaunched
    <3>4. box'[b].file \subseteq box'[b].db
      BY <2>f, <3>2, KeepsDb DEF Keeps
    <3> QED BY <3>1, <3>2, <3>3, <3>4, BoxMoves DEF Moves, Keeps, Up
  <2>6. ASSUME NEW b \in Boxes, NEW c \in Commands, NEW k \in {"promote", "preview"}, Click(b, c, k)
        PROVE  Sound'
    BY <2>6, ClickStep, CommandMoves DEF Click
  <2>7. ASSUME NEW b \in Boxes, NEW c \in Commands, Command(b, c)
        PROVE  Sound'
    <3>1. flow' = flow
      BY <2>7 DEF Command, BuildStart, BuildEnd, UploadKey, PromoteImage, PreviewImage,
           PromoteSave, CommandFails, ByCommand
    <3> QED BY <2>7, <3>1, CommandSteps, CommandMoves
  <2>8. ASSUME NEW b \in Boxes, Teardown(b) \/ WatchdogEnds(b)
        PROVE  Sound'
    <3>1. /\ Ends(b) /\ flow' = flow
          /\ command' = [c \in Commands |-> IF command[c].on = {b} THEN CommandOff ELSE command[c]]
      BY <2>8, ReviewSteps DEF Teardown, WatchdogEnds, Gone
    <3>2. /\ box' \in [Boxes -> BoxType] /\ \A d \in Boxes : d # b => box'[d] = box[d]
      BY <1>0, <3>1 DEF Ends, Alone
    <3>3. Unlaunched' /\ FileIsOfDb'
      BY <1>0, <3>1, <3>2 DEF Ends, Up, Unlaunched, FileIsOfDb, BoxOff
    <3>4. command' \in [Commands -> CommandType]
      <4>1. CommandOff \in CommandType
        BY DEF CommandOff, CommandType, CommandPcs
      <4> QED BY <1>0, <3>1, <4>1
    <3>5. CommandsInReview'
      BY <1>0, <3>1, <3>2 DEF CommandsInReview
    <3> QED BY <3>2, <3>3, <3>4, <3>5 DEF Sound
  <2> QED BY <1>2, <2>s, <2>1, <2>2, <2>3, <2>4, <2>5, <2>6, <2>7, <2>8 DEF Next
<1> QED BY <1>1, <1>2

\* Types hold in every state, and a command's box is up: ec2-promote.sh and
\* its like are sent to a box under review, and end with it.
THEOREM TypesHold == Spec => []TypeOK
<1>1. Spec => []Places
  BY InitPlaces, StepPlaces, PTL DEF Spec
<1>2. Places => TypeOK
  BY DEF Places
<1> QED BY <1>1, <1>2, PTL

-----------------------------------------------------------------------------
(* What a step does to the database of a box and to the snapshot.          *)

\* The places of a box that has pulled the snapshot, failures left out.
Loaded == {"harvest", "barrier", "archive", "drain", "build", "show", "save", "review"}

Arrives(b) ==
  /\ Moves(b, "off", "boot") /\ box'[b].db = {} /\ box'[b].queued = {}
  /\ UpBoxes = {} \/ cut'
\* The box goes on with its database, or with more in it.
Stays(b) ==
  /\ Alone(b) /\ Up(b) /\ box'[b].queued = box[b].queued
  /\ \E A : Fits(A, box[b].db) /\ box'[b].db = box[b].db \union A
  /\ box[b].queued # {} => box'[b].db = box[b].db
  /\ box'[b].pc \in {"harvest", "barrier", "archive"} =>
       /\ box'[b].pc = box[b].pc /\ box'[b].db = box[b].db
       /\ box'[b].local = box[b].local
  /\ box'[b].pc \in Loaded => box[b].pc \in Loaded
\* A box's database becomes the snapshot.
Saves(b) == box[b].pc \in {"save", "review"} /\ latest' = box[b].db

Kind(b) ==
  \/ Arrives(b) /\ latest' = latest
  \/ (\E p \in {"harvest", "drain", "build", "failed"} : Pulls(b, p)) /\ latest' = latest
  \/ Harvests(b) /\ latest' = latest
  \/ Ingests(b) /\ latest' = latest
  \/ Stays(b) /\ (latest' = latest \/ (Saves(b) /\ box'[b].db = box[b].db))
  \/ Ends(b) /\ (latest' = latest \/ Saves(b))

LEMMA StaysHere ==
  ASSUME Places, NEW b \in Boxes, NEW p, NEW q, Moves(b, p, q), Keeps(b), p \notin {"off", "gone"},
         p \in {"barrier", "failed"} \/ q \in {"harvest", "barrier", "archive"}
           => box'[b].db = box[b].db,
         q \in {"harvest", "barrier", "archive"} => q = p /\ box'[b].local = box[b].local,
         q \in Loaded => p \in Loaded
  PROVE  Stays(b)
<1>1. box[b].queued # {} => p \in {"barrier", "failed"}
  BY DEF Places, Unlaunched, Moves
<1>2. /\ Alone(b) /\ Up(b) /\ box'[b].queued = box[b].queued
      /\ \E A : Fits(A, box[b].db) /\ box'[b].db = box[b].db \union A
  BY DEF Moves, Keeps, Up
<1> QED BY <1>1, <1>2 DEF Moves, Stays

LEMMA ScriptKinds ==
  ASSUME Places, NEW b \in Boxes, Script(b)
  PROVE  Kind(b)
<1>0. box \in [Boxes -> BoxType]
  BY NamesOfTypes DEF Places
<1>1. CASE NoFiles(b) \/ NothingNew(b) \/ SummaryLost(b)
  <2>1. latest' = latest
    BY <1>1 DEF NoFiles, NothingNew, SummaryLost, s3
  <2> QED BY <1>1, <2>1, EarlySteps DEF Kind
<1>2. CASE Boot(b) \/ Restore(b)
  <2>1. latest' = latest
    BY <1>2 DEF Boot, Restore, s3
  <2>2. \E p \in {"harvest", "drain", "build", "failed"} : Pulls(b, p)
    BY <1>2, EarlySteps
  <2> QED BY <2>1, <2>2 DEF Kind
<1>3. CASE Harvest(b)
  <2>1. latest' = latest
    BY <1>3 DEF Harvest, s3
  <2> QED BY <1>3, <2>1, EarlySteps DEF Kind
<1>4. CASE Barrier(b)
  <2>1. latest' = latest
    BY <1>4 DEF Barrier, s3
  <2> QED BY <1>4, <2>1, LateSteps DEF Kind
<1>5. CASE Archive(b) \/ Drained(b) \/ DrainCapped(b) \/ Show(b)
  <2>1. latest' = latest
    BY <1>5 DEF Archive, Drained, DrainCapped, Show, s3, Step
  <2>2. PICK p \in {"archive", "drain", "show"}, q \in {"build", "save"} :
          Moves(b, p, q) /\ Keeps(b)
    BY <1>5, LateSteps
  <2>3. Stays(b)
    BY <2>2, StaysHere DEF Loaded
  <2> QED BY <2>1, <2>3 DEF Kind
<1>6. CASE Build(b)
  <2>1. latest' = latest
    BY <1>6 DEF Build, s3
  <2>2. /\ Moves(b, "build", "show") /\ box'[b].queued = box[b].queued
        /\ box'[b].db = box[b].db
    BY <1>6, LateSteps
  <2>3. Fits({}, box[b].db) /\ box'[b].db = box[b].db \union {}
    BY <2>2 DEF Fits
  <2>4. Stays(b)
    BY <2>2, <2>3 DEF Stays, Moves, Up, Loaded
  <2> QED BY <2>1, <2>4 DEF Kind
<1>7. CASE Save(b)
  <2>1. Saves(b)
    BY <1>7 DEF Save, Saves
  <2>2. CASE Ends(b)
    BY <2>1, <2>2 DEF Kind
  <2>3. CASE Moves(b, "save", "review") /\ Keeps(b) /\ box'[b].db = box[b].db
    <3>1. Stays(b)
      BY <2>3, StaysHere DEF Loaded
    <3> QED BY <2>1, <2>3, <3>1 DEF Kind
  <2> QED BY <1>7, <2>2, <2>3, LateSteps
<1>8. CASE ScriptFails(b)
  <2>1. latest' = latest
    BY <1>8 DEF ScriptFails, s3
  <2>2. /\ Moves(b, box[b].pc, "failed") /\ Keeps(b) /\ Up(b) /\ box'[b].db = box[b].db
    BY <1>8, LateSteps
  <2>3. Stays(b)
    BY <2>2, StaysHere DEF Loaded, Up
  <2> QED BY <2>1, <2>3 DEF Kind
<1> QED BY <1>1, <1>2, <1>3, <1>4, <1>5, <1>6, <1>7, <1>8 DEF Script

\* A command leaves the database of its box, and may save it.
LEMMA CommandKinds ==
  ASSUME Places, NEW b \in Boxes, NEW c \in Commands, Command(b, c)
  PROVE  /\ latest' = latest \/ Saves(b)
         /\ box' = box \/ (Stays(b) /\ box'[b].db = box[b].db)
<1>1. /\ box[b].pc = "review" /\ command[c].on = {b} /\ Turns(b, c)
      /\ \/ box' = box
         \/ /\ Moves(b, "review", "review") /\ box'[b].db = box[b].db
            /\ box'[b].file \in {{}, box[b].db} /\ box'[b].queued = box[b].queued
  BY CommandSteps
<1>2. latest' = latest \/ latest' = box[b].db
  BY DEF Command, BuildStart, BuildEnd, UploadKey, PromoteImage, PreviewImage,
         PromoteSave, CommandFails, s3
<1>3. ASSUME Moves(b, "review", "review"), box'[b].db = box[b].db,
             box'[b].queued = box[b].queued
      PROVE  Stays(b)
  <2>1. Fits({}, box[b].db) /\ box'[b].db = box[b].db \union {}
    BY <1>3 DEF Fits
  <2> QED BY <1>3, <2>1 DEF Stays, Moves, Up, Loaded
<1> QED BY <1>1, <1>2, <1>3 DEF Saves

LEMMA StepKinds ==
  ASSUME Places, Next
  PROVE  \/ box' = box /\ (latest' = latest \/ \E b \in Boxes : Saves(b))
         \/ \E b \in Boxes : Kind(b)
<1>0. box \in [Boxes -> BoxType]
  BY NamesOfTypes DEF Places
<1>1. CASE \/ \E f \in Files : Upload(f)
           \/ \E b \in Boxes : \/ Trigger(b)
                              \/ \E c \in Commands : Click(b, c, "promote") \/ Click(b, c, "preview")
  BY <1>1 DEF Upload, Trigger, Click, s3
<1>2. ASSUME NEW b \in Boxes, Launch(b)
      PROVE  Kind(b)
  <2>1. latest' = latest /\ (UpBoxes = {} \/ cut')
    BY <1>2 DEF Launch, s3
  <2> QED BY <1>2, <2>1, EarlySteps DEF Kind, Arrives
<1>3. ASSUME NEW b \in Boxes,
             BackgroundNlp(b) \/ (\E e \in Edits : Edit(b, e)) \/ TimePasses(b)
      PROVE  Kind(b)
  <2>1. latest' = latest
    BY <1>3 DEF BackgroundNlp, Edit, TimePasses, OnBox, s3
  <2>2. /\ Moves(b, box[b].pc, box[b].pc) /\ Keeps(b) /\ Up(b)
        /\ box[b].pc # "review" => box'[b].db = box[b].db /\ box'[b].local = box[b].local
    BY <1>3, ReviewSteps DEF Moves, Up
  <2>3. Stays(b)
    BY <2>2, StaysHere DEF Loaded, Up
  <2> QED BY <2>1, <2>3 DEF Kind
<1>4. ASSUME NEW b \in Boxes, NEW c \in Commands, Command(b, c)
      PROVE  \/ box' = box /\ (latest' = latest \/ \E d \in Boxes : Saves(d))
             \/ Kind(b)
  BY <1>4, CommandKinds DEF Kind
<1>5. ASSUME NEW b \in Boxes, Teardown(b) \/ WatchdogEnds(b)
      PROVE  Kind(b)
  <2>1. latest' = latest /\ Ends(b)
    BY <1>5, ReviewSteps DEF Teardown, WatchdogEnds, s3
  <2> QED BY <2>1 DEF Kind
<1> QED BY <1>1, <1>2, <1>3, <1>4, <1>5, ScriptKinds DEF Next

-----------------------------------------------------------------------------
(* Every database is as it ought to be.                                    *)

Sanes  == \A b \in Boxes : Sane(box[b].db, box[b].queued, dropped)
Queues == \A b \in Boxes : box[b].pc = "barrier" => QueueFits(box[b].db, box[b].queued)
Databases == Sane(latest, {}, dropped) /\ Sanes /\ Queues

LEMMA InitDatabases == Init => Databases
<1> SUFFICES ASSUME Init PROVE Databases
  OBVIOUS
<1>1. PICK S \in SUBSET Seeds : latest = {"rows", "soc"} \X S
  BY DEF Init
<1>2. \A f : Harvested(f) \notin latest
  BY <1>1 DEF Harvested
<1>3. Whole(latest)
  <2>1. ASSUME NEW f \in Loads, NEW i \in latest, OfRows(i, f)
        PROVE  Rows(f) \in latest
    BY <1>1, <2>1 DEF OfRows, Rows
  <2> QED BY <2>1 DEF Whole
<1>4. Sane(latest, {}, dropped)
  BY <1>2, <1>3 DEF Sane, Recorded, HasRecorded
<1>5. Sanes /\ Queues
  BY EmptyIsSane DEF Init, Sanes, Queues, BoxOff
<1> QED BY <1>4, <1>5 DEF Databases

\* What a box does to its own database.
LEMMA DatabaseOfBox ==
  ASSUME Places, Databases, Next, NEW b \in Boxes, Kind(b)
  PROVE  /\ Sane(box'[b].db, box'[b].queued, dropped')
         /\ box'[b].pc = "barrier" => QueueFits(box'[b].db, box'[b].queued)
<1>0. /\ Sane(latest, {}, dropped) /\ Sane(box[b].db, box[b].queued, dropped)
      /\ dropped \subseteq dropped'
  BY PastStep DEF Databases, Sanes
<1>l. /\ box[b].local \subseteq Loads /\ box[b].queued \subseteq Loads
      /\ box[b].pc = "harvest" => box[b].queued = {}
      /\ box[b].defer \in BOOLEAN
  BY NamesOfTypes, ItemTypes DEF Places, BoxType, Unlaunched
<1>1. CASE Arrives(b) \/ Ends(b)
  BY <1>1, EmptyIsSane DEF Arrives, Ends, Moves
<1>2. ASSUME NEW p \in {"harvest", "drain", "build", "failed"}, Pulls(b, p)
      PROVE  /\ Sane(box'[b].db, box'[b].queued, dropped') /\ box'[b].pc # "barrier"
  <2>1. Sane(latest, {}, dropped') /\ Sane({}, {}, dropped')
    BY <1>0, SaneWithMoreDropped, EmptyIsSane
  <2> QED BY <1>2, <2>1 DEF Pulls, Moves
<1>3. CASE Harvests(b)
  <2>1. Sane(box[b].db, {}, dropped')
    <3>1. box[b].queued = {}
      BY <1>l, <1>3 DEF Harvests, Moves
    <3>2. Sane(box[b].db, {}, dropped)
      BY <1>0, <3>1
    <3> QED BY <1>0, <3>2, SaneWithMoreDropped
  <2>2. box'[b].queued \subseteq Candidates(box[b].db, box[b].local)
    BY <1>3 DEF Harvests, ToHarvest
  <2> DEFINE E == box[b].db \union {Harvested(f) : f \in box'[b].queued}
  <2>3. Sane(E, box'[b].queued, dropped') /\ QueueFits(E, box'[b].queued)
    <3> DEFINE D == box[b].db
               Q == box'[b].queued
               L == box[b].local
               Y == dropped'
    <3>1. Sane(D, {}, Y) /\ L \subseteq Loads /\ Q \subseteq Candidates(D, L)
      BY <1>l, <2>1, <2>2
    <3>2. E = D \union {Harvested(f) : f \in Q}
      OBVIOUS
    <3> HIDE DEF D, Q, L, Y, E
    <3>3. Sane(E, Q, Y) /\ QueueFits(E, Q)
      BY <3>1, <3>2, HarvestFits
    <3> QED BY <3>3 DEF Q, Y
  <2>4. box'[b].db = E
    BY <1>3 DEF Harvests
  <2> HIDE DEF E
  <2> QED BY <2>3, <2>4
<1>4. CASE Ingests(b)
  <2>1. QueueFits(box[b].db, box[b].queued)
    BY <1>4 DEF Ingests, Moves, Databases, Queues
  <2>2. PICK ok \in SUBSET box[b].queued :
          \E w \in SUBSET (box[b].queued \ ok) :
            /\ box'[b].db = Ingested(box[b].db, ok, w, box[b].defer)
            /\ dropped' = dropped \union Years(box[b].queued \ ok)
    BY <1>4 DEF Ingests
  <2>3. PICK w \in SUBSET (box[b].queued \ ok) :
          /\ box'[b].db = Ingested(box[b].db, ok, w, box[b].defer)
          /\ dropped' = dropped \union Years(box[b].queued \ ok)
    BY <2>2
  <2>4. Sane(box'[b].db, {}, dropped')
    <3> DEFINE D == box[b].db
               Q == box[b].queued
               Y == dropped
               d == box[b].defer
    <3>1. /\ Sane(D, Q, Y) /\ QueueFits(D, Q) /\ Q \subseteq Loads /\ d \in BOOLEAN
          /\ ok \subseteq Q /\ w \subseteq Q \ ok
      BY <1>0, <1>l, <2>1
    <3>2. box'[b].db = Ingested(D, ok, w, d) /\ dropped' = Y \union Years(Q \ ok)
      BY <2>3
    <3> HIDE DEF D, Q, Y, d
    <3>3. Sane(Ingested(D, ok, w, d), {}, Y \union Years(Q \ ok))
      BY <3>1, IngestedFits
    <3> QED BY <3>2, <3>3
  <2> QED BY <1>4, <2>4 DEF Ingests, Moves
<1>5. CASE Stays(b)
  <2>1. box'[b].pc = "barrier" => QueueFits(box'[b].db, box'[b].queued)
    BY <1>5 DEF Stays, Databases, Queues
  <2>2. CASE box[b].queued # {}
    BY <1>0, <1>5, <2>1, <2>2, SaneWithMoreDropped DEF Stays
  <2>3. CASE box[b].queued = {}
    <3>1. PICK A : Fits(A, box[b].db) /\ box'[b].db = box[b].db \union A
      BY <1>5 DEF Stays
    <3>2. Sane(box[b].db, {}, dropped')
      BY <1>0, <2>3, SaneWithMoreDropped
    <3>3. Sane(box'[b].db, {}, dropped')
      BY <3>1, <3>2, AddedFits DEF Fits
    <3> QED BY <1>5, <2>1, <2>3, <3>3 DEF Stays
  <2> QED BY <2>2, <2>3
<1> QED BY <1>1, <1>2, <1>3, <1>4, <1>5 DEF Kind

LEMMA KindIsAlone ==
  ASSUME Places, NEW b \in Boxes, Kind(b)
  PROVE  /\ \A d \in Boxes : d # b => box'[d] = box[d]
         /\ latest' = latest \/ Saves(b)
<1>1. Alone(b)
  BY DEF Kind, Arrives, Pulls, Harvests, Ingests, Stays, Ends, Moves
<1>2. box \in [Boxes -> BoxType]
  BY NamesOfTypes DEF Places
<1> QED BY <1>1, <1>2 DEF Alone, Kind

LEMMA StepDatabases == Places /\ Databases /\ [Next]_vars => Databases'
<1> SUFFICES ASSUME Places, Databases, [Next]_vars PROVE Databases'
  OBVIOUS
<1>1. CASE UNCHANGED vars
  BY <1>1 DEF vars, s3, past, Databases, Sanes, Queues
<1>2. CASE Next
  <2>0. dropped \subseteq dropped'
    BY <1>2, PastStep
  <2>1. ASSUME NEW d \in Boxes, box'[d] = box[d]
        PROVE  /\ Sane(box'[d].db, box'[d].queued, dropped')
               /\ box'[d].pc = "barrier" => QueueFits(box'[d].db, box'[d].queued)
    BY <2>0, <2>1, SaneWithMoreDropped DEF Databases, Sanes, Queues
  <2>2. latest' = latest \/ \E b \in Boxes : Saves(b)
    BY <1>2, StepKinds, KindIsAlone
  <2>3. Sane(latest', {}, dropped')
    <3>1. Sane(latest, {}, dropped')
      BY <2>0, SaneWithMoreDropped DEF Databases
    <3>2. ASSUME NEW b \in Boxes, Saves(b) PROVE Sane(latest', {}, dropped')
      <4>1. box[b].queued = {}
        BY <3>2 DEF Saves, Places, Unlaunched
      <4>2. Sane(box[b].db, {}, dropped')
        BY <2>0, <4>1, SaneWithMoreDropped DEF Databases, Sanes
      <4> QED BY <3>2, <4>2 DEF Saves
    <3> QED BY <2>2, <3>1, <3>2
  <2>4. ASSUME NEW d \in Boxes
        PROVE  /\ Sane(box'[d].db, box'[d].queued, dropped')
               /\ box'[d].pc = "barrier" => QueueFits(box'[d].db, box'[d].queued)
    <3>1. CASE box'[d] = box[d]
      BY <2>1, <3>1
    <3>2. CASE box'[d] # box[d]
      <4>1. PICK b \in Boxes : Kind(b)
        BY <1>2, <3>2, StepKinds
      <4>2. d = b
        BY <3>2, <4>1, KindIsAlone
      <4> QED BY <1>2, <4>1, <4>2, DatabaseOfBox
    <3> QED BY <3>1, <3>2
  <2> QED BY <2>3, <2>4 DEF Databases, Sanes, Queues
<1> QED BY <1>1, <1>2

-----------------------------------------------------------------------------
(* While boxes come one at a time and pull the snapshot there is, each has *)
(* what the snapshot had when it was pulled, but for what a newer quarter  *)
(* has replaced.                                                           *)

OneBox == \A b, d \in Boxes : Up(b) /\ Up(d) => b = d
HasSnapshot == \A b \in Boxes : box[b].pc \in Loaded => CarriedBy(latest, box[b].db, dropped)
AsPulled == \A b \in Boxes : box[b].pc = "harvest" => box[b].db = latest

Lineage == Unbroken => OneBox /\ HasSnapshot /\ AsPulled

LEMMA NeverUnbroken ==
  ASSUME [Next]_vars, Unbroken'
  PROVE  Unbroken
<1>1. CASE \E b \in Boxes : Launch(b) \/ Teardown(b) \/ WatchdogEnds(b)
  <2>1. blank' = blank
    BY <1>1 DEF Launch, Teardown, WatchdogEnds
  <2>2. cut => cut'
    BY <1>1 DEF Launch, Teardown, WatchdogEnds, Gone
  <2> QED BY <2>1, <2>2 DEF Unbroken
<1>2. CASE \E b \in Boxes : Boot(b) \/ Restore(b)
  <2>1. cut' = cut /\ (blank' = blank \/ blank')
    BY <1>2 DEF Boot, Restore, Pulled
  <2> QED BY <2>1 DEF Unbroken
<1>3. CASE \E b \in Boxes :
             \/ NoFiles(b) \/ NothingNew(b) \/ SummaryLost(b) \/ Harvest(b) \/ Barrier(b)
             \/ Archive(b) \/ Drained(b) \/ DrainCapped(b) \/ Build(b) \/ Show(b) \/ Save(b)
             \/ ScriptFails(b)
  <2>1. cut' = cut /\ blank' = blank
    BY <1>3 DEF NoFiles, NothingNew, SummaryLost, Harvest, Barrier, Archive, Drained,
         DrainCapped, Build, Show, Save, ScriptFails, OnBox, past
  <2> QED BY <2>1 DEF Unbroken
<1>4. CASE \E b \in Boxes, c \in Commands : Command(b, c)
  <2>1. CASE \E b \in Boxes, c \in Commands : CommandFails(b, c)
    <3>1. blank' = blank
      BY <2>1 DEF CommandFails
    <3>2. cut => cut'
      BY <2>1 DEF CommandFails
    <3> QED BY <3>1, <3>2 DEF Unbroken
  <2>2. CASE ~\E b \in Boxes, c \in Commands : CommandFails(b, c)
    <3>1. cut' = cut /\ blank' = blank
      BY <1>4, <2>2 DEF Command, BuildStart, BuildEnd, UploadKey, PromoteImage, PreviewImage,
           PromoteSave, ByCommand, past
    <3> QED BY <3>1 DEF Unbroken
  <2> QED BY <2>1, <2>2
<1>5. CASE \/ \E f \in Files : Upload(f)
           \/ \E b \in Boxes :
                \/ Trigger(b) \/ BackgroundNlp(b) \/ TimePasses(b) \/ \E e \in Edits : Edit(b, e)
                \/ \E c \in Commands : Click(b, c, "promote") \/ Click(b, c, "preview")
  <2>1. cut' = cut /\ blank' = blank
    BY <1>5 DEF Upload, Trigger, BackgroundNlp, TimePasses, Edit, Click, OnBox, past
  <2> QED BY <2>1 DEF Unbroken
<1>6. CASE UNCHANGED vars
  BY <1>6 DEF vars, past, Unbroken
<1> QED BY <1>1, <1>2, <1>3, <1>4, <1>5, <1>6 DEF Next, Script

\* What a box adds to its database, or replaces, leaves what it had carried.
LEMMA BoxCarries ==
  ASSUME Places, Databases, Next, NEW b \in Boxes, Harvests(b) \/ Ingests(b) \/ Stays(b)
  PROVE  CarriedBy(box[b].db, box'[b].db, dropped')
<1>1. CASE Harvests(b)
  BY <1>1, HasAll DEF Harvests
<1>2. CASE Stays(b)
  BY <1>2, HasAll DEF Stays
<1>3. CASE Ingests(b)
  <2>1. PICK ok \in SUBSET box[b].queued :
          \E w \in SUBSET (box[b].queued \ ok) :
            /\ box'[b].db = Ingested(box[b].db, ok, w, box[b].defer)
            /\ dropped' = dropped \union Years(box[b].queued \ ok)
    BY <1>3 DEF Ingests
  <2>2. PICK w \in SUBSET (box[b].queued \ ok) :
          /\ box'[b].db = Ingested(box[b].db, ok, w, box[b].defer)
          /\ dropped' = dropped \union Years(box[b].queued \ ok)
    BY <2>1
  <2> DEFINE D == box[b].db
             Q == box[b].queued
             Y == dropped
             d == box[b].defer
  <2>3. /\ Sane(D, Q, Y) /\ QueueFits(D, Q) /\ Q \subseteq Loads /\ d \in BOOLEAN
        /\ ok \subseteq Q /\ w \subseteq Q \ ok
    BY <1>3, NamesOfTypes, ItemTypes
    DEF Ingests, Moves, Databases, Sanes, Queues, Places, BoxType
  <2>4. box'[b].db = Ingested(D, ok, w, d) /\ dropped' = Y \union Years(Q \ ok)
    BY <2>2
  <2> HIDE DEF D, Q, Y, d
  <2>5. CarriedBy(D, Ingested(D, ok, w, d), Y \union Years(Q \ ok))
    BY <2>3, IngestedFits
  <2> QED BY <2>4, <2>5 DEF D
<1> QED BY <1>1, <1>2, <1>3

\* What was carried goes on being carried by the box that carries it.
LEMMA GoesOnCarrying ==
  ASSUME Places, Databases, Next, NEW b \in Boxes, Harvests(b) \/ Ingests(b) \/ Stays(b),
         NEW C, CarriedBy(C, box[b].db, dropped)
  PROVE  CarriedBy(C, box'[b].db, dropped')
<1>1. dropped \subseteq dropped'
  BY PastStep
<1> DEFINE D == box[b].db
           E == box'[b].db
           Y == dropped
           Z == dropped'
<1>2. CarriedBy(C, D, Y) /\ CarriedBy(D, E, Z) /\ Y \subseteq Z
  BY <1>1, BoxCarries
<1> HIDE DEF D, E, Y, Z
<1>3. CarriedBy(C, D, Z)
  BY <1>2, KeepsMore
<1>4. CarriedBy(C, E, Z)
  BY <1>2, <1>3, CarriedThrough
<1> QED BY <1>4 DEF E, Z

\* Of a snapshot that is saved while there is but one box nothing is lost.
LEMMA SavesCarry ==
  ASSUME Places, OneBox, HasSnapshot, NEW b \in Boxes, Saves(b)
  PROVE  CarriedBy(latest, latest', dropped)
  BY DEF HasSnapshot, Saves, Loaded

LEMMA StepLineage ==
  Places /\ Databases /\ Lineage /\ [Next]_vars
    => Lineage' /\ (Unbroken' => CarriedBy(latest, latest', dropped))
<1> SUFFICES ASSUME Places, Databases, Lineage, [Next]_vars, Unbroken'
             PROVE  /\ OneBox' /\ HasSnapshot' /\ AsPulled'
                    /\ CarriedBy(latest, latest', dropped)
  BY DEF Lineage
<1>0. OneBox /\ HasSnapshot /\ AsPulled /\ ~cut' /\ ~blank'
  BY NeverUnbroken DEF Lineage, Unbroken
<1>1. CASE UNCHANGED vars
  BY <1>0, <1>1, HasAll DEF vars, s3, past, OneBox, HasSnapshot, AsPulled, Up
<1>2. CASE Next
  <2>0. dropped \subseteq dropped'
    BY <1>2, PastStep
  <2>c. CarriedBy(latest, latest', dropped)
    <3>1. latest' = latest \/ \E b \in Boxes : Saves(b)
      BY <1>2, StepKinds, KindIsAlone
    <3> QED BY <1>0, <3>1, SavesCarry, HasAll
  <2>1. ASSUME NEW b \in Boxes, box[b].pc \in Loaded
        PROVE  CarriedBy(latest, box[b].db, dropped')
    <3>1. CarriedBy(latest, box[b].db, dropped)
      BY <1>0, <2>1 DEF HasSnapshot
    <3> QED BY <2>0, <3>1, KeepsMore
  <2>p. AsPulled'
    <3> SUFFICES ASSUME NEW d \in Boxes, box'[d].pc = "harvest"
                 PROVE  box'[d].db = latest'
      BY DEF AsPulled
    <3>1. ASSUME NEW b \in Boxes, Saves(b)
          PROVE  d # b /\ box[d].pc # "harvest"
      <4>1. d # b
        <5>1. CASE d = b
          <6>1. box' # box
            BY <3>1, <5>1 DEF Saves
          <6>2. PICK e \in Boxes : Kind(e)
            BY <1>2, <6>1, StepKinds
          <6>3. e = b
            BY <3>1, <5>1, <6>2, KindIsAlone DEF Saves
          <6> QED BY <3>1, <5>1, <6>2, <6>3
                DEF Kind, Arrives, Pulls, Harvests, Ingests, Stays, Ends, Moves, Saves
        <5> QED BY <5>1
      <4> QED BY <1>0, <3>1, <4>1 DEF OneBox, Saves, Up
    <3>2. CASE box[d].pc = "harvest" /\ box'[d].db = box[d].db
      <4>1. latest' = latest
        BY <1>2, <3>1, <3>2, StepKinds, KindIsAlone
      <4> QED BY <1>0, <3>2, <4>1 DEF AsPulled
    <3>3. CASE box'[d] = box[d]
      BY <3>2, <3>3
    <3>4. CASE box'[d] # box[d]
      <4>1. Kind(d)
        BY <1>2, <3>4, StepKinds, KindIsAlone
      <4>2. ASSUME NEW p, Pulls(d, p), latest' = latest
            PROVE  box'[d].db = latest'
        BY <1>0, <4>2 DEF Pulls
      <4>3. CASE Stays(d)
        BY <3>2, <4>3 DEF Stays
      <4>4. ~Arrives(d) /\ ~Harvests(d) /\ ~Ingests(d) /\ ~Ends(d)
        BY DEF Arrives, Harvests, Ingests, Ends, Moves
      <4> QED BY <4>1, <4>2, <4>3, <4>4 DEF Kind
    <3> QED BY <3>3, <3>4
  <2>2. CASE box' = box
    <3>1. OneBox'
      BY <1>0, <2>2 DEF OneBox, Up
    <3>2. HasSnapshot'
      <4> SUFFICES ASSUME NEW d \in Boxes, box[d].pc \in Loaded
                   PROVE  CarriedBy(latest', box[d].db, dropped')
        BY <2>2 DEF HasSnapshot
      <4>1. CASE latest' = latest
        BY <2>1, <4>1
      <4>2. ASSUME NEW b \in Boxes, Saves(b)
            PROVE  CarriedBy(latest', box[d].db, dropped')
        <5>1. d = b
          BY <1>0, <4>2 DEF OneBox, Saves, Up, Loaded
        <5> QED BY <4>2, <5>1, HasAll DEF Saves
      <4>3. latest' = latest \/ \E b \in Boxes : Saves(b)
        BY <1>2, StepKinds, KindIsAlone
      <4> QED BY <4>1, <4>2, <4>3
    <3> QED BY <2>c, <2>p, <3>1, <3>2
  <2>3. ASSUME NEW b \in Boxes, Kind(b)
        PROVE  OneBox' /\ HasSnapshot'
    <3>1. \A d \in Boxes : d # b => box'[d] = box[d] /\ ~Up(d)
      <4>1. \A d \in Boxes : d # b => box'[d] = box[d]
        BY <2>3, KindIsAlone
      <4>2. CASE Arrives(b)
        BY <1>0, <4>1, <4>2 DEF Arrives, UpBoxes
      <4>3. Arrives(b) \/ Up(b)
        BY <2>3 DEF Kind, Pulls, Harvests, Ingests, Stays, Ends, Moves, Up
      <4> QED BY <1>0, <4>1, <4>2, <4>3 DEF OneBox
    <3>2. OneBox'
      BY <3>1 DEF OneBox, Up
    <3>3. \A d \in Boxes : d # b => box'[d].pc \notin Loaded
      BY <3>1 DEF Up, Loaded
    <3>4. ASSUME box'[b].pc \in Loaded
          PROVE  CarriedBy(latest', box'[b].db, dropped')
      <4>1. CASE Arrives(b) \/ Ends(b)
        BY <3>4, <4>1 DEF Arrives, Ends, Moves, Loaded
      <4>2. ASSUME NEW p, Pulls(b, p), latest' = latest
            PROVE  CarriedBy(latest', box'[b].db, dropped')
        BY <1>0, <4>2, HasAll DEF Pulls
      <4>3. CASE (Harvests(b) \/ Ingests(b) \/ Stays(b)) /\ latest' = latest
        <5>1. box[b].pc \in Loaded
          BY <3>4, <4>3 DEF Harvests, Ingests, Stays, Moves, Loaded
        <5>2. CarriedBy(latest, box[b].db, dropped)
          BY <1>0, <5>1 DEF HasSnapshot
        <5>3. CarriedBy(latest, box'[b].db, dropped')
          BY <1>2, <4>3, <5>2, GoesOnCarrying
        <5> QED BY <4>3, <5>3
      <4>4. CASE Saves(b) /\ box'[b].db = box[b].db
        BY <4>4, HasAll DEF Saves
      <4> QED BY <2>3, <4>1, <4>2, <4>3, <4>4 DEF Kind
    <3> QED BY <3>2, <3>3, <3>4 DEF HasSnapshot
  <2> QED BY <1>2, <2>c, <2>p, <2>2, <2>3, StepKinds
<1> QED BY <1>1, <1>2

LEMMA InitLineage == Init => Lineage
  BY DEF Init, Lineage, OneBox, HasSnapshot, AsPulled, Up, Loaded, BoxOff

LEMMA AlwaysLineage == Spec => [](Places /\ Databases /\ Lineage)
<1>1. Init => Places /\ Databases /\ Lineage
  BY InitPlaces, InitDatabases, InitLineage
<1>2. Places /\ Databases /\ Lineage /\ [Next]_vars => (Places /\ Databases /\ Lineage)'
  BY StepPlaces, StepDatabases, StepLineage
<1> QED BY <1>1, <1>2, PTL DEF Spec

\* The snapshot loses nothing but rows a newer quarter replaces, with what
\* was decided on them, and years of dropped files, as long as boxes come one
\* at a time and pull it: each starts from it (burst user-data,
\* nlp-processor.sh), and what it saves holds what it started from, whatever
\* else failed or was left out in between.
THEOREM SnapshotNeverShrinks == Spec => SnapshotGrows
<1>1. Places /\ Databases /\ Lineage /\ [Next]_vars
        => [Unbroken' => Carried(latest, latest')]_vars
  BY StepLineage, KeptIsKeptBy
<1> QED BY <1>1, AlwaysLineage, PTL DEF Spec, SnapshotGrows

-----------------------------------------------------------------------------
(* What was archived or promoted is in the snapshot, or on a box that is   *)
(* about to save it.                                                       *)

\* The places of a box that has archived its files and not saved yet.
Saving == {"build", "show", "save", "failed"}
Promoting(b, c, pcs) ==
  command[c].on = {b} /\ command[c].kind = "promote" /\ command[c].pc \in pcs

HandlesAll ==
  \A b \in Boxes : box[b].pc \in {"barrier", "archive"} =>
    \A f \in box[b].local : Handled(f, box[b].db, box[b].queued, passed, dropped)
HasArchived(D) == \A f \in archived : Year(f) \in passed \/ KeptBy(Rows(f), D, dropped)
ArchivedSafe ==
  HasArchived(latest) \/ \E b \in Boxes : box[b].pc \in Saving /\ HasArchived(box[b].db)
OnItsWay(items, pcs) ==
  \/ CarriedBy(items, latest, dropped)
  \/ \E b \in Boxes, c \in Commands :
       Promoting(b, c, pcs) /\ CarriedBy(items, box[b].db, dropped)
KeySafe  == OnItsWay(prodKey, {"image", "save"})
ProdSafe == OnItsWay(prod, {"save"})
\* A command that was the last to begin a build has made an lca.db with what
\* production serves.
FileWhole ==
  \A b \in Boxes, c \in Commands :
    command[c].on = {b} /\ command[c].pc \in {"key", "image"} /\ box[b].by = c
      => CarriedBy(prod, box[b].file, dropped)

Keeping == Unbroken => HandlesAll /\ ArchivedSafe /\ KeySafe /\ ProdSafe /\ FileWhole

\* What may happen to a box, and to a command.
LEMMA StepOfBox ==
  ASSUME Places, Next, NEW b \in Boxes
  PROVE  \/ box'[b] = box[b]
         \/ Launch(b) \/ Script(b) \/ Teardown(b) \/ WatchdogEnds(b)
         \/ (\E e \in Edits : Edit(b, e)) \/ BackgroundNlp(b) \/ TimePasses(b)
         \/ \E c \in Commands : Command(b, c)
<1>0. box \in [Boxes -> BoxType]
  BY NamesOfTypes DEF Places
<1>1. CASE \/ \E f \in Files : Upload(f)
           \/ \E d \in Boxes : \/ Trigger(d)
                              \/ \E c \in Commands : Click(d, c, "promote") \/ Click(d, c, "preview")
  BY <1>1 DEF Upload, Trigger, Click
<1>2. ASSUME NEW d \in Boxes, Alone(d), d # b
      PROVE  box'[b] = box[b]
  BY <1>0, <1>2 DEF Alone
<1>3. ASSUME NEW d \in Boxes, Launch(d) \/ Teardown(d) \/ WatchdogEnds(d)
                \/ (\E e \in Edits : Edit(d, e)) \/ BackgroundNlp(d) \/ TimePasses(d)
      PROVE  Alone(d)
  BY <1>3, EarlySteps, ReviewSteps DEF Moves, Ends
<1>4. ASSUME NEW d \in Boxes, Script(d)
      PROVE  Alone(d)
  BY <1>4, ScriptKinds DEF Kind, Arrives, Pulls, Harvests, Ingests, Stays, Ends, Moves
<1>5. ASSUME NEW d \in Boxes, NEW c \in Commands, Command(d, c)
      PROVE  Alone(d) \/ box' = box
  BY <1>5, CommandSteps DEF Moves
<1> QED BY <1>1, <1>2, <1>3, <1>4, <1>5 DEF Next

LEMMA StepOfCommand ==
  ASSUME Places, Next, NEW c \in Commands
  PROVE  \/ command'[c] = command[c]
         \/ \E b \in Boxes : \/ Command(b, c)
                            \/ Click(b, c, "promote") \/ Click(b, c, "preview")
                            \/ /\ Teardown(b) \/ WatchdogEnds(b)
                               /\ command[c].on = {b}
<1>0. command \in [Commands -> CommandType]
  BY NamesOfTypes DEF Places
<1>1. CASE \/ \E f \in Files : Upload(f)
           \/ \E d \in Boxes : \/ Trigger(d) \/ Launch(d)
                              \/ BackgroundNlp(d) \/ TimePasses(d)
                              \/ \E e \in Edits : Edit(d, e)
  BY <1>1 DEF Upload, Trigger, Launch, BackgroundNlp, TimePasses, Edit, OnBox
<1>2. CASE \E d \in Boxes : Script(d)
  BY <1>2 DEF Script, NoFiles, Boot, NothingNew, SummaryLost, Harvest, Barrier, Archive,
       Restore, Drained, DrainCapped, Build, Show, Save, ScriptFails, OnBox
<1>3. ASSUME NEW d \in Boxes, NEW e \in Commands,
             Command(d, e) \/ Click(d, e, "promote") \/ Click(d, e, "preview"), e # c
      PROVE  command'[c] = command[c]
  <2>1. Turns(d, e)
    BY <1>3, CommandSteps, ClickStep
  <2> QED BY <1>0, <1>3, <2>1 DEF Turns
<1>4. ASSUME NEW d \in Boxes, Teardown(d) \/ WatchdogEnds(d), command[c].on # {d}
      PROVE  command'[c] = command[c]
  BY <1>0, <1>4 DEF Teardown, WatchdogEnds, Gone
<1> QED BY <1>1, <1>2, <1>3, <1>4 DEF Next

\* A box that is about to save goes on to, or has saved.
LEMMA SavingGoesOn ==
  ASSUME Places, Next, ~cut', NEW b \in Boxes, box[b].pc \in Saving
  PROVE  \/ box'[b].pc \in Saving /\ box'[b].db = box[b].db
         \/ latest' = box[b].db
<1>1. CASE box'[b] = box[b]
  BY <1>1
<1>2. CASE Launch(b) \/ Teardown(b) \/ (\E e \in Edits : Edit(b, e)) \/ BackgroundNlp(b)
           \/ TimePasses(b) \/ \E c \in Commands : Command(b, c)
  BY <1>2, EarlySteps, ReviewSteps, CommandSteps DEF Saving, Moves, Teardown
<1>3. CASE WatchdogEnds(b)
  BY <1>3 DEF WatchdogEnds, Gone, Unsaved, Saving
<1>4. CASE Script(b)
  <2>1. CASE Save(b)
    BY <2>1 DEF Save
  <2>2. CASE Build(b) \/ ScriptFails(b)
    BY <2>2, LateSteps DEF Moves, Saving
  <2>3. CASE Show(b)
    <3>0. box \in [Boxes -> BoxType]
      BY NamesOfTypes DEF Places
    <3> QED BY <2>3, <3>0 DEF Show, Step, Saving, BoxType
  <2>4. ~NoFiles(b) /\ ~Boot(b) /\ ~Restore(b) /\ ~NothingNew(b) /\ ~SummaryLost(b) /\ ~Harvest(b)
    BY DEF Saving, NoFiles, Boot, Restore, NothingNew, SummaryLost, Harvest
  <2>5. ~Archive(b) /\ ~Drained(b) /\ ~DrainCapped(b) /\ ~Barrier(b)
    BY DEF Saving, Archive, Drained, DrainCapped, Barrier, Step
  <2> QED BY <1>4, <2>1, <2>2, <2>3, <2>4, <2>5 DEF Script
<1> QED BY <1>1, <1>2, <1>3, <1>4, StepOfBox

\* A box under review that does not end keeps its database and its lca.db,
\* but for the builds of commands.
LEMMA ReviewGoesOn ==
  ASSUME Places, Next, NEW b \in Boxes, box[b].pc = "review", ~Teardown(b), ~WatchdogEnds(b)
  PROVE  /\ box[b].db \subseteq box'[b].db /\ box'[b].pc = "review"
         /\ \/ box'[b].file = box[b].file /\ box'[b].by = box[b].by
            \/ \E c \in Commands : BuildStart(b, c) \/ (BuildEnd(b, c) /\ box[b].by = c)
<1>1. ~Launch(b) /\ ~Script(b)
  <2>1. /\ ~NoFiles(b) /\ ~Boot(b) /\ ~Restore(b) /\ ~NothingNew(b) /\ ~SummaryLost(b)
        /\ ~Harvest(b) /\ ~Launch(b)
    BY EarlySteps DEF NoFiles, Boot, Restore, NothingNew, SummaryLost, Harvest, Moves
  <2>2. /\ ~Archive(b) /\ ~Drained(b) /\ ~DrainCapped(b) /\ ~Build(b) /\ ~Show(b) /\ ~Save(b)
        /\ ~Barrier(b) /\ ~ScriptFails(b)
    BY DEF Archive, Drained, DrainCapped, Barrier, Build, Show, Save, ScriptFails, Step
  <2> QED BY <2>1, <2>2 DEF Script
<1>2. CASE box'[b] = box[b]
  BY <1>2
<1>3. CASE (\E e \in Edits : Edit(b, e)) \/ BackgroundNlp(b) \/ TimePasses(b)
  BY <1>3, ReviewSteps, KeepsDb DEF Moves, Keeps
<1>4. ASSUME NEW c \in Commands, Command(b, c)
      PROVE  /\ box[b].db \subseteq box'[b].db /\ box'[b].pc = "review"
             /\ \/ box'[b].file = box[b].file /\ box'[b].by = box[b].by
                \/ BuildStart(b, c) \/ (BuildEnd(b, c) /\ box[b].by = c)
  <2>1. box[b].db \subseteq box'[b].db /\ box'[b].pc = "review"
    BY <1>4, CommandSteps DEF Moves
  <2>2. CASE ~BuildStart(b, c) /\ ~(BuildEnd(b, c) /\ box[b].by = c)
    BY <1>4, <2>1, <2>2 DEF Command, BuildEnd, UploadKey, PromoteImage, PreviewImage,
       PromoteSave, CommandFails
  <2> QED BY <2>1, <2>2
<1> QED BY <1>1, <1>2, <1>3, <1>4, StepOfBox

\* A promote past its key goes on, or has saved.
LEMMA PromotingGoesOn ==
  ASSUME Places, Next, ~cut', NEW b \in Boxes, NEW c \in Commands,
         NEW pcs \in {{"image", "save"}, {"save"}}, Promoting(b, c, pcs)
  PROVE  \/ Promoting(b, c, pcs)' /\ box[b].db \subseteq box'[b].db
         \/ latest' = box[b].db
<1>1. box[b].pc = "review" /\ command[c].on = {b}
  BY CommandTypes DEF Promoting
<1>2. ~Teardown(b) /\ ~WatchdogEnds(b)
  BY <1>1 DEF Teardown, WatchdogEnds, Gone, Unsaved
<1>3. box[b].db \subseteq box'[b].db
  BY <1>1, <1>2, ReviewGoesOn
<1>4. CASE command'[c] = command[c]
  BY <1>3, <1>4 DEF Promoting
<1>5. ASSUME NEW d \in Boxes, Command(d, c)
      PROVE  Promoting(b, c, pcs)' \/ latest' = box[b].db
  <2>1. d = b
    BY <1>1, <1>5, CommandSteps
  <2>2. CASE PromoteSave(b, c)
    BY <2>2 DEF PromoteSave
  <2>3. CASE PromoteImage(b, c)
    <3>1. To(c, "save") /\ "save" \in CommandPcs /\ command[c].kind = "promote"
      BY <2>3 DEF PromoteImage, CommandPcs
    <3>2. /\ command'[c].pc = "save" /\ command'[c].on = {b}
          /\ command'[c].kind = command[c].kind
      BY <1>1, <3>1, CommandTypes
    <3> QED BY <3>1, <3>2 DEF Promoting
  <2>4. ~CommandFails(b, c)
    BY DEF Promoting, CommandFails
  <2>5. ~BuildStart(b, c) /\ ~BuildEnd(b, c) /\ ~UploadKey(b, c) /\ ~PreviewImage(b, c)
    BY DEF Promoting, BuildStart, BuildEnd, UploadKey, PreviewImage, Runs
  <2> QED BY <1>5, <2>1, <2>2, <2>3, <2>4, <2>5 DEF Command
<1>6. \A d \in Boxes : ~Click(d, c, "promote") /\ ~Click(d, c, "preview")
  BY DEF Promoting, Click
<1>7. \A d \in Boxes : command[c].on = {d} => d = b
  BY <1>1
<1> QED BY <1>2, <1>3, <1>4, <1>5, <1>6, <1>7, StepOfCommand

\* Who archives, and who writes what production has.
LEMMA WhoWrites ==
  ASSUME Next
  PROVE  /\ archived' = archived \/ \E b \in Boxes : NothingNew(b) \/ SummaryLost(b) \/ Archive(b)
         /\ prodKey' = prodKey \/ \E b \in Boxes, c \in Commands : UploadKey(b, c)
         /\ prod' = prod \/ \E b \in Boxes, c \in Commands : PromoteImage(b, c)
<1>1. CASE \E b \in Boxes : Script(b)
  BY <1>1 DEF Script, NoFiles, Boot, NothingNew, SummaryLost, Harvest, Barrier, Archive,
       Restore, Drained, DrainCapped, Build, Show, Save, ScriptFails, OnBox, s3
<1>2. CASE \E b \in Boxes, c \in Commands :
             Command(b, c) \/ Click(b, c, "promote") \/ Click(b, c, "preview")
  BY <1>2 DEF Command, BuildStart, BuildEnd, UploadKey, PromoteImage, PreviewImage,
       PromoteSave, CommandFails, ByCommand, Click, s3
<1>3. CASE \/ \E f \in Files : Upload(f)
           \/ \E b \in Boxes : \/ Trigger(b) \/ Launch(b)
                              \/ BackgroundNlp(b) \/ TimePasses(b)
                              \/ Teardown(b) \/ WatchdogEnds(b)
                              \/ \E e \in Edits : Edit(b, e)
  BY <1>3 DEF Upload, Trigger, Launch, BackgroundNlp, TimePasses, Teardown,
       WatchdogEnds, Edit, OnBox, s3
<1> QED BY <1>1, <1>2, <1>3 DEF Next

LEMMA InitKeeping == Init => Keeping
<1> SUFFICES ASSUME Init PROVE HandlesAll /\ ArchivedSafe /\ KeySafe /\ ProdSafe /\ FileWhole
  BY DEF Keeping
<1>1. HandlesAll /\ ArchivedSafe /\ FileWhole
  BY DEF Init, HandlesAll, ArchivedSafe, HasArchived, FileWhole, BoxOff, CommandOff
<1>2. CarriedBy(prodKey, latest, dropped) /\ CarriedBy(prod, latest, dropped)
  BY DEF Init, CarriedBy
<1> QED BY <1>1, <1>2 DEF KeySafe, ProdSafe, OnItsWay

\* What is the same for the five parts of Keeping.
KeepStep ==
  /\ Places /\ Databases /\ Next /\ ~cut' /\ ~blank'
  /\ OneBox /\ HasSnapshot /\ AsPulled
  /\ CarriedBy(latest, latest', dropped)
  /\ HandlesAll /\ ArchivedSafe /\ KeySafe /\ ProdSafe /\ FileWhole

\* What is kept in the snapshot, or in a database that is saved or grows,
\* goes on being kept.
LEMMA KeptOn ==
  ASSUME KeepStep
  PROVE  /\ dropped \subseteq dropped' /\ passed \subseteq passed'
         /\ \A i : KeptBy(i, latest, dropped) => KeptBy(i, latest', dropped')
         /\ \A C : CarriedBy(C, latest, dropped) => CarriedBy(C, latest', dropped')
         /\ \A D, E : D \subseteq E =>
              /\ \A i : KeptBy(i, D, dropped) => KeptBy(i, E, dropped')
              /\ \A C : CarriedBy(C, D, dropped) => CarriedBy(C, E, dropped')
<1>1. dropped \subseteq dropped' /\ passed \subseteq passed'
  BY PastStep DEF KeepStep
<1> DEFINE L == latest
           M == latest'
           Y == dropped
           Z == dropped'
<1>2. CarriedBy(L, M, Y) /\ Y \subseteq Z
  BY <1>1 DEF KeepStep
<1> HIDE DEF L, M, Y, Z
<1>3. \A i : KeptBy(i, L, Y) => KeptBy(i, M, Z)
  <2>1. \A i : KeptBy(i, L, Y) => KeptBy(i, M, Y)
    BY <1>2, KeptThrough
  <2> QED BY <1>2, <2>1, KeepsMore
<1>4. \A C : CarriedBy(C, L, Y) => CarriedBy(C, M, Z)
  BY <1>3 DEF CarriedBy
<1>5. ASSUME NEW D, NEW E, D \subseteq E
      PROVE  /\ \A i : KeptBy(i, D, Y) => KeptBy(i, E, Z)
             /\ \A C : CarriedBy(C, D, Y) => CarriedBy(C, E, Z)
  BY <1>2, <1>5, KeepsMore
<1> QED BY <1>1, <1>3, <1>4, <1>5 DEF L, M, Y, Z

LEMMA KeepsHandling == KeepStep => HandlesAll'
<1> SUFFICES ASSUME KeepStep, NEW b \in Boxes, box'[b].pc \in {"barrier", "archive"},
                    NEW f \in box'[b].local
             PROVE  Handled(f, box'[b].db, box'[b].queued, passed', dropped')
  BY DEF HandlesAll
<1> USE DEF KeepStep
<1>0. box[b].local \subseteq Loads /\ box[b].queued \subseteq Loads /\ box[b].defer \in BOOLEAN
  BY NamesOfTypes, ItemTypes DEF Places, BoxType
<1>1. ASSUME box[b].pc = box'[b].pc, box'[b].db = box[b].db, box'[b].local = box[b].local,
             box'[b].queued = box[b].queued
      PROVE  Handled(f, box'[b].db, box'[b].queued, passed', dropped')
  <2>1. Handled(f, box[b].db, box[b].queued, passed, dropped)
    BY <1>1 DEF HandlesAll
  <2> QED BY <1>1, <2>1, KeptOn DEF Handled
<1>2. CASE box'[b] = box[b]
  BY <1>1, <1>2
<1>3. CASE Stays(b)
  BY <1>1, <1>3 DEF Stays
<1>4. CASE Harvests(b)
  <2> DEFINE D == box[b].db
             L == box[b].local
             Y == dropped
             Q == box'[b].queued
  <2>1. /\ Sane(D, {}, Y) /\ L \subseteq Loads /\ f \in L /\ f \in Loads
        /\ Q \subseteq Candidates(D, L)
    <3>1. box[b].queued = {}
      BY <1>4 DEF Harvests, Moves, Places, Unlaunched
    <3> QED BY <1>0, <1>4, <3>1 DEF Harvests, ToHarvest, Databases, Sanes
  <2>2. /\ box'[b].db = D \union {Harvested(g) : g \in Q}
        /\ passed' = passed \union Years({g \in L : Untracked(D, g)})
        /\ dropped' = Y \union Years(Candidates(D, L) \ Q)
    BY <1>4 DEF Harvests, Looked, ToHarvest
  <2>3. KeptBy(Rows(f), D, Y) => KeptBy(Rows(f), box'[b].db, dropped')
    BY <2>2, KeptOn
  <2> HIDE DEF D, L, Y
  <2>4. \/ Untracked(D, f)
        \/ KeptBy(Rows(f), D, Y)
        \/ \E g \in Candidates(D, L) : g = f \/ Newer(g, f)
    BY <2>1, LookedAt
  <2>5. CASE Untracked(D, f)
    BY <2>1, <2>2, <2>5 DEF Handled, Years
  <2>6. CASE KeptBy(Rows(f), D, Y)
    BY <2>3, <2>6 DEF Handled
  <2>7. ASSUME NEW g \in Candidates(D, L), g = f \/ Newer(g, f)
        PROVE  Handled(f, box'[b].db, Q, passed', dropped')
    <3>1. CASE g \in Q
      BY <2>7, <3>1 DEF Handled
    <3>2. CASE g \notin Q
      <4>1. Year(g) \in dropped' /\ Year(f) = Year(g)
        BY <2>2, <2>7, <3>2 DEF Years, Newer
      <4>2. Dropped(Rows(f), dropped')
        BY <2>1, <4>1, RowsAreOf DEF Dropped
      <4> QED BY <4>2 DEF Handled, KeptBy
    <3> QED BY <3>1, <3>2
  <2> QED BY <2>4, <2>5, <2>6, <2>7
<1>5. CASE Ingests(b)
  <2>1. PICK ok \in SUBSET box[b].queued :
          \E w \in SUBSET (box[b].queued \ ok) :
            /\ box'[b].db = Ingested(box[b].db, ok, w, box[b].defer)
            /\ dropped' = dropped \union Years(box[b].queued \ ok)
    BY <1>5 DEF Ingests
  <2>2. PICK w \in SUBSET (box[b].queued \ ok) :
          /\ box'[b].db = Ingested(box[b].db, ok, w, box[b].defer)
          /\ dropped' = dropped \union Years(box[b].queued \ ok)
    BY <2>1
  <2> DEFINE D == box[b].db
             Q == box[b].queued
             P == passed
             Y == dropped
             d == box[b].defer
  <2>3. /\ Sane(D, Q, Y) /\ QueueFits(D, Q) /\ Q \subseteq Loads /\ d \in BOOLEAN
        /\ ok \subseteq Q /\ w \subseteq Q \ ok
    BY <1>0, <1>5 DEF Ingests, Moves, Databases, Sanes, Queues
  <2>4. f \in Loads /\ Handled(f, D, Q, P, Y)
    BY <1>0, <1>5 DEF Ingests, Moves, HandlesAll
  <2>5. /\ box'[b].db = Ingested(D, ok, w, d) /\ dropped' = Y \union Years(Q \ ok)
        /\ box'[b].queued = {} /\ passed' = P
    BY <1>5, <2>2 DEF Ingests
  <2> HIDE DEF D, Q, P, Y, d
  <2>6. Handled(f, Ingested(D, ok, w, d), {}, P, Y \union Years(Q \ ok))
    BY <2>3, <2>4, IngestedFits
  <2> QED BY <2>5, <2>6
<1>6. ~Arrives(b) /\ ~Ends(b) /\ \A p \in {"harvest", "drain", "build", "failed"} : ~Pulls(b, p)
  BY DEF Arrives, Ends, Pulls, Moves
<1>7. box'[b] = box[b] \/ Kind(b)
  BY StepKinds, KindIsAlone
<1> QED BY <1>2, <1>3, <1>4, <1>5, <1>6, <1>7 DEF Kind

\* While a box harvests or archives, the snapshot has what was archived.
LEMMA ArchivedAlone ==
  ASSUME KeepStep, NEW b \in Boxes, box[b].pc \in {"harvest", "archive"}
  PROVE  HasArchived(latest)
  BY DEF KeepStep, ArchivedSafe, OneBox, Up, Saving

\* What the harvester finds in the local directory is in the snapshot, or
\* its year is passed over or given up.
LEMMA FoundInSnapshot ==
  ASSUME KeepStep, NEW b \in Boxes, box[b].pc = "harvest", Looked(b, ToHarvest(b)),
         NEW f \in box[b].local
  PROVE  Year(f) \in passed' \/ KeptBy(Rows(f), latest, dropped')
<1> DEFINE D == box[b].db
           L == box[b].local
           Y == dropped
<1>1. Sane(D, {}, Y) /\ L \subseteq Loads /\ f \in L /\ f \in Loads
  <2>1. box[b].queued = {}
    BY DEF KeepStep, Places, Unlaunched
  <2>2. L \subseteq Loads
    BY NamesOfTypes, ItemTypes DEF KeepStep, Places, BoxType
  <2> QED BY <2>1, <2>2 DEF KeepStep, Databases, Sanes
<1>2. /\ passed' = passed \union Years({g \in L : Untracked(D, g)})
      /\ dropped' = Y \union Years(Candidates(D, L))
      /\ D = latest
  BY DEF Looked, ToHarvest, KeepStep, AsPulled
<1>3. KeptBy(Rows(f), D, Y) => KeptBy(Rows(f), latest, dropped')
  BY <1>2, KeptOn
<1> HIDE DEF D, L, Y
<1>4. \/ Untracked(D, f)
      \/ KeptBy(Rows(f), D, Y)
      \/ \E g \in Candidates(D, L) : g = f \/ Newer(g, f)
  BY <1>1, LookedAt
<1>5. CASE Untracked(D, f)
  BY <1>1, <1>2, <1>5 DEF Years
<1>6. CASE KeptBy(Rows(f), D, Y)
  BY <1>3, <1>6
<1>7. ASSUME NEW g \in Candidates(D, L), g = f \/ Newer(g, f)
      PROVE  KeptBy(Rows(f), latest, dropped')
  <2>1. Year(g) \in dropped' /\ Year(f) = Year(g)
    BY <1>2, <1>7 DEF Years, Newer
  <2>2. Dropped(Rows(f), dropped')
    BY <1>1, <2>1, RowsAreOf DEF Dropped
  <2> QED BY <2>2 DEF KeptBy
<1> QED BY <1>4, <1>5, <1>6, <1>7

LEMMA KeepsArchived == KeepStep => ArchivedSafe'
<1> SUFFICES ASSUME KeepStep PROVE ArchivedSafe'
  OBVIOUS
<1>1. CASE archived' = archived
  <2>1. CASE HasArchived(latest)
    BY <1>1, <2>1, KeptOn DEF HasArchived, ArchivedSafe
  <2>2. ASSUME NEW b \in Boxes, box[b].pc \in Saving, HasArchived(box[b].db)
        PROVE  ArchivedSafe'
    <3>1. CASE latest' = box[b].db
      BY <1>1, <2>2, <3>1, KeptOn DEF HasArchived, ArchivedSafe
    <3>2. CASE box'[b].pc \in Saving /\ box'[b].db = box[b].db
      BY <1>1, <2>2, <3>2, KeptOn DEF HasArchived, ArchivedSafe
    <3> QED BY <2>2, <3>1, <3>2, SavingGoesOn DEF KeepStep
  <2> QED BY <2>1, <2>2 DEF KeepStep, ArchivedSafe
<1>2. ASSUME NEW b \in Boxes, NothingNew(b) \/ SummaryLost(b)
      PROVE  ArchivedSafe'
  <2>1. /\ box[b].pc = "harvest" /\ Looked(b, ToHarvest(b)) /\ latest' = latest
        /\ archived' \subseteq archived \union box[b].local
    BY <1>2 DEF NothingNew, SummaryLost, ArchiveInbox
  <2>2. HasArchived(latest)
    BY <2>1, ArchivedAlone
  <2>3. ASSUME NEW f \in archived'
        PROVE  Year(f) \in passed' \/ KeptBy(Rows(f), latest', dropped')
    <3>1. CASE f \in archived
      BY <2>1, <2>2, <3>1, KeptOn DEF HasArchived
    <3>2. CASE f \in box[b].local
      BY <2>1, <3>2, FoundInSnapshot
    <3> QED BY <2>1, <2>3, <3>1, <3>2
  <2> QED BY <2>3 DEF HasArchived, ArchivedSafe
<1>3. ASSUME NEW b \in Boxes, Archive(b)
      PROVE  ArchivedSafe'
  <2>1. /\ box[b].pc = "archive" /\ box'[b].pc = "build" /\ box'[b].db = box[b].db
        /\ archived' \subseteq archived \union box[b].local
    BY <1>3, LateSteps DEF KeepStep, Moves, Archive, ArchiveInbox
  <2>2. HasArchived(latest)
    BY <2>1, ArchivedAlone
  <2>3. ASSUME NEW f \in archived'
        PROVE  Year(f) \in passed' \/ KeptBy(Rows(f), box'[b].db, dropped')
    <3>1. CASE f \in archived
      <4>1. CarriedBy(latest, box[b].db, dropped)
        BY <2>1 DEF KeepStep, HasSnapshot, Loaded
      <4>2. Year(f) \in passed \/ KeptBy(Rows(f), box[b].db, dropped)
        BY <2>2, <3>1, <4>1, KeptThrough DEF HasArchived
      <4> QED BY <2>1, <4>2, KeptOn
    <3>2. CASE f \in box[b].local
      <4>1. Handled(f, box[b].db, box[b].queued, passed, dropped) /\ box[b].queued = {}
        BY <2>1, <3>2 DEF KeepStep, HandlesAll, Places, Unlaunched
      <4> QED BY <2>1, <4>1, KeptOn DEF Handled
    <3> QED BY <2>1, <2>3, <3>1, <3>2
  <2> QED BY <2>1, <2>3 DEF HasArchived, ArchivedSafe, Saving
<1> QED BY <1>1, <1>2, <1>3, WhoWrites DEF KeepStep

\* Items on their way stay so.
LEMMA StaysOnItsWay ==
  ASSUME KeepStep, NEW pcs \in {{"image", "save"}, {"save"}}, NEW items, OnItsWay(items, pcs)
  PROVE  \/ CarriedBy(items, latest', dropped')
         \/ \E b \in Boxes, c \in Commands :
              Promoting(b, c, pcs)' /\ CarriedBy(items, box'[b].db, dropped')
<1>1. CASE CarriedBy(items, latest, dropped)
  BY <1>1, KeptOn
<1>2. ASSUME NEW b \in Boxes, NEW c \in Commands, Promoting(b, c, pcs),
             CarriedBy(items, box[b].db, dropped)
      PROVE  \/ CarriedBy(items, latest', dropped')
             \/ Promoting(b, c, pcs)' /\ CarriedBy(items, box'[b].db, dropped')
  <2>1. \/ Promoting(b, c, pcs)' /\ box[b].db \subseteq box'[b].db
        \/ latest' = box[b].db
    BY <1>2, PromotingGoesOn DEF KeepStep
  <2>2. CASE latest' = box[b].db
    BY <1>2, <2>2, KeptOn
  <2>3. CASE Promoting(b, c, pcs)' /\ box[b].db \subseteq box'[b].db
    BY <1>2, <2>3, KeptOn
  <2> QED BY <2>1, <2>2, <2>3
<1> QED BY <1>1, <1>2 DEF OnItsWay

LEMMA KeepsKey == KeepStep => KeySafe'
<1> SUFFICES ASSUME KeepStep PROVE KeySafe'
  OBVIOUS
<1>1. CASE prodKey' = prodKey
  BY <1>1, StaysOnItsWay DEF KeepStep, KeySafe, OnItsWay
<1>2. ASSUME NEW b \in Boxes, NEW c \in Commands, UploadKey(b, c)
      PROVE  KeySafe'
  <2>1. /\ command[c].on = {b} /\ command[c].pc = "key"
        /\ To(c, "image") /\ "image" \in CommandPcs
        /\ prodKey' = box[b].file /\ box' = box
    BY <1>2 DEF UploadKey, Runs, CommandPcs
  <2>2. command[c].kind = "promote"
    BY <2>1 DEF KeepStep, Places, CommandsInReview, CommandOff
  <2>3. Promoting(b, c, {"image", "save"})'
    BY <2>1, <2>2, CommandTypes DEF KeepStep, Promoting
  <2>4. CarriedBy(prodKey', box'[b].db, dropped')
    BY <2>1, HasAll DEF KeepStep, Places, FileIsOfDb
  <2> QED BY <2>3, <2>4 DEF KeySafe, OnItsWay
<1> QED BY <1>1, <1>2, WhoWrites DEF KeepStep

LEMMA KeepsProd == KeepStep => ProdSafe'
<1> SUFFICES ASSUME KeepStep PROVE ProdSafe'
  OBVIOUS
<1>1. CASE prod' = prod
  BY <1>1, StaysOnItsWay DEF KeepStep, ProdSafe, OnItsWay
<1>2. ASSUME NEW b \in Boxes, NEW c \in Commands, PromoteImage(b, c)
      PROVE  ProdSafe'
  <2>1. /\ command[c].on = {b} /\ command[c].kind = "promote"
        /\ To(c, "save") /\ "save" \in CommandPcs
        /\ prod' = box[b].file /\ box' = box
    BY <1>2 DEF PromoteImage, Runs, CommandPcs
  <2>2. Promoting(b, c, {"save"})'
    BY <2>1, CommandTypes DEF KeepStep, Promoting
  <2>3. CarriedBy(prod', box'[b].db, dropped')
    BY <2>1, HasAll DEF KeepStep, Places, FileIsOfDb
  <2> QED BY <2>2, <2>3 DEF ProdSafe, OnItsWay
<1> QED BY <1>1, <1>2, WhoWrites DEF KeepStep

\* What production serves is in the database of the box under review.
LEMMA ProdIsOnBox ==
  ASSUME KeepStep, NEW b \in Boxes, box[b].pc = "review"
  PROVE  CarriedBy(prod, box[b].db, dropped)
<1>1. CarriedBy(latest, box[b].db, dropped)
  BY DEF KeepStep, HasSnapshot, Loaded
<1>2. ASSUME NEW d \in Boxes, NEW c \in Commands, Promoting(d, c, {"save"})
      PROVE  d = b
  <2>1. box[d].pc = "review"
    BY <1>2, CommandTypes DEF KeepStep, Promoting
  <2> QED BY <2>1 DEF KeepStep, OneBox, Up
<1>3. CASE CarriedBy(prod, latest, dropped)
  BY <1>1, <1>3, CarriedThrough
<1> QED BY <1>2, <1>3 DEF KeepStep, ProdSafe, OnItsWay

LEMMA KeepsFiles == KeepStep => FileWhole'
<1> SUFFICES ASSUME KeepStep, NEW b \in Boxes, NEW c \in Commands, command'[c].on = {b},
                    command'[c].pc \in {"key", "image"}, box'[b].by = c
             PROVE  CarriedBy(prod', box'[b].file, dropped')
  BY DEF FileWhole
<1>0. box \in [Boxes -> BoxType] /\ command \in [Commands -> CommandType]
  BY NamesOfTypes DEF KeepStep, Places
\* The command was on this box before, which was under review.
<1>1. command[c].on = {b} /\ box[b].pc = "review" /\ ~Teardown(b) /\ ~WatchdogEnds(b)
  <2>1. \A d \in Boxes, k \in {"promote", "preview"} : ~Click(d, c, k)
    BY ClickStep DEF KeepStep
  <2>2. ASSUME NEW d \in Boxes, Teardown(d) \/ WatchdogEnds(d)
        PROVE  command[c].on # {d} /\ d # b
    <3>1. command' = [e \in Commands |-> IF command[e].on = {d} THEN CommandOff ELSE command[e]]
      BY <2>2 DEF Teardown, WatchdogEnds, Gone
    <3>2. command[c].on # {d}
      BY <3>1 DEF CommandOff
    <3> QED BY <3>1, <3>2
  <2>3. ASSUME NEW d \in Boxes, Command(d, c)
        PROVE  d = b
    <3>1. Turns(d, c)
      BY <2>3, CommandSteps DEF KeepStep
    <3> QED BY <3>1 DEF Turns, CommandOff
  <2>4. command[c].on = {b}
    <3>1. CASE command'[c] = command[c]
      BY <3>1
    <3>2. ASSUME NEW d \in Boxes, Command(d, c) PROVE command[c].on = {b}
      BY <2>3, <3>2, CommandSteps DEF KeepStep
    <3> QED BY <2>1, <2>2, <3>1, <3>2, StepOfCommand DEF KeepStep
  <2> QED BY <2>2, <2>4, CommandTypes DEF KeepStep
<1>2. CASE \E d \in Boxes, e \in Commands : PromoteImage(d, e)
  <2>1. PICK d \in Boxes, e \in Commands : PromoteImage(d, e)
    BY <1>2
  <2>2. box' = box /\ prod' = box[d].file /\ command[e].on = {d}
    BY <2>1 DEF PromoteImage, Runs
  <2>3. box[d].pc = "review"
    BY <2>2, CommandTypes DEF KeepStep
  <2>4. d = b
    BY <1>1, <2>3 DEF KeepStep, OneBox, Up
  <2> QED BY <2>2, <2>4, HasAll
<1>3. CASE BuildEnd(b, c) /\ box[b].by = c
  <2>1. box'[b].file = box[b].db /\ prod' = prod
    BY <1>0, <1>3 DEF BuildEnd
  <2>2. CarriedBy(prod, box[b].db, dropped)
    BY <1>1, ProdIsOnBox
  <2> QED BY <2>1, <2>2, KeptOn
<1>4. CASE /\ ~(BuildEnd(b, c) /\ box[b].by = c) /\ prod' = prod
           /\ box'[b].file = box[b].file /\ box'[b].by = box[b].by
  <2>1. command[c].pc \in {"key", "image"}
    <3>1. CASE command'[c] = command[c]
      BY <3>1
    <3>2. ASSUME NEW d \in Boxes, Command(d, c), command[c].pc \notin {"key", "image"}
          PROVE  FALSE
      <4>1. d = b
        BY <1>1, <3>2, CommandSteps DEF KeepStep
      <4>2. ~BuildEnd(b, c) /\ ~UploadKey(b, c) /\ ~PromoteImage(b, c) /\ ~PreviewImage(b, c)
        BY <1>4, <3>2 DEF UploadKey, PromoteImage, PreviewImage, Runs
      <4>3. CASE CommandFails(b, c) \/ PromoteSave(b, c)
        BY <1>0, <4>3 DEF CommandFails, PromoteSave, To, CommandOff
      <4>4. CASE BuildStart(b, c)
        BY <1>0, <4>4 DEF BuildStart, To, CommandType
      <4> QED BY <3>2, <4>1, <4>2, <4>3, <4>4 DEF Command
    <3>3. \A d \in Boxes, k \in {"promote", "preview"} : ~Click(d, c, k)
      BY ClickStep DEF KeepStep
    <3>4. \A d \in Boxes : command[c].on = {d} => ~Teardown(d) /\ ~WatchdogEnds(d)
      BY <1>1
    <3> QED BY <3>1, <3>2, <3>3, <3>4, StepOfCommand DEF KeepStep
  <2>2. CarriedBy(prod, box[b].file, dropped)
    BY <1>1, <1>4, <2>1 DEF KeepStep, FileWhole
  <2> QED BY <1>4, <2>2, KeptOn
<1>5. ASSUME NEW e \in Commands, BuildStart(b, e) \/ (BuildEnd(b, e) /\ box[b].by = e)
      PROVE  e = c /\ ~BuildStart(b, e)
  <2>1. box'[b].by = e
    <3>1. CASE BuildStart(b, e)
      BY <1>0, <3>1 DEF BuildStart, BoxType
    <3>2. CASE BuildEnd(b, e) /\ box[b].by = e
      BY <1>0, <3>2 DEF BuildEnd, BoxType
    <3> QED BY <1>5, <3>1, <3>2
  <2>2. ~BuildStart(b, c)
    BY <1>0 DEF BuildStart, To, CommandType
  <2> QED BY <2>1, <2>2
<1>6. /\ prod' = prod \/ \E d \in Boxes, e \in Commands : PromoteImage(d, e)
      /\ \/ box'[b].file = box[b].file /\ box'[b].by = box[b].by
         \/ \E e \in Commands : BuildStart(b, e) \/ (BuildEnd(b, e) /\ box[b].by = e)
  BY <1>1, WhoWrites, ReviewGoesOn DEF KeepStep
<1> QED BY <1>2, <1>3, <1>4, <1>5, <1>6

LEMMA StepKeeping == Places /\ Databases /\ Lineage /\ Keeping /\ [Next]_vars => Keeping'
<1> SUFFICES ASSUME Places, Databases, Lineage, Keeping, [Next]_vars, Unbroken'
             PROVE  (HandlesAll /\ ArchivedSafe /\ KeySafe /\ ProdSafe /\ FileWhole)'
  BY DEF Keeping
<1>1. Unbroken /\ ~cut' /\ ~blank'
  BY NeverUnbroken DEF Unbroken
<1>2. CASE Next
  <2>1. CarriedBy(latest, latest', dropped)
    BY StepLineage
  <2>2. KeepStep
    BY <1>1, <1>2, <2>1 DEF KeepStep, Lineage, Keeping
  <2> QED BY <2>2, KeepsHandling, KeepsArchived, KeepsKey, KeepsProd, KeepsFiles
<1>3. CASE UNCHANGED vars
  <2>1. UNCHANGED <<archived, latest, prodKey, prod, box, command, passed, dropped>>
    BY <1>3 DEF vars, s3, past
  <2>2. HandlesAll' /\ ArchivedSafe'
    BY <1>1, <2>1 DEF Keeping, HandlesAll, ArchivedSafe, HasArchived
  <2>3. KeySafe' /\ ProdSafe'
    BY <1>1, <2>1 DEF Keeping, KeySafe, ProdSafe, OnItsWay, Promoting
  <2>4. FileWhole'
    BY <1>1, <2>1 DEF Keeping, FileWhole
  <2> QED BY <2>2, <2>3, <2>4
<1> QED BY <1>2, <1>3

LEMMA AlwaysKeeping == Spec => [](Places /\ Databases /\ Lineage /\ Keeping)
<1>1. Init => Places /\ Databases /\ Lineage /\ Keeping
  BY InitPlaces, InitDatabases, InitLineage, InitKeeping
<1>2. Places /\ Databases /\ Lineage /\ Keeping /\ [Next]_vars
        => (Places /\ Databases /\ Lineage /\ Keeping)'
  BY StepPlaces, StepDatabases, StepLineage, StepKeeping
<1> QED BY <1>1, <1>2, PTL DEF Spec

\* A file that is out of the inbox is in the snapshot or on a box that is up,
\* or a newer quarter of its year is: archive_inbox moves whatever was in the
\* local directory, and what the harvester did not queue was in the snapshot
\* already, or is of a year it passed over or gave up.
THEOREM ArchivedStays == Spec => []ArchivedIsKept
<1>1. ASSUME ArchivedSafe PROVE \A f \in archived : Year(f) \in passed \/ Safe(Rows(f))
  BY <1>1, KeptIsKeptBy DEF ArchivedSafe, HasArchived, Safe, UpBoxes, Up, Saving
<1>2. Keeping => ArchivedIsKept
  BY <1>1 DEF Keeping, ArchivedIsKept
<1> QED BY <1>2, AlwaysKeeping, PTL

\* What ec2-promote.sh put under production's key is in the snapshot, or on
\* the box whose promote is about to save it, however many commands run, but
\* for rows that a newer quarter has replaced.
THEOREM PromotedStays == Spec => []PromotedIsKept
<1>1. ASSUME Places, KeySafe, NEW i \in prodKey PROVE Safe(i)
  <2>1. CASE CarriedBy(prodKey, latest, dropped)
    BY <2>1, KeptIsKeptBy DEF CarriedBy, Safe
  <2>2. ASSUME NEW b \in Boxes, NEW c \in Commands, Promoting(b, c, {"image", "save"}),
               CarriedBy(prodKey, box[b].db, dropped)
        PROVE  Safe(i)
    <3>1. box[b].pc = "review"
      BY <1>1, <2>2, CommandTypes DEF Promoting
    <3> QED BY <2>2, <3>1, KeptIsKeptBy DEF CarriedBy, Safe, UpBoxes, Up
  <2> QED BY <1>1, <2>1, <2>2 DEF KeySafe, OnItsWay
<1>2. Places /\ Keeping => PromotedIsKept
  BY <1>1 DEF Keeping, PromotedIsKept
<1> QED BY <1>2, AlwaysKeeping, PTL

\* Production goes on serving what it has served, but for rows that a newer
\* quarter has replaced: the lca.db a promote takes its image from was built
\* on a box that has all of it, if no other command has begun to build that
\* file again.
THEOREM ProdNeverShrinks == Spec => ProdGrows
<1> DEFINE LastBuilt ==
      \A b \in Boxes, c \in Commands :
        Runs(b, c, "image") /\ command'[c].pc = "save" => box[b].by = c
<1>1. ASSUME Places, Keeping, [Next]_vars, Unbroken', LastBuilt
      PROVE  Carried(prod, prod')
  <2>1. FileWhole
    BY <1>1, NeverUnbroken DEF Keeping
  <2>2. ASSUME NEW b \in Boxes, NEW c \in Commands, PromoteImage(b, c)
        PROVE  CarriedBy(prod, prod', dropped)
    <3>1. /\ prod' = box[b].file /\ Runs(b, c, "image") /\ To(c, "save")
          /\ "save" \in CommandPcs /\ command[c].kind = "promote"
      BY <2>2 DEF PromoteImage, CommandPcs
    <3>2. command'[c].pc = "save"
      BY <1>1, <3>1, CommandTypes DEF Runs
    <3> QED BY <1>1, <2>1, <3>1, <3>2 DEF FileWhole, Runs
  <2>3. prod' = prod => CarriedBy(prod, prod', dropped)
    BY HasAll
  <2>4. prod' = prod \/ \E b \in Boxes, c \in Commands : PromoteImage(b, c)
    BY <1>1, WhoWrites DEF vars
  <2> QED BY <2>2, <2>3, <2>4, KeptIsKeptBy
<1>2. Places /\ Keeping /\ [Next]_vars
        => [Unbroken' /\ LastBuilt => Carried(prod, prod')]_vars
  BY <1>1
<1> QED BY <1>2, AlwaysKeeping, PTL DEF Spec, ProdGrows
=============================================================================
