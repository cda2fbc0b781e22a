--------------------------- MODULE SummariesProofs ---------------------------
(***************************************************************************)
(* What TLAPS proves of Summaries for every finite set of pages, any data, *)
(* and any number of builds, runs and errors.                              *)
(***************************************************************************)
EXTENDS Summaries, SequencesExt, FiniteSetTheorems, TLAPS

-----------------------------------------------------------------------------
(* Lists of distinct things.                                               *)

Distinct(list) == \A i, j \in DOMAIN list : list[i] = list[j] => i = j

\* The members of a finite set in some order: each of them once, and nothing
\* else (an ORDER BY that leaves ties open).
LEMMA OrderIsOnto ==
  ASSUME NEW S, IsFiniteSet(S), NEW order \in SetToSeqs(S)
  PROVE  /\ order \in Seq(S) /\ Distinct(order)
         /\ \A p \in S : \E i \in DOMAIN order : order[i] = p
  <1> DEFINE D == 1..Cardinality(S)
  <1>1. Cardinality(S) \in Nat
    BY FS_CardinalityType
  <1>2. order \in [D -> S] /\ \A i, j \in D : i # j => order[i] # order[j]
    BY DEF SetToSeqs
  <1>3. order \in Injection(D, S)
    BY <1>2 DEF Injection, IsInjective
  <1>4. IsFiniteSet(D) /\ Cardinality(D) = Cardinality(S)
    BY <1>1, FS_Interval
  <1>5. order \in Surjection(D, S)
    BY <1>3, <1>4, FS_Injection
  <1> QED
    BY <1>1, <1>2, <1>5 DEF Surjection, Distinct

\* A part of a list has no more members than positions.
LEMMA NoMoreThanPositions ==
  ASSUME NEW S, NEW list \in Seq(S), NEW I \in SUBSET DOMAIN list
  PROVE  /\ IsFiniteSet(I) /\ IsFiniteSet({list[i] : i \in I})
         /\ Cardinality({list[i] : i \in I}) <= Cardinality(I)
         /\ Cardinality(DOMAIN list \ I) = Len(list) - Cardinality(I)
  <1> DEFINE T == {list[i] : i \in I}  f == [i \in I |-> list[i]]
  <1>1. /\ IsFiniteSet(DOMAIN list)
        /\ Cardinality(DOMAIN list) = Len(list)
    <2>1. DOMAIN list = 1..Len(list) /\ Len(list) \in Nat
      OBVIOUS
    <2>2. \A n \in Nat : IsFiniteSet(1..n) /\ Cardinality(1..n) = n
      BY FS_Interval
    <2> QED
      BY <2>1, <2>2
  <1>2. IsFiniteSet(I)
    BY <1>1, FS_Subset
  <1>3. f \in Surjection(I, T)
    BY DEF Surjection
  <1>4. IsFiniteSet(T) /\ Cardinality(T) <= Cardinality(I)
    BY <1>2, <1>3, FS_Surjection
  <1>5. DOMAIN list \intersect I = I
    OBVIOUS
  <1>6. Cardinality(DOMAIN list \ I) = Cardinality(DOMAIN list) - Cardinality(I)
    <2> DEFINE D == DOMAIN list
    <2>1. IsFiniteSet(D) /\ D \intersect I = I
      BY <1>1, <1>5
    <2>2. Cardinality(D \ I) = Cardinality(D) - Cardinality(D \intersect I)
      <3> HIDE DEF D, T, f
      <3> QED
        BY <2>1, FS_Difference
    <2> HIDE DEF D
    <2>3. Cardinality(D \ I) = Cardinality(D) - Cardinality(I)
      BY <2>1, <2>2
    <2> QED
      BY <2>3 DEF D
  <1> QED
    BY <1>1, <1>2, <1>4, <1>6

-----------------------------------------------------------------------------
\* The generator asks about pages of the file only.
AskedIsInFile == \A i \in DOMAIN run.todo : run.todo[i] \in DOMAIN data

RunIsRecord ==
  run = [pc |-> run.pc, todo |-> run.todo, answers |-> run.answers,
         ended |-> run.ended, capped |-> run.capped]

TypeInv == TypeOK /\ AskedIsInFile /\ RunIsRecord

\* The answers that are in the file already, and the pages still to be written.
Written == IF run.pc = "sync" \/ run.pc = "done" THEN run.answers ELSE {}
Left == {run.todo[i] : i \in DOMAIN run.todo \ Written}

\* While the generator is at work on all the changed pages, a page has its
\* text or is still to be written.
NoneIsForgotten ==
  run.pc \in {"stub", "sync", "batch", "done"} /\ ~run.capped =>
    \A p \in DOMAIN data : Current(p) \/ p \in Left

-----------------------------------------------------------------------------
(* A text is its page's own.                                               *)

OwnTexts(t) == \A p \in DOMAIN t : t[p].page = p /\ t[p].hash = Hash(t[p].from)

LEMMA TextOfPage ==
  ASSUME NEW p, NEW by
  PROVE  Text(p, by).page = p /\ Text(p, by).hash = Hash(Text(p, by).from)
  BY DEF Text

LEMMA PutKeepsOwn ==
  ASSUME NEW t, OwnTexts(t), NEW p, NEW by
  PROVE  OwnTexts(Put(t, p, Text(p, by)))
  BY TextOfPage DEF OwnTexts, Put

\* A page's text is about that page and made from data of its hash
\* (generate-summaries.ts: seeding, batches with gaps, upserts by page).
THEOREM TextsAreOwn == Spec => []TextIsOwn
  <1> DEFINE Own == OwnTexts(text) /\ OwnTexts(last) /\ OwnTexts(site.text)
  <1>1. Own <=> TextIsOwn
    BY DEF OwnTexts, TextIsOwn
  <1>2. Init => Own
    BY DEF Init, None, OwnTexts
  <1>3. Own /\ [Next]_vars => Own'
    <2> SUFFICES ASSUME Own, [Next]_vars PROVE Own'
      OBVIOUS
    <2>1. CASE BuildDb
      BY <2>1 DEF BuildDb, None, OwnTexts
    <2>2. ASSUME NEW mode, NEW seed, NEW limit, Start(mode, seed, limit) PROVE Own'
      BY <2>2 DEF Start, Seeded, OwnTexts
    <2>3. CASE Stub
      <3>1. OwnTexts(text')
        BY <2>3, TextOfPage DEF Stub, OwnTexts
      <3> QED
        BY <2>3, <3>1 DEF Stub, Generating
    <2>4. ASSUME NEW i, Answer(i) PROVE Own'
      <3>1. OwnTexts(text')
        BY <2>4, PutKeepsOwn DEF Answer
      <3> QED
        BY <2>4, <3>1 DEF Answer, Generating
    <2>5. ASSUME NEW i, NoAnswer(i) PROVE Own'
      BY <2>5 DEF NoAnswer, Generating
    <2>6. CASE WriteBatch
      <3>1. ASSUME NEW p \in DOMAIN text' 
            PROVE  text'[p].page = p /\ text'[p].hash = Hash(text'[p].from)
        <4>1. CASE \E i \in run.answers : run.todo[i] = p
          <5> DEFINE k == CHOOSE i \in run.answers : run.todo[i] = p
          <5>1. run.todo[k] = p
            BY <4>1
          <5>2. text'[p] = AnswerTo(k)
            BY <2>6, <3>1, <4>1 DEF WriteBatch
          <5> QED
            BY <5>1, <5>2, TextOfPage DEF AnswerTo
        <4>2. CASE ~ \E i \in run.answers : run.todo[i] = p
          <5>1. p \in DOMAIN text /\ text'[p] = text[p]
            BY <2>6, <3>1, <4>2 DEF WriteBatch
          <5> QED
            BY <5>1 DEF OwnTexts
        <4> QED
          BY <4>1, <4>2
      <3> QED
        BY <2>6, <3>1 DEF WriteBatch, Generating, OwnTexts
    <2>7. CASE SyncEnds
      BY <2>7 DEF SyncEnds, Generating
    <2>8. CASE Stops
      BY <2>8 DEF Stops
    <2>9. ASSUME NEW keep, Upload(keep) PROVE Own'
      BY <2>9 DEF Upload
    <2>10. CASE UploadBare
      BY <2>10 DEF UploadBare
    <2>11. CASE Dies
      BY <2>11 DEF Dies, Generating
    <2>12. CASE UNCHANGED vars
      BY <2>12 DEF vars
    <2> QED
      BY <2>1, <2>2, <2>3, <2>4, <2>5, <2>6, <2>7, <2>8, <2>9, <2>10, <2>11, <2>12
      DEF Next
  <1> QED
    BY <1>1, <1>2, <1>3, PTL DEF Spec

-----------------------------------------------------------------------------
(* Types.                                                                  *)

Pcs == {"off", "built", "stub", "sync", "batch", "done"}
\* The parts of TypeOK and what goes with them.
Tables == IsTable(text) /\ IsTable(last) /\ IsTable(site.text)
Datas == IsData(data) /\ IsData(site.data)
RunType ==
  /\ run.pc \in Pcs /\ run.todo \in Seq(Pages) /\ run.answers \subseteq DOMAIN run.todo
  /\ run.ended \subseteq DOMAIN run.todo
  /\ (run.pc = "done" => run.ended = DOMAIN run.todo)
  /\ RunIsRecord /\ AskedIsInFile
Bounds == builds \in 0..MaxBuilds /\ errors \in 0..MaxErrors

LEMMA TypeParts ==
  TypeInv <=> Tables /\ Datas /\ RunType /\ run.capped \in BOOLEAN /\ Bounds
  BY DEF TypeInv, TypeOK, Tables, Datas, RunType, Pcs, Bounds

LEMMA TextType ==
  ASSUME Datas, NEW p \in DOMAIN data, NEW by \in {"stub", "llm"}
  PROVE  p \in Pages /\ Text(p, by) \in Texts
  BY DEF Datas, IsData, Text, Texts, Hash, Payload

\* The generator is off: it has no list.
LEMMA OffType ==
  ASSUME NEW pc \in {"off", "built"}, run' = [Off EXCEPT !.pc = pc]
  PROVE  RunType' /\ run'.capped \in BOOLEAN
  <1>1. run' = [pc |-> pc, todo |-> <<>>, answers |-> {}, ended |-> {}, capped |-> FALSE]
    BY DEF Off
  <1>2. run'.todo \in Seq(Pages) /\ DOMAIN run'.todo = {}
    <2>1. run'.todo = <<>>
      BY <1>1
    <2>2. <<>> \in Seq(Pages) /\ DOMAIN <<>> = {}
      OBVIOUS
    <2> QED
      BY <2>1, <2>2
  <1>3. /\ run'.pc = pc /\ run'.answers = {} /\ run'.ended = {}
        /\ run'.capped = FALSE
    BY <1>1
  <1>4. RunIsRecord'
    BY <1>1 DEF RunIsRecord
  <1>5. run'.answers \subseteq DOMAIN run'.todo /\ run'.ended = DOMAIN run'.todo
    BY <1>2, <1>3
  <1>6. AskedIsInFile' /\ run'.pc \in Pcs
    BY <1>2, <1>3 DEF AskedIsInFile, Pcs
  <1> QED
    BY <1>2, <1>3, <1>4, <1>5, <1>6 DEF RunType

LEMMA SeededType == ASSUME Tables, NEW seed PROVE IsTable(Seeded(seed))
  BY DEF Tables, Seeded, IsTable

LEMMA StartType ==
  ASSUME TypeInv, NEW mode \in {"stub", "sync", "batch"}, NEW seed, NEW limit \in {0, 1},
         Start(mode, seed, limit)
  PROVE  TypeInv'
  <1>0. Tables /\ Datas /\ Bounds
    BY TypeParts
  <1>1. Tables' /\ Datas' /\ Bounds'
    BY <1>0, SeededType DEF Start, Tables, Datas, Bounds
  <1> DEFINE C == Changed(text')
  <1>2. C \subseteq DOMAIN data /\ C \subseteq Pages
    BY <1>0 DEF Changed, Datas, IsData, Start
  <1>3. IsFiniteSet(C)
    BY <1>2, SummariesAssumption, FS_Subset
  <1>4. PICK order \in SetToSeqs(C) :
          LET capped == limit > 0 /\ Len(order) > limit
              todo == IF capped THEN SubSeq(order, 1, limit) ELSE order IN
            run' = [Off EXCEPT !.pc = IF todo = <<>> THEN "done" ELSE mode,
                               !.todo = todo, !.capped = capped]
    BY DEF Start
  <1> DEFINE capped == limit > 0 /\ Len(order) > limit
             todo == IF capped THEN SubSeq(order, 1, limit) ELSE order
             pc == IF todo = <<>> THEN "done" ELSE mode
  <1> HIDE DEF C
  <1>5. order \in Seq(C)
    BY <1>3, OrderIsOnto
  <1>6. todo \in Seq(C)
    BY <1>5
  <1>7. run' = [pc |-> pc, todo |-> todo, answers |-> {}, ended |-> {}, capped |-> capped]
    BY <1>4 DEF Off
  <1>8. capped \in BOOLEAN
    OBVIOUS
  <1> HIDE DEF capped, todo
  <1>9. todo \in Seq(Pages) /\ \A i \in DOMAIN todo : todo[i] \in DOMAIN data
    BY <1>2, <1>6
  <1>10. pc = "done" => DOMAIN todo = {}
    OBVIOUS
  <1>11. pc \in Pcs
    BY DEF Pcs
  <1> HIDE DEF pc
  <1>12. data' = data
    BY DEF Start
  <1>13. RunType'
    BY <1>7, <1>9, <1>10, <1>11, <1>12 DEF RunType, RunIsRecord, AskedIsInFile
  <1>14. run'.capped = capped
    BY <1>7
  <1>15. run'.capped \in BOOLEAN
    BY <1>8, <1>14, Zenon
  <1> QED
    BY <1>1, <1>13, <1>15
    DEF TypeInv, TypeOK, Tables, Datas, RunType, Pcs, Bounds

LEMMA ListIsPages == TypeInv => ToSet(run.todo) \subseteq DOMAIN data
  BY DEF TypeInv, AskedIsInFile, ToSet

\* The steps that write texts.
LEMMA WritesType ==
  ASSUME TypeInv, \/ Stub \/ WriteBatch
                  \/ \E i \in DOMAIN run.todo : Answer(i)
  PROVE  IsTable(text')
  <1>1. Datas /\ IsTable(text) /\ run.answers \subseteq DOMAIN run.todo
    BY TypeParts DEF Tables, RunType
  <1>2. CASE Stub
    <2>1. ASSUME NEW p \in ToSet(run.todo) PROVE p \in Pages /\ Text(p, "stub") \in Texts
      BY <1>1, ListIsPages, TextType
    <2> QED
      BY <1>1, <1>2, <2>1 DEF Stub, IsTable
  <1>3. CASE WriteBatch
    <2> DEFINE Of(p) == CHOOSE i \in run.answers : run.todo[i] = p
    <2>1. ASSUME NEW i \in DOMAIN run.todo
          PROVE  run.todo[i] \in Pages /\ AnswerTo(i) \in Texts
      BY <1>1, TextType DEF TypeInv, AskedIsInFile, AnswerTo
    <2>2. ASSUME NEW p, \E i \in run.answers : run.todo[i] = p
          PROVE  Of(p) \in DOMAIN run.todo
      BY <1>1, <2>2
    <2>3. {run.todo[i] : i \in run.answers} \subseteq Pages
      BY <1>1, <2>1
    <2>4. text' = [p \in DOMAIN text \union {run.todo[i] : i \in run.answers} |->
             IF \E i \in run.answers : run.todo[i] = p THEN AnswerTo(Of(p)) ELSE text[p]]
      BY <1>3 DEF WriteBatch
    <2> HIDE DEF Of
    <2> QED
      BY <1>1, <2>1, <2>2, <2>3, <2>4 DEF IsTable
  <1>4. ASSUME NEW i \in DOMAIN run.todo, Answer(i) PROVE IsTable(text')
    <2>1. run.todo[i] \in Pages /\ Text(run.todo[i], "llm") \in Texts
      BY <1>1, TextType DEF TypeInv, AskedIsInFile
    <2> QED
      BY <1>1, <1>4, <2>1 DEF Answer, Put, IsTable
  <1> QED
    BY <1>2, <1>3, <1>4

LEMMA InitTypes == Init => TypeInv
  <1> SUFFICES ASSUME Init PROVE TypeInv
    OBVIOUS
  <1>1. run = [pc |-> "off", todo |-> <<>>, answers |-> {}, ended |-> {}, capped |-> FALSE]
    BY DEF Init, Off
  <1>2. run.todo = <<>> /\ DOMAIN run.todo = {} /\ run.pc = "off"
        /\ run.answers = {} /\ run.ended = {} /\ run.capped = FALSE
    BY <1>1
  <1>3. run.todo \in Seq(Pages)
    BY <1>2
  <1>4. RunIsRecord
    BY <1>1 DEF RunIsRecord
  <1>5. RunType
    BY <1>2, <1>3, <1>4 DEF RunType, Pcs, AskedIsInFile
  <1>6. Tables /\ Datas
    BY DEF Init, Tables, Datas, None, IsTable, IsData
  <1>7. Bounds
    BY SummariesAssumption DEF Init, Bounds
  <1> QED
    BY <1>2, <1>5, <1>6, <1>7, TypeParts

LEMMA StepTypes == TypeInv /\ [Next]_vars => TypeInv'
  <1> SUFFICES ASSUME TypeInv, [Next]_vars PROVE TypeInv'
    OBVIOUS
  <1>0. Tables /\ Datas /\ RunType /\ run.capped \in BOOLEAN /\ Bounds
    BY TypeParts
  <1>S. ASSUME Tables', Datas', RunType', run'.capped \in BOOLEAN, Bounds' PROVE TypeInv'
    BY <1>S DEF TypeInv, TypeOK, Tables, Datas, RunType, Pcs, Bounds
  <1>1. CASE BuildDb
    <2>1. RunType' /\ run'.capped \in BOOLEAN
      BY <1>1, OffType DEF BuildDb
    <2>2. Datas' /\ Tables'
      BY <1>0, <1>1 DEF BuildDb, Datas, Tables, IsData, IsTable, None
    <2>3. Bounds'
      BY <1>0, <1>1, SummariesAssumption DEF BuildDb, Bounds
    <2> QED
      BY <1>S, <2>1, <2>2, <2>3
  <1>2. ASSUME NEW mode \in {"stub", "sync", "batch"}, NEW seed \in BOOLEAN,
               NEW limit \in {0, 1}, Start(mode, seed, limit)
        PROVE  TypeInv'
    BY <1>2, StartType
  <1>3. CASE Stub
    <2>1. run' = [run EXCEPT !.pc = "done", !.answers = DOMAIN run.todo,
                             !.ended = DOMAIN run.todo]
      BY <1>3 DEF Stub
    <2>2. /\ run'.pc = "done" /\ run'.todo = run.todo /\ run'.answers = DOMAIN run.todo
          /\ run'.ended = DOMAIN run.todo /\ run'.capped = run.capped /\ RunIsRecord'
      BY <1>0, <2>1 DEF RunType, RunIsRecord
    <2>3. RunType'
      BY <1>0, <1>3, <2>2 DEF RunType, Pcs, AskedIsInFile, Stub, Generating
    <2>4. Tables' /\ Datas' /\ Bounds'
      BY <1>0, <1>3, WritesType DEF Stub, Generating, Tables, Datas, Bounds
    <2> QED
      BY <1>0, <1>S, <2>2, <2>3, <2>4
  <1>4. ASSUME NEW i \in DOMAIN run.todo, Answer(i) PROVE TypeInv'
    <2>1. run' = [run EXCEPT !.answers = @ \union {i}, !.ended = @ \union {i}]
          /\ run.pc # "done"
      BY <1>4 DEF Answer
    <2>2. /\ run'.pc = run.pc /\ run'.todo = run.todo /\ run'.answers = run.answers \union {i}
          /\ run'.ended = run.ended \union {i} /\ run'.capped = run.capped /\ RunIsRecord'
      BY <1>0, <2>1 DEF RunType, RunIsRecord
    <2>3. RunType'
      BY <1>0, <1>4, <2>1, <2>2 DEF RunType, AskedIsInFile, Answer, Generating
    <2>4. Tables' /\ Datas' /\ Bounds'
      BY <1>0, <1>4, WritesType DEF Answer, Generating, Tables, Datas, Bounds
    <2> QED
      BY <1>0, <1>S, <2>2, <2>3, <2>4
  <1>5. ASSUME NEW i \in DOMAIN run.todo, NoAnswer(i) PROVE TypeInv'
    <2>1. run' = [run EXCEPT !.ended = @ \union {i}] /\ run.pc # "done"
      BY <1>5 DEF NoAnswer
    <2>2. /\ run'.pc = run.pc /\ run'.todo = run.todo /\ run'.answers = run.answers
          /\ run'.ended = run.ended \union {i} /\ run'.capped = run.capped /\ RunIsRecord'
      BY <1>0, <2>1 DEF RunType, RunIsRecord
    <2>3. RunType'
      BY <1>0, <1>5, <2>1, <2>2 DEF RunType, AskedIsInFile, NoAnswer, Generating
    <2>4. Tables' /\ Datas'
      BY <1>0, <1>5 DEF NoAnswer, Generating, Tables, Datas
    <2>5. Bounds'
      BY <1>0, <1>5, SummariesAssumption DEF NoAnswer, Generating, Bounds
    <2> QED
      BY <1>0, <1>S, <2>2, <2>3, <2>4, <2>5
  <1>6. CASE WriteBatch \/ SyncEnds
    <2>1. run' = [run EXCEPT !.pc = "done"] /\ run.ended = DOMAIN run.todo
      BY <1>6 DEF WriteBatch, SyncEnds
    <2>2. /\ run'.pc = "done" /\ run'.todo = run.todo /\ run'.answers = run.answers
          /\ run'.ended = run.ended /\ run'.capped = run.capped /\ RunIsRecord'
      BY <1>0, <2>1 DEF RunType, RunIsRecord
    <2>3. data' = data /\ site' = site /\ last' = last /\ builds' = builds /\ errors' = errors
      BY <1>6 DEF WriteBatch, SyncEnds, Generating
    <2>4. IsTable(text')
      BY <1>0, <1>6, WritesType DEF SyncEnds, Tables
    <2>5. RunType'
      BY <1>0, <2>1, <2>2, <2>3 DEF RunType, Pcs, AskedIsInFile
    <2>6. Tables' /\ Datas' /\ Bounds'
      BY <1>0, <2>3, <2>4 DEF Tables, Datas, Bounds
    <2> QED
      BY <1>0, <1>S, <2>2, <2>5, <2>6
  <1>7. CASE Stops \/ (\E keep \in BOOLEAN : Upload(keep)) \/ UploadBare \/ Dies
    <2>1. run' = Off
      BY <1>7 DEF Stops, Upload, UploadBare, Dies
    <2>2. run' = [Off EXCEPT !.pc = "off"]
      BY <2>1 DEF Off
    <2>3. RunType' /\ run'.capped \in BOOLEAN
      BY <2>2, OffType
    <2>4. Tables' /\ Datas'
      BY <1>0, <1>7 DEF Stops, Upload, UploadBare, Dies, Generating, Tables, Datas
    <2>5. Bounds'
      BY <1>0, <1>7, SummariesAssumption
      DEF Stops, Upload, UploadBare, Dies, Generating, Bounds
    <2> QED
      BY <1>S, <2>3, <2>4, <2>5
  <1>8. CASE UNCHANGED vars
    <2>1. UNCHANGED <<data, text, last, site, run, builds, errors>>
      BY <1>8 DEF vars
    <2>2. Tables' /\ Datas' /\ RunType' /\ Bounds'
      BY <1>0, <2>1 DEF Tables, Datas, RunType, RunIsRecord, AskedIsInFile, Bounds
    <2> QED
      BY <1>0, <1>S, <2>1, <2>2
  <1> QED
    BY <1>1, <1>2, <1>3, <1>4, <1>5, <1>6, <1>7, <1>8 DEF Next

\* A generator that has ended has heard of all its requests, and asks about
\* pages of its file only (generate-summaries.ts, main).
THEOREM TypeCorrect == Spec => []TypeOK
  <1>1. TypeInv => TypeOK
    BY DEF TypeInv
  <1> QED
    BY <1>1, InitTypes, StepTypes, PTL DEF Spec

-----------------------------------------------------------------------------
(* No page is forgotten.                                                   *)

LEMMA TextIsCurrent ==
  ASSUME NEW p, NEW by
  PROVE  Text(p, by).hash = Hash(data[p])
  BY DEF Text

\* What has its text keeps it, unless it gets a new one.
LEMMA StaysCurrent ==
  ASSUME NEW p, data' = data, p \in DOMAIN text',
         text'[p].hash = Hash(data[p]) \/ (Current(p) /\ text'[p] = text[p])
  PROVE  Current(p)'
  BY DEF Current, Hash

LEMMA StartForgetsNone ==
  ASSUME TypeInv, NEW mode \in {"stub", "sync", "batch"}, NEW seed,
         NEW limit \in {0, 1}, Start(mode, seed, limit)
  PROVE  NoneIsForgotten'
  <1> DEFINE C == Changed(text')
  <1>1. IsFiniteSet(C)
    <2>1. C \subseteq Pages
      BY TypeParts DEF Changed, Datas, IsData, Start
    <2> QED
      BY <2>1, SummariesAssumption, FS_Subset
  <1>2. PICK order \in SetToSeqs(C) :
          LET capped == limit > 0 /\ Len(order) > limit
              todo == IF capped THEN SubSeq(order, 1, limit) ELSE order IN
            run' = [Off EXCEPT !.pc = IF todo = <<>> THEN "done" ELSE mode,
                               !.todo = todo, !.capped = capped]
    BY DEF Start
  <1> DEFINE capped == limit > 0 /\ Len(order) > limit
             todo == IF capped THEN SubSeq(order, 1, limit) ELSE order
             pc == IF todo = <<>> THEN "done" ELSE mode
  <1> HIDE DEF C
  <1>3. run' = [pc |-> pc, todo |-> todo, answers |-> {}, ended |-> {}, capped |-> capped]
    BY <1>2 DEF Off
  <1>4. \A p \in C : \E i \in DOMAIN order : order[i] = p
    BY <1>1, OrderIsOnto
  <1> HIDE DEF pc
  <1>5. run'.todo = todo /\ run'.answers = {} /\ run'.capped = capped
    BY <1>3
  <1>6. SUFFICES ASSUME ~run'.capped, NEW p \in DOMAIN data, p \in C PROVE (p \in Left)'
    <2>1. ASSUME NEW p \in DOMAIN data, p \notin C PROVE Current(p)'
      BY <2>1 DEF C, Changed, Current, Hash, Start
    <2>2. data' = data
      BY DEF Start
    <2> QED
      BY <2>1, <2>2 DEF NoneIsForgotten
  <1>7. run'.todo = order
    BY <1>5, <1>6
  <1>8. Left' = {order[i] : i \in DOMAIN order}
    BY <1>5, <1>7 DEF Left, Written
  <1> QED
    BY <1>4, <1>6, <1>8

LEMMA StepForgetsNone == TypeInv /\ NoneIsForgotten /\ [Next]_vars => NoneIsForgotten'
  <1> SUFFICES ASSUME TypeInv, NoneIsForgotten, [Next]_vars PROVE NoneIsForgotten'
    OBVIOUS
  <1>0. RunIsRecord /\ run.answers \subseteq DOMAIN run.todo
    BY TypeParts DEF RunType
  <1>1. CASE BuildDb
    <2>1. run'.pc = "built"
      BY <1>1 DEF BuildDb, Off
    <2> QED
      BY <2>1 DEF NoneIsForgotten
  <1>2. ASSUME NEW mode \in {"stub", "sync", "batch"}, NEW seed \in BOOLEAN,
               NEW limit \in {0, 1}, Start(mode, seed, limit)
        PROVE  NoneIsForgotten'
    BY <1>2, StartForgetsNone
  <1>3. CASE Stub
    <2>1. run.pc = "stub" /\ run'.capped = run.capped /\ data' = data
      BY <1>0, <1>3 DEF Stub, Generating, RunIsRecord
    <2>2. Left = ToSet(run.todo)
      BY <2>1 DEF Left, Written, ToSet
    <2>3. ASSUME NEW p \in DOMAIN data, Current(p) \/ p \in Left PROVE Current(p)'
      <3>1. p \in DOMAIN text' /\ text'[p] = IF p \in Left THEN Text(p, "stub") ELSE text[p]
        BY <1>3, <2>2, <2>3 DEF Stub, Current
      <3> QED
        BY <2>1, <2>3, <3>1, StaysCurrent, TextIsCurrent
    <2> QED
      BY <2>1, <2>3 DEF NoneIsForgotten
  <1>4. ASSUME NEW i \in DOMAIN run.todo, Answer(i) PROVE NoneIsForgotten'
    <2>1. /\ run'.pc = run.pc /\ run'.todo = run.todo /\ run'.capped = run.capped
          /\ run'.answers = run.answers \union {i} /\ data' = data
          /\ run.pc \in {"sync", "batch"}
      BY <1>0, <1>4 DEF Answer, Generating, RunIsRecord
    <2>2. CASE run.pc = "batch"
      <3>1. text' = text /\ Left' = Left
        BY <1>4, <2>1, <2>2 DEF Answer, Left, Written
      <3>2. \A p : Current(p) => Current(p)'
        BY <2>1, <3>1 DEF Current, Hash
      <3> QED
        BY <2>1, <3>1, <3>2 DEF NoneIsForgotten
    <2>3. CASE run.pc = "sync"
      <3>1. text' = Put(text, run.todo[i], Text(run.todo[i], "llm"))
        BY <1>4, <2>3 DEF Answer
      <3>2. Left \subseteq Left' \union {run.todo[i]}
        BY <2>1, <2>3 DEF Left, Written
      <3>3. ASSUME NEW p, Current(p) \/ p = run.todo[i] PROVE Current(p)'
        <4>1. /\ p \in DOMAIN text'
              /\ text'[p] = IF p = run.todo[i] THEN Text(p, "llm") ELSE text[p]
          BY <3>1, <3>3 DEF Put, Current
        <4> QED
          BY <2>1, <3>3, <4>1, StaysCurrent, TextIsCurrent
      <3> QED
        BY <2>1, <2>3, <3>2, <3>3 DEF NoneIsForgotten
    <2> QED
      BY <2>1, <2>2, <2>3
  <1>5. ASSUME NEW i \in DOMAIN run.todo, NoAnswer(i) PROVE NoneIsForgotten'
    <2>1. /\ run'.pc = run.pc /\ run'.todo = run.todo /\ run'.capped = run.capped
          /\ run'.answers = run.answers /\ data' = data /\ text' = text
      BY <1>0, <1>5 DEF NoAnswer, Generating, RunIsRecord
    <2> QED
      BY <2>1 DEF NoneIsForgotten, Left, Written, Current, Hash
  <1>6. CASE WriteBatch
    <2>1. /\ run'.pc = "done" /\ run'.todo = run.todo /\ run'.capped = run.capped
          /\ run'.answers = run.answers /\ data' = data /\ run.pc = "batch"
      BY <1>0, <1>6 DEF WriteBatch, Generating, RunIsRecord
    <2>2. Left \subseteq Left' \union {run.todo[i] : i \in run.answers}
      BY <2>1 DEF Left, Written
    <2>3. ASSUME NEW p, Current(p) \/ \E i \in run.answers : run.todo[i] = p
          PROVE  Current(p)'
      <3> DEFINE k == CHOOSE i \in run.answers : run.todo[i] = p
      <3>1. /\ p \in DOMAIN text'
            /\ text'[p] = IF \E i \in run.answers : run.todo[i] = p
                          THEN AnswerTo(k) ELSE text[p]
        BY <1>6, <2>3 DEF WriteBatch, Current
      <3>2. CASE \E i \in run.answers : run.todo[i] = p
        <4>1. run.todo[k] = p
          BY <3>2
        <4>2. text'[p].hash = Hash(data[p])
          BY <3>1, <3>2, <4>1, TextIsCurrent DEF AnswerTo
        <4> QED
          BY <2>1, <3>1, <4>2, StaysCurrent
      <3>3. CASE ~ \E i \in run.answers : run.todo[i] = p
        BY <2>1, <2>3, <3>1, <3>3, StaysCurrent
      <3> QED
        BY <3>2, <3>3
    <2> QED
      BY <2>1, <2>2, <2>3 DEF NoneIsForgotten
  <1>7. CASE SyncEnds
    <2>1. /\ run'.pc = "done" /\ run'.todo = run.todo /\ run'.capped = run.capped
          /\ run'.answers = run.answers /\ data' = data /\ run.pc = "sync" /\ text' = text
      BY <1>0, <1>7 DEF SyncEnds, Generating, RunIsRecord
    <2> QED
      BY <2>1 DEF NoneIsForgotten, Left, Written, Current, Hash
  <1>8. CASE Stops \/ (\E keep \in BOOLEAN : Upload(keep)) \/ UploadBare \/ Dies
    <2>1. run'.pc = "off"
      BY <1>8 DEF Stops, Upload, UploadBare, Dies, Off
    <2> QED
      BY <2>1 DEF NoneIsForgotten
  <1>9. CASE UNCHANGED vars
    BY <1>9 DEF vars, NoneIsForgotten, Left, Written, Current, Hash
  <1> QED
    BY <1>1, <1>2, <1>3, <1>4, <1>5, <1>6, <1>7, <1>8, <1>9 DEF Next

LEMMA DoneIsComplete == TypeInv /\ NoneIsForgotten => RunIsComplete
  <1> SUFFICES ASSUME TypeInv, NoneIsForgotten, run.pc = "done", ~run.capped
               PROVE  Cardinality({p \in DOMAIN data : ~Current(p)}) <= Failed
    BY DEF RunIsComplete
  <1> DEFINE I == DOMAIN run.todo \ run.answers
             Stale == {p \in DOMAIN data : ~Current(p)}
  <1>1. run.todo \in Seq(Pages) /\ run.answers \in SUBSET DOMAIN run.todo
        /\ I \in SUBSET DOMAIN run.todo
    BY DEF TypeInv, TypeOK
  <1>2. Left = {run.todo[i] : i \in I}
    BY DEF Left, Written
  <1>3. Stale \subseteq Left
    BY DEF NoneIsForgotten
  <1>4. IsFiniteSet(Left) /\ Cardinality(Left) <= Cardinality(I)
    BY <1>1, <1>2, NoMoreThanPositions
  <1>5. Cardinality(Stale) <= Cardinality(Left)
    BY <1>3, <1>4, FS_Subset
  <1>6. Cardinality(I) = Failed
    BY <1>1, NoMoreThanPositions DEF Failed
  <1>7. IsFiniteSet(I) /\ IsFiniteSet(Stale)
    BY <1>1, <1>3, <1>4, NoMoreThanPositions, FS_Subset
  <1>8. Cardinality(I) \in Nat /\ Cardinality(Left) \in Nat /\ Cardinality(Stale) \in Nat
    BY <1>4, <1>7, FS_CardinalityType
  <1> HIDE DEF I, Stale
  <1>9. Cardinality(Stale) <= Failed
    BY <1>4, <1>5, <1>6, <1>8
  <1> QED
    BY <1>9 DEF Stale

\* Of the pages of the file, a run that has ended and was not cut short leaves
\* no more without a current text than it had failures
\* (generate-summaries.ts, main: seeding, computing what changed, three ways
\* to generate).
THEOREM RunsAreComplete == Spec => []RunIsComplete
  <1>1. Init => NoneIsForgotten
    BY DEF Init, Off, NoneIsForgotten
  <1> QED
    BY <1>1, InitTypes, StepTypes, StepForgetsNone, DoneIsComplete, PTL DEF Spec

=============================================================================
