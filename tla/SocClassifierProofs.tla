------------------------- MODULE SocClassifierProofs -------------------------
(***************************************************************************)
(* What TLAPS proves of SocClassifier for any titles, codes, employers,    *)
(* filings and similarities, and any number of records, batches, mining    *)
(* runs and outages.                                                       *)
(***************************************************************************)
EXTENDS SocClassifier, FiniteSetTheorems, SequenceTheorems, TLAPS

\* What an answer may be before stage 2 has run, and how far a batch is.
Before(i) ==
  /\ batch[i].title = None => out[i] = Unclassified
  /\ out[i].source = "miss" => out[i] = Miss
  /\ at # "done" => out[i].source # "stage2"
Progress ==
  /\ at \in {"off", "idle"} => batch = <<>> /\ out = <<>>
  /\ at \in {"stage0", "stage1"} => Len(out) < Len(batch)
  /\ at \in {"stage2", "done"} => Len(out) = Len(batch)
  /\ at = "stage1" => Record.title # None
  /\ \A i \in DOMAIN out : Before(i)

TablesInv == IsFiniteSet(filed) /\ (toLoad # <<>> => loads = 0)

TypeInv == TypeOK /\ TablesInv /\ Progress

LEMMA Numbers ==
  /\ K \in Nat \ {0} /\ BatchSize \in Nat \ {0} /\ MaxOutages \in Nat
  /\ MinHits \in Nat \ {0} /\ MinAgreement \in 0 .. 100
  BY ClassifierAssumption

LEMMA DmtfRows == Len(Dmtf) \in Nat /\ DOMAIN Dmtf = 1 .. Len(Dmtf)
  <1>1. Dmtf \in Seq(Titles \X Codes)
    BY ClassifierAssumption
  <1> QED
    BY <1>1

LEMMA Constants ==
  /\ Trim \in [Titles -> Titles] /\ Sim \in [Titles -> [Titles -> 0 .. 100]]
  /\ K \in Nat \ {0} /\ BatchSize \in Nat \ {0} /\ MaxOutages \in Nat
  /\ MinHits \in Nat \ {0} /\ MinAgreement \in 0 .. 100
  /\ Dmtf \in Seq(Titles \X Codes) /\ Len(Dmtf) \in Nat
  /\ \A i \in 1 .. Len(Dmtf) : Dmtf[i] \in Titles \X Codes
  /\ None \notin Titles /\ None \notin Codes /\ None \notin Feins
  BY ClassifierAssumption

-----------------------------------------------------------------------------
(* The miners.                                                             *)

LEMMA InPercent ==
  ASSUME NEW a \in Nat, NEW b \in Nat \ {0}, a <= b
  PROVE  (100 * a) \div b \in 0 .. 100
  <1>1. (100 * a) \div b \in Nat /\ ((100 * a) \div b) * b <= 100 * a
    BY SMT
  <1>2. PICK q \in Nat : q = (100 * a) \div b
    BY <1>1
  <1>3. q * b <= 100 * b
    BY <1>1, <1>2
  <1>4. ASSUME q > 100 PROVE FALSE
    <2>1. PICK r \in Nat : q = 101 + r
      <3>1. q - 101 \in Nat /\ q = 101 + (q - 101)
        BY <1>4
      <3> QED
        BY <3>1
    <2>2. q * b = 101 * b + r * b /\ r * b \in Nat
      BY <2>1
    <2> QED
      BY <1>3, <2>2
  <1> QED
    BY <1>2, <1>4

LEMMA AgreementIsPercent ==
  ASSUME NEW cases, IsFiniteSet(cases), NEW t, NEW c, Of(cases, t, c) # {}
  PROVE  Agreement(cases, t, c) \in 0 .. 100
  <1> DEFINE total == {x \in cases : Trim[x.title] = t}
  <1>1. IsFiniteSet(total) /\ Of(cases, t, c) \subseteq total
    BY FS_Subset DEF Of
  <1>2. /\ IsFiniteSet(Of(cases, t, c)) /\ Cardinality(Of(cases, t, c)) \in Nat
        /\ Cardinality(Of(cases, t, c)) <= Cardinality(total)
        /\ Cardinality(total) \in Nat
    BY <1>1, FS_Subset, FS_CardinalityType
  <1>3. Cardinality(Of(cases, t, c)) # 0
    BY <1>2, FS_EmptySet
  <1>4. Agreement(cases, t, c) = (100 * Cardinality(Of(cases, t, c))) \div Cardinality(total)
    BY DEF Agreement
  <1> HIDE DEF total
  <1> QED
    BY <1>2, <1>3, <1>4, InPercent

LEMMA RebuiltIsEntries ==
  ASSUME IsFiniteSet(filed), MineConsensus
  PROVE  rebuilt' # None => Entries(rebuilt')
  <1>1. PICK f \in [{k \in Keys : Mined(k) # {}} -> Codes] :
          /\ \A k \in DOMAIN f : f[k] \in Mined(k)
          /\ rebuilt' = [k \in DOMAIN f |->
               [code |-> f[k],
                agreement |-> Agreement({x \in filed : x.fein = k[1]}, k[2], f[k])]]
    BY DEF MineConsensus
  <1>2. ASSUME NEW k \in DOMAIN f
        PROVE  Agreement({x \in filed : x.fein = k[1]}, k[2], f[k]) \in MinAgreement .. 100
    <2> DEFINE own == {x \in filed : x.fein = k[1]}
    <2>1. IsFiniteSet(own)
      BY FS_Subset
    <2>2. f[k] \in Mined(k)
      BY <1>1
    <2>3. Of(own, k[2], f[k]) # {} /\ Admitted(own, k[2], f[k])
      BY <2>2 DEF Mined
    <2>4. Agreement(own, k[2], f[k]) \in 0 .. 100
      BY <2>1, <2>3, AgreementIsPercent
    <2>5. Agreement(own, k[2], f[k]) >= MinAgreement
      BY <2>3 DEF Admitted
    <2> HIDE DEF own
    <2>6. MinAgreement \in Nat
      BY Numbers
    <2>7. PICK a \in 0 .. 100 : a = Agreement(own, k[2], f[k])
      BY <2>4
    <2>8. Agreement(own, k[2], f[k]) \in MinAgreement .. 100
      BY <2>5, <2>6, <2>7
    <2> QED
      BY <2>8 DEF own
  <1>3. ASSUME NEW k \in DOMAIN f
        PROVE  rebuilt'[k] \in [code : Codes, agreement : MinAgreement .. 100]
    <2>1. PICK a \in MinAgreement .. 100 :
            a = Agreement({x \in filed : x.fein = k[1]}, k[2], f[k])
      BY <1>2
    <2>2. rebuilt'[k] = [code |-> f[k], agreement |-> a]
      BY <1>1, <2>1
    <2>3. f[k] \in Codes
      BY <1>1
    <2> QED
      BY <2>2, <2>3
  <1>4. DOMAIN rebuilt' = DOMAIN f /\ DOMAIN f \subseteq Keys
    BY <1>1
  <1>5. rebuilt' = [k \in DOMAIN rebuilt' |-> rebuilt'[k]]
    BY <1>1
  <1> QED
    BY <1>3, <1>4, <1>5 DEF Entries

-----------------------------------------------------------------------------
(* What is left of the file, and the misses of a batch.                    *)

LEMMA NextToLoad ==
  ASSUME TypeOK, toLoad # <<>>
  PROVE  \E n \in 1 .. Len(Dmtf) :
           /\ toLoad = SubSeq(Dmtf, n, Len(Dmtf))
           /\ Head(toLoad) = Dmtf[n] /\ Dmtf[n] \in Titles \X Codes
           /\ Tail(toLoad) = SubSeq(Dmtf, n + 1, Len(Dmtf))
  <1>1. PICK n \in 1 .. Len(Dmtf) + 1 : toLoad = SubSeq(Dmtf, n, Len(Dmtf))
    BY DEF TypeOK
  <1>2. n # Len(Dmtf) + 1
    BY <1>1, SubSeqEmpty, Constants
  <1>3. n \in 1 .. Len(Dmtf) /\ Len(Dmtf) \in n .. Len(Dmtf)
    BY <1>2, Constants
  <1>4. Head(toLoad) = Dmtf[n] /\ Tail(toLoad) = SubSeq(Dmtf, n + 1, Len(Dmtf))
    BY <1>1, <1>3, HeadTailOfSubSeq, Constants, SMTT(30)
  <1> QED
    BY <1>1, <1>3, <1>4, Constants

LEMMA LeftToLoad ==
  /\ Dmtf = SubSeq(Dmtf, 1, Len(Dmtf))
  /\ <<>> = SubSeq(Dmtf, Len(Dmtf) + 1, Len(Dmtf))
  BY SubSeqFull, SubSeqEmpty, Constants

\* zip pairs each miss with its own answer: it is as far in miss_indices as
\* there are misses up to it.
LEMMA MissesAreInOrder ==
  ASSUME out \in Seq(Prediction), NEW i \in Missed
  PROVE  Nth(i) \in DOMAIN Misses /\ Misses[Nth(i)] = i
  <1> DEFINE UpTo(j) == {m \in Missed : m <= j}
  <1>1. DOMAIN out = 1 .. Len(out) /\ Len(out) \in Nat
    OBVIOUS
  <1>2. IsFiniteSet(Missed) /\ \A j \in Missed : j \in Nat
    <2>1. IsFiniteSet(1 .. Len(out))
      <3>1. 1 \in Int /\ Len(out) \in Int
        BY <1>1
      <3> QED
        BY <3>1, FS_Interval
    <2>2. Missed \in SUBSET (1 .. Len(out))
      BY <1>1 DEF Missed
    <2>3. IsFiniteSet(Missed)
      BY <2>1, <2>2, FS_Subset
    <2>4. \A j \in 1 .. Len(out) : j \in Nat
      BY <1>1
    <2> QED
      BY <2>2, <2>3, <2>4
  <1>3. ASSUME NEW j \in Missed
        PROVE  /\ IsFiniteSet(UpTo(j)) /\ Cardinality(UpTo(j)) \in 1 .. Cardinality(Missed)
               /\ Cardinality(Missed) \in Nat
    <2>1. UpTo(j) \subseteq Missed /\ j \in UpTo(j)
      BY <1>2
    <2>2. /\ IsFiniteSet(UpTo(j)) /\ Cardinality(UpTo(j)) \in Nat
          /\ Cardinality(UpTo(j)) <= Cardinality(Missed) /\ Cardinality(Missed) \in Nat
      <3> HIDE DEF UpTo
      <3> QED
        BY <1>2, <2>1, FS_Subset, FS_CardinalityType
    <2>3. Cardinality(UpTo(j)) # 0
      BY <2>1, <2>2, FS_EmptySet
    <2> QED
      BY <2>2, <2>3
  <1>4. ASSUME NEW j \in Missed, NEW m \in Missed, j < m
        PROVE  Cardinality(UpTo(j)) # Cardinality(UpTo(m))
    <2>1. UpTo(j) \subseteq UpTo(m) /\ m \in UpTo(m) /\ m \notin UpTo(j)
      BY <1>2, <1>4
    <2>2. IsFiniteSet(UpTo(m))
      BY <1>3
    <2> HIDE DEF UpTo
    <2> QED
      BY <2>1, <2>2, FS_Subset
  <1>5. \A j \in Missed : Nth(j) = Cardinality(UpTo(j))
    BY DEF Nth
  <1> HIDE DEF UpTo
  <1>6. \A j, m \in Missed : Nth(j) = Nth(m) => j = m
    <2> SUFFICES ASSUME NEW j \in Missed, NEW m \in Missed, Nth(j) = Nth(m), j # m PROVE FALSE
      OBVIOUS
    <2>1. j < m \/ m < j
      BY <1>2
    <2> QED
      BY <1>4, <1>5, <2>1
  <1>7. Nth(i) \in 1 .. Cardinality(Missed)
    BY <1>3, <1>5
  <1>8. (CHOOSE m \in Missed : Nth(m) = Nth(i)) = i
    BY <1>6
  <1> QED
    BY <1>7, <1>8 DEF Misses

\* Answers for the misses, each made for its own record, come to stand there.
LEMMA FilledInPlace ==
  ASSUME out \in Seq(Prediction), NEW answers
  PROVE  /\ DOMAIN Filled(answers) = 1 .. Len(out) /\ DOMAIN out = 1 .. Len(out)
         /\ \A i \in Missed : /\ Filled(answers)[i] = answers[Nth(i)]
                              /\ Nth(i) \in DOMAIN Misses /\ Misses[Nth(i)] = i
         /\ \A i \in DOMAIN out \ Missed : Filled(answers)[i] = out[i] /\ out[i] # Miss
  <1>1. DOMAIN out = 1 .. Len(out)
    OBVIOUS
  <1>2. \A i \in Missed : i \in DOMAIN out /\ out[i] = Miss
    BY DEF Missed
  <1>3. \A i \in DOMAIN out \ Missed : out[i] # Miss
    BY DEF Missed
  <1> QED
    BY <1>1, <1>2, <1>3, MissesAreInOrder DEF Filled

\* Stage 2 answers the misses and leaves every other answer alone.
LEMMA Stage2Shape ==
  ASSUME TypeInv, Stage2
  PROVE  /\ out' \in Seq(Prediction) /\ Len(out') = Len(out) /\ DOMAIN out' = DOMAIN out
         /\ \A i \in DOMAIN out :
              \/ out'[i] = out[i] /\ out[i] # Miss
              \/ /\ out[i] = Miss
                 /\ \/ out'[i] = Unclassified
                    \/ /\ known # None
                       /\ \E a \in Nearest(batch[i].title) :
                            out'[i] = Retrieved(batch[i].title, a)
  <1>1. out \in Seq(Prediction) /\ Len(out) \in Nat /\ DOMAIN out = 1 .. Len(out)
    BY DEF TypeInv, TypeOK
  <1>2. PICK answers :
          /\ out' = Filled(answers)
          /\ \/ answers = [j \in DOMAIN Misses |-> Unclassified]
             \/ /\ known # None
                /\ \E best \in [DOMAIN Misses -> DOMAIN known] :
                     /\ \A j \in DOMAIN Misses : best[j] \in Nearest(batch[Misses[j]].title)
                     /\ answers = [j \in DOMAIN Misses |->
                                     Retrieved(batch[Misses[j]].title, best[j])]
    BY DEF Stage2
  <1>3. ASSUME NEW i \in Missed
        PROVE  \/ out'[i] = Unclassified
               \/ /\ known # None
                  /\ \E a \in Nearest(batch[i].title) : out'[i] = Retrieved(batch[i].title, a)
    <2>1. out'[i] = answers[Nth(i)] /\ Nth(i) \in DOMAIN Misses /\ Misses[Nth(i)] = i
      BY <1>1, <1>2, FilledInPlace
    <2>2. CASE answers = [j \in DOMAIN Misses |-> Unclassified]
      BY <2>1, <2>2
    <2>3. ASSUME known # None, NEW best \in [DOMAIN Misses -> DOMAIN known],
                 \A j \in DOMAIN Misses : best[j] \in Nearest(batch[Misses[j]].title),
                 answers = [j \in DOMAIN Misses |-> Retrieved(batch[Misses[j]].title, best[j])]
          PROVE  known # None /\ \E a \in Nearest(batch[i].title) :
                                   out'[i] = Retrieved(batch[i].title, a)
      <3>1. best[Nth(i)] \in Nearest(batch[i].title)
        BY <2>1, <2>3
      <3>2. out'[i] = Retrieved(batch[i].title, best[Nth(i)])
        BY <2>1, <2>3
      <3> QED
        BY <2>3, <3>1, <3>2
    <2> QED
      BY <1>2, <2>2, <2>3
  <1>4. ASSUME NEW i \in DOMAIN out
        PROVE  \/ i \notin Missed /\ out'[i] = out[i] /\ out[i] # Miss
               \/ /\ i \in Missed /\ out[i] = Miss
                  /\ \/ out'[i] = Unclassified
                     \/ /\ known # None
                        /\ \E a \in Nearest(batch[i].title) :
                             out'[i] = Retrieved(batch[i].title, a)
    <2>1. CASE i \in Missed
      BY <1>3, <2>1 DEF Missed
    <2>2. CASE i \notin Missed
      BY <1>1, <1>2, <2>2, FilledInPlace
    <2> QED
      BY <2>1, <2>2
  <1>5. out' = [i \in 1 .. Len(out) |-> out'[i]]
    <2>1. PICK f : out' = [i \in DOMAIN out |-> f[i]]
      <3> DEFINE g == [i \in DOMAIN out |-> IF out[i] = Miss THEN answers[Nth(i)] ELSE out[i]]
      <3>1. out' = g
        BY <1>2 DEF Filled
      <3>2. g = [i \in DOMAIN out |-> g[i]]
        OBVIOUS
      <3> QED
        BY <3>1, <3>2
    <2> QED
      BY <1>1, <2>1
  <1>6. ASSUME NEW i \in DOMAIN out PROVE out'[i] \in Prediction
    <2>1. out[i] \in Prediction /\ Unclassified \in Prediction
      <3>1. out[i] \in Prediction
        BY <1>1
      <3>2. Unclassified \in Prediction
        BY DEF Prediction, Unclassified
      <3> QED
        BY <3>1, <3>2
    <2>2. ASSUME out[i] = Miss, known # None, NEW a \in Nearest(batch[i].title)
          PROVE  Retrieved(batch[i].title, a) \in Prediction
      <3>1. batch[i].title # None
        <4>1. batch[i].title = None => out[i] = Unclassified
          BY DEF TypeInv, Progress, Before
        <4>2. Unclassified # Miss
          <5>1. Unclassified.source # Miss.source
            BY DEF Unclassified, Miss
          <5> QED
            BY <5>1
        <4> QED
          BY <2>2, <4>1, <4>2
      <3>2. batch[i] \in Records
        <4>1. Len(out) = Len(batch)
          BY DEF TypeInv, Progress, Stage2
        <4> QED
          BY <1>1, <4>1 DEF TypeInv, TypeOK
      <3>3. batch[i].title \in Titles
        BY <3>1, <3>2, ClassifierAssumption
      <3>4. a \in DOMAIN known /\ known[a] \in Codes /\ a \in Titles
        <4>1. a \in DOMAIN known
          BY <2>2 DEF Nearest
        <4>2. DOMAIN known \subseteq Titles /\ known \in [DOMAIN known -> Codes]
          BY <2>2 DEF TypeInv, TypeOK
        <4> QED
          BY <4>1, <4>2
      <3>5. Sim[batch[i].title] \in [Titles -> 0 .. 100]
        BY <3>3, Constants
      <3>6. PICK s \in 0 .. 100 : s = Sim[batch[i].title][a]
        BY <3>4, <3>5
      <3>7. Retrieved(batch[i].title, a) = [code |-> known[a], confidence |-> s, source |-> "stage2"]
        BY <3>6 DEF Retrieved
      <3> QED
        BY <3>4, <3>7 DEF Prediction
    <2> QED
      BY <1>4, <2>1, <2>2
  <1>7. out' \in [1 .. Len(out) -> Prediction]
    BY <1>1, <1>5, <1>6
  <1>8. out' \in Seq(Prediction) /\ Len(out') = Len(out) /\ DOMAIN out' = DOMAIN out
    BY <1>1, <1>7
  <1> QED
    BY <1>4, <1>8

-----------------------------------------------------------------------------
(* Types.                                                                  *)

LEMMA Lengths ==
  ASSUME TypeInv
  PROVE  /\ out \in Seq(Prediction) /\ Len(out) \in Nat /\ DOMAIN out = 1 .. Len(out)
         /\ batch \in Seq(Records) /\ Len(batch) \in Nat /\ DOMAIN batch = 1 .. Len(batch)
  <1>1. out \in Seq(Prediction) /\ batch \in Seq(Records)
    BY DEF TypeInv, TypeOK
  <1> QED
    BY <1>1

LEMMA ProgressKept ==
  ASSUME TypeInv, UNCHANGED <<batch, out, at>>
  PROVE  Progress'
  BY DEF TypeInv, Progress, Before, Record

\* One record of the batch has its answer.
LEMMA AnsweredTypes ==
  ASSUME TypeInv, NEW p \in Prediction, Answered(p), at \in {"stage0", "stage1"},
         UNCHANGED <<batch>>,
         Record.title = None => p = Unclassified,
         p.source = "miss" => p = Miss, p.source # "stage2"
  PROVE  out' \in Seq(Prediction) /\ at' \in {"stage0", "stage2"} /\ Progress'
  <1>1. PICK n \in Nat : n = Len(out)
    BY Lengths
  <1>2. PICK b \in Nat : b = Len(batch)
    BY Lengths
  <1>3. n < b
    BY <1>1, <1>2 DEF TypeInv, Progress
  <1>4. /\ out' = Append(out, p) /\ out \in Seq(Prediction)
        /\ out' \in Seq(Prediction) /\ Len(out') = n + 1
        /\ DOMAIN out' = 1 .. (n + 1) /\ DOMAIN out = 1 .. n
        /\ out'[n + 1] = p /\ \A i \in 1 .. n : out'[i] = out[i]
    <2>1. out' = Append(out, p) /\ out \in Seq(Prediction)
      BY Lengths DEF Answered
    <2>2. out' \in Seq(Prediction) /\ Len(out') = n + 1
      BY <1>1, <2>1
    <2> QED
      BY <1>1, <2>1, <2>2
  <1>5. at' = IF n + 1 = b THEN "stage2" ELSE "stage0"
    BY <1>2, <1>4 DEF Answered
  <1>6. /\ at' \in {"stage0", "stage2"}
        /\ at' = "stage0" => Len(out') < Len(batch')
        /\ at' = "stage2" => Len(out') = Len(batch')
    BY <1>2, <1>3, <1>4, <1>5
  <1>7. ASSUME NEW i \in DOMAIN out' PROVE Before(i)'
    <2>1. CASE i = n + 1
      BY <1>1, <1>4, <2>1 DEF Before, Record
    <2>2. CASE i # n + 1
      <3>1. i \in DOMAIN out /\ out'[i] = out[i]
        BY <1>4, <2>2
      <3>2. Before(i)
        BY <3>1 DEF TypeInv, Progress
      <3> QED
        BY <3>1, <3>2 DEF Before
    <2> QED
      BY <2>1, <2>2
  <1> QED
    BY <1>4, <1>6, <1>7 DEF Progress

\* A commit takes entries away from steady and adds none.
LEMMA CommittedTypes ==
  ASSUME TypeInv, NEW entries, NEW titles, Committed(entries, titles)
  PROVE  /\ steady' \in [keys : SUBSET Keys, titles : SUBSET Titles]
         /\ steady'.keys = steady.keys \cap DOMAIN entries
         /\ steady'.titles = {t \in steady.titles : titles[t] # None}
  <1>1. steady \in [keys : SUBSET Keys, titles : SUBSET Titles]
    BY DEF TypeInv, TypeOK
  <1> QED
    BY <1>1 DEF Committed

LEMMA TableTypes ==
  ASSUME TypeInv,
         \/ File \/ StartLoad \/ LoadBatch \/ MineAliases \/ InsertAliases
         \/ MineConsensus \/ RebuildConsensus \/ DbDown \/ DbUp
  PROVE  TypeInv'
  <1>0. TypeOK /\ TablesInv /\ IsFiniteSet(filed)
    BY DEF TypeInv, TablesInv
  <1> USE DEF TypeInv
  <1>1. CASE File
    <2>1. PICK c \in Cases : filed' = filed \union {c}
      BY <1>1 DEF File
    <2>2. filed' \subseteq Cases /\ IsFiniteSet(filed')
      BY <1>0, <2>1, FS_AddElement DEF TypeOK
    <2>3. TypeOK'
      BY <1>0, <1>1, <2>2, SMTT(30) DEF File, TypeOK, Entries, jobs, worker
    <2>4. Progress' /\ TablesInv'
      BY <1>0, <1>1, <2>2, ProgressKept DEF File, worker, TablesInv, jobs
    <2> QED
      BY <2>3, <2>4
  <1>2. CASE StartLoad
    <2>1. toLoad' \in {SubSeq(Dmtf, n, Len(Dmtf)) : n \in 1 .. Len(Dmtf) + 1}
      BY <1>2, LeftToLoad, Constants DEF StartLoad
    <2>2. TypeOK'
      BY <1>0, <1>2, <2>1 DEF StartLoad, TypeOK, Entries, tables, worker
    <2>3. Progress' /\ TablesInv'
      BY <1>0, <1>2, ProgressKept DEF StartLoad, worker, tables, TablesInv, jobs
    <2> QED
      BY <2>2, <2>3
  <1>3. CASE LoadBatch
    <2>1. PICK n \in 1 .. Len(Dmtf) :
            /\ Head(toLoad) = Dmtf[n] /\ Dmtf[n] \in Titles \X Codes
            /\ Tail(toLoad) = SubSeq(Dmtf, n + 1, Len(Dmtf))
      BY <1>0, <1>3, NextToLoad DEF LoadBatch
    <2>2. toLoad' \in {SubSeq(Dmtf, m, Len(Dmtf)) : m \in 1 .. Len(Dmtf) + 1}
      <3>1. n + 1 \in 1 .. Len(Dmtf) + 1
        BY DmtfRows
      <3>2. toLoad' = SubSeq(Dmtf, n + 1, Len(Dmtf))
        BY <1>3, <2>1 DEF LoadBatch
      <3> QED
        BY <3>1, <3>2
    <2>3. aliases' \in [Titles -> Codes \union {None}]
      BY <1>0, <1>3, <2>1 DEF LoadBatch, TypeOK
    <2>4. loads' \in 0 .. 1
      BY <1>0, <1>3 DEF LoadBatch, TablesInv
    <2>5. steady' \in [keys : SUBSET Keys, titles : SUBSET Titles]
      BY <1>3, CommittedTypes DEF LoadBatch
    <2>6. TypeOK'
      BY <1>0, <1>3, <2>2, <2>3, <2>4, <2>5 DEF LoadBatch, TypeOK, Entries, worker
    <2>7. Progress' /\ TablesInv'
      BY <1>0, <1>3, ProgressKept DEF LoadBatch, worker, TablesInv, jobs
    <2> QED
      BY <2>6, <2>7
  <1>4. CASE MineAliases
    <2>1. mined' \subseteq Titles \X Codes
      BY <1>4 DEF MineAliases
    <2>2. TypeOK'
      BY <1>0, <1>4, <2>1 DEF MineAliases, TypeOK, Entries, tables, worker
    <2>3. Progress' /\ TablesInv'
      BY <1>0, <1>4, ProgressKept DEF MineAliases, worker, tables, TablesInv, jobs
    <2> QED
      BY <2>2, <2>3
  <1>5. CASE InsertAliases
    <2>1. aliases' \in [Titles -> Codes \union {None}]
      BY <1>5 DEF InsertAliases
    <2>2. steady' \in [keys : SUBSET Keys, titles : SUBSET Titles]
      BY <1>5, CommittedTypes DEF InsertAliases
    <2>3. TypeOK'
      BY <1>0, <1>5, <2>1, <2>2 DEF InsertAliases, TypeOK, Entries, worker
    <2>4. Progress' /\ TablesInv'
      BY <1>0, <1>5, ProgressKept DEF InsertAliases, worker, TablesInv, jobs
    <2> QED
      BY <2>3, <2>4
  <1>6. CASE MineConsensus
    <2>1. rebuilt' # None => Entries(rebuilt')
      BY <1>0, <1>6, RebuiltIsEntries
    <2>2. TypeOK'
      BY <1>0, <1>6, <2>1 DEF MineConsensus, TypeOK, Entries, tables, worker
    <2>3. Progress' /\ TablesInv'
      BY <1>0, <1>6, ProgressKept DEF MineConsensus, worker, tables, TablesInv, jobs
    <2> QED
      BY <2>2, <2>3
  <1>7. CASE RebuildConsensus
    <2>1. steady' \in [keys : SUBSET Keys, titles : SUBSET Titles]
      BY <1>7, CommittedTypes DEF RebuildConsensus
    <2>2. TypeOK'
      BY <1>0, <1>7, <2>1 DEF RebuildConsensus, TypeOK, Entries, worker
    <2>3. Progress' /\ TablesInv'
      BY <1>0, <1>7, ProgressKept DEF RebuildConsensus, worker, TablesInv, jobs
    <2> QED
      BY <2>2, <2>3
  <1>8. CASE DbDown
    <2>1. outages' \in 0 .. MaxOutages
      BY <1>0, <1>8, Constants, SMTT(30) DEF DbDown, TypeOK
    <2>2. toLoad' \in {SubSeq(Dmtf, n, Len(Dmtf)) : n \in 1 .. Len(Dmtf) + 1}
      <3>1. Len(Dmtf) + 1 \in 1 .. Len(Dmtf) + 1
        BY DmtfRows
      <3>2. toLoad' = SubSeq(Dmtf, Len(Dmtf) + 1, Len(Dmtf))
        BY <1>8, LeftToLoad DEF DbDown
      <3> QED
        BY <3>1, <3>2
    <2>3. TypeOK'
      BY <1>0, <1>8, <2>1, <2>2 DEF DbDown, TypeOK, Entries, tables
    <2>4. Progress' /\ TablesInv'
      BY <1>0, <1>8, ProgressKept DEF DbDown, tables, TablesInv, jobs
    <2> QED
      BY <2>3, <2>4
  <1>9. CASE DbUp
    <2>1. TypeOK'
      BY <1>0, <1>9 DEF DbUp, TypeOK, Entries, tables, jobs, worker
    <2>2. Progress' /\ TablesInv'
      BY <1>0, <1>9, ProgressKept DEF DbUp, tables, worker, TablesInv, jobs
    <2> QED
      BY <2>1, <2>2
  <1> QED
    BY <1>1, <1>2, <1>3, <1>4, <1>5, <1>6, <1>7, <1>8, <1>9

\* A connection that is open has a server behind it.
LEMMA OpenIsUp == (conn = "open" => db) /\ [Next]_vars => (conn' = "open" => db')
  <1> SUFFICES ASSUME conn = "open" => db, [Next]_vars, conn' = "open" PROVE db'
    OBVIOUS
  <1>1. CASE \/ File \/ StartLoad \/ LoadBatch \/ MineAliases \/ InsertAliases
            \/ MineConsensus \/ RebuildConsensus \/ PassOver \/ UNCHANGED vars
    BY <1>1, Zenon DEF File, StartLoad, LoadBatch, MineAliases, InsertAliases, MineConsensus,
         RebuildConsensus, PassOver, Rest, worker, vars
  <1>2. CASE DbDown \/ DbUp
    BY <1>2 DEF DbDown, DbUp
  <1>3. CASE Start \/ Stop \/ Take \/ Stage2
    BY <1>3 DEF Start, Stop, Take, Stage2, Rest
  <1>4. CASE LookupConsensus \/ LookupDmtf
    <2>1. Asked \/ UNCHANGED <<Rest, conn>>
      BY <1>4 DEF LookupConsensus, LookupDmtf
    <2>2. /\ db' = db
          /\ conn' = conn \/ conn' = IF conn = "broken" /\ db THEN "open" ELSE conn
      BY <2>1 DEF Asked, Rest
    <2> QED
      BY <2>2, Zenon
  <1> QED
    BY <1>1, <1>2, <1>3, <1>4 DEF Next

\* What each lookup gives a record, and that it is a prediction.
LEMMA LookedUp ==
  ASSUME TypeInv, PassOver \/ LookupConsensus \/ LookupDmtf
  PROVE  /\ Record \in Records /\ at \in {"stage0", "stage1"}
         /\ UNCHANGED <<tables, jobs, db, outages, known, batch, steady>>
         /\ conn' \in {"none", "open", "broken"} /\ missed' \in BOOLEAN
         /\ \/ /\ at' = "stage1" /\ out' = out /\ LookupConsensus /\ Record.title # None
            \/ \E p \in Prediction :
                 /\ Answered(p) /\ p.source # "stage2"
                 /\ Record.title = None => p = Unclassified
                 /\ p.source = "miss" => p = Miss
  <1>0. /\ Unclassified \in Prediction /\ Miss \in Prediction
        /\ Unclassified.source = "unclassified" /\ Miss.source = "miss"
    BY DEF Unclassified, Miss, Prediction
  <1>1. Record \in Records
    <2>1. at \in {"stage0", "stage1"}
      BY DEF PassOver, LookupConsensus, LookupDmtf
    <2>2. Len(out) < Len(batch)
      BY <2>1 DEF TypeInv, Progress
    <2>3. Len(out) + 1 \in 1 .. Len(batch)
      BY <2>2, Lengths
    <2> QED
      BY <2>3, Lengths DEF Record
  <1>2. conn \in {"none", "open", "broken"} /\ missed \in BOOLEAN
    BY DEF TypeInv, TypeOK
  <1>3. CASE PassOver
    BY <1>0, <1>1, <1>2, <1>3 DEF PassOver, Rest
  <1>4. ASSUME Asked
        PROVE  /\ UNCHANGED <<tables, jobs, db, outages, known, batch, steady>>
               /\ conn' \in {"none", "open", "broken"} /\ missed' \in BOOLEAN
    BY <1>2, <1>4 DEF Asked, Rest
  <1>5. CASE LookupConsensus
    <2>1. /\ UNCHANGED <<tables, jobs, db, outages, known, batch, steady>>
          /\ conn' \in {"none", "open", "broken"} /\ missed' \in BOOLEAN
          /\ at = "stage0" /\ Record.title # None
      BY <1>2, <1>4, <1>5 DEF LookupConsensus, Rest
    <2>2. ASSUME NEW key \in DOMAIN consensus, key = <<Record.fein, Trim[Record.title]>>,
                 Answered([code |-> consensus[key].code, source |-> "employer_consensus",
                           confidence |-> Min({99, consensus[key].agreement})])
          PROVE  \E p \in Prediction : Answered(p) /\ p.source = "employer_consensus"
      <3>1. consensus[key] \in [code : Codes, agreement : MinAgreement .. 100]
        BY DEF TypeInv, TypeOK, Entries
      <3>2. PICK m \in 0 .. 100 : m = Min({99, consensus[key].agreement})
        <4>1. PICK a \in 0 .. 100 : a = consensus[key].agreement
          <5>1. MinAgreement \in 0 .. 100
            BY Numbers
          <5> QED
            BY <3>1, <5>1
        <4>2. Min({99, a}) \in {99, a}
          BY DEF Min
        <4> QED
          BY <4>1, <4>2
      <3> DEFINE p == [code |-> consensus[key].code, source |-> "employer_consensus",
                       confidence |-> m]
      <3>3. p \in Prediction
        BY <3>1 DEF Prediction
      <3>4. Answered(p) /\ p.source = "employer_consensus"
        BY <2>2, <3>2
      <3> QED
        BY <3>3, <3>4
    <2>3. \/ at' = "stage1" /\ out' = out
          \/ \E p \in Prediction : Answered(p) /\ p.source = "employer_consensus"
      BY <1>5, <2>2 DEF LookupConsensus
    <2> QED
      BY <1>1, <1>5, <2>1, <2>3
  <1>6. CASE LookupDmtf
    <2>1. /\ UNCHANGED <<tables, jobs, db, outages, known, batch, steady>>
          /\ conn' \in {"none", "open", "broken"} /\ missed' \in BOOLEAN
          /\ at = "stage1"
      BY <1>4, <1>6 DEF LookupDmtf
    <2>2. Record.title # None
      BY <2>1 DEF TypeInv, Progress
    <2>3. Record.title \in Titles
      BY <1>1, <2>2, ClassifierAssumption
    <2>4. ASSUME Aliased(Record.title),
                 Answered([code |-> aliases[Record.title], source |-> "dmtf", confidence |-> 100])
          PROVE  \E p \in Prediction : Answered(p) /\ p.source = "dmtf"
      <3>1. aliases[Record.title] \in Codes
        BY <2>3, <2>4 DEF TypeInv, TypeOK, Aliased
      <3> DEFINE p == [code |-> aliases[Record.title], source |-> "dmtf", confidence |-> 100]
      <3>2. p \in Prediction
        BY <3>1 DEF Prediction
      <3> QED
        BY <2>4, <3>2
    <2>5. \/ Answered(Miss)
          \/ \E p \in Prediction : Answered(p) /\ p.source = "dmtf"
      BY <1>6, <2>4 DEF LookupDmtf
    <2> QED
      BY <1>0, <1>1, <2>1, <2>2, <2>5
  <1> QED
    BY <1>3, <1>5, <1>6

LEMMA LookupTypes ==
  ASSUME TypeInv, PassOver \/ LookupConsensus \/ LookupDmtf
  PROVE  TypeInv'
  <1>1. /\ at \in {"stage0", "stage1"}
        /\ UNCHANGED <<tables, jobs, db, outages, known, batch, steady>>
        /\ conn' \in {"none", "open", "broken"} /\ missed' \in BOOLEAN
    BY LookedUp
  <1>2. TypeOK /\ TablesInv /\ Progress
    BY DEF TypeInv
  <1>3. out' \in Seq(Prediction) /\ at' \in {"stage0", "stage1", "stage2"} /\ Progress'
    <2>1. CASE at' = "stage1" /\ out' = out /\ LookupConsensus /\ Record.title # None
      <3>1. at = "stage0"
        BY <2>1 DEF LookupConsensus
      <3>2. Progress'
        BY <1>1, <1>2, <2>1, <3>1 DEF Progress, Before, Record
      <3> QED
        BY <2>1, <3>2, Lengths
    <2>2. ASSUME NEW p \in Prediction, Answered(p), p.source # "stage2",
                 Record.title = None => p = Unclassified, p.source = "miss" => p = Miss
          PROVE  out' \in Seq(Prediction) /\ at' \in {"stage0", "stage2"} /\ Progress'
      BY <1>1, <2>2, AnsweredTypes
    <2> QED
      BY <2>1, <2>2, LookedUp
  <1>4. TablesInv'
    BY <1>1, <1>2 DEF TablesInv, tables, jobs
  <1>5. conn' = "open" => db'
    BY <1>2, OpenIsUp DEF TypeOK, Next
  <1>6. TypeOK'
    BY <1>1, <1>2, <1>3, <1>5 DEF TypeOK, Entries, tables, jobs
  <1> QED
    BY <1>3, <1>4, <1>6 DEF TypeInv

LEMMA WorkerTypes ==
  ASSUME TypeInv, Start \/ Stop \/ Take \/ Stage2
  PROVE  TypeInv'
  <1>0. TypeOK /\ TablesInv /\ Progress
    BY DEF TypeInv
  <1>1. UNCHANGED <<tables, jobs, db, outages>>
    BY DEF Start, Stop, Take, Stage2, Rest
  <1>2. TablesInv'
    BY <1>0, <1>1 DEF TablesInv, tables, jobs
  <1>3. ASSUME conn' \in {"none", "open", "broken"},
               known' # None => DOMAIN known' \subseteq Titles /\ known' \in [DOMAIN known' -> Codes],
               batch' \in Seq(Records), out' \in Seq(Prediction),
               at' \in {"off", "idle", "stage0", "stage1", "stage2", "done"},
               steady' \in [keys : SUBSET Keys, titles : SUBSET Titles], missed' \in BOOLEAN
        PROVE  TypeOK'
    <2>1. conn' = "open" => db'
      BY <1>0, OpenIsUp DEF TypeOK, Next
    <2> QED
      BY <1>0, <1>1, <1>3, <2>1 DEF TypeOK, Entries, tables, jobs
  <1>4. CASE Start
    <2>1. \/ known' = None
          \/ DOMAIN known' \subseteq Titles /\ known' \in [DOMAIN known' -> Codes]
      <3>1. Snapshot \in [{t \in Titles : Aliased(t)} -> Codes]
        BY <1>0 DEF Snapshot, Aliased, TypeOK
      <3>2. known' = None \/ known' = Snapshot
        BY <1>4 DEF Start
      <3> QED
        BY <3>1, <3>2
    <2>2. conn' \in {"none", "open", "broken"}
      BY <1>4 DEF Start
    <2>3. TypeOK'
      BY <1>0, <1>3, <1>4, <2>1, <2>2 DEF Start, TypeOK
    <2>4. Progress'
      <3>1. batch = <<>> /\ out = <<>>
        BY <1>0, <1>4 DEF Start, Progress
      <3> QED
        BY <1>4, <3>1 DEF Start, Progress
    <2> QED
      BY <1>2, <2>3, <2>4 DEF TypeInv
  <1>5. CASE Stop
    <2>1. NoSteady \in [keys : SUBSET Keys, titles : SUBSET Titles]
      BY DEF NoSteady
    <2>2. <<>> \in Seq(Records) /\ <<>> \in Seq(Prediction)
      OBVIOUS
    <2>3. TypeOK'
      BY <1>3, <1>5, <2>1, <2>2 DEF Stop
    <2>4. Progress'
      BY <1>5 DEF Stop, Progress
    <2> QED
      BY <1>2, <2>3, <2>4 DEF TypeInv
  <1>6. CASE Take
    <2>1. batch' \in Seq(Records) /\ Len(batch') \in Nat \ {0}
      <3>1. PICK n \in 1 .. BatchSize : batch' \in [1 .. n -> Records]
        BY <1>6 DEF Take
      <3>2. n \in Nat \ {0}
        <4>1. BatchSize \in Nat
          BY Numbers
        <4> QED
          BY <4>1
      <3>3. batch' \in Seq(Records)
        BY <3>1, <3>2
      <3>4. Len(batch') = n
        BY <3>1, <3>2
      <3> QED
        BY <3>2, <3>3, <3>4
    <2>2. steady' \in [keys : SUBSET Keys, titles : SUBSET Titles]
      <3>1. DOMAIN consensus \subseteq Keys
        BY <1>0 DEF TypeOK, Entries
      <3> QED
        BY <1>6, <3>1 DEF Take
    <2>3. out' \in Seq(Prediction) /\ at' = "stage0" /\ missed' \in BOOLEAN
      <3>1. out' = <<>> /\ at' = "stage0" /\ missed' = FALSE
        BY <1>6 DEF Take
      <3>2. <<>> \in Seq(Prediction)
        OBVIOUS
      <3> QED
        BY <3>1, <3>2, Zenon
    <2>5. /\ UNCHANGED <<conn, known>> /\ conn \in {"none", "open", "broken"}
          /\ known # None => DOMAIN known \subseteq Titles /\ known \in [DOMAIN known -> Codes]
      BY <1>0, <1>6 DEF Take, TypeOK
    <2>6. TypeOK'
      BY <1>3, <2>1, <2>2, <2>3, <2>5
    <2>4. Progress'
      <3>1. out' = <<>> /\ at' = "stage0" /\ Len(out') = 0
        BY <1>6 DEF Take
      <3> QED
        BY <2>1, <3>1 DEF Progress
    <2> QED
      BY <1>2, <2>4, <2>6 DEF TypeInv
  <1>7. CASE Stage2
    <2>1. /\ out' \in Seq(Prediction) /\ Len(out') = Len(out) /\ DOMAIN out' = DOMAIN out
          /\ \A i \in DOMAIN out :
               \/ out'[i] = out[i] /\ out[i] # Miss
               \/ /\ out[i] = Miss
                  /\ \/ out'[i] = Unclassified
                     \/ /\ known # None
                        /\ \E a \in Nearest(batch[i].title) :
                             out'[i] = Retrieved(batch[i].title, a)
      BY <1>7, Stage2Shape
    <2>2. at = "stage2" /\ at' = "done" /\ UNCHANGED <<conn, known, batch, steady, missed>>
      BY <1>7 DEF Stage2
    <2>3. TypeOK'
      BY <1>0, <1>3, <2>1, <2>2 DEF TypeOK
    <2>4. ASSUME NEW i \in DOMAIN out PROVE Before(i)'
      <3>1. Before(i)
        BY <1>0 DEF Progress
      <3>2. Unclassified.source = "unclassified" /\ Miss.source = "miss"
        BY DEF Unclassified, Miss
      <3>3. ASSUME out[i] = Miss PROVE batch[i].title # None
        <4>1. Unclassified # Miss
          BY <3>2
        <4> QED
          BY <3>1, <3>3, <4>1 DEF Before
      <3>4. \A a : Retrieved(batch[i].title, a).source = "stage2"
        BY DEF Retrieved
      <3>5. CASE out'[i] = out[i] /\ out[i] # Miss
        BY <2>2, <3>1, <3>5 DEF Before
      <3>6. CASE /\ out[i] = Miss
                 /\ \/ out'[i] = Unclassified
                    \/ \E a : out'[i] = Retrieved(batch[i].title, a)
        BY <2>2, <3>2, <3>3, <3>4, <3>6 DEF Before
      <3> QED
        BY <2>1, <3>5, <3>6
    <2>5. Progress'
      BY <1>0, <2>1, <2>2, <2>4 DEF Progress
    <2> QED
      BY <1>2, <2>3, <2>5 DEF TypeInv
  <1> QED
    BY <1>4, <1>5, <1>6, <1>7

LEMMA StepTypes == TypeInv /\ [Next]_vars => TypeInv'
  <1> SUFFICES ASSUME TypeInv, [Next]_vars PROVE TypeInv'
    OBVIOUS
  <1>1. CASE UNCHANGED vars
    <2>1. Progress'
      BY <1>1, ProgressKept DEF vars
    <2>2. TypeOK' /\ TablesInv'
      BY <1>1 DEF vars, TypeInv, TypeOK, TablesInv, Entries
    <2> QED
      BY <2>1, <2>2 DEF TypeInv
  <1> QED
    BY <1>1, TableTypes, LookupTypes, WorkerTypes DEF Next

LEMMA InitTypes == Init => TypeInv
  <1> SUFFICES ASSUME Init PROVE TypeInv
    OBVIOUS
  <1>1. DOMAIN consensus = {} /\ Entries(consensus)
    BY DEF Init, Empty, Entries
  <1>2. toLoad \in {SubSeq(Dmtf, n, Len(Dmtf)) : n \in 1 .. Len(Dmtf) + 1}
    <2>1. Len(Dmtf) + 1 \in 1 .. Len(Dmtf) + 1
      BY DmtfRows
    <2> QED
      BY <2>1, LeftToLoad DEF Init
  <1>3. <<>> \in Seq(Records) /\ <<>> \in Seq(Prediction)
    OBVIOUS
  <1>4. NoSteady \in [keys : SUBSET Keys, titles : SUBSET Titles] /\ 0 \in 0 .. MaxOutages
    BY Constants DEF NoSteady
  <1>5. TypeOK
    <2>1. /\ filed = {} /\ aliases = [t \in Titles |-> None] /\ loads = 0
          /\ mined = None /\ rebuilt = None /\ db = TRUE /\ conn = "none" /\ known = None
          /\ batch = <<>> /\ out = <<>> /\ at = "off" /\ steady = NoSteady
          /\ missed = FALSE /\ outages = 0
      BY DEF Init
    <2>2. aliases \in [Titles -> Codes \union {None}] /\ loads \in 0 .. 1 /\ missed \in BOOLEAN
      <3>1. [t \in Titles |-> None] \in [Titles -> Codes \union {None}] /\ 0 \in 0 .. 1
        OBVIOUS
      <3>2. FALSE \in BOOLEAN
        OBVIOUS
      <3> QED
        BY <2>1, <3>1, <3>2, Zenon
    <2>3. /\ filed \subseteq Cases /\ db \in BOOLEAN /\ conn \in {"none", "open", "broken"}
          /\ at \in {"off", "idle", "stage0", "stage1", "stage2", "done"}
          /\ batch \in Seq(Records) /\ out \in Seq(Prediction)
          /\ steady \in [keys : SUBSET Keys, titles : SUBSET Titles]
          /\ outages \in 0 .. MaxOutages /\ (conn = "open" => db)
          /\ mined = None /\ rebuilt = None /\ known = None
      BY <1>3, <1>4, <2>1, Zenon
    <2> QED
      BY <1>1, <1>2, <2>2, <2>3 DEF TypeOK
  <1>6. TablesInv /\ Progress
    BY FS_EmptySet DEF Init, TablesInv, Progress
  <1> QED
    BY <1>5, <1>6 DEF TypeInv

\* Tables, jobs and the batch have their types, whatever arrives, is mined or
\* goes down meanwhile, and a batch that is done has all its answers
\* (soc_classifier.py, predict_batch).
THEOREM TypeCorrect == Spec => []TypeOK
  <1>1. TypeInv => TypeOK
    BY DEF TypeInv
  <1> QED
    BY <1>1, InitTypes, StepTypes, PTL DEF Spec

-----------------------------------------------------------------------------
(* The codes of the file.                                                  *)

\* While load-dmtf is at work, the titles before those that are left have
\* their codes; once it has ended, all have.
Loaded(n) == \A i \in 1 .. n : aliases[Dmtf[i][1]] = Dmtf[i][2]
LoadInv ==
  /\ \A n \in 1 .. Len(Dmtf) : toLoad = SubSeq(Dmtf, n, Len(Dmtf)) => Loaded(n - 1)
  /\ loads > 0 => Loaded(Len(Dmtf))

LEMMA LeftIsOnce ==
  ASSUME NEW n \in 1 .. Len(Dmtf) + 1
  PROVE  /\ Len(SubSeq(Dmtf, n, Len(Dmtf))) = Len(Dmtf) - n + 1
         /\ \A m \in 1 .. Len(Dmtf) + 1 :
              SubSeq(Dmtf, n, Len(Dmtf)) = SubSeq(Dmtf, m, Len(Dmtf)) => n = m
  <1>1. \A m \in 1 .. Len(Dmtf) + 1 : Len(SubSeq(Dmtf, m, Len(Dmtf))) = Len(Dmtf) - m + 1
    <2> SUFFICES ASSUME NEW m \in 1 .. Len(Dmtf) + 1
                 PROVE  Len(SubSeq(Dmtf, m, Len(Dmtf))) = Len(Dmtf) - m + 1
      OBVIOUS
    <2>1. m \in Int /\ Len(Dmtf) \in Int /\ m >= 1
      BY DmtfRows
    <2>2. \A i \in m .. Len(Dmtf) : Dmtf[i] \in Titles \X Codes
      BY <2>1, Constants
    <2>3. Len(SubSeq(Dmtf, m, Len(Dmtf))) = IF m <= Len(Dmtf) THEN Len(Dmtf) - m + 1 ELSE 0
      BY <2>1, <2>2, SubSeqProperties
    <2> QED
      BY <2>1, <2>3
  <1> QED
    BY <1>1, Constants

\* What is kept of the titles that have a code.
LEMMA LoadedKept ==
  ASSUME NEW n \in 0 .. Len(Dmtf), Loaded(n),
         \A t \in Titles : Aliased(t) => aliases'[t] = aliases[t]
  PROVE  Loaded(n)'
  <1> SUFFICES ASSUME NEW i \in 1 .. n
               PROVE  aliases'[Dmtf[i][1]] = Dmtf[i][2]
    BY DEF Loaded
  <1>1. i \in 1 .. Len(Dmtf)
    BY DmtfRows
  <1>2. Dmtf[i][1] \in Titles /\ Dmtf[i][2] \in Codes
    BY <1>1, Constants
  <1>3. aliases[Dmtf[i][1]] = Dmtf[i][2]
    BY DEF Loaded
  <1>4. Aliased(Dmtf[i][1])
    BY <1>2, <1>3, Constants DEF Aliased
  <1> QED
    BY <1>2, <1>3, <1>4

LEMMA LoadStep == TypeInv /\ LoadInv /\ [Next]_vars => LoadInv'
  <1> SUFFICES ASSUME TypeInv, LoadInv, [Next]_vars PROVE LoadInv'
    OBVIOUS
  <1>0. TypeOK /\ TablesInv
    BY DEF TypeInv
  <1>1. ASSUME UNCHANGED <<toLoad, loads>>,
               \A t \in Titles : Aliased(t) => aliases'[t] = aliases[t]
        PROVE  LoadInv'
    <2>1. \A n \in 0 .. Len(Dmtf) : Loaded(n) => Loaded(n)'
      BY <1>1, LoadedKept
    <2>2. \A n \in 1 .. Len(Dmtf) : n - 1 \in 0 .. Len(Dmtf)
      BY DmtfRows
    <2>3. Len(Dmtf) \in 0 .. Len(Dmtf)
      BY DmtfRows
    <2> QED
      BY <1>1, <2>1, <2>2, <2>3 DEF LoadInv
  <1>2. CASE UNCHANGED <<toLoad, loads, aliases>>
    BY <1>1, <1>2
  <1>3. CASE StartLoad
    <2>1. toLoad' = SubSeq(Dmtf, 1, Len(Dmtf)) /\ loads' = 0 /\ UNCHANGED aliases
      BY <1>3, LeftToLoad DEF StartLoad, tables
    <2>2. ASSUME NEW n \in 1 .. Len(Dmtf), toLoad' = SubSeq(Dmtf, n, Len(Dmtf))
          PROVE  Loaded(n - 1)'
      <3>0. 1 \in 1 .. Len(Dmtf) + 1 /\ n \in 1 .. Len(Dmtf) + 1
        BY DmtfRows
      <3>1. n = 1
        BY <2>1, <2>2, <3>0, LeftIsOnce
      <3> QED
        BY <3>1 DEF Loaded
    <2> QED
      BY <2>1, <2>2 DEF LoadInv
  <1>4. CASE LoadBatch
    <2>1. PICK n \in 1 .. Len(Dmtf) :
            /\ toLoad = SubSeq(Dmtf, n, Len(Dmtf))
            /\ Head(toLoad) = Dmtf[n] /\ Dmtf[n] \in Titles \X Codes
            /\ Tail(toLoad) = SubSeq(Dmtf, n + 1, Len(Dmtf))
      BY <1>0, <1>4, NextToLoad DEF LoadBatch
    <2>2. n \in Nat /\ Len(Dmtf) \in Nat /\ n <= Len(Dmtf) /\ n + 1 \in 1 .. Len(Dmtf) + 1
      BY DmtfRows
    <2>3. Loaded(n)'
      <3>1. Loaded(n - 1)
        BY <2>1 DEF LoadInv
      <3>2. aliases' = [aliases EXCEPT ![Dmtf[n][1]] = Dmtf[n][2]] /\ Dmtf[n][1] \in Titles
        BY <1>4, <2>1 DEF LoadBatch
      <3>3. aliases \in [Titles -> Codes \union {None}]
        BY <1>0 DEF TypeOK
      <3>4. ASSUME NEW i \in 1 .. n PROVE aliases'[Dmtf[i][1]] = Dmtf[i][2]
        <4>1. i \in 1 .. Len(Dmtf)
          BY <2>2
        <4>2. Dmtf[i][1] \in Titles
          BY <4>1, Constants
        <4>3. CASE i = n
          BY <3>2, <3>3, <4>3
        <4>4. CASE i # n
          <5>1. i \in 1 .. (n - 1)
            BY <2>2, <4>4
          <5>2. DOMAIN Dmtf = 1 .. Len(Dmtf)
            BY DmtfRows
          <5>3. Dmtf[i][1] # Dmtf[n][1]
            BY <4>1, <4>4, <5>2, ClassifierAssumption
          <5>4. aliases[Dmtf[i][1]] = Dmtf[i][2]
            BY <3>1, <5>1 DEF Loaded
          <5> QED
            BY <3>2, <3>3, <4>2, <5>3, <5>4
        <4> QED
          BY <4>3, <4>4
      <3> QED
        BY <3>4 DEF Loaded
    <2>4. toLoad' = SubSeq(Dmtf, n + 1, Len(Dmtf))
      BY <1>4, <2>1 DEF LoadBatch
    <2>5. ASSUME NEW m \in 1 .. Len(Dmtf), toLoad' = SubSeq(Dmtf, m, Len(Dmtf))
          PROVE  Loaded(m - 1)'
      <3>1. m \in 1 .. Len(Dmtf) + 1
        BY <2>2
      <3>2. m = n + 1
        BY <2>2, <2>4, <2>5, <3>1, LeftIsOnce
      <3>3. m - 1 = n
        BY <2>2, <3>2
      <3> QED
        BY <2>3, <3>3 DEF Loaded
    <2>6. ASSUME loads' > 0 PROVE Loaded(Len(Dmtf))'
      <3>1. loads = 0
        BY <1>0, <1>4 DEF LoadBatch, TablesInv
      <3>2. toLoad' = <<>>
        BY <1>4, <2>6, <3>1 DEF LoadBatch
      <3>3. SubSeq(Dmtf, n + 1, Len(Dmtf)) = SubSeq(Dmtf, Len(Dmtf) + 1, Len(Dmtf))
        BY <2>4, <3>2, LeftToLoad
      <3>4. n = Len(Dmtf)
        <4>1. Len(Dmtf) + 1 \in 1 .. Len(Dmtf) + 1
          BY <2>2
        <4>2. n + 1 = Len(Dmtf) + 1
          BY <2>2, <3>3, <4>1, LeftIsOnce
        <4> QED
          BY <2>2, <4>2
      <3> QED
        BY <2>3, <3>4
    <2> QED
      BY <2>5, <2>6 DEF LoadInv
  <1>5. CASE InsertAliases
    <2>1. \A t \in Titles : Aliased(t) => aliases'[t] = aliases[t]
      BY <1>5 DEF InsertAliases
    <2> QED
      BY <1>1, <1>5, <2>1 DEF InsertAliases
  <1>6. CASE DbDown
    <2>1. toLoad' = SubSeq(Dmtf, Len(Dmtf) + 1, Len(Dmtf)) /\ UNCHANGED <<loads, aliases>>
      BY <1>6, LeftToLoad DEF DbDown, tables
    <2>2. ASSUME NEW n \in 1 .. Len(Dmtf), toLoad' = SubSeq(Dmtf, n, Len(Dmtf)) PROVE FALSE
      <3>1. n \in 1 .. Len(Dmtf) + 1 /\ Len(Dmtf) + 1 \in 1 .. Len(Dmtf) + 1 /\ n # Len(Dmtf) + 1
        BY DmtfRows
      <3> QED
        BY <2>1, <2>2, <3>1, LeftIsOnce
    <2>3. loads' > 0 => Loaded(Len(Dmtf))'
      BY <2>1 DEF LoadInv, Loaded
    <2> QED
      BY <2>2, <2>3 DEF LoadInv
  <1>7. CASE File \/ MineAliases \/ MineConsensus \/ RebuildConsensus \/ DbUp
    BY <1>2, <1>7 DEF File, MineAliases, MineConsensus, RebuildConsensus, DbUp, tables, jobs
  <1>8. CASE Start \/ Stop \/ Take \/ Stage2 \/ PassOver \/ LookupConsensus \/ LookupDmtf
    <2>1. UNCHANGED <<tables, jobs>>
      BY <1>8, LookedUp DEF Start, Stop, Take, Stage2, Rest
    <2> QED
      BY <1>2, <2>1 DEF tables, jobs
  <1>9. CASE UNCHANGED vars
    BY <1>2, <1>9 DEF vars
  <1> QED
    BY <1>3, <1>4, <1>5, <1>6, <1>7, <1>8, <1>9 DEF Next

\* "Direct Match Title File": once load-dmtf has ended, its titles keep its
\* codes, whatever bootstrap-aliases mined before and inserts afterwards, and
\* however often the server went down before (dmtf_loader.py,
\* alias_bootstrap.py).
THEOREM FilePrevails == Spec => []DmtfPrevails
  <1>1. Init => LoadInv
    <2> SUFFICES ASSUME Init PROVE LoadInv
      OBVIOUS
    <2>1. toLoad = SubSeq(Dmtf, Len(Dmtf) + 1, Len(Dmtf)) /\ loads = 0
      BY LeftToLoad DEF Init
    <2>2. ASSUME NEW n \in 1 .. Len(Dmtf), toLoad = SubSeq(Dmtf, n, Len(Dmtf)) PROVE FALSE
      <3>1. n \in 1 .. Len(Dmtf) + 1 /\ Len(Dmtf) + 1 \in 1 .. Len(Dmtf) + 1 /\ n # Len(Dmtf) + 1
        BY DmtfRows
      <3> QED
        BY <2>1, <2>2, <3>1, LeftIsOnce
    <2> QED
      BY <2>1, <2>2 DEF LoadInv
  <1>2. LoadInv => DmtfPrevails
    <2>1. DOMAIN Dmtf = 1 .. Len(Dmtf)
      BY DmtfRows
    <2> QED
      BY <2>1 DEF LoadInv, Loaded, DmtfPrevails
  <1> QED
    BY <1>1, <1>2, InitTypes, StepTypes, LoadStep, PTL DEF Spec

-----------------------------------------------------------------------------
(* The order of the stages.                                                *)

\* What is steady is in its table, and a record that has come to stage 1 was
\* not steadily one of its employer's.
Key(r) == <<r.fein, Trim[r.title]>>
SteadyIsThere ==
  /\ steady.keys \subseteq DOMAIN consensus
  /\ \A t \in steady.titles : Aliased(t)
PassedStage0 == at = "stage1" /\ ~missed => Key(Record) \notin steady.keys
StageInv == SteadyIsThere /\ PassedStage0 /\ HigherStageAnswers

\* Fewer entries are steady than before.
LEMMA LessIsSteady ==
  ASSUME StageInv, UNCHANGED <<batch, out, at, missed>>,
         steady'.keys \subseteq steady.keys, steady'.titles \subseteq steady.titles
  PROVE  PassedStage0' /\ HigherStageAnswers'
  <1>1. PassedStage0'
    BY DEF StageInv, PassedStage0, Key, Record
  <1>2. HigherStageAnswers'
    BY DEF StageInv, HigherStageAnswers
  <1> QED
    BY <1>1, <1>2

LEMMA AnsweredInOrder ==
  ASSUME TypeInv, StageInv, NEW p, Answered(p), UNCHANGED <<batch, steady>>, missed => missed',
         missed' \in BOOLEAN,
         Record.title # None /\ ~missed' =>
           /\ Key(Record) \in steady.keys => p.source = "employer_consensus"
           /\ Record.title \in steady.titles => p.source \in {"employer_consensus", "dmtf"}
  PROVE  PassedStage0' /\ HigherStageAnswers'
  <1>1. at' # "stage1"
    BY DEF Answered
  <1>2. PICK n \in Nat : n = Len(out)
    BY Lengths
  <1>3. /\ DOMAIN out' = 1 .. (n + 1) /\ DOMAIN out = 1 .. n
        /\ out'[n + 1] = p /\ \A i \in 1 .. n : out'[i] = out[i]
    <2>1. out' = Append(out, p) /\ out \in Seq(Prediction)
      BY Lengths DEF Answered
    <2> QED
      BY <1>2, <2>1
  <1>4. ASSUME NEW i \in DOMAIN out', batch[i].title # None, ~missed'
        PROVE  /\ Key(batch[i]) \in steady.keys => out'[i].source = "employer_consensus"
               /\ batch[i].title \in steady.titles =>
                    out'[i].source \in {"employer_consensus", "dmtf"}
    <2>1. CASE i = n + 1
      BY <1>2, <1>3, <1>4, <2>1 DEF Record
    <2>2. CASE i # n + 1
      <3>1. i \in DOMAIN out /\ out'[i] = out[i]
        BY <1>2, <1>3, <2>2
      <3>2. ~missed
        BY <1>4
      <3> QED
        BY <1>4, <3>1, <3>2 DEF StageInv, HigherStageAnswers, Key
    <2> QED
      BY <2>1, <2>2
  <1>5. HigherStageAnswers'
    BY <1>4 DEF HigherStageAnswers, Key
  <1> QED
    BY <1>1, <1>5 DEF PassedStage0

LEMMA TableStages ==
  ASSUME TypeInv, StageInv,
         \/ File \/ StartLoad \/ LoadBatch \/ MineAliases \/ InsertAliases
         \/ MineConsensus \/ RebuildConsensus \/ DbDown \/ DbUp
  PROVE  StageInv'
  <1>1. UNCHANGED <<batch, out, at, missed>>
    BY DEF File, StartLoad, LoadBatch, MineAliases, InsertAliases, MineConsensus,
           RebuildConsensus, DbDown, DbUp, worker
  <1>2. CASE UNCHANGED <<consensus, aliases, steady>>
    <2>1. SteadyIsThere'
      BY <1>2 DEF StageInv, SteadyIsThere, Aliased
    <2>2. PassedStage0' /\ HigherStageAnswers'
      BY <1>1, <1>2, LessIsSteady
    <2> QED
      BY <2>1, <2>2 DEF StageInv
  <1>3. CASE Committed(consensus', aliases')
    <2>1. /\ steady'.keys = steady.keys \cap DOMAIN consensus'
          /\ steady'.titles = {t \in steady.titles : aliases'[t] # None}
      BY <1>3, CommittedTypes
    <2>2. SteadyIsThere'
      BY <2>1 DEF SteadyIsThere, Aliased
    <2>3. PassedStage0' /\ HigherStageAnswers'
      BY <1>1, <2>1, LessIsSteady
    <2> QED
      BY <2>2, <2>3 DEF StageInv
  <1>4. \/ UNCHANGED <<consensus, aliases, steady>>
        \/ Committed(consensus', aliases')
    <2>1. CASE File \/ StartLoad \/ MineAliases \/ MineConsensus \/ DbDown \/ DbUp
      BY <2>1 DEF File, StartLoad, MineAliases, MineConsensus, DbDown, DbUp, tables
    <2>2. CASE LoadBatch
      BY <2>2 DEF LoadBatch, Committed
    <2>3. CASE InsertAliases
      BY <2>3 DEF InsertAliases, Committed
    <2>4. CASE RebuildConsensus
      BY <2>4 DEF RebuildConsensus, Committed
    <2> QED
      BY <2>1, <2>2, <2>3, <2>4
  <1> QED
    BY <1>2, <1>3, <1>4

\* A lookup that has not failed saw the whole table.
LEMMA AskedOpen ==
  ASSUME TypeInv, Asked
  PROVE  /\ missed => missed'
         /\ ~missed' => Answers /\ ~missed
  <1>1. missed' = (missed \/ conn # "open")
    BY DEF Asked
  <1> QED
    BY <1>1 DEF Answers

LEMMA LookupStages ==
  ASSUME TypeInv, StageInv, PassOver \/ LookupConsensus \/ LookupDmtf
  PROVE  StageInv'
  <1>0. /\ Record \in Records
        /\ UNCHANGED <<tables, jobs, db, outages, known, batch, steady>>
        /\ missed' \in BOOLEAN
    BY LookedUp
  <1>1. SteadyIsThere'
    BY <1>0 DEF StageInv, SteadyIsThere, Aliased, tables
  <1>2. SteadyIsThere /\ PassedStage0 /\ HigherStageAnswers /\ steady.keys \subseteq Keys
    BY DEF StageInv, TypeInv, TypeOK
  <1>3. CASE PassOver
    <2>1. Answered(Unclassified) /\ Record.title = None /\ missed' = missed
      BY <1>3 DEF PassOver
    <2> QED
      BY <1>0, <1>1, <2>1, AnsweredInOrder DEF StageInv
  <1>4. CASE LookupConsensus
    <2>1. at = "stage0" /\ Record.title # None /\ Key(Record) = <<Record.fein, Trim[Record.title]>>
      BY <1>4 DEF LookupConsensus, Key
    <2>2. missed => missed'
      BY <1>4, AskedOpen DEF LookupConsensus
    <2>3. CASE Answers /\ Key(Record) \in DOMAIN consensus
      <3>1. PICK p : Answered(p) /\ p.source = "employer_consensus"
        <4> DEFINE p == [code |-> consensus[Key(Record)].code, source |-> "employer_consensus",
                         confidence |-> Min({99, consensus[Key(Record)].agreement})]
        <4>1. Answered(p)
          BY <1>4, <2>1, <2>3 DEF LookupConsensus
        <4>2. p.source = "employer_consensus"
          OBVIOUS
        <4> QED
          BY <4>1, <4>2
      <3> QED
        BY <1>0, <1>1, <2>2, <3>1, AnsweredInOrder DEF StageInv
    <2>4. CASE ~(Answers /\ Key(Record) \in DOMAIN consensus)
      <3>1. at' = "stage1" /\ out' = out
        BY <1>4, <2>1, <2>4 DEF LookupConsensus
      <3>2. ASSUME ~missed' PROVE Key(Record) \notin steady.keys
        <4>1. CASE Record.fein = None
          <5>1. Key(Record) \notin Keys
            BY <2>1, <4>1, Constants DEF Keys
          <5> QED
            BY <1>2, <5>1
        <4>2. CASE Record.fein # None
          <5>1. Answers
            BY <1>4, <3>2, <4>2, AskedOpen DEF LookupConsensus
          <5> QED
            BY <1>2, <2>4, <5>1 DEF SteadyIsThere
        <4> QED
          BY <4>1, <4>2
      <3>3. PassedStage0'
        <4>1. Record' = Record
          BY <1>0, <3>1 DEF Record
        <4>2. Key(Record)' = Key(Record)
          BY <4>1 DEF Key
        <4> QED
          BY <1>0, <3>2, <4>2 DEF PassedStage0
      <3>4. HigherStageAnswers'
        BY <1>0, <1>2, <2>2, <3>1 DEF HigherStageAnswers
      <3> QED
        BY <1>1, <3>3, <3>4 DEF StageInv
    <2> QED
      BY <2>3, <2>4
  <1>5. CASE LookupDmtf
    <2>1. at = "stage1" /\ Asked
      BY <1>5 DEF LookupDmtf
    <2>2. /\ missed => missed'
          /\ ~missed' => Answers /\ ~missed
      BY <2>1, AskedOpen
    <2>3. ASSUME ~missed' PROVE Key(Record) \notin steady.keys
      BY <1>2, <2>1, <2>2, <2>3 DEF PassedStage0
    <2>4. CASE Answers /\ Aliased(Record.title)
      <3>1. PICK p : Answered(p) /\ p.source = "dmtf"
        <4> DEFINE p == [code |-> aliases[Record.title], source |-> "dmtf", confidence |-> 100]
        <4>1. Answered(p)
          BY <1>5, <2>4 DEF LookupDmtf
        <4>2. p.source = "dmtf"
          OBVIOUS
        <4> QED
          BY <4>1, <4>2
      <3> QED
        BY <1>0, <1>1, <2>2, <2>3, <3>1, AnsweredInOrder DEF StageInv
    <2>5. CASE ~(Answers /\ Aliased(Record.title))
      <3>1. Answered(Miss)
        BY <1>5, <2>5 DEF LookupDmtf
      <3>2. ASSUME ~missed' PROVE Record.title \notin steady.titles
        BY <1>2, <2>2, <2>5, <3>2 DEF SteadyIsThere
      <3> QED
        BY <1>0, <1>1, <2>2, <2>3, <3>1, <3>2, AnsweredInOrder DEF StageInv
    <2> QED
      BY <2>4, <2>5
  <1> QED
    BY <1>3, <1>4, <1>5

LEMMA WorkerStages ==
  ASSUME TypeInv, StageInv, Start \/ Stop \/ Take \/ Stage2
  PROVE  StageInv'
  <1>1. UNCHANGED <<consensus, aliases>>
    BY DEF Start, Stop, Take, Stage2, Rest, tables
  <1>2. PassedStage0'
    <2>1. at' # "stage1"
      BY DEF Start, Stop, Take, Stage2
    <2> QED
      BY <2>1 DEF PassedStage0
  <1>3. SteadyIsThere'
    <2>1. CASE Start \/ Stage2
      BY <1>1, <2>1 DEF Start, Stage2, StageInv, SteadyIsThere, Aliased
    <2>2. CASE Stop
      BY <2>2 DEF Stop, NoSteady, SteadyIsThere
    <2>3. CASE Take
      <3>1. /\ steady'.keys = DOMAIN consensus
            /\ steady'.titles = {t \in Titles : Aliased(t)}
        BY <2>3 DEF Take
      <3> QED
        BY <1>1, <3>1 DEF SteadyIsThere, Aliased
    <2> QED
      BY <2>1, <2>2, <2>3
  <1>4. HigherStageAnswers'
    <2>1. CASE Start \/ Stop \/ Take
      <3>1. out' = <<>>
        BY <2>1 DEF Start, Stop, Take, TypeInv, Progress
      <3>2. DOMAIN out' = {}
        BY <3>1
      <3> QED
        BY <3>2 DEF HigherStageAnswers
    <2>2. CASE Stage2
      <3>1. /\ DOMAIN out' = DOMAIN out
            /\ \A i \in DOMAIN out : out'[i] = out[i] \/ out[i] = Miss
        BY <2>2, Stage2Shape
      <3>2. UNCHANGED <<batch, steady, missed>>
        BY <2>2 DEF Stage2
      <3>3. Miss.source = "miss"
        BY DEF Miss
      <3>4. ASSUME NEW i \in DOMAIN out, batch[i].title # None, ~missed
            PROVE  /\ Key(batch[i]) \in steady.keys => out'[i].source = "employer_consensus"
                   /\ batch[i].title \in steady.titles =>
                        out'[i].source \in {"employer_consensus", "dmtf"}
        <4>1. /\ Key(batch[i]) \in steady.keys => out[i].source = "employer_consensus"
              /\ batch[i].title \in steady.titles =>
                   out[i].source \in {"employer_consensus", "dmtf"}
          BY <3>4 DEF StageInv, HigherStageAnswers, Key
        <4>2. CASE out'[i] = out[i]
          BY <4>1, <4>2
        <4>3. CASE out[i] = Miss
          BY <3>3, <4>1, <4>3
        <4> QED
          BY <3>1, <4>2, <4>3
      <3> QED
        BY <3>1, <3>2, <3>4 DEF HigherStageAnswers, Key
    <2> QED
      BY <2>1, <2>2
  <1> QED
    BY <1>2, <1>3, <1>4 DEF StageInv

\* "Stage 0 (employer) -> Stage 1 (DMTF) -> Stage 2 (retrieval)": an entry that
\* stays in its table while a batch is looked up answers for its records,
\* whatever is upserted, mined and rebuilt meanwhile, unless a lookup failed
\* (soc_classifier.py, predict, predict_batch).
THEOREM StagesInOrder == Spec => []HigherStageAnswers
  <1>1. Init => StageInv
    BY DEF Init, StageInv, SteadyIsThere, PassedStage0, HigherStageAnswers, NoSteady
  <1>2. TypeInv /\ StageInv /\ [Next]_vars => StageInv'
    <2> SUFFICES ASSUME TypeInv, StageInv, [Next]_vars PROVE StageInv'
      OBVIOUS
    <2>1. CASE UNCHANGED vars
      BY <2>1 DEF vars, StageInv, SteadyIsThere, Aliased, PassedStage0, Key, Record,
                  HigherStageAnswers
    <2> QED
      BY <2>1, TableStages, LookupStages, WorkerStages DEF Next
  <1>3. StageInv => HigherStageAnswers
    BY DEF StageInv
  <1> QED
    BY <1>1, <1>2, <1>3, InitTypes, StepTypes, PTL DEF Spec

-----------------------------------------------------------------------------
(* Answers of stage 2.                                                     *)

\* Every record of a batch gets an answer, and one from stage 2 is the nearest
\* alias of its own title: miss_indices and the answers run in step, however
\* hits and misses alternate (soc_classifier.py, predict_batch).
THEOREM AnswersAreOwn == Spec => []AnswerIsOwn
  <1>1. Init => AnswerIsOwn
    BY DEF Init, AnswerIsOwn
  <1>2. TypeInv /\ AnswerIsOwn /\ [Next]_vars => AnswerIsOwn'
    <2> SUFFICES ASSUME TypeInv, AnswerIsOwn, [Next]_vars PROVE AnswerIsOwn'
      OBVIOUS
    <2>1. CASE Stage2
      <3>1. /\ at = "stage2" /\ UNCHANGED <<known, batch>>
        BY <2>1 DEF Stage2
      <3>2. /\ DOMAIN out' = DOMAIN out
            /\ \A i \in DOMAIN out :
                 \/ out'[i] = out[i] /\ out[i] # Miss
                 \/ /\ out[i] = Miss
                    /\ \/ out'[i] = Unclassified
                       \/ \E a \in Nearest(batch[i].title) :
                            out'[i] = Retrieved(batch[i].title, a)
        BY <2>1, Stage2Shape
      <3>3. Unclassified.source = "unclassified" /\ Miss.source = "miss"
        BY DEF Unclassified, Miss
      <3>4. ASSUME NEW i \in DOMAIN out
            PROVE  /\ out'[i].source # "miss"
                   /\ batch[i].title = None => out'[i] = Unclassified
                   /\ out'[i].source = "stage2" =>
                        \E a \in Nearest(batch[i].title) : out'[i] = Retrieved(batch[i].title, a)
        <4>1. /\ batch[i].title = None => out[i] = Unclassified
              /\ out[i].source = "miss" => out[i] = Miss
              /\ out[i].source # "stage2"
          BY <3>1 DEF TypeInv, Progress, Before
        <4>2. CASE out'[i] = out[i] /\ out[i] # Miss
          BY <4>1, <4>2
        <4>3. CASE out[i] = Miss
          <5>1. batch[i].title # None
            <6>1. Unclassified # Miss
              BY <3>3
            <6> QED
              BY <4>1, <4>3, <6>1
          <5>2. CASE out'[i] = Unclassified
            BY <3>3, <5>1, <5>2
          <5>3. ASSUME NEW a \in Nearest(batch[i].title), out'[i] = Retrieved(batch[i].title, a)
                PROVE  out'[i].source # "miss"
            BY <5>3 DEF Retrieved
          <5> QED
            BY <3>2, <4>3, <5>1, <5>2, <5>3
        <4> QED
          BY <3>2, <4>2, <4>3
      <3>5. \A t, a : Nearest(t)' = Nearest(t) /\ Retrieved(t, a)' = Retrieved(t, a)
        BY <3>1 DEF Nearest, Retrieved
      <3>6. Len(out') = Len(batch')
        <4>1. Len(out) = Len(batch)
          BY <3>1 DEF TypeInv, Progress
        <4> QED
          BY <2>1, <3>1, <4>1, Stage2Shape
      <3> QED
        BY <3>1, <3>2, <3>4, <3>5, <3>6 DEF AnswerIsOwn
    <2>2. CASE UNCHANGED <<known, batch, out, at>>
      <3>1. \A t, a : Nearest(t)' = Nearest(t) /\ Retrieved(t, a)' = Retrieved(t, a)
        BY <2>2 DEF Nearest, Retrieved
      <3> QED
        BY <2>2, <3>1 DEF AnswerIsOwn
    <2>3. CASE at' # "done"
      BY <2>3 DEF AnswerIsOwn
    <2>4. CASE Start \/ Stop \/ Take \/ PassOver \/ LookupConsensus \/ LookupDmtf
      BY <2>3, <2>4, LookedUp DEF Start, Stop, Take, Answered
    <2>5. CASE \/ File \/ StartLoad \/ LoadBatch \/ MineAliases \/ InsertAliases
               \/ MineConsensus \/ RebuildConsensus \/ DbDown \/ DbUp \/ UNCHANGED vars
      BY <2>2, <2>5 DEF File, StartLoad, LoadBatch, MineAliases, InsertAliases, MineConsensus,
           RebuildConsensus, DbDown, DbUp, worker, vars
    <2> QED
      BY <2>1, <2>4, <2>5 DEF Next
  <1> QED
    BY <1>1, <1>2, InitTypes, StepTypes, PTL DEF Spec

-----------------------------------------------------------------------------
(* The candidates for the LLM.                                             *)

LEMMA LeastNatural ==
  ASSUME NEW T \in SUBSET Nat, T # {}
  PROVE  \E n \in T : \A m \in T : n <= m
  <1>1. PICK n \in T : \A m \in T : ~(<<m, n>> \in OpToRel(<, Nat))
    BY WFMin, NatLessThanWellFounded
  <1>2. ASSUME NEW m \in T PROVE n <= m
    <2>1. ~(m < n)
      BY <1>1 DEF OpToRel
    <2> QED
      BY <2>1
  <1> QED
    BY <1>2

\* One round of the loop of topk_candidates.
Round(t, before, a) ==
  IF Len(before) = K \/ \E i \in DOMAIN before : before[i].code = known[a] THEN before
  ELSE Append(before, Retrieved(t, a))

\* The loop is what its rounds make of it: of the functions on the first n
\* rounds, each has one more.
LEMMA PickedInRounds ==
  ASSUME NEW t, NEW order, Len(order) \in Nat
  PROVE  /\ Picked(t, order)[0] = <<>>
         /\ \A n \in 1 .. Len(order) :
              Picked(t, order)[n] = Round(t, Picked(t, order)[n - 1], order[n])
  <1> DEFINE Upto(g, k) == g = [n \in 0 .. k |-> IF n = 0 THEN <<>>
                                                 ELSE Round(t, g[n - 1], order[n])]
             T == {k \in Nat : ~ \E g : Upto(g, k)}
  <1>1. T = {}
    <2> SUFFICES ASSUME T # {} PROVE FALSE
      OBVIOUS
    <2>1. PICK k \in T : \A m \in T : k <= m
      BY LeastNatural
    <2>2. CASE k = 0
      <3> DEFINE g == [n \in 0 .. 0 |-> <<>>]
      <3>1. Upto(g, 0)
        OBVIOUS
      <3> QED
        BY <2>1, <2>2, <3>1
    <2>3. CASE k # 0
      <3>0. T \subseteq Nat
        OBVIOUS
      <3>1. k \in Nat /\ k - 1 \in Nat /\ k - 1 \notin T
        <4> HIDE DEF T
        <4>1. k \in Nat /\ k - 1 \in Nat
          BY <2>3, <3>0
        <4>2. ~(k <= k - 1)
          BY <4>1
        <4> QED
          BY <2>1, <4>1, <4>2
      <3>2. PICK g : Upto(g, k - 1)
        BY <3>1
      <3> DEFINE h == [n \in 0 .. k |-> IF n = k THEN Round(t, g[k - 1], order[k]) ELSE g[n]]
      <3>3. \A n \in 0 .. k : h[n] = IF n = 0 THEN <<>> ELSE Round(t, h[n - 1], order[n])
        <4> SUFFICES ASSUME NEW n \in 0 .. k
                     PROVE  h[n] = IF n = 0 THEN <<>> ELSE Round(t, h[n - 1], order[n])
          OBVIOUS
        <4>1. CASE n = k
          <5>1. h[k] = Round(t, g[k - 1], order[k]) /\ h[k - 1] = g[k - 1]
            BY <3>1
          <5> QED
            BY <2>3, <4>1, <5>1
        <4>2. CASE n # k
          <5>1. n \in 0 .. (k - 1)
            BY <3>1, <4>2
          <5>2. g[n] = IF n = 0 THEN <<>> ELSE Round(t, g[n - 1], order[n])
            BY <3>2, <5>1
          <5>3. h[n] = g[n]
            BY <4>2
          <5>4. n # 0 => n - 1 \in 0 .. k /\ n - 1 # k
            BY <3>1, <5>1
          <5>5. n # 0 => h[n - 1] = g[n - 1]
            BY <5>4
          <5> QED
            BY <5>2, <5>3, <5>5
        <4> QED
          BY <4>1, <4>2
      <3>4. Upto(h, k)
        BY <3>3
      <3> QED
        BY <2>1, <3>4
    <2> QED
      BY <2>2, <2>3
  <1>2. PICK g : Upto(g, Len(order))
    BY <1>1
  <1>3. Picked(t, order) = CHOOSE f : Upto(f, Len(order))
    BY DEF Picked, Round
  <1>4. Upto(Picked(t, order), Len(order))
    BY <1>2, <1>3
  <1> QED
    BY <1>4

\* What the loop has picked of the first n aliases: what is not among it is
\* either of a code that is, or no nearer than all of K candidates.
Good(t, order, n, s) ==
  /\ s \in Seq(Prediction) /\ Len(s) <= K
  /\ \A i \in DOMAIN s : \E j \in 1 .. n : s[i] = Retrieved(t, order[j])
  /\ \A i, j \in DOMAIN s : s[i].code = s[j].code => i = j
  /\ \A j \in 1 .. n :
       \/ \E i \in DOMAIN s : s[i].code = known[order[j]]
       \/ Len(s) = K /\ \A i \in DOMAIN s : Sim[t][order[j]] <= s[i].confidence

\* A title, the aliases, and their ranking.
Ranking(t, order) ==
  /\ t \in Titles
  /\ DOMAIN known \subseteq Titles /\ known \in [DOMAIN known -> Codes]
  /\ order \in Seq(DOMAIN known)
  /\ \A i, j \in DOMAIN order : i < j => Sim[t][order[i]] >= Sim[t][order[j]]

LEMMA RetrievedShape ==
  ASSUME NEW t, NEW order, Ranking(t, order), NEW n \in 1 .. Len(order)
  PROVE  /\ Retrieved(t, order[n]) \in Prediction
         /\ Retrieved(t, order[n]).code = known[order[n]]
         /\ Retrieved(t, order[n]).confidence = Sim[t][order[n]]
         /\ Sim[t][order[n]] \in 0 .. 100
  <1>1. order[n] \in DOMAIN known
    BY DEF Ranking
  <1>2. t \in Titles /\ order[n] \in Titles /\ known[order[n]] \in Codes
    BY <1>1 DEF Ranking
  <1>3. PICK m \in 0 .. 100 : m = Sim[t][order[n]]
    BY <1>2, Constants
  <1>4. Retrieved(t, order[n]) =
          [code |-> known[order[n]], confidence |-> m, source |-> "stage2"]
    BY <1>3 DEF Retrieved
  <1> QED
    BY <1>2, <1>3, <1>4 DEF Prediction

LEMMA RoundIsGood ==
  ASSUME NEW t, NEW order, Ranking(t, order), NEW n \in 1 .. Len(order),
         NEW s, Good(t, order, n - 1, s)
  PROVE  Good(t, order, n, Round(t, s, order[n]))
  <1>0. /\ n \in Nat /\ n - 1 \in Nat /\ K \in Nat \ {0}
        /\ s \in Seq(Prediction) /\ Len(s) <= K /\ Len(s) \in Nat /\ DOMAIN s = 1 .. Len(s)
        /\ DOMAIN order = 1 .. Len(order) /\ Len(order) \in Nat
    <2>1. s \in Seq(Prediction) /\ Len(s) <= K
      BY DEF Good
    <2>2. order \in Seq(DOMAIN known)
      BY DEF Ranking
    <2> QED
      BY <2>1, <2>2, Numbers
  <1>1. \A j \in 1 .. n : j = n \/ j \in 1 .. (n - 1)
    BY <1>0
  <1>2. \A j \in 1 .. (n - 1) : j \in 1 .. n /\ j \in 1 .. Len(order) /\ j < n
    BY <1>0
  <1>3. CASE \E i \in DOMAIN s : s[i].code = known[order[n]]
    <2>1. Round(t, s, order[n]) = s
      BY <1>3 DEF Round
    <2> QED
      BY <1>0, <1>1, <1>2, <1>3, <2>1 DEF Good
  <1>4. CASE Len(s) = K
    <2>1. Round(t, s, order[n]) = s
      BY <1>4 DEF Round
    <2>2. ASSUME NEW i \in DOMAIN s PROVE Sim[t][order[n]] <= s[i].confidence
      <3>1. PICK j \in 1 .. (n - 1) : s[i] = Retrieved(t, order[j])
        BY DEF Good
      <3>2. j \in 1 .. Len(order) /\ j < n
        BY <1>2
      <3>3. /\ s[i].confidence = Sim[t][order[j]]
            /\ Sim[t][order[j]] \in 0 .. 100 /\ Sim[t][order[n]] \in 0 .. 100
        BY <3>1, <3>2, RetrievedShape
      <3>4. Sim[t][order[j]] >= Sim[t][order[n]]
        BY <1>0, <3>2 DEF Ranking
      <3> QED
        BY <3>3, <3>4
    <2> QED
      BY <1>0, <1>1, <1>2, <1>4, <2>1, <2>2 DEF Good
  <1>5. CASE Len(s) # K /\ ~ \E i \in DOMAIN s : s[i].code = known[order[n]]
    <2> DEFINE p == Retrieved(t, order[n])
               r == Append(s, p)
    <2>1. Round(t, s, order[n]) = r
      BY <1>5 DEF Round
    <2>2. p \in Prediction /\ p.code = known[order[n]]
      BY RetrievedShape
    <2>3. PICK l \in Nat : l = Len(s)
      BY <1>0
    <2>4. /\ r \in Seq(Prediction) /\ Len(r) = l + 1
          /\ DOMAIN r = 1 .. (l + 1) /\ DOMAIN s = 1 .. l
          /\ r[l + 1] = p /\ \A i \in 1 .. l : r[i] = s[i]
      <3> HIDE DEF p
      <3>1. Append(s, p) \in Seq(Prediction) /\ Len(Append(s, p)) = l + 1
        BY <1>0, <2>2, <2>3
      <3>2. Append(s, p)[l + 1] = p /\ \A i \in 1 .. l : Append(s, p)[i] = s[i]
        BY <1>0, <2>2, <2>3
      <3> QED
        BY <1>0, <2>3, <3>1, <3>2
    <2>5. Len(r) <= K
      <3>1. Len(r) = l + 1 /\ l <= K /\ l # K
        BY <1>0, <1>5, <2>3, <2>4
      <3> HIDE DEF r
      <3> QED
        BY <1>0, <3>1
    <2> HIDE DEF r
    <2>6. ASSUME NEW i \in DOMAIN r PROVE \E j \in 1 .. n : r[i] = Retrieved(t, order[j])
      <3>1. CASE i = l + 1
        BY <1>0, <2>4, <3>1
      <3>2. CASE i # l + 1
        <4>1. i \in DOMAIN s /\ r[i] = s[i]
          BY <2>3, <2>4, <3>2
        <4> QED
          BY <1>2, <4>1 DEF Good
      <3> QED
        BY <3>1, <3>2
    <2>7. ASSUME NEW i \in DOMAIN r, NEW j \in DOMAIN r, r[i].code = r[j].code PROVE i = j
      <3>1. \A m \in DOMAIN s : r[m].code # p.code
        BY <1>5, <2>2, <2>4
      <3>2. \A m \in DOMAIN r : m = l + 1 \/ m \in DOMAIN s
        BY <2>3, <2>4
      <3>3. CASE i \in DOMAIN s /\ j \in DOMAIN s
        BY <2>4, <2>7, <3>3 DEF Good
      <3> HIDE DEF p
      <3> QED
        BY <2>4, <2>7, <3>1, <3>2, <3>3
    <2>8. ASSUME NEW j \in 1 .. n PROVE \E i \in DOMAIN r : r[i].code = known[order[j]]
      <3>1. CASE j = n
        <4>1. l + 1 \in DOMAIN r
          BY <2>3, <2>4
        <4> QED
          BY <2>2, <2>4, <3>1, <4>1
      <3>2. CASE j \in 1 .. (n - 1)
        <4>1. PICK i \in DOMAIN s : s[i].code = known[order[j]]
          BY <1>5, <3>2 DEF Good
        <4>2. i \in DOMAIN r /\ r[i] = s[i]
          BY <2>3, <2>4
        <4> QED
          BY <4>1, <4>2
      <3> QED
        BY <1>1, <3>1, <3>2
    <2> QED
      BY <2>1, <2>4, <2>5, <2>6, <2>7, <2>8 DEF Good
  <1> QED
    BY <1>3, <1>4, <1>5

LEMMA PickedIsGood ==
  ASSUME NEW t, NEW order, Ranking(t, order)
  PROVE  \A n \in 0 .. Len(order) : Good(t, order, n, Picked(t, order)[n])
  <1> DEFINE T == {n \in 0 .. Len(order) : ~Good(t, order, n, Picked(t, order)[n])}
  <1>0. Len(order) \in Nat
    BY DEF Ranking
  <1>1. T \in SUBSET Nat
    BY <1>0
  <1> SUFFICES ASSUME T # {} PROVE FALSE
    OBVIOUS
  <1>2. PICK n \in T : \A m \in T : n <= m
    <2> HIDE DEF T
    <2> QED
      BY <1>1, LeastNatural
  <1>3. n \in Nat /\ n \in 0 .. Len(order) /\ ~Good(t, order, n, Picked(t, order)[n])
    BY <1>0
  <1>4. CASE n = 0
    <2>1. Picked(t, order)[0] = <<>>
      BY <1>0, PickedInRounds
    <2>2. <<>> \in Seq(Prediction) /\ Len(<<>>) <= K /\ DOMAIN <<>> = {}
      BY Numbers
    <2>3. Good(t, order, 0, <<>>)
      BY <2>2 DEF Good
    <2> QED
      BY <1>3, <1>4, <2>1, <2>3
  <1>5. CASE n # 0
    <2>1. n \in 1 .. Len(order) /\ n - 1 \in 0 .. Len(order) /\ ~(n <= n - 1)
      BY <1>0, <1>3, <1>5
    <2>2. n - 1 \notin T
      BY <1>2, <2>1
    <2>3. Good(t, order, n - 1, Picked(t, order)[n - 1])
      BY <2>1, <2>2
    <2>4. Picked(t, order)[n] = Round(t, Picked(t, order)[n - 1], order[n])
      BY <1>0, <2>1, PickedInRounds
    <2>5. Good(t, order, n, Picked(t, order)[n])
      BY <2>1, <2>3, <2>4, RoundIsGood
    <2> QED
      BY <1>3, <2>5
  <1> QED
    BY <1>4, <1>5

\* Only so many titles have a code: those of the file, and of filings.
WithCode == {t \in Titles : Aliased(t)}
FiniteInv ==
  /\ IsFiniteSet(WithCode)
  /\ mined # None => IsFiniteSet({p[1] : p \in mined})
  /\ known # None => IsFiniteSet(DOMAIN known)

LEMMA MinedIsFinite ==
  ASSUME TypeInv, MineAliases
  PROVE  IsFiniteSet({p[1] : p \in mined'})
  <1> DEFINE S == {Trim[x.title] : x \in filed}
             f == [x \in filed |-> Trim[x.title]]
  <1>1. IsFiniteSet(filed)
    BY DEF TypeInv, TablesInv
  <1>2. f \in Surjection(filed, S)
    BY DEF Surjection
  <1>3. IsFiniteSet(S)
    BY <1>1, <1>2, FS_Surjection
  <1>4. ASSUME NEW p \in mined' PROVE p[1] \in S
    <2>1. Admitted(filed, p[1], p[2])
      BY DEF MineAliases
    <2>2. IsFiniteSet(Of(filed, p[1], p[2]))
      BY <1>1, FS_Subset DEF Of
    <2>3. MinHits \in Nat \ {0} /\ Cardinality(Of(filed, p[1], p[2])) >= MinHits
      BY <2>1, Numbers DEF Admitted
    <2>4. Of(filed, p[1], p[2]) # {}
      <3>1. Cardinality(Of(filed, p[1], p[2])) # 0
        BY <2>3
      <3> QED
        BY <3>1, FS_EmptySet
    <2> QED
      BY <2>4 DEF Of
  <1>5. {p[1] : p \in mined'} \in SUBSET S
    BY <1>4
  <1> HIDE DEF S
  <1> QED
    BY <1>3, <1>5, FS_Subset

LEMMA FiniteStep == TypeInv /\ FiniteInv /\ [Next]_vars => FiniteInv'
  <1> SUFFICES ASSUME TypeInv, FiniteInv, [Next]_vars PROVE FiniteInv'
    OBVIOUS
  <1>1. CASE UNCHANGED <<aliases, mined, known>>
    BY <1>1 DEF FiniteInv, WithCode, Aliased
  <1>2. ASSUME NEW S, IsFiniteSet(S), \A t \in Titles : aliases'[t] # aliases[t] => t \in S
        PROVE  IsFiniteSet(WithCode')
    <2>1. WithCode' \in SUBSET (WithCode \union S)
      BY <1>2 DEF WithCode, Aliased
    <2>2. IsFiniteSet(WithCode \union S)
      BY <1>2, FS_Union DEF FiniteInv
    <2> QED
      BY <2>1, <2>2, FS_Subset
  <1>3. CASE LoadBatch
    <2>1. aliases \in [Titles -> Codes \union {None}] /\ UNCHANGED <<mined, known>>
      BY <1>3 DEF LoadBatch, worker, TypeInv, TypeOK
    <2>2. IsFiniteSet({Head(toLoad)[1]})
      BY FS_Singleton
    <2>3. \A t \in Titles : aliases'[t] # aliases[t] => t \in {Head(toLoad)[1]}
      BY <1>3, <2>1 DEF LoadBatch
    <2>4. IsFiniteSet(WithCode')
      BY <1>2, <2>2, <2>3
    <2> QED
      BY <2>1, <2>4 DEF FiniteInv
  <1>4. CASE InsertAliases
    <2>1. mined # None /\ mined' = None /\ known' = known
      BY <1>4 DEF InsertAliases, worker
    <2>2. \A t \in Titles : aliases'[t] # aliases[t] => t \in {p[1] : p \in mined}
      BY <1>4 DEF InsertAliases
    <2>3. IsFiniteSet({p[1] : p \in mined})
      BY <2>1 DEF FiniteInv
    <2>4. IsFiniteSet(WithCode')
      BY <1>2, <2>2, <2>3
    <2> QED
      BY <2>1, <2>4 DEF FiniteInv
  <1>5. CASE MineAliases
    <2>1. UNCHANGED <<aliases, known>>
      BY <1>5 DEF MineAliases, tables, worker
    <2> QED
      BY <1>5, <2>1, MinedIsFinite DEF FiniteInv, WithCode, Aliased
  <1>6. CASE DbDown
    <2>1. mined' = None /\ UNCHANGED <<aliases, known>>
      BY <1>6 DEF DbDown, tables
    <2> QED
      BY <2>1 DEF FiniteInv, WithCode, Aliased
  <1>7. CASE Start \/ Stop
    <2>1. UNCHANGED <<aliases, mined>> /\ known' \in {None, Snapshot}
      BY <1>7 DEF Start, Stop, Rest, tables, jobs
    <2>2. DOMAIN Snapshot = WithCode
      BY DEF Snapshot, WithCode
    <2> QED
      BY <2>1, <2>2 DEF FiniteInv, WithCode, Aliased
  <1>8. CASE File \/ StartLoad \/ MineConsensus \/ RebuildConsensus \/ DbUp
    BY <1>1, <1>8 DEF File, StartLoad, MineConsensus, RebuildConsensus, DbUp, tables, jobs, worker
  <1>9. CASE Take \/ Stage2 \/ PassOver \/ LookupConsensus \/ LookupDmtf
    <2>1. UNCHANGED <<tables, jobs, known>>
      BY <1>9, LookedUp DEF Take, Stage2, Rest
    <2> QED
      BY <1>1, <2>1 DEF tables, jobs
  <1>10. CASE UNCHANGED vars
    BY <1>1, <1>10 DEF vars
  <1> QED
    BY <1>3, <1>4, <1>5, <1>6, <1>7, <1>8, <1>9, <1>10 DEF Next

\* A ranking ranks every alias.
LEMMA RankedIsRanking ==
  ASSUME TypeInv, FiniteInv, known # None, NEW t \in Titles, NEW order \in Ranked(t)
  PROVE  /\ Ranking(t, order)
         /\ \A a \in DOMAIN known : \E i \in 1 .. Len(order) : order[i] = a
  <1> DEFINE n == Cardinality(DOMAIN known)
  <1>1. IsFiniteSet(DOMAIN known) /\ n \in Nat
    BY FS_CardinalityType DEF FiniteInv
  <1>2. /\ order \in [1 .. n -> DOMAIN known]
        /\ \A i, j \in 1 .. n : i # j => order[i] # order[j]
        /\ \A i, j \in DOMAIN order : i < j => Sim[t][order[i]] >= Sim[t][order[j]]
    BY DEF Ranked, SetToSeqs
  <1>3. order \in Injection(1 .. n, DOMAIN known)
    BY <1>2 DEF Injection, IsInjective
  <1>4. IsFiniteSet(1 .. n) /\ Cardinality(1 .. n) = n
    BY <1>1, FS_Interval
  <1>5. order \in Surjection(1 .. n, DOMAIN known)
    BY <1>1, <1>3, <1>4, FS_Injection
  <1>6. order \in Seq(DOMAIN known) /\ Len(order) = n
    BY <1>1, <1>2
  <1>7. DOMAIN known \subseteq Titles /\ known \in [DOMAIN known -> Codes]
    BY DEF TypeInv, TypeOK
  <1>8. Ranking(t, order)
    BY <1>2, <1>6, <1>7 DEF Ranking
  <1> QED
    BY <1>5, <1>6, <1>8 DEF Surjection

LEMMA BestAreShown == TypeInv /\ FiniteInv => CandidatesAreBest
  <1> SUFFICES ASSUME TypeInv, FiniteInv, known # None, NEW t \in Titles, NEW order \in Ranked(t)
               PROVE  LET shown == TopK(t, order)
                          codes == {shown[i].code : i \in DOMAIN shown} IN
                      /\ Cardinality(codes) = Len(shown)
                      /\ Len(shown) = Min({K, Cardinality({known[a] : a \in DOMAIN known})})
                      /\ \A a \in DOMAIN known : known[a] \notin codes =>
                           \A i \in DOMAIN shown : Sim[t][a] <= shown[i].confidence
    BY DEF CandidatesAreBest
  <1> DEFINE shown == TopK(t, order)
             codes == {shown[i].code : i \in DOMAIN shown}
             all == {known[a] : a \in DOMAIN known}
  <1>1. /\ Ranking(t, order) /\ Len(order) \in Nat
        /\ \A a \in DOMAIN known : \E i \in 1 .. Len(order) : order[i] = a
    BY RankedIsRanking DEF Ranking
  <1>2. Good(t, order, Len(order), shown)
    BY <1>1, PickedIsGood DEF TopK
  <1> HIDE DEF shown
  <1>3. PICK l \in Nat : l = Len(shown) /\ DOMAIN shown = 1 .. l /\ l <= K
    <2>1. shown \in Seq(Prediction) /\ Len(shown) <= K
      BY <1>2 DEF Good
    <2> QED
      BY <2>1
  <1>4. IsFiniteSet(codes) /\ Cardinality(codes) = l
    <2> DEFINE f == [i \in 1 .. l |-> shown[i].code]
    <2>1. f \in Surjection(1 .. l, codes)
      BY <1>3 DEF Surjection
    <2>2. f \in Injection(1 .. l, codes)
      <3>1. f \in [1 .. l -> codes]
        BY <2>1 DEF Surjection
      <3>2. ASSUME NEW i \in 1 .. l, NEW j \in 1 .. l, f[i] = f[j]
            PROVE  i = j
        <4>1. shown[i].code = shown[j].code
          BY <3>2
        <4> QED
          BY <4>1, <1>2, <1>3 DEF Good
      <3> HIDE DEF f, codes
      <3> QED
        BY <3>1, <3>2 DEF Injection, IsInjective
    <2> HIDE DEF f, codes
    <2>3. IsFiniteSet(1 .. l) /\ Cardinality(1 .. l) = l
      <3>1. l \in Nat
        OBVIOUS
      <3> QED
        BY <3>1, FS_Interval
    <2> QED
      BY <2>1, <2>2, <2>3, FS_Surjection
  <1>5. IsFiniteSet(all) /\ Cardinality(all) \in Nat
    <2> DEFINE g == [a \in DOMAIN known |-> known[a]]
    <2>1. g \in Surjection(DOMAIN known, all)
      BY DEF Surjection
    <2>2. IsFiniteSet(DOMAIN known)
      BY DEF FiniteInv
    <2> HIDE DEF g, all
    <2> QED
      BY <2>1, <2>2, FS_Surjection, FS_CardinalityType
  <1>6. codes \in SUBSET all
    <2> SUFFICES ASSUME NEW i \in DOMAIN shown PROVE shown[i].code \in all
      OBVIOUS
    <2>1. PICK j \in 1 .. Len(order) : shown[i] = Retrieved(t, order[j])
      BY <1>2 DEF Good
    <2>2. shown[i].code = known[order[j]]
      BY <1>1, <2>1, RetrievedShape
    <2>3. order[j] \in DOMAIN known
      BY <1>1 DEF Ranking
    <2> QED
      BY <2>2, <2>3
  <1>7. ASSUME NEW a \in DOMAIN known, known[a] \notin codes
        PROVE  l = K /\ \A i \in DOMAIN shown : Sim[t][a] <= shown[i].confidence
    <2>1. PICK j \in 1 .. Len(order) : order[j] = a
      BY <1>1
    <2> QED
      BY <1>2, <1>3, <1>7, <2>1 DEF Good
  <1>8. Cardinality(codes) <= Cardinality(all)
    <2> HIDE DEF codes, all
    <2> QED
      BY <1>5, <1>6, FS_Subset
  <1>9. l = Min({K, Cardinality(all)})
    <2>1. PICK c \in Nat : c = Cardinality(all) /\ l <= c
      BY <1>3, <1>4, <1>5, <1>8
    <2>2. l = K \/ l = c
      <3>1. CASE all \subseteq codes
        <4>1. all = codes
          BY <1>6, <3>1
        <4> QED
          BY <1>4, <2>1, <4>1
      <3>2. CASE ~(all \subseteq codes)
        BY <1>7, <3>2
      <3> QED
        BY <3>1, <3>2
    <2>3. K \in Nat /\ l <= K
      BY <1>3, Numbers
    <2>4. Min({K, c}) = l
      BY <2>1, <2>2, <2>3 DEF Min
    <2> QED
      BY <2>1, <2>4
  <1> QED
    BY <1>3, <1>4, <1>7, <1>9 DEF shown

\* "we let the LLM pick from these candidates rather than hallucinate": as
\* many different codes as there are, up to K, and none left out is nearer
\* than one that is shown, for every ranking of any aliases
\* (soc_classifier.py, topk_candidates).
THEOREM CandidatesAreNearest == Spec => []CandidatesAreBest
  <1>1. Init => FiniteInv
    <2> SUFFICES ASSUME Init PROVE FiniteInv
      OBVIOUS
    <2>1. WithCode = {} /\ mined = None /\ known = None
      BY DEF Init, WithCode, Aliased
    <2> QED
      BY <2>1, FS_EmptySet DEF FiniteInv
  <1> QED
    BY <1>1, InitTypes, StepTypes, FiniteStep, BestAreShown, PTL DEF Spec
=============================================================================
