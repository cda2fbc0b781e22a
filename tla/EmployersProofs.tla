--------------------------- MODULE EmployersProofs ---------------------------
(***************************************************************************)
(* Proofs about Employers: the counts cover the rows, no row is forgotten, *)
(* and a resolved entry has reached its rows, for any number of workers,   *)
(* rows, names and FEINs and whatever fails.                               *)
(***************************************************************************)
EXTENDS Employers, FiniteSetTheorems, TLAPS

-----------------------------------------------------------------------------
(* Types.                                                                  *)

Accounts == [name : Names, fein : Feins, count : Nat]
JobType(ids) == [pc : Pcs, row : Rows, emp : ids \union {0}]
EntryType(ids) == [state : States, fein : Feins, to : ids \union {0}]
Decided(ids) == [name : Names, emp : ids]
FullType(ids) ==
  [pc : {"off", "match", "embed", "mark", "backfill"},
   chunk : SUBSET Fetched, missed : SUBSET Fetched,
   decided : SUBSET Decided(ids), new : SUBSET ids]

LEMMA TypeParts ==
  TypeOK <=>
    /\ canon \in Seq(Accounts) /\ Len(canon) <= MaxCanon
    /\ embedded \subseteq Ids
    /\ emp \in [Rows -> Ids \union {0}] /\ keyed \subseteq Rows
    /\ entry \in [Names -> EntryType(Ids)]
    /\ pending \in [Rows -> Nat]
    /\ job \in [Workers -> JobType(Ids)]
    /\ lock \subseteq Workers
    /\ full \in FullType(Ids)
    /\ page \subseteq Rows /\ errors \in 0..MaxErrors
    /\ swallowed \subseteq Rows /\ interrupted \subseteq Names
  BY DEF TypeOK, Accounts, JobType, EntryType, Decided, FullType

\* The same, after a step.
LEMMA TypePartsThen ==
  /\ canon' \in Seq(Accounts) /\ Len(canon') <= MaxCanon
  /\ embedded' \subseteq Ids'
  /\ emp' \in [Rows -> Ids' \union {0}] /\ keyed' \subseteq Rows
  /\ entry' \in [Names -> EntryType(Ids')]
  /\ pending' \in [Rows -> Nat]
  /\ job' \in [Workers -> JobType(Ids')]
  /\ lock' \subseteq Workers
  /\ full' \in FullType(Ids')
  /\ page' \subseteq Rows /\ errors' \in 0..MaxErrors
  /\ swallowed' \subseteq Rows /\ interrupted' \subseteq Names
  => TypeOK'
  BY DEF TypeOK, Accounts, JobType, EntryType, Decided, FullType

\* What is an id stays one: canonical_employers only grows.
LEMMA MoreIds ==
  ASSUME NEW I, NEW J, I \subseteq J
  PROVE  /\ JobType(I) \subseteq JobType(J) /\ EntryType(I) \subseteq EntryType(J)
         /\ FullType(I) \subseteq FullType(J)
<1>1. JobType(I) \subseteq JobType(J) /\ EntryType(I) \subseteq EntryType(J)
  BY DEF JobType, EntryType
<1>2. Decided(I) \subseteq Decided(J)
  BY DEF Decided
<1>3. FullType(I) \subseteq FullType(J)
  BY <1>2 DEF FullType
<1> QED BY <1>1, <1>3

LEMMA IdsAreNats == TypeOK => Ids = 1..Len(canon) /\ Len(canon) \in Nat /\ Ids \subseteq 1..MaxCanon
<1> SUFFICES ASSUME TypeOK PROVE Ids = 1..Len(canon) /\ Len(canon) \in Nat /\ Ids \subseteq 1..MaxCanon
  OBVIOUS
<1>1. canon \in Seq(Accounts) /\ Len(canon) <= MaxCanon /\ MaxCanon \in Nat
  BY TypeParts, EmployersAssumption
<1> QED BY <1>1 DEF Ids

\* A counted account, and a new one.
LEMMA BumpIt ==
  ASSUME NEW s \in Seq(Accounts), NEW c \in DOMAIN s, NEW k \in Nat, NEW t,
         t = [s EXCEPT ![c].count = @ + k]
  PROVE  /\ t \in Seq(Accounts) /\ DOMAIN t = DOMAIN s /\ Len(t) = Len(s)
         /\ t[c].count = s[c].count + k
         /\ \A d \in DOMAIN s : d # c => t[d] = s[d]
<1>1. s[c] \in Accounts
  OBVIOUS
<1> DEFINE a == [s[c] EXCEPT !.count = @ + k]
<1>2. a \in Accounts /\ a.count = s[c].count + k
  BY <1>1, SMTT(30) DEF Accounts
<1>3. t = [s EXCEPT ![c] = a]
  OBVIOUS
<1> HIDE DEF a
<1> QED BY <1>2, <1>3, SMTT(30)

LEMMA AddIt ==
  ASSUME NEW s \in Seq(Accounts), NEW a \in Accounts
  PROVE  /\ Append(s, a) \in Seq(Accounts) /\ Len(Append(s, a)) = Len(s) + 1
         /\ DOMAIN Append(s, a) = DOMAIN s \union {Len(s) + 1}
         /\ \A d \in DOMAIN s : Append(s, a)[d] = s[d]
         /\ Append(s, a)[Len(s) + 1] = a /\ Len(s) + 1 \notin DOMAIN s
  OBVIOUS

LEMMA NewAccounts ==
  ASSUME NEW n \in Names, NEW f \in Feins, NEW k \in Nat
  PROVE  Canonical(n, f, k) \in Accounts
  BY DEF Canonical, Accounts

LEMMA InitTypes == Init => TypeOK
<1> SUFFICES ASSUME Init PROVE TypeOK
  OBVIOUS
<1>1. canon \in Seq(Accounts) /\ Len(canon) = 0 /\ MaxCanon \in Nat
  BY EmployersAssumption DEF Init
<1>2. Idle \in JobType(Ids) /\ FullOff \in FullType(Ids)
  BY EmployersAssumption DEF Idle, FullOff, JobType, FullType, Pcs
<1>3. [state |-> "none", fein |-> NoFein, to |-> 0] \in EntryType(Ids)
  BY DEF EntryType, States, Feins
<1>4. errors \in 0..MaxErrors /\ emp \in [Rows -> Ids \union {0}] /\ pending \in [Rows -> Nat]
  BY EmployersAssumption DEF Init
<1>5. job \in [Workers -> JobType(Ids)] /\ entry \in [Names -> EntryType(Ids)] /\ full \in FullType(Ids)
  BY <1>2, <1>3 DEF Init
<1> QED BY <1>1, <1>4, <1>5, TypeParts DEF Init

-----------------------------------------------------------------------------
(* A worker's steps keep the types.                                        *)

LEMMA GotoTypes ==
  ASSUME TypeOK, NEW w \in Workers, NEW p \in Pcs, Goto(w, p)
  PROVE  /\ job' \in [Workers -> JobType(Ids)]
         /\ job'[w].pc = p /\ job'[w].emp = job[w].emp /\ job'[w].row = job[w].row
         /\ \A v \in Workers : v # w => job'[v] = job[v]
<1>1. job \in [Workers -> JobType(Ids)]
  BY TypeParts
<1> HIDE DEF Ids
<1> QED BY <1>1 DEF Goto, JobType

LEMMA AnswerTypes ==
  ASSUME TypeOK, NEW w \in Workers, NEW c \in Nat, NEW ids, Ids \subseteq ids, c \in ids,
         job' = [job EXCEPT ![w].pc = "write", ![w].emp = c]
  PROVE  /\ job' \in [Workers -> JobType(ids)]
         /\ job'[w].pc = "write" /\ job'[w].emp = c /\ job'[w].row = job[w].row
         /\ \A v \in Workers : v # w => job'[v] = job[v]
<1>1. job \in [Workers -> JobType(ids)]
  BY TypeParts, MoreIds
<1> QED BY <1>1 DEF JobType, Pcs

LEMMA IdleTypes ==
  ASSUME TypeOK, NEW w \in Workers, job' = [job EXCEPT ![w] = Idle]
  PROVE  /\ job' \in [Workers -> JobType(Ids)] /\ job'[w] = Idle
         /\ \A v \in Workers : v # w => job'[v] = job[v]
<1>1. job \in [Workers -> JobType(Ids)]
  BY TypeParts
<1>2. Idle \in JobType(Ids)
  BY EmployersAssumption DEF Idle, JobType, Pcs
<1> QED BY <1>1, <1>2

LEMMA ErrTypes == TypeOK /\ Errs => errors' \in 0..MaxErrors
  BY EmployersAssumption DEF TypeOK, Errs

LEMMA FoundTypes ==
  ASSUME TypeOK, NEW w \in Workers, NEW c \in Ids, Found(w, c)
  PROVE  /\ canon' \in Seq(Accounts) /\ Len(canon') = Len(canon) /\ Ids' = Ids
         /\ canon'[c].count = canon[c].count + 1
         /\ \A d \in Ids : d # c => canon'[d] = canon[d]
         /\ job' \in [Workers -> JobType(Ids)]
         /\ job'[w].pc = "write" /\ job'[w].emp = c /\ job'[w].row = job[w].row
         /\ \A v \in Workers : v # w => job'[v] = job[v]
<1>1. canon \in Seq(Accounts)
  BY TypeParts
<1>2. canon' = [canon EXCEPT ![c].count = @ + 1]
  BY DEF Found, Bumped
<1>3. c \in Nat
  BY IdsAreNats
<1>4. job' = [job EXCEPT ![w].pc = "write", ![w].emp = c]
  BY DEF Found
<1>5. /\ canon' \in Seq(Accounts) /\ Len(canon') = Len(canon) /\ Ids' = Ids
      /\ canon'[c].count = canon[c].count + 1
      /\ \A d \in Ids : d # c => canon'[d] = canon[d]
  BY <1>1, <1>2, BumpIt, SMTT(30) DEF Ids
<1> QED BY <1>3, <1>4, <1>5, AnswerTypes

\* The resolution of a job: a worker goes on, or has an answer that is
\* counted, on an account that was there or is new.
Answers(w) ==
  \/ /\ canon' = canon /\ \E p \in Pcs \ {"write"} : Goto(w, p) /\ job[w].pc # "write"
  \/ canon' = canon /\ Goto(w, "write") /\ At(w, "vector")
  \/ job[w].pc # "write" /\ \E c \in Ids : Found(w, c)
  \/ /\ job[w].pc # "write" /\ Len(canon) < MaxCanon
     /\ \E n \in Names, f \in Feins : canon' = Append(canon, Canonical(n, f, 1))
     /\ job' = [job EXCEPT ![w].pc = "write", ![w].emp = Len(canon) + 1]

LEMMA ResolutionAnswers ==
  ASSUME TypeOK, NEW w \in Workers,
         FeinSelect(w) \/ FeinInsert(w) \/ Trgm(w) \/ Vector(w) \/ LayerFails(w)
  PROVE  Answers(w) /\ embedded' = embedded /\ InJob /\ errors' \in 0..MaxErrors
         /\ job[w].pc \in {"fein", "insert", "trgm", "vector"}
<1>0. /\ {"trgm", "insert", "vector"} \subseteq Pcs \ {"write"}
      /\ \A n \in Names, f \in Feins : OfFein(f) \subseteq Ids /\ ByTrgm(n) \subseteq Ids
      /\ embedded \subseteq Ids /\ errors \in 0..MaxErrors
      /\ job[w].row \in Rows /\ FeinOf[job[w].row] \in Feins /\ NameOf[job[w].row] \in Names
  BY TypeParts, EmployersAssumption DEF Pcs, OfFein, ByTrgm, JobType, Feins
<1>1. CASE FeinSelect(w)
  <2>1. OfFein(FeinOf[job[w].row]) \subseteq Ids
    BY DEF OfFein
  <2> QED BY <1>0, <1>1, <2>1 DEF FeinSelect, Answers, At
<1>2. CASE FeinInsert(w)
  BY <1>0, <1>2 DEF FeinInsert, Answers, At
<1>3. CASE Trgm(w)
  BY <1>0, <1>3 DEF Trgm, Answers, At
<1>4. CASE Vector(w)
  <2>1. ByVector(NameOf[job[w].row]) \subseteq Ids
    BY <1>0 DEF ByVector
  <2> QED BY <1>0, <1>4, <2>1 DEF Vector, Answers, At
<1>5. CASE LayerFails(w)
  <2>1. /\ job[w].pc \in {"fein", "insert", "trgm", "vector"} /\ UNCHANGED people /\ InJob
        /\ errors' \in 0..MaxErrors
    BY <1>5, ErrTypes DEF LayerFails
  <2>2. CASE At(w, "vector")
    BY <1>5, <2>1, <2>2 DEF LayerFails, Answers, At, people
  <2>3. CASE ~At(w, "vector")
    BY <1>0, <1>5, <2>1, <2>3 DEF LayerFails, Answers, At, people
  <2> QED BY <2>1, <2>2, <2>3
<1> QED BY <1>1, <1>2, <1>3, <1>4, <1>5

\* A step that leaves the ids as they are leaves the types of what it leaves.
LEMMA AnswerTypesKept ==
  ASSUME TypeOK, NEW w \in Workers, Answers(w)
  PROVE  /\ canon' \in Seq(Accounts) /\ Len(canon') <= MaxCanon /\ Ids \subseteq Ids'
         /\ job' \in [Workers -> JobType(Ids')]
<1>0. canon \in Seq(Accounts) /\ Len(canon) <= MaxCanon /\ MaxCanon \in Nat /\ Len(canon) \in Nat
  BY TypeParts, EmployersAssumption
<1>1. CASE canon' = canon /\ \E p \in Pcs : Goto(w, p)
  BY <1>0, <1>1, GotoTypes DEF Ids
<1>2. CASE \E c \in Ids : Found(w, c)
  BY <1>0, <1>2, FoundTypes
<1>3. ASSUME NEW n \in Names, NEW f \in Feins, canon' = Append(canon, Canonical(n, f, 1)),
             Len(canon) < MaxCanon,
             job' = [job EXCEPT ![w].pc = "write", ![w].emp = Len(canon) + 1]
      PROVE  /\ canon' \in Seq(Accounts) /\ Len(canon') <= MaxCanon /\ Ids \subseteq Ids'
             /\ job' \in [Workers -> JobType(Ids')]
  <2>1. Canonical(n, f, 1) \in Accounts
    BY NewAccounts
  <2>2. /\ canon' \in Seq(Accounts) /\ Len(canon') = Len(canon) + 1
        /\ Ids' = Ids \union {Len(canon) + 1}
    BY <1>0, <1>3, <2>1, AddIt DEF Ids
  <2> DEFINE new == Len(canon) + 1
  <2>3. new \in Nat /\ new <= MaxCanon
    BY <1>0, <1>3
  <2>4. job' = [job EXCEPT ![w].pc = "write", ![w].emp = new]
    BY <1>3
  <2>5. Ids \subseteq Ids' /\ new \in Ids' /\ Len(canon') <= MaxCanon
    BY <2>2, <2>3
  <2> HIDE DEF new
  <2>6. job' \in [Workers -> JobType(Ids')]
    BY <2>3, <2>4, <2>5, AnswerTypes
  <2> QED BY <2>2, <2>5, <2>6
<1>4. "write" \in Pcs
  BY DEF Pcs
<1> QED BY <1>1, <1>2, <1>3, <1>4 DEF Answers

LEMMA AnswerStep ==
  ASSUME TypeOK, NEW w \in Workers, Answers(w), embedded' = embedded, InJob,
         errors' \in 0..MaxErrors
  PROVE  TypeOK'
<1>1. /\ canon' \in Seq(Accounts) /\ Len(canon') <= MaxCanon /\ Ids \subseteq Ids'
      /\ job' \in [Workers -> JobType(Ids')]
  BY AnswerTypesKept
<1>2. /\ EntryType(Ids) \subseteq EntryType(Ids') /\ FullType(Ids) \subseteq FullType(Ids')
  BY <1>1, MoreIds
<1>3. /\ UNCHANGED <<emp, keyed, entry, pending, lock, full, page, swallowed, interrupted, embedded>>
      /\ errors' \in 0..MaxErrors
  BY DEF InJob, table
<1> QED BY <1>1, <1>2, <1>3, TypeParts, TypePartsThen

LEMMA JobSteps ==
  ASSUME TypeOK, NEW w \in Workers,
         \/ \E r \in Rows : Take(w, r)
         \/ WriteResults(w) \/ ResultsLost(w) \/ WriteUnresolved(w) \/ UnresolvedLost(w)
         \/ EmbedPending(w) \/ EmbedFails(w) \/ Crash(w)
  PROVE  TypeOK' /\ canon' = canon
<1>1. canon' = canon /\ Ids' = Ids
  BY DEF Take, WriteResults, ResultsLost, WriteUnresolved, UnresolvedLost, EmbedPending,
       EmbedFails, Crash, people, Ids
<1>0. /\ job \in [Workers -> JobType(Ids)] /\ job[w] \in JobType(Ids)
      /\ job[w].row \in Rows /\ job[w].emp \in Ids \union {0}
      /\ AfterWrite(w) \in Pcs /\ "embed" \in Pcs
  BY TypeParts DEF JobType, AfterWrite, Pcs
<1>2. ASSUME NEW r \in Rows, Take(w, r)
      PROVE  TypeOK'
  <2>1. [pc |-> "fein", row |-> r, emp |-> 0] \in JobType(Ids)
    BY DEF JobType, Pcs
  <2>2. job' \in [Workers -> JobType(Ids)]
    BY <1>0, <1>2, <2>1 DEF Take
  <2>3. pending' \in [Rows -> Nat]
    BY <1>2, TypeParts DEF Take
  <2>4. UNCHANGED <<canon, embedded, emp, keyed, entry, lock, full, page, errors, swallowed, interrupted>>
    BY <1>2 DEF Take, people, table
  <2> QED BY <1>1, <2>2, <2>3, <2>4, TypeParts, TypePartsThen
<1>3. CASE WriteResults(w)
  <2>1. job' \in [Workers -> JobType(Ids)]
    BY <1>0, <1>3, GotoTypes DEF WriteResults
  <2>2. emp' \in [Rows -> Ids \union {0}] /\ keyed' \subseteq Rows
    BY <1>0, <1>3, TypeParts DEF WriteResults, table
  <2>3. UNCHANGED <<canon, embedded, entry, pending, lock, full, page, errors, swallowed, interrupted>>
    BY <1>3 DEF WriteResults, people
  <2> QED BY <1>1, <2>1, <2>2, <2>3, TypeParts, TypePartsThen
<1>4. CASE ResultsLost(w) \/ UnresolvedLost(w)
  <2>1. job' \in [Workers -> JobType(Ids)]
    BY <1>0, <1>4, GotoTypes DEF ResultsLost, UnresolvedLost
  <2>2. swallowed' \subseteq Rows /\ errors' \in 0..MaxErrors
    BY <1>0, <1>4, TypeParts, ErrTypes DEF ResultsLost, UnresolvedLost
  <2>3. UNCHANGED <<canon, embedded, emp, keyed, entry, pending, lock, full, page, interrupted>>
    BY <1>4 DEF ResultsLost, UnresolvedLost, people, table
  <2> QED BY <1>1, <2>1, <2>2, <2>3, TypeParts, TypePartsThen
<1>5. CASE WriteUnresolved(w)
  <2>1. job' \in [Workers -> JobType(Ids)]
    BY <1>0, <1>5, GotoTypes DEF WriteUnresolved
  <2>2. entry' \in [Names -> EntryType(Ids)]
    <3> DEFINE n == NameOf[job[w].row]  f == FeinOf[job[w].row]
    <3>1. n \in Names /\ f \in Feins /\ entry \in [Names -> EntryType(Ids)] /\ entry[n] \in EntryType(Ids)
      BY <1>0, TypeParts, EmployersAssumption DEF Feins
    <3> DEFINE st == IF entry[n].state = "none" THEN "open" ELSE entry[n].state
               fe == IF entry[n].fein = NoFein THEN f ELSE entry[n].fein
    <3>2. st \in States /\ fe \in Feins
      BY <3>1 DEF EntryType, States
    <3>3. entry' = [entry EXCEPT ![n].state = st, ![n].fein = fe]
      BY <1>5 DEF WriteUnresolved
    <3> HIDE DEF st, fe, n, f
    <3> QED BY <3>1, <3>2, <3>3 DEF EntryType
  <2>3. UNCHANGED <<canon, embedded, emp, keyed, pending, lock, full, page, errors, swallowed, interrupted>>
    BY <1>5 DEF WriteUnresolved, people, table
  <2> QED BY <1>1, <2>1, <2>2, <2>3, TypeParts, TypePartsThen
<1>6. CASE EmbedPending(w) \/ EmbedFails(w) \/ Crash(w)
  <2>1. job' \in [Workers -> JobType(Ids)]
    BY <1>6, IdleTypes DEF EmbedPending, EmbedFails, Crash
  <2>2. /\ embedded' \subseteq Ids /\ lock' \subseteq Workers
    BY <1>6, TypeParts DEF EmbedPending, EmbedFails, Crash, people
  <2>3. pending' \in [Rows -> Nat]
    BY <1>0, <1>6, TypeParts DEF EmbedPending, EmbedFails, Crash
  <2>4. errors' \in 0..MaxErrors
    BY <1>6, TypeParts, ErrTypes DEF EmbedPending, EmbedFails, Crash
  <2>5. UNCHANGED <<canon, emp, keyed, entry, full, page, swallowed, interrupted>>
    BY <1>6 DEF EmbedPending, EmbedFails, Crash, people, table
  <2> QED BY <1>1, <2>1, <2>2, <2>3, <2>4, <2>5, TypeParts, TypePartsThen
<1> QED BY <1>1, <1>2, <1>3, <1>4, <1>5, <1>6

-----------------------------------------------------------------------------
(* So do the queue's and the backfills' steps.                             *)

LEMMA RowsCount ==
  /\ \A S : S \subseteq Rows => IsFiniteSet(S) /\ Cardinality(S) \in Nat
  /\ \A S : S \subseteq Workers => IsFiniteSet(S) /\ Cardinality(S) \in Nat
  BY EmployersAssumption, FS_Subset, FS_CardinalityType

\* The row a merge gives to an account that is there before the merge counts.
LEMMA MergeTypes ==
  ASSUME TypeOK, NEW n \in Names, NEW before \in Seq(Accounts), NEW c \in DOMAIN before,
         Ids \subseteq DOMAIN before, Len(before) <= MaxCanon, MergeInto(n, c, before)
  PROVE  /\ TypeOK' /\ Ids' = DOMAIN before
         /\ canon'[c].count = before[c].count + Cardinality(Orphans(n))
         /\ \A d \in Ids' : d # c => canon'[d] = before[d]
<1> DEFINE rows == Orphans(n)
<1>0. rows \subseteq Rows /\ Cardinality(rows) \in Nat
  BY EmployersAssumption, RowsCount DEF Orphans
<1>1. /\ canon' \in Seq(Accounts) /\ Len(canon') = Len(before) /\ Ids' = DOMAIN before
      /\ canon'[c].count = before[c].count + Cardinality(rows)
      /\ \A d \in DOMAIN before : d # c => canon'[d] = before[d]
  <2>1. canon' = [before EXCEPT ![c].count = @ + Cardinality(rows)]
    BY DEF MergeInto
  <2> HIDE DEF rows
  <2> QED BY <1>0, <2>1, BumpIt, SMTT(30) DEF Ids
<1>2. emp' \in [Rows -> Ids' \union {0}] /\ keyed' \subseteq Rows
  BY <1>0, <1>1, TypeParts DEF MergeInto
<1>3. entry' \in [Names -> EntryType(Ids')]
  <2>1. entry \in [Names -> EntryType(Ids')] /\ c \in Ids'
    BY <1>1, TypeParts, MoreIds
  <2>2. entry' = [entry EXCEPT ![n].state = "resolved", ![n].to = c] /\ "resolved" \in States
    BY DEF MergeInto, States
  <2> QED BY <2>1, <2>2 DEF EntryType
<1>4. /\ JobType(Ids) \subseteq JobType(Ids') /\ FullType(Ids) \subseteq FullType(Ids')
  BY <1>1, MoreIds
<1>5. UNCHANGED <<embedded, pending, job, lock, swallowed, full, page, errors, interrupted>>
  BY DEF MergeInto, work
<1>6. TypeOK'
  BY <1>1, <1>2, <1>3, <1>4, <1>5, TypeParts, TypePartsThen
<1> QED BY <1>1, <1>6

\* What a merge starts from: an account of the table, or a new one.
Merging(n, c, before) ==
  /\ Open(n) /\ MergeInto(n, c, before)
  /\ \/ before = canon /\ c \in Ids
     \/ /\ Len(canon) < MaxCanon /\ c = Len(canon) + 1
        /\ before = Append(canon, Canonical(n, entry[n].fein, 0))

LEMMA MergeStarts ==
  ASSUME TypeOK, NEW n \in Names, NEW c, NEW before, Merging(n, c, before)
  PROVE  /\ before \in Seq(Accounts) /\ c \in DOMAIN before /\ Len(before) <= MaxCanon
         /\ Ids \subseteq DOMAIN before
         /\ \A d \in Ids : before[d] = canon[d]
         /\ \A d \in DOMAIN before \ Ids : before[d].count = 0
<1>0. canon \in Seq(Accounts) /\ Len(canon) <= MaxCanon /\ MaxCanon \in Nat /\ Len(canon) \in Nat
      /\ entry[n].fein \in Feins
  BY TypeParts, EmployersAssumption DEF EntryType
<1>1. CASE before = canon /\ c \in Ids
  BY <1>0, <1>1 DEF Ids
<1>2. CASE /\ Len(canon) < MaxCanon /\ c = Len(canon) + 1
           /\ before = Append(canon, Canonical(n, entry[n].fein, 0))
  <2> DEFINE a == Canonical(n, entry[n].fein, 0)
  <2>1. a \in Accounts /\ a.count = 0
    BY <1>0, NewAccounts DEF Canonical
  <2>2. before = Append(canon, a)
    BY <1>2
  <2> HIDE DEF a
  <2>3. /\ before \in Seq(Accounts) /\ Len(before) = Len(canon) + 1
        /\ DOMAIN before = Ids \union {c}
        /\ \A d \in Ids : before[d] = canon[d]
        /\ before[c] = a
    BY <1>0, <1>2, <2>1, <2>2, AddIt DEF Ids
  <2>4. Len(before) <= MaxCanon
    BY <1>0, <1>2, <2>3
  <2> QED BY <2>1, <2>3, <2>4
<1> QED BY <1>1, <1>2 DEF Merging

LEMMA QueueSteps ==
  ASSUME TypeOK, NEW n \in Names, (\E c \in Ids : Merge(n, c)) \/ Create(n)
  PROVE  \E c \in Nat, before \in Seq(Accounts) : Merging(n, c, before)
<1>0. canon \in Seq(Accounts) /\ Ids \subseteq Nat /\ Len(canon) + 1 \in Nat /\ entry[n].fein \in Feins
  BY TypeParts, IdsAreNats DEF EntryType
<1>1. ASSUME NEW c \in Ids, Merge(n, c) PROVE Merging(n, c, canon)
  BY <1>1 DEF Merge, Merging
<1>2. ASSUME Create(n), NEW c \in OfFein(entry[n].fein), MergeInto(n, c, canon)
      PROVE  c \in Ids /\ Merging(n, c, canon)
  BY <1>2 DEF Create, Merging, OfFein
<1> DEFINE longer == Append(canon, Canonical(n, entry[n].fein, 0))
<1>3. ASSUME Create(n), Len(canon) < MaxCanon, MergeInto(n, Len(canon) + 1, longer)
      PROVE  Merging(n, Len(canon) + 1, longer)
  BY <1>3 DEF Create, Merging
<1>4. longer \in Seq(Accounts)
  BY <1>0, NewAccounts
<1> HIDE DEF longer
<1>5. Create(n) => \/ \E c \in OfFein(entry[n].fein) : MergeInto(n, c, canon)
                   \/ Len(canon) < MaxCanon /\ MergeInto(n, Len(canon) + 1, longer)
  BY DEF Create, longer
<1> QED BY <1>0, <1>1, <1>2, <1>3, <1>4, <1>5

LEMMA FetchedFinite == \A S : S \subseteq Fetched => IsFiniteSet(S) /\ Cardinality(S) \in Nat
<1> DEFINE pair == [p \in Names \X Feins |-> [name |-> p[1], fein |-> p[2]]]
           fein == [r \in Rows |-> FeinOf[r]]
<1>1. IsFiniteSet(Feins)
  <2>1. fein \in Surjection(Rows, {FeinOf[r] : r \in Rows})
    BY DEF Surjection
  <2>2. IsFiniteSet({FeinOf[r] : r \in Rows})
    BY <2>1, EmployersAssumption, FS_Surjection
  <2> QED BY <2>2, FS_AddElement DEF Feins
<1>2. IsFiniteSet(Names \X Feins)
  BY <1>1, EmployersAssumption, FS_Product
<1>3. pair \in Surjection(Names \X Feins, Fetched)
  <2>1. pair \in [Names \X Feins -> Fetched]
    BY DEF Fetched
  <2>2. ASSUME NEW e \in Fetched PROVE \E p \in Names \X Feins : pair[p] = e
    <3>1. <<e.name, e.fein>> \in Names \X Feins /\ pair[<<e.name, e.fein>>] = e
      BY DEF Fetched
    <3> QED BY <3>1
  <2> QED BY <2>1, <2>2 DEF Surjection
<1>4. IsFiniteSet(Fetched)
  BY <1>2, <1>3, FS_Surjection
<1> QED BY <1>4, FS_Subset, FS_CardinalityType

\* Pass 2 adds accounts at the end, with no rows yet.
LEMMA PassTwoShape ==
  ASSUME TypeOK, PassTwo
  PROVE  /\ canon' \in Seq(Accounts) /\ Len(canon') <= MaxCanon /\ Ids \subseteq Ids'
         /\ \A d \in Ids : canon'[d] = canon[d]
         /\ \A d \in Ids' \ Ids : canon'[d].count = 0
         /\ full' \in FullType(Ids')
<1> DEFINE new == {e \in full.missed : ByVector(e.name) = {}}
           k == Cardinality(new)
<1>0. /\ canon \in Seq(Accounts) /\ Len(canon) \in Nat /\ MaxCanon \in Nat
      /\ full \in FullType(Ids) /\ full.missed \subseteq Fetched
      /\ embedded \subseteq Ids /\ Ids \subseteq Nat
  BY TypeParts, IdsAreNats, EmployersAssumption DEF FullType
<1>1. new \subseteq Fetched /\ k \in Nat /\ new \subseteq full.missed
  BY <1>0, FetchedFinite
<1>2. PICK near \in [full.missed \ new -> Ids], order \in [1..k -> new] :
        /\ canon' = canon \o Inserted(order)
        /\ full' = [full EXCEPT !.pc = "embed", !.missed = {},
             !.new = (Len(canon) + 1)..(Len(canon) + k),
             !.decided = @
               \union {[name |-> e.name, emp |-> near[e]] : e \in DOMAIN near}
               \union {[name |-> order[i].name, emp |-> Len(canon) + i] : i \in 1..k}]
  BY DEF PassTwo
<1>3. Len(canon) + k <= MaxCanon
  BY DEF PassTwo
<1> HIDE DEF new, k
<1>4. /\ Inserted(order) \in Seq(Accounts) /\ Len(Inserted(order)) = k
      /\ \A i \in 1..k : Inserted(order)[i].count = 0
  <2>1. \A i \in 1..k : /\ Canonical(order[i].name, order[i].fein, 0) \in Accounts
                        /\ Canonical(order[i].name, order[i].fein, 0).count = 0
    <3> TAKE i \in 1..k
    <3>1. order[i] \in Fetched
      BY <1>1
    <3>2. order[i].name \in Names /\ order[i].fein \in Feins
      BY <3>1 DEF Fetched
    <3> QED BY <3>2, NewAccounts DEF Canonical
  <2>2. Inserted(order) = [i \in 1..k |-> Canonical(order[i].name, order[i].fein, 0)]
    BY DEF Inserted
  <2> QED BY <1>1, <2>1, <2>2
<1>5. /\ canon' \in Seq(Accounts) /\ Len(canon') = Len(canon) + k
      /\ \A d \in DOMAIN canon : canon'[d] = canon[d]
      /\ \A d \in DOMAIN canon' \ DOMAIN canon : canon'[d].count = 0
  BY <1>0, <1>1, <1>2, <1>4
<1>6. Ids' = 1..(Len(canon) + k) /\ Ids = 1..Len(canon)
  BY <1>0, <1>5 DEF Ids
<1>7. Ids \subseteq Ids' /\ (Len(canon) + 1)..(Len(canon) + k) \subseteq Ids'
  BY <1>0, <1>1, <1>6
<1>8. full' \in FullType(Ids')
  <2> DEFINE dn == {[name |-> e.name, emp |-> near[e]] : e \in DOMAIN near}
             di == {[name |-> order[i].name, emp |-> Len(canon) + i] : i \in 1..k}
             nw == (Len(canon) + 1)..(Len(canon) + k)
  <2>1. dn \subseteq Decided(Ids')
    <3> SUFFICES ASSUME NEW e \in full.missed \ new
                 PROVE  [name |-> e.name, emp |-> near[e]] \in Decided(Ids')
      OBVIOUS
    <3>1. e.name \in Names /\ near[e] \in Ids'
      BY <1>0, <1>7 DEF Fetched
    <3> QED BY <3>1 DEF Decided
  <2>2. di \subseteq Decided(Ids')
    <3> SUFFICES ASSUME NEW i \in 1..k
                 PROVE  [name |-> order[i].name, emp |-> Len(canon) + i] \in Decided(Ids')
      OBVIOUS
    <3>1. order[i] \in Fetched
      BY <1>1
    <3>2. order[i].name \in Names /\ Len(canon) + i \in Ids'
      BY <1>0, <1>1, <1>6, <3>1 DEF Fetched
    <3> QED BY <3>2 DEF Decided
  <2>3. full \in FullType(Ids')
    BY <1>0, <1>7, MoreIds
  <2>4. full' = [full EXCEPT !.pc = "embed", !.missed = {}, !.new = nw, !.decided = @ \union dn \union di]
    BY <1>2
  <2> HIDE DEF dn, di, nw
  <2>5. nw \subseteq Ids'
    BY <1>7 DEF nw
  <2> QED BY <2>1, <2>2, <2>3, <2>4, <2>5 DEF FullType
<1> QED BY <1>3, <1>5, <1>7, <1>8 DEF Ids

\* BackfillRows counts what it writes.
Written(by, c) == {r \in DOMAIN by : by[r] = c}
LEMMA BackfillShape ==
  ASSUME TypeOK, BackfillRows
  PROVE  LET open == UNION {Unkeyed(d.name) : d \in full.decided} IN
         \E by \in [open -> Ids] :
           /\ open \subseteq Rows
           /\ emp' = [r \in Rows |-> IF r \in open THEN by[r] ELSE emp[r]]
           /\ keyed' = keyed \union open
           /\ canon' \in Seq(Accounts) /\ Len(canon') = Len(canon) /\ Ids' = Ids
           /\ \A c \in Ids : canon'[c].count = canon[c].count + Cardinality(Written(by, c))
<1> DEFINE open == UNION {Unkeyed(d.name) : d \in full.decided}
<1>0. /\ canon \in Seq(Accounts) /\ Len(canon) \in Nat
      /\ full.decided \subseteq Decided(Ids)
  BY TypeParts DEF FullType
<1>1. open \subseteq Rows
  BY <1>0, EmployersAssumption DEF Unkeyed, Decided
<1>2. PICK by \in [open -> 1..MaxCanon] :
        /\ \A r \in open : \E d \in full.decided : r \in RowsOf[d.name] /\ by[r] = d.emp
        /\ emp' = [r \in Rows |-> IF r \in open THEN by[r] ELSE emp[r]]
        /\ canon' = [c \in Ids |-> [canon[c] EXCEPT
                       !.count = @ + Cardinality({r \in open : by[r] = c})]]
  BY DEF BackfillRows
<1>3. keyed' = keyed \union open
  BY DEF BackfillRows
<1> HIDE DEF open
<1>4. by \in [open -> Ids]
  BY <1>0, <1>2 DEF Decided
<1>5. \A c \in Ids : Cardinality(Written(by, c)) \in Nat /\ Written(by, c) = {r \in open : by[r] = c}
  BY <1>1, <1>4, RowsCount DEF Written
<1>6. /\ canon' \in Seq(Accounts) /\ Len(canon') = Len(canon) /\ Ids' = Ids
      /\ \A c \in Ids : canon'[c].count = canon[c].count + Cardinality(Written(by, c))
  <2> DEFINE a(c) == [canon[c] EXCEPT !.count = @ + Cardinality(Written(by, c))]
  <2>1. canon' = [c \in 1..Len(canon) |-> a(c)] /\ Ids = 1..Len(canon)
    BY <1>0, <1>2, <1>5, SMTT(30) DEF Ids
  <2>2. \A c \in 1..Len(canon) : canon[c] \in Accounts
    BY <1>0
  <2>3. \A c \in 1..Len(canon) :
          a(c) \in Accounts /\ a(c).count = canon[c].count + Cardinality(Written(by, c))
    <3> TAKE c \in 1..Len(canon)
    <3> DEFINE k == Cardinality(Written(by, c))
    <3>1. canon[c] \in Accounts /\ k \in Nat
      BY <1>5, <2>1, <2>2
    <3> HIDE DEF k
    <3>2. \A r \in Accounts : /\ [r EXCEPT !.count = @ + k] \in Accounts
                               /\ [r EXCEPT !.count = @ + k].count = r.count + k
      BY <3>1 DEF Accounts
    <3> QED BY <3>1, <3>2 DEF k
  <2> HIDE DEF a
  <2>4. canon' \in Seq(Accounts) /\ Len(canon') = Len(canon) /\ DOMAIN canon' = 1..Len(canon)
    BY <1>0, <2>1, <2>3
  <2> QED BY <2>1, <2>3, <2>4 DEF Ids
<1> QED BY <1>1, <1>2, <1>3, <1>4, <1>6 DEF open

LEMMA QueueStepTypes ==
  ASSUME TypeOK, NEW n \in Names, (\E c \in Ids : Merge(n, c)) \/ Create(n) \/ Reject(n)
  PROVE  TypeOK'
<1>1. ASSUME NEW c \in Nat, NEW before \in Seq(Accounts), Merging(n, c, before)
      PROVE  TypeOK'
  BY <1>1, MergeStarts, MergeTypes DEF Merging
<1>2. CASE Reject(n)
  <2>1. entry' = [entry EXCEPT ![n].state = "rejected", ![n].to = 0] /\ Ids' = Ids
    BY <1>2 DEF Reject, people, Ids
  <2>2. entry' \in [Names -> EntryType(Ids)]
    BY <2>1, TypeParts, ZenonT(30) DEF EntryType, States
  <2>3. UNCHANGED <<canon, embedded, emp, keyed, pending, job, lock, swallowed, full, page, errors, interrupted>>
    BY <1>2 DEF Reject, people, table, work
  <2> QED BY <2>1, <2>2, <2>3, TypeParts, TypePartsThen
<1> QED BY <1>1, <1>2, QueueSteps

LEMMA FullStepTypes ==
  ASSUME TypeOK,
         \/ FetchChunk \/ (\E e \in full.chunk : Match(e)) \/ PassTwo \/ FeinClash
         \/ EmbedNew \/ MarkResolved \/ BackfillRows \/ FullDies
  PROVE  TypeOK'
<1>0. /\ full \in FullType(Ids) /\ FullOff \in FullType(Ids)
      /\ full.chunk \subseteq Fetched /\ full.missed \subseteq Fetched /\ full.new \subseteq Ids
      /\ full.decided \subseteq Decided(Ids)
  BY TypeParts DEF FullType, FullOff
<1>1. CASE FetchChunk
  <2>1. PICK ns \in SUBSET Names :
          full' = [FullOff EXCEPT !.pc = "match",
                     !.chunk = {[name |-> n, fein |-> entry[n].fein] : n \in ns}]
    BY <1>1 DEF FetchChunk
  <2> DEFINE es == {[name |-> n, fein |-> entry[n].fein] : n \in ns}
  <2>2. es \subseteq Fetched
    BY TypeParts DEF EntryType, Fetched
  <2>3. full' = [FullOff EXCEPT !.pc = "match", !.chunk = es]
    BY <2>1
  <2> HIDE DEF es
  <2>4. full' \in FullType(Ids)
    BY <1>0, <2>2, <2>3 DEF FullType
  <2>5. UNCHANGED <<canon, embedded, emp, keyed, entry, pending, job, lock, swallowed, page, errors, interrupted>> /\ Ids' = Ids
    BY <1>1 DEF FetchChunk, FullOnly, people, table, work, Ids
  <2> QED BY <2>4, <2>5, TypeParts, TypePartsThen
<1>2. ASSUME NEW e \in full.chunk, Match(e)
      PROVE  TypeOK'
  <2>1. CASE full' = [full EXCEPT !.chunk = @ \ {e}, !.missed = @ \union {e}]
    <3>1. full' \in FullType(Ids)
      BY <1>0, <1>2, <2>1 DEF FullType
    <3>2. UNCHANGED <<canon, embedded, emp, keyed, entry, pending, job, lock, swallowed, page, errors, interrupted>> /\ Ids' = Ids
      BY <1>2 DEF Match, FullOnly, people, table, work, Ids
    <3> QED BY <3>1, <3>2, TypeParts, TypePartsThen
  <2>2. ASSUME NEW c \in Ids,
               full' = [full EXCEPT !.chunk = @ \ {e}, !.decided = @ \union {[name |-> e.name, emp |-> c]}]
        PROVE  TypeOK'
    <3> DEFINE d == [name |-> e.name, emp |-> c]
    <3>1. d \in Decided(Ids)
      BY <1>0 DEF Decided, Fetched
    <3>2. full' = [full EXCEPT !.chunk = @ \ {e}, !.decided = @ \union {d}]
      BY <2>2
    <3> HIDE DEF d
    <3>3. full' \in FullType(Ids)
      BY <1>0, <3>1, <3>2 DEF FullType
    <3>4. UNCHANGED <<canon, embedded, emp, keyed, entry, pending, job, lock, swallowed, page, errors, interrupted>> /\ Ids' = Ids
      BY <1>2 DEF Match, FullOnly, people, table, work, Ids
    <3> QED BY <3>3, <3>4, TypeParts, TypePartsThen
  <2>3. \/ full' = [full EXCEPT !.chunk = @ \ {e}, !.missed = @ \union {e}]
        \/ \E c \in Ids :
             full' = [full EXCEPT !.chunk = @ \ {e}, !.decided = @ \union {[name |-> e.name, emp |-> c]}]
    <3>1. OfFein(e.fein) \subseteq Ids /\ ByTrgm(e.name) \subseteq Ids
      BY DEF OfFein, ByTrgm
    <3> QED BY <1>2, <3>1 DEF Match
  <2> QED BY <2>1, <2>2, <2>3
<1>3. CASE PassTwo
  <2>1. UNCHANGED <<embedded, emp, keyed, entry, pending, job, lock, swallowed, page, errors, interrupted>>
    BY <1>3 DEF PassTwo, FullOnly, table, work
  <2>2. /\ canon' \in Seq(Accounts) /\ Len(canon') <= MaxCanon /\ Ids \subseteq Ids'
        /\ full' \in FullType(Ids')
    BY <1>3, PassTwoShape
  <2>3. JobType(Ids) \subseteq JobType(Ids') /\ EntryType(Ids) \subseteq EntryType(Ids')
    BY <2>2, MoreIds
  <2> QED BY <2>1, <2>2, <2>3, TypeParts, TypePartsThen
<1>4. CASE FeinClash \/ FullDies
  <2>1. UNCHANGED <<canon, embedded, emp, keyed, entry, pending, job, lock, swallowed, page>> /\ Ids' = Ids
    BY <1>4 DEF FeinClash, FullDies, FullOnly, people, table, work, Ids
  <2>2. full' \in FullType(Ids) /\ interrupted' \subseteq Names /\ errors' \in 0..MaxErrors
    <3>1. full' = FullOff
      BY <1>4 DEF FeinClash, FullDies
    <3>2. {d.name : d \in full.decided} \subseteq Names
      BY <1>0 DEF Decided
    <3>3. interrupted' \subseteq Names
      BY <1>4, <3>2, TypeParts DEF FeinClash, FullDies, FullOnly
    <3>4. errors' \in 0..MaxErrors
      BY <1>4, ErrTypes, TypeParts DEF FeinClash, FullDies, FullOnly
    <3> QED BY <1>0, <3>1, <3>3, <3>4
  <2> QED BY <2>1, <2>2, TypeParts, TypePartsThen
<1>5. CASE EmbedNew
  <2>1. UNCHANGED <<canon, emp, keyed, entry, pending, job, lock, swallowed, page, errors, interrupted>> /\ Ids' = Ids
    BY <1>5 DEF EmbedNew, FullOnly, table, work, Ids
  <2>2. full' \in FullType(Ids) /\ embedded' \subseteq Ids
    BY <1>0, <1>5, TypeParts DEF EmbedNew, FullType
  <2> QED BY <2>1, <2>2, TypeParts, TypePartsThen
<1>6. CASE MarkResolved
  <2>1. UNCHANGED <<canon, embedded, emp, keyed, pending, job, lock, swallowed, page, errors, interrupted>> /\ Ids' = Ids
    BY <1>6 DEF MarkResolved, FullOnly, people, table, work, Ids
  <2>2. full' \in FullType(Ids)
    BY <1>0, <1>6 DEF MarkResolved, FullType
  <2>3. entry' \in [Names -> EntryType(Ids)]
    <3>1. PICK to \in [Names -> 0..MaxCanon] :
            /\ \A n \in Names : IF ChosenFor(n) = {} THEN to[n] = entry[n].to
                                ELSE \E d \in ChosenFor(n) : to[n] = d.emp
            /\ entry' = [n \in Names |-> IF ChosenFor(n) = {} THEN entry[n]
                           ELSE [entry[n] EXCEPT !.state = "resolved", !.to = to[n]]]
      BY <1>6 DEF MarkResolved
    <3> SUFFICES ASSUME NEW n \in Names, ChosenFor(n) # {}
                 PROVE  [entry[n] EXCEPT !.state = "resolved", !.to = to[n]] \in EntryType(Ids)
      BY <3>1, TypeParts
    <3>2. to[n] \in Ids
      BY <1>0, <3>1 DEF ChosenFor, Decided
    <3> QED BY <3>2, TypeParts DEF EntryType, States
  <2> QED BY <2>1, <2>2, <2>3, TypeParts, TypePartsThen
<1>7. CASE BackfillRows
  <2>1. /\ canon' \in Seq(Accounts) /\ Len(canon') = Len(canon) /\ Ids' = Ids
        /\ emp' \in [Rows -> Ids \union {0}] /\ keyed' \subseteq Rows
    <3>1. PICK by \in [UNION {Unkeyed(d.name) : d \in full.decided} -> Ids] :
            /\ UNION {Unkeyed(d.name) : d \in full.decided} \subseteq Rows
            /\ emp' = [r \in Rows |-> IF r \in UNION {Unkeyed(d.name) : d \in full.decided}
                                      THEN by[r] ELSE emp[r]]
            /\ keyed' = keyed \union UNION {Unkeyed(d.name) : d \in full.decided}
            /\ canon' \in Seq(Accounts) /\ Len(canon') = Len(canon) /\ Ids' = Ids
      BY <1>7, BackfillShape
    <3>2. emp \in [Rows -> Ids \union {0}] /\ keyed \subseteq Rows
      BY TypeParts
    <3> QED BY <3>1, <3>2
  <2>2. full' \in FullType(Ids)
    BY <1>0, <1>7 DEF BackfillRows
  <2>3. UNCHANGED <<embedded, entry, pending, job, lock, swallowed, page, errors, interrupted>>
    BY <1>7 DEF BackfillRows, FullOnly, work
  <2> QED BY <2>1, <2>2, <2>3, TypeParts, TypePartsThen
<1> QED BY <1>1, <1>2, <1>3, <1>4, <1>5, <1>6, <1>7

\* k rows more are counted for account c, which is there or new.
Before(c) == IF c \in Ids THEN canon[c].count ELSE 0
Counted(c, k) ==
  /\ canon' \in Seq(Accounts) /\ Len(canon') <= MaxCanon
  /\ c \in Nat \ {0} /\ Ids' = Ids \union {c}
  /\ canon'[c].count = Before(c) + k
  /\ \A d \in Ids : d # c => canon'[d] = canon[d]

LEMMA BumpCounts ==
  ASSUME TypeOK, NEW c \in Ids, canon' = Bumped(c, 1)
  PROVE  Counted(c, 1)
<1>1. canon \in Seq(Accounts) /\ Len(canon) <= MaxCanon /\ c \in Nat \ {0}
  BY TypeParts, IdsAreNats
<1>2. canon' = [canon EXCEPT ![c].count = @ + 1]
  BY DEF Bumped
<1>3. /\ canon' \in Seq(Accounts) /\ Len(canon') = Len(canon) /\ Ids' = Ids
      /\ canon'[c].count = canon[c].count + 1
      /\ \A d \in Ids : d # c => canon'[d] = canon[d]
  BY <1>1, <1>2, BumpIt, SMTT(30) DEF Ids
<1> QED BY <1>1, <1>3 DEF Counted, Before

LEMMA NewCounts ==
  ASSUME TypeOK, Len(canon) < MaxCanon, NEW n \in Names, NEW f \in Feins, NEW k \in Nat,
         canon' = Append(canon, Canonical(n, f, k))
  PROVE  Counted(Len(canon) + 1, k)
<1>0. canon \in Seq(Accounts) /\ Len(canon) \in Nat /\ MaxCanon \in Nat
  BY TypeParts, EmployersAssumption
<1> DEFINE a == Canonical(n, f, k)
<1>1. a \in Accounts /\ a.count = k
  BY NewAccounts DEF Canonical
<1>2. canon' = Append(canon, a)
  OBVIOUS
<1> HIDE DEF a
<1>3. /\ canon' \in Seq(Accounts) /\ Len(canon') = Len(canon) + 1
      /\ Ids' = Ids \union {Len(canon) + 1} /\ Len(canon) + 1 \notin Ids
      /\ \A d \in Ids : canon'[d] = canon[d]
      /\ canon'[Len(canon) + 1] = a
  BY <1>0, <1>1, <1>2, AddIt DEF Ids
<1> DEFINE c == Len(canon) + 1
<1>4. Len(canon') <= MaxCanon /\ c \in Nat \ {0}
  BY <1>0, <1>3
<1>5. canon'[c] = a /\ c \notin Ids /\ Ids' = Ids \union {c}
  BY <1>3
<1> HIDE DEF c
<1>6. canon'[c].count = Before(c) + k
  BY <1>1, <1>5 DEF Before
<1>7. Counted(c, k)
  BY <1>3, <1>4, <1>5, <1>6 DEF Counted
<1> QED BY <1>7 DEF c

\* What backfill-canonical-ids does to a row.
LEMMA PageShape ==
  ASSUME TypeOK, NEW r \in page, ResolvePage(r)
  PROVE  /\ r \in Rows /\ page' \subseteq Rows /\ errors' \in 0..MaxErrors
         /\ UNCHANGED <<embedded, entry, pending, job, lock, swallowed, full, interrupted>>
         /\ \/ UNCHANGED <<canon, emp, keyed>>
            \/ \E c \in Nat :
                 /\ Counted(c, 1)
                 /\ \/ UNCHANGED <<emp, keyed>>
                    \/ emp' = [emp EXCEPT ![r] = c] /\ keyed' = keyed \union {r}
<1>0. r \in Rows /\ FeinOf[r] \in Feins /\ NameOf[r] \in Names /\ Len(canon) \in Nat
  BY TypeParts, EmployersAssumption, IdsAreNats DEF Feins
<1>1. page' \subseteq Rows /\ UNCHANGED <<embedded, entry, pending, job, lock, swallowed, full, interrupted>>
  BY TypeParts DEF ResolvePage, work
<1>2. errors' \in 0..MaxErrors
  BY TypeParts, ErrTypes DEF ResolvePage, PatchRow
<1>3. CASE UNCHANGED <<canon, table, errors>>
  BY <1>0, <1>1, <1>2, <1>3 DEF table
<1>4. ASSUME NEW c \in OfFein(FeinOf[r]), PatchRow(r, c, Bumped(c, 1))
      PROVE  /\ Counted(c, 1) /\ c \in Nat
             /\ \/ UNCHANGED <<emp, keyed>>
                \/ emp' = [emp EXCEPT ![r] = c] /\ keyed' = keyed \union {r}
  <2>1. c \in Ids /\ c \in Nat
    BY IdsAreNats DEF OfFein
  <2>2. Counted(c, 1)
    BY <1>4, <2>1, BumpCounts DEF PatchRow
  <2> QED BY <1>4, <2>1, <2>2 DEF PatchRow, table
<1>5. ASSUME Len(canon) < MaxCanon,
             PatchRow(r, Len(canon) + 1, Append(canon, Canonical(NameOf[r], FeinOf[r], 1)))
      PROVE  /\ Counted(Len(canon) + 1, 1) /\ Len(canon) + 1 \in Nat
             /\ \/ UNCHANGED <<emp, keyed>>
                \/ emp' = [emp EXCEPT ![r] = Len(canon) + 1] /\ keyed' = keyed \union {r}
  <2>1. Counted(Len(canon) + 1, 1)
    BY <1>0, <1>5, NewCounts DEF PatchRow
  <2> QED BY <1>0, <1>5, <2>1 DEF PatchRow, table
<1>6. \/ UNCHANGED <<canon, table, errors>>
      \/ \E c \in OfFein(FeinOf[r]) : PatchRow(r, c, Bumped(c, 1))
      \/ /\ Len(canon) < MaxCanon
         /\ PatchRow(r, Len(canon) + 1, Append(canon, Canonical(NameOf[r], FeinOf[r], 1)))
  BY DEF ResolvePage
<1> QED BY <1>0, <1>1, <1>2, <1>3, <1>4, <1>5, <1>6

LEMMA StepTypes == TypeOK /\ [Next]_vars => TypeOK'
<1> SUFFICES ASSUME TypeOK, [Next]_vars PROVE TypeOK'
  OBVIOUS
<1>1. CASE \E w \in Workers : FeinSelect(w) \/ FeinInsert(w) \/ Trgm(w) \/ Vector(w) \/ LayerFails(w)
  BY <1>1, ResolutionAnswers, AnswerStep
<1>2. CASE \E w \in Workers :
             \/ \E r \in Rows : Take(w, r)
             \/ WriteResults(w) \/ ResultsLost(w) \/ WriteUnresolved(w) \/ UnresolvedLost(w)
             \/ EmbedPending(w) \/ EmbedFails(w) \/ Crash(w)
  BY <1>2, JobSteps
<1>3. CASE EmbedEmployers
  <2>1. UNCHANGED <<canon, emp, keyed, entry, pending, job, lock, swallowed, full, page, errors, interrupted>> /\ Ids' = Ids
    BY <1>3 DEF EmbedEmployers, table, work, Ids
  <2> QED BY <1>3, <2>1, TypeParts, TypePartsThen DEF EmbedEmployers
<1>4. CASE \E n \in Names : (\E c \in Ids : Merge(n, c)) \/ Create(n) \/ Reject(n)
  BY <1>4, QueueStepTypes
<1>5. CASE \/ FetchChunk \/ (\E e \in full.chunk : Match(e)) \/ PassTwo \/ FeinClash
           \/ EmbedNew \/ MarkResolved \/ BackfillRows \/ FullDies
  BY <1>5, FullStepTypes
<1>6. CASE FetchPage
  <2>1. UNCHANGED <<canon, embedded, emp, keyed, entry, pending, job, lock, swallowed, full, errors, interrupted>> /\ Ids' = Ids
    BY <1>6 DEF FetchPage, people, table, work, Ids
  <2>2. page' \subseteq Rows
    BY <1>6 DEF FetchPage
  <2> QED BY <2>1, <2>2, TypeParts, TypePartsThen
<1>7. ASSUME NEW r \in page, ResolvePage(r)
      PROVE  TypeOK'
  <2>1. /\ canon' \in Seq(Accounts) /\ Len(canon') <= MaxCanon /\ Ids \subseteq Ids'
        /\ emp' \in [Rows -> Ids' \union {0}] /\ keyed' \subseteq Rows
    <3>0. /\ canon \in Seq(Accounts) /\ Len(canon) <= MaxCanon
          /\ emp \in [Rows -> Ids \union {0}] /\ keyed \subseteq Rows /\ r \in Rows
      BY TypeParts
    <3>1. CASE UNCHANGED <<canon, emp, keyed>>
      BY <3>0, <3>1 DEF Ids
    <3>2. ASSUME NEW c \in Nat, Counted(c, 1),
                 \/ UNCHANGED <<emp, keyed>>
                 \/ emp' = [emp EXCEPT ![r] = c] /\ keyed' = keyed \union {r}
          PROVE  /\ canon' \in Seq(Accounts) /\ Len(canon') <= MaxCanon /\ Ids \subseteq Ids'
                 /\ emp' \in [Rows -> Ids' \union {0}] /\ keyed' \subseteq Rows
      <4>1. /\ canon' \in Seq(Accounts) /\ Len(canon') <= MaxCanon /\ Ids \subseteq Ids' /\ c \in Ids'
        BY <3>2 DEF Counted
      <4> QED BY <3>0, <3>2, <4>1
    <3> QED BY <1>7, <3>1, <3>2, PageShape
  <2>2. /\ JobType(Ids) \subseteq JobType(Ids') /\ EntryType(Ids) \subseteq EntryType(Ids')
        /\ FullType(Ids) \subseteq FullType(Ids')
    BY <2>1, MoreIds
  <2> QED BY <1>7, <2>1, <2>2, PageShape, TypeParts, TypePartsThen
<1>8. CASE UNCHANGED vars
  BY <1>8 DEF vars, people, table, work, TypeOK, Ids
<1> QED BY <1>1, <1>2, <1>3, <1>4, <1>5, <1>6, <1>7, <1>8 DEF Next

\* Types hold in every state: an id that is written anywhere is one of
\* canonical_employers, from which nothing is deleted.
THEOREM TypesHold == Spec => []TypeOK
  BY InitTypes, StepTypes, PTL DEF Spec

-----------------------------------------------------------------------------
(* The counts cover the rows.                                              *)

\* A job has no answer before a layer has given one.
Unanswered ==
  \A w \in Workers :
    job[w].pc \in {"idle", "fein", "insert", "trgm", "vector"} => job[w].emp = 0

\* What a count has to cover.
Load(c) == Cardinality(HeldBy(c)) + Cardinality(Claims(c))

\* Cardinalities, as natural numbers.
LEMMA Adds ==
  ASSUME NEW S, IsFiniteSet(S), NEW T, IsFiniteSet(T), NEW U, U \subseteq S \union T
  PROVE  /\ IsFiniteSet(U) /\ Cardinality(U) \in Nat
         /\ Cardinality(S) \in Nat /\ Cardinality(T) \in Nat
         /\ Cardinality(U) <= Cardinality(S) + Cardinality(T)
<1>1. /\ IsFiniteSet(S \union T)
      /\ Cardinality(S \union T) = Cardinality(S) + Cardinality(T) - Cardinality(S \intersect T)
  BY FS_Union
<1>2. IsFiniteSet(U) /\ Cardinality(U) <= Cardinality(S \union T)
  BY <1>1, FS_Subset
<1>3. IsFiniteSet(S \intersect T)
  BY FS_Subset
<1> QED BY <1>1, <1>2, <1>3, FS_CardinalityType

LEMMA NoMore ==
  ASSUME NEW S, IsFiniteSet(S), NEW T, T \subseteq S
  PROVE  /\ IsFiniteSet(T) /\ Cardinality(T) \in Nat /\ Cardinality(S) \in Nat
         /\ Cardinality(T) <= Cardinality(S)
  BY FS_Subset, FS_CardinalityType

LEMMA Loads ==
  /\ \A c : /\ IsFiniteSet(HeldBy(c)) /\ Cardinality(HeldBy(c)) \in Nat
            /\ IsFiniteSet(Claims(c)) /\ Cardinality(Claims(c)) \in Nat
  /\ \A c : /\ IsFiniteSet(HeldBy(c)') /\ Cardinality(HeldBy(c)') \in Nat
            /\ IsFiniteSet(Claims(c)') /\ Cardinality(Claims(c)') \in Nat
<1>1. \A c : /\ HeldBy(c) \subseteq Rows /\ HeldBy(c)' \subseteq Rows
             /\ Claims(c) \subseteq Workers /\ Claims(c)' \subseteq Workers
  BY DEF HeldBy, Claims
<1> QED BY <1>1, RowsCount

\* The account a row or an answer has yet to be counted for covers too: a
\* new one has none.
LEMMA BeforeCovers ==
  ASSUME TypeOK, CountCoversRows, NEW c \in Nat \ {0}
  PROVE  Before(c) \in Nat /\ Before(c) >= Load(c)
<1>1. CASE c \in Ids
  <2>1. canon[c] \in Accounts
    BY <1>1, TypeParts DEF Ids
  <2>2. canon[c].count \in Nat
    BY <2>1 DEF Accounts
  <2> QED BY <1>1, <2>2 DEF CountCoversRows, Before, Load
<1>2. CASE c \notin Ids
  <2>1. HeldBy(c) = {} /\ Claims(c) = {}
    BY <1>2, TypeParts DEF HeldBy, Claims, JobType
  <2>2. Load(c) = 0
    BY <2>1, FS_EmptySet DEF Load
  <2> QED BY <1>2, <2>2 DEF Before
<1> QED BY <1>1, <1>2

\* What is counted for c covers what c gains, and nobody else gains.
LEMMA CountedCovers ==
  ASSUME TypeOK, CountCoversRows, NEW c, NEW k \in Nat, Counted(c, k),
         Load(c)' <= Load(c) + k,
         \A d \in Ids : d # c => Load(d)' <= Load(d)
  PROVE  CountCoversRows'
<1> SUFFICES ASSUME NEW d \in Ids' PROVE canon'[d].count >= Load(d)'
  BY DEF CountCoversRows, Load
<1>0. Load(d) \in Nat /\ Load(d)' \in Nat
  BY Loads DEF Load
<1>1. CASE d = c
  BY <1>0, <1>1, BeforeCovers DEF Counted
<1>2. CASE d # c
  <2>1. d \in Ids /\ canon'[d] = canon[d] /\ d \in Nat \ {0}
    BY <1>2, IdsAreNats DEF Counted
  <2> QED BY <1>0, <1>2, <2>1, BeforeCovers DEF Before
<1> QED BY <1>1, <1>2

LEMMA UncountedCovers ==
  ASSUME TypeOK, CountCoversRows, canon' = canon, \A d \in Ids : Load(d)' <= Load(d)
  PROVE  CountCoversRows'
<1> SUFFICES ASSUME NEW d \in Ids PROVE canon[d].count >= Load(d)'
  BY DEF CountCoversRows, Load, Ids
<1>0. Load(d) \in Nat /\ Load(d)' \in Nat /\ d \in Nat \ {0}
  BY Loads, IdsAreNats DEF Load
<1> QED BY <1>0, BeforeCovers DEF Before

\* Fewer rows and claims are no more load.
LEMMA LessLoad ==
  ASSUME NEW d, HeldBy(d)' \subseteq HeldBy(d), Claims(d)' \subseteq Claims(d)
  PROVE  Load(d)' <= Load(d)
<1>1. /\ Cardinality(HeldBy(d)') <= Cardinality(HeldBy(d))
      /\ Cardinality(Claims(d)') <= Cardinality(Claims(d))
  BY Loads, NoMore
<1> QED BY <1>1, Loads DEF Load

\* More rows, or more claims.
LEMMA MoreRows ==
  ASSUME NEW d, NEW S, IsFiniteSet(S), HeldBy(d)' \subseteq HeldBy(d) \union S,
         Claims(d)' \subseteq Claims(d)
  PROVE  Cardinality(S) \in Nat /\ Load(d)' <= Load(d) + Cardinality(S)
<1>1. /\ Cardinality(HeldBy(d)') <= Cardinality(HeldBy(d)) + Cardinality(S)
      /\ Cardinality(Claims(d)') <= Cardinality(Claims(d)) /\ Cardinality(S) \in Nat
  BY Loads, NoMore, Adds
<1> QED BY <1>1, Loads DEF Load

LEMMA MoreClaims ==
  ASSUME NEW d, NEW w, HeldBy(d)' \subseteq HeldBy(d), Claims(d)' \subseteq Claims(d) \union {w}
  PROVE  Load(d)' <= Load(d) + 1
<1>1. IsFiniteSet({w}) /\ Cardinality({w}) = 1
  BY FS_Singleton
<1>2. /\ Cardinality(HeldBy(d)') <= Cardinality(HeldBy(d))
      /\ Cardinality(Claims(d)') <= Cardinality(Claims(d)) + 1
  <2>1. Cardinality(Claims(d)') <= Cardinality(Claims(d)) + Cardinality({w})
    BY <1>1, Loads, Adds
  <2> QED BY <1>1, <2>1, Loads, NoMore
<1> QED BY <1>2, Loads DEF Load

CountInv == TypeOK /\ Unanswered /\ CountCoversRows

\* Only worker w's claim changes.
LEMMA OneClaim ==
  ASSUME NEW w \in Workers, \A v \in Workers : v # w => job'[v] = job[v], NEW d
  PROVE  /\ Claims(d)' \subseteq Claims(d) \union {w}
         /\ job'[w].pc # "write" \/ job'[w].emp # d => Claims(d)' \subseteq Claims(d)
  BY DEF Claims, At

\* The resolution: what it answers is counted with the answer.
LEMMA AnswerCounts ==
  ASSUME CountInv, NEW w \in Workers, Answers(w), InJob,
         job[w].pc \in {"fein", "insert", "trgm", "vector"}
  PROVE  CountCoversRows' /\ Unanswered'
<1>0. /\ TypeOK /\ CountCoversRows /\ job[w].emp = 0 /\ emp' = emp
      /\ \A d : HeldBy(d)' = HeldBy(d)
      /\ \A v \in Workers : job[v].pc \in {"idle", "fein", "insert", "trgm", "vector"} => job[v].emp = 0
  BY DEF CountInv, Unanswered, InJob, table, HeldBy
<1>1. ASSUME NEW p \in Pcs, Goto(w, p), canon' = canon
      PROVE  CountCoversRows' /\ Unanswered'
  <2>1. job'[w].emp = 0 /\ \A v \in Workers : v # w => job'[v] = job[v]
    BY <1>0, <1>1, GotoTypes
  <2>2. \A d \in Ids : Load(d)' <= Load(d)
    <3> TAKE d \in Ids
    <3>1. Claims(d)' \subseteq Claims(d)
      BY <1>0, <2>1, OneClaim, IdsAreNats
    <3> QED BY <1>0, <3>1, LessLoad
  <2>3. CountCoversRows'
    BY <1>0, <1>1, <2>2, UncountedCovers
  <2>4. Unanswered'
    BY <1>0, <2>1 DEF Unanswered
  <2> QED BY <2>3, <2>4
<1>2. ASSUME NEW c \in Nat \ {0}, Counted(c, 1), job'[w].pc = "write", job'[w].emp = c,
             \A v \in Workers : v # w => job'[v] = job[v]
      PROVE  CountCoversRows' /\ Unanswered'
  <2>1. Load(c)' <= Load(c) + 1
    BY <1>0, <1>2, OneClaim, MoreClaims
  <2>2. ASSUME NEW d \in Ids, d # c PROVE Load(d)' <= Load(d)
    BY <1>0, <1>2, <2>2, OneClaim, LessLoad
  <2>3. CountCoversRows'
    BY <1>0, <1>2, <2>1, <2>2, CountedCovers
  <2>4. Unanswered'
    BY <1>0, <1>2 DEF Unanswered
  <2> QED BY <2>3, <2>4
<1>3. ASSUME NEW c \in Ids, Found(w, c)
      PROVE  CountCoversRows' /\ Unanswered'
  <2>1. canon' = Bumped(c, 1) /\ c \in Nat \ {0}
    BY <1>0, <1>3, IdsAreNats DEF Found
  <2>2. Counted(c, 1)
    BY <1>0, <2>1, BumpCounts
  <2> QED BY <1>0, <1>2, <1>3, <2>1, <2>2, FoundTypes
<1>4. ASSUME Len(canon) < MaxCanon, NEW n \in Names, NEW f \in Feins,
             canon' = Append(canon, Canonical(n, f, 1)),
             job' = [job EXCEPT ![w].pc = "write", ![w].emp = Len(canon) + 1]
      PROVE  CountCoversRows' /\ Unanswered'
  <2> DEFINE c == Len(canon) + 1
  <2>1. Counted(c, 1)
    BY <1>0, <1>4, NewCounts
  <2>2. job' = [job EXCEPT ![w].pc = "write", ![w].emp = c]
    BY <1>4
  <2> HIDE DEF c
  <2>3. c \in Nat \ {0} /\ Ids \subseteq Ids' /\ c \in Ids'
    BY <2>1 DEF Counted
  <2>4. /\ job'[w].pc = "write" /\ job'[w].emp = c
        /\ \A v \in Workers : v # w => job'[v] = job[v]
    BY <1>0, <2>2, <2>3, AnswerTypes
  <2> QED BY <1>2, <2>1, <2>3, <2>4
<1>5. "write" \in Pcs
  BY DEF Pcs
<1>6. \/ canon' = canon /\ \E p \in Pcs : Goto(w, p)
      \/ \E c \in Ids : Found(w, c)
      \/ /\ Len(canon) < MaxCanon
         /\ \E n \in Names, f \in Feins : canon' = Append(canon, Canonical(n, f, 1))
         /\ job' = [job EXCEPT ![w].pc = "write", ![w].emp = Len(canon) + 1]
  BY <1>5 DEF Answers
<1> QED BY <1>1, <1>3, <1>4, <1>6

\* What follows the answer: the claim of a row that is written becomes the
\* row's, any other ends.
LEMMA JobCounts ==
  ASSUME CountInv, NEW w \in Workers,
         \/ \E r \in Rows : Take(w, r)
         \/ WriteResults(w) \/ ResultsLost(w) \/ WriteUnresolved(w) \/ UnresolvedLost(w)
         \/ EmbedPending(w) \/ EmbedFails(w) \/ Crash(w)
  PROVE  CountCoversRows' /\ Unanswered'
<1>0. /\ TypeOK /\ CountCoversRows /\ canon' = canon
      /\ \A v \in Workers : job[v].pc \in {"idle", "fein", "insert", "trgm", "vector"} => job[v].emp = 0
      /\ AfterWrite(w) \in Pcs \ {"idle", "fein", "insert", "trgm", "vector", "write"}
      /\ "embed" \in Pcs /\ job[w].row \in Rows /\ job[w].emp \in Ids \union {0}
  BY JobSteps, TypeParts DEF CountInv, Unanswered, AfterWrite, Pcs, JobType
<1>1. /\ \A v \in Workers : v # w => job'[v] = job[v]
      /\ job'[w].pc # "write"
      /\ job'[w].pc \in {"idle", "fein", "insert", "trgm", "vector"} => job'[w].emp = 0
  <2>0. job \in [Workers -> JobType(Ids)]
    BY <1>0, TypeParts
  <2>1. CASE \E r \in Rows : Take(w, r)
    BY <2>0, <2>1 DEF Take
  <2>2. CASE WriteResults(w) \/ ResultsLost(w)
    BY <1>0, <2>2, GotoTypes DEF WriteResults, ResultsLost
  <2>3. CASE WriteUnresolved(w) \/ UnresolvedLost(w)
    BY <1>0, <2>3, GotoTypes DEF WriteUnresolved, UnresolvedLost
  <2>4. CASE EmbedPending(w) \/ EmbedFails(w) \/ Crash(w)
    <3>1. Idle.pc = "idle" /\ Idle.emp = 0
      BY DEF Idle
    <3>2. job' = [job EXCEPT ![w] = Idle]
      BY <2>4 DEF EmbedPending, EmbedFails, Crash
    <3> QED BY <1>0, <3>1, <3>2, IdleTypes
  <2> QED BY <2>1, <2>2, <2>3, <2>4
<1>2. Unanswered'
  BY <1>0, <1>1 DEF Unanswered
<1>3. \A d : Claims(d)' \subseteq Claims(d)
  BY <1>1, OneClaim
<1>4. CASE emp' = emp
  <2>1. \A d \in Ids : Load(d)' <= Load(d)
    <3> TAKE d \in Ids
    <3>1. HeldBy(d)' \subseteq HeldBy(d)
      BY <1>4 DEF HeldBy
    <3> QED BY <1>3, <3>1, LessLoad
  <2> QED BY <1>0, <1>2, <2>1, UncountedCovers
<1>5. CASE /\ At(w, "write")
           /\ emp' = [emp EXCEPT ![job[w].row] = job[w].emp]
  <2> DEFINE r == job[w].row
  <2>1. ASSUME NEW d \in Ids PROVE Load(d)' <= Load(d)
    <3>0. emp \in [Rows -> Ids \union {0}] /\ r \in Rows /\ emp' = [emp EXCEPT ![r] = job[w].emp]
      BY <1>0, <1>5, TypeParts
    <3>1. CASE job[w].emp = d
      <4>1. w \in Claims(d) /\ w \notin Claims(d)' /\ Claims(d)' \subseteq Claims(d) \ {w}
        BY <1>1, <1>3, <1>5, <3>1 DEF Claims, At
      <4>2. Cardinality(Claims(d)') + 1 <= Cardinality(Claims(d))
        <5>1. /\ IsFiniteSet(Claims(d) \ {w})
              /\ Cardinality(Claims(d) \ {w}) = Cardinality(Claims(d)) - 1
          BY <4>1, Loads, FS_RemoveElement
        <5> QED BY <4>1, <5>1, Loads, NoMore
      <4>3. HeldBy(d)' \subseteq HeldBy(d) \union {r}
        BY <3>0 DEF HeldBy
      <4>4. Cardinality(HeldBy(d)') <= Cardinality(HeldBy(d)) + 1
        <5>1. IsFiniteSet({r}) /\ Cardinality({r}) = 1
          BY FS_Singleton
        <5>2. Cardinality(HeldBy(d)') <= Cardinality(HeldBy(d)) + Cardinality({r})
          BY <4>3, <5>1, Loads, Adds
        <5> QED BY <5>1, <5>2
      <4> QED BY <4>2, <4>4, Loads DEF Load
    <3>2. CASE job[w].emp # d
      <4>1. HeldBy(d)' \subseteq HeldBy(d)
        BY <3>0, <3>2 DEF HeldBy
      <4> QED BY <1>3, <4>1, LessLoad
    <3> QED BY <3>1, <3>2
  <2> QED BY <1>0, <1>2, <2>1, UncountedCovers
<1>6. \/ emp' = emp
      \/ At(w, "write") /\ emp' = [emp EXCEPT ![job[w].row] = job[w].emp]
  BY DEF Take, WriteResults, ResultsLost, WriteUnresolved, UnresolvedLost, EmbedPending,
       EmbedFails, Crash, table
<1> QED BY <1>4, <1>5, <1>6

\* A merge counts the rows it gives.
LEMMA MergeCounts ==
  ASSUME CountInv, NEW n \in Names, NEW c \in Nat, NEW before \in Seq(Accounts), Merging(n, c, before)
  PROVE  CountCoversRows'
<1> DEFINE rows == Orphans(n)
<1>0. /\ TypeOK /\ CountCoversRows /\ rows \subseteq Rows
      /\ emp' = [r \in Rows |-> IF r \in rows THEN c ELSE emp[r]] /\ job' = job
      /\ emp \in [Rows -> Ids \union {0}]
  BY EmployersAssumption, TypeParts DEF CountInv, Merging, MergeInto, Orphans, work
<1>1. /\ c \in DOMAIN before /\ Ids \subseteq DOMAIN before
      /\ \A d \in Ids : before[d] = canon[d]
      /\ \A d \in DOMAIN before \ Ids : before[d].count = 0
      /\ TypeOK' /\ Ids' = DOMAIN before
      /\ canon'[c].count = before[c].count + Cardinality(rows)
      /\ \A d \in Ids' : d # c => canon'[d] = before[d]
  BY <1>0, MergeStarts, MergeTypes DEF Merging
<1>2. Ids' = Ids \union {c} /\ Len(canon') <= MaxCanon /\ canon' \in Seq(Accounts)
  <2>1. DOMAIN before = Ids \union {c}
    <3>1. CASE before = canon /\ c \in Ids
      BY <3>1 DEF Ids
    <3>2. CASE c = Len(canon) + 1 /\ before = Append(canon, Canonical(n, entry[n].fein, 0))
      <4>1. canon \in Seq(Accounts) /\ Canonical(n, entry[n].fein, 0) \in Accounts
        BY <1>0, TypeParts, NewAccounts DEF EntryType
      <4> QED BY <3>2, <4>1, AddIt DEF Ids
    <3> QED BY <3>1, <3>2 DEF Merging
  <2>2. Len(canon') <= MaxCanon /\ canon' \in Seq(Accounts)
    BY <1>1 DEF TypeOK, Accounts
  <2> QED BY <1>1, <2>1, <2>2
<1>3. c \in Nat \ {0} /\ before[c].count = Before(c)
  <2>1. c # 0
    BY <1>1
  <2>2. CASE c \in Ids
    BY <1>1, <2>1, <2>2 DEF Before
  <2>3. CASE c \notin Ids
    BY <1>1, <2>1, <2>3 DEF Before
  <2> QED BY <2>1, <2>2, <2>3
<1>4. Cardinality(rows) \in Nat /\ IsFiniteSet(rows)
  BY <1>0, RowsCount
<1>5. Counted(c, Cardinality(rows))
  BY <1>1, <1>2, <1>3 DEF Counted
<1>6. \A d : Claims(d)' = Claims(d)
  BY <1>0 DEF Claims, At
<1>7. Load(c)' <= Load(c) + Cardinality(rows)
  <2>1. HeldBy(c)' \subseteq HeldBy(c) \union rows
    BY <1>0 DEF HeldBy
  <2> QED BY <1>4, <1>6, <2>1, MoreRows
<1>8. ASSUME NEW d \in Ids, d # c PROVE Load(d)' <= Load(d)
  <2>1. HeldBy(d)' \subseteq HeldBy(d)
    BY <1>0, <1>8 DEF HeldBy
  <2> QED BY <1>6, <2>1, LessLoad
<1> HIDE DEF rows
<1> QED BY <1>0, <1>4, <1>5, <1>7, <1>8, CountedCovers

\* backfill-canonical-full gives new accounts no rows, and counts what it writes.
LEMMA FullCounts ==
  ASSUME CountInv,
         \/ FetchChunk \/ (\E e \in full.chunk : Match(e)) \/ PassTwo \/ FeinClash
         \/ EmbedNew \/ MarkResolved \/ BackfillRows \/ FullDies
  PROVE  CountCoversRows' /\ job' = job
<1>0. TypeOK /\ CountCoversRows /\ job' = job /\ \A d : Claims(d)' = Claims(d)
  <2>1. job' = job
    BY DEF FetchChunk, Match, PassTwo, FeinClash, EmbedNew, MarkResolved, BackfillRows,
         FullDies, FullOnly, work
  <2> QED BY <2>1 DEF CountInv, Claims, At
<1>1. CASE PassTwo
  <2>1. emp' = emp
    BY <1>1 DEF PassTwo, table
  <2>2. \A d : Load(d)' <= Load(d)
    <3> TAKE d
    <3>1. HeldBy(d)' \subseteq HeldBy(d)
      BY <2>1 DEF HeldBy
    <3> QED BY <1>0, <3>1, LessLoad
  <2>3. /\ canon' \in Seq(Accounts)
        /\ \A d \in Ids : canon'[d] = canon[d]
        /\ \A d \in Ids' \ Ids : canon'[d].count = 0
    BY <1>0, <1>1, PassTwoShape
  <2> SUFFICES ASSUME NEW d \in Ids' PROVE canon'[d].count >= Load(d)'
    BY <1>0 DEF CountCoversRows, Load
  <2>4. d \in Nat \ {0}
    BY <2>3 DEF Ids
  <2>5. Before(d) \in Nat /\ Before(d) >= Load(d) /\ canon'[d].count = Before(d)
    BY <1>0, <2>3, <2>4, BeforeCovers DEF Before
  <2>6. Load(d) \in Nat /\ Load(d)' \in Nat
    BY Loads DEF Load
  <2> QED BY <2>2, <2>5, <2>6
<1>2. CASE BackfillRows
  <2> DEFINE open == UNION {Unkeyed(d.name) : d \in full.decided}
  <2>1. PICK by \in [open -> Ids] :
          /\ open \subseteq Rows
          /\ emp' = [r \in Rows |-> IF r \in open THEN by[r] ELSE emp[r]]
          /\ Ids' = Ids
          /\ \A c \in Ids : canon'[c].count = canon[c].count + Cardinality(Written(by, c))
    BY <1>0, <1>2, BackfillShape
  <2> HIDE DEF open
  <2> SUFFICES ASSUME NEW d \in Ids PROVE canon'[d].count >= Load(d)'
    BY <1>0, <2>1 DEF CountCoversRows, Load
  <2>2. Written(by, d) \subseteq Rows /\ HeldBy(d)' \subseteq HeldBy(d) \union Written(by, d)
    BY <2>1 DEF HeldBy, Written
  <2>3. Cardinality(Written(by, d)) \in Nat /\ Load(d)' <= Load(d) + Cardinality(Written(by, d))
    BY <1>0, <2>2, RowsCount, MoreRows
  <2>4. canon[d].count \in Nat /\ canon[d].count >= Load(d)
    <3>1. d \in Nat \ {0}
      BY <1>0, IdsAreNats
    <3> QED BY <1>0, <3>1, BeforeCovers DEF Before
  <2>5. Load(d) \in Nat /\ Load(d)' \in Nat
    BY Loads DEF Load
  <2> QED BY <2>1, <2>3, <2>4, <2>5
<1>3. CASE canon' = canon /\ emp' = emp
  <2>1. \A d \in Ids : Load(d)' <= Load(d)
    <3> TAKE d \in Ids
    <3>1. HeldBy(d)' \subseteq HeldBy(d)
      BY <1>3 DEF HeldBy
    <3> QED BY <1>0, <3>1, LessLoad
  <2> QED BY <1>0, <1>3, <2>1, UncountedCovers
<1>4. PassTwo \/ BackfillRows \/ (canon' = canon /\ emp' = emp)
  BY DEF FetchChunk, Match, FeinClash, EmbedNew, MarkResolved, FullDies, people, table
<1> QED BY <1>0, <1>1, <1>2, <1>3, <1>4

\* backfill-canonical-ids counts a row before it writes it.
LEMMA PageCounts ==
  ASSUME CountInv, NEW r \in page, ResolvePage(r)
  PROVE  CountCoversRows' /\ job' = job
<1>0. /\ TypeOK /\ CountCoversRows /\ job' = job /\ r \in Rows
      /\ emp \in [Rows -> Ids \union {0}]
      /\ \A d : Claims(d)' = Claims(d)
  <2>1. TypeOK /\ CountCoversRows
    BY DEF CountInv
  <2>2. job' = job /\ r \in Rows
    BY <2>1, PageShape
  <2> QED BY <2>1, <2>2, TypeParts DEF Claims, At
<1>1. CASE UNCHANGED <<canon, emp, keyed>>
  <2>1. \A d \in Ids : Load(d)' <= Load(d)
    <3> TAKE d \in Ids
    <3>1. HeldBy(d)' \subseteq HeldBy(d)
      BY <1>1 DEF HeldBy
    <3> QED BY <1>0, <3>1, LessLoad
  <2> QED BY <1>0, <1>1, <2>1, UncountedCovers
<1>2. ASSUME NEW c \in Nat, Counted(c, 1), emp' = emp \/ emp' = [emp EXCEPT ![r] = c]
      PROVE  CountCoversRows'
  <2>1. Load(c)' <= Load(c) + 1
    <3>1. HeldBy(c)' \subseteq HeldBy(c) \union {r}
      BY <1>0, <1>2 DEF HeldBy
    <3>2. IsFiniteSet({r}) /\ Cardinality({r}) = 1
      BY FS_Singleton
    <3>3. Load(c)' <= Load(c) + Cardinality({r})
      BY <1>0, <3>1, <3>2, MoreRows
    <3> QED BY <3>2, <3>3
  <2>2. ASSUME NEW d \in Ids, d # c PROVE Load(d)' <= Load(d)
    <3>1. HeldBy(d)' \subseteq HeldBy(d)
      BY <1>0, <1>2, <2>2 DEF HeldBy
    <3> QED BY <1>0, <3>1, LessLoad
  <2> QED BY <1>0, <1>2, <2>1, <2>2, CountedCovers
<1>3. \/ UNCHANGED <<canon, emp, keyed>>
      \/ \E c \in Nat : Counted(c, 1) /\ (emp' = emp \/ emp' = [emp EXCEPT ![r] = c])
  BY <1>0, PageShape
<1> QED BY <1>0, <1>1, <1>2, <1>3

LEMMA CountSteps == CountInv /\ [Next]_vars => CountInv'
<1> SUFFICES ASSUME CountInv, [Next]_vars PROVE CountCoversRows' /\ Unanswered'
  BY StepTypes DEF CountInv
<1>0. TypeOK /\ CountCoversRows /\ Unanswered
  BY DEF CountInv
<1>1. ASSUME NEW w \in Workers,
             FeinSelect(w) \/ FeinInsert(w) \/ Trgm(w) \/ Vector(w) \/ LayerFails(w)
      PROVE  CountCoversRows' /\ Unanswered'
  BY <1>0, <1>1, ResolutionAnswers, AnswerCounts
<1>2. CASE \E w \in Workers :
             \/ \E r \in Rows : Take(w, r)
             \/ WriteResults(w) \/ ResultsLost(w) \/ WriteUnresolved(w) \/ UnresolvedLost(w)
             \/ EmbedPending(w) \/ EmbedFails(w) \/ Crash(w)
  BY <1>2, JobCounts
<1>3. job' = job => Unanswered'
  BY <1>0 DEF Unanswered
<1>4. ASSUME NEW n \in Names, (\E c \in Ids : Merge(n, c)) \/ Create(n)
      PROVE  CountCoversRows' /\ Unanswered'
  <2>1. PICK c \in Nat, before \in Seq(Accounts) : Merging(n, c, before)
    BY <1>0, <1>4, QueueSteps
  <2>2. job' = job
    BY <2>1 DEF Merging, MergeInto, work
  <2> QED BY <1>3, <2>1, <2>2, MergeCounts
<1>5. CASE \/ FetchChunk \/ (\E e \in full.chunk : Match(e)) \/ PassTwo \/ FeinClash
           \/ EmbedNew \/ MarkResolved \/ BackfillRows \/ FullDies
  BY <1>3, <1>5, FullCounts
<1>6. CASE \E r \in page : ResolvePage(r)
  BY <1>3, <1>6, PageCounts
<1>7. CASE EmbedEmployers \/ (\E n \in Names : Reject(n)) \/ FetchPage \/ UNCHANGED vars
  <2>1. canon' = canon /\ emp' = emp /\ job' = job
    BY <1>7 DEF EmbedEmployers, Reject, FetchPage, vars, people, table, work
  <2>2. \A d \in Ids : Load(d)' <= Load(d)
    <3> TAKE d \in Ids
    <3>1. HeldBy(d)' \subseteq HeldBy(d) /\ Claims(d)' \subseteq Claims(d)
      BY <2>1 DEF HeldBy, Claims, At
    <3> QED BY <3>1, LessLoad
  <2> QED BY <1>0, <1>3, <2>1, <2>2, UncountedCovers
<1> QED BY <1>1, <1>2, <1>4, <1>5, <1>6, <1>7 DEF Next

LEMMA InitCounts == Init => CountInv
<1> SUFFICES ASSUME Init PROVE CountInv
  OBVIOUS
<1>1. TypeOK /\ CountCoversRows
  BY InitTypes DEF Init, CountCoversRows, Ids
<1>2. Unanswered
  BY DEF Init, Unanswered, Idle
<1> QED BY <1>1, <1>2 DEF CountInv

\* An account's record_count is never below the rows that carry its id and
\* the answers a worker has counted and not written, whoever counts: the
\* workers' layers, the operator's merges and both backfill scripts.
THEOREM CountsCover == Spec => []CountCoversRows
<1>1. CountInv => CountCoversRows
  BY DEF CountInv
<1> QED BY <1>1, InitCounts, CountSteps, PTL DEF Spec

-----------------------------------------------------------------------------
(* What the rows, the entries and the jobs have to do with each other.     *)

\* A row with an id has the key; one with a null is confident, as the worker
\* alone writes nulls, and leaves the quarantined rows alone.
HeldIsKeyed == \A r \in Rows : emp[r] # 0 => r \in keyed
NullIsConfident == \A r \in keyed : emp[r] = 0 => r \in Confident

\* The keys stay, who gives an id gives the key, and a null comes from a
\* worker without an answer.
NullWritten(r) ==
  \E w \in Workers : WriteResults(w) /\ job[w].row = r /\ job[w].emp = 0 /\ r \in Confident
TableStep ==
  /\ keyed \subseteq keyed'
  /\ \A r \in Rows : emp'[r] = emp[r] \/ r \in keyed'
  /\ \A r \in keyed' : emp'[r] = 0 => (r \in keyed /\ emp[r] = 0) \/ NullWritten(r)

LEMMA TableSteps == TypeOK /\ [Next]_vars => TableStep
<1> SUFFICES ASSUME TypeOK, [Next]_vars PROVE TableStep
  OBVIOUS
<1>0. emp \in [Rows -> Ids \union {0}] /\ keyed \subseteq Rows /\ 0 \notin Ids
  BY TypeParts, IdsAreNats
<1>1. ASSUME UNCHANGED table PROVE TableStep
  BY <1>1 DEF table, TableStep
<1>2. ASSUME NEW w \in Workers, WriteResults(w) PROVE TableStep
  <2>1. CASE UNCHANGED table
    BY <1>1, <2>1
  <2>2. CASE /\ job[w].row \in Confident /\ emp' = [emp EXCEPT ![job[w].row] = job[w].emp]
             /\ keyed' = keyed \union {job[w].row}
    <3>1. \A r \in Rows : r # job[w].row => emp'[r] = emp[r]
      BY <1>0, <2>2
    <3>2. job[w].row \in Rows /\ emp'[job[w].row] = job[w].emp
      BY <1>0, <2>2, EmployersAssumption
    <3>3. \A r \in keyed' : emp'[r] = 0 => (r \in keyed /\ emp[r] = 0) \/ NullWritten(r)
      BY <1>0, <1>2, <2>2, <3>1, <3>2 DEF NullWritten
    <3> QED BY <2>2, <3>1, <3>3 DEF TableStep
  <2> QED BY <1>2, <2>1, <2>2 DEF WriteResults
<1>3. ASSUME NEW n \in Names, (\E c \in Ids : Merge(n, c)) \/ Create(n) PROVE TableStep
  <2>1. PICK c \in Nat, before \in Seq(Accounts) : Merging(n, c, before)
    BY <1>3, QueueSteps
  <2>2. c # 0
    BY <2>1, IdsAreNats DEF Merging
  <2>3. /\ emp' = [r \in Rows |-> IF r \in Orphans(n) THEN c ELSE emp[r]]
        /\ keyed' = keyed \union Orphans(n) /\ Orphans(n) \subseteq Rows
    BY <2>1, EmployersAssumption DEF Merging, MergeInto, Orphans
  <2> QED BY <1>0, <2>2, <2>3 DEF TableStep
<1>4. CASE BackfillRows
  <2> DEFINE open == UNION {Unkeyed(d.name) : d \in full.decided}
  <2>1. PICK by \in [open -> Ids] :
          /\ open \subseteq Rows
          /\ emp' = [r \in Rows |-> IF r \in open THEN by[r] ELSE emp[r]]
          /\ keyed' = keyed \union open
    BY <1>4, BackfillShape
  <2> HIDE DEF open
  <2> QED BY <1>0, <2>1 DEF TableStep
<1>5. ASSUME NEW r \in page, ResolvePage(r) PROVE TableStep
  <2>1. CASE UNCHANGED <<emp, keyed>>
    BY <1>1, <2>1 DEF table
  <2>2. ASSUME NEW c \in Nat, Counted(c, 1), emp' = [emp EXCEPT ![r] = c], keyed' = keyed \union {r}
        PROVE  TableStep
    <3>1. c # 0 /\ r \in Rows
      BY <1>5, <2>2, PageShape DEF Counted
    <3> QED BY <1>0, <2>2, <3>1 DEF TableStep
  <2> QED BY <1>5, <2>1, <2>2, PageShape
<1>6. ASSUME NEW w \in Workers,
             \/ \E r \in Rows : Take(w, r)
             \/ FeinSelect(w) \/ FeinInsert(w) \/ Trgm(w) \/ Vector(w) \/ LayerFails(w)
             \/ ResultsLost(w) \/ WriteUnresolved(w) \/ UnresolvedLost(w)
             \/ EmbedPending(w) \/ EmbedFails(w) \/ Crash(w)
      PROVE  UNCHANGED table
  BY <1>6 DEF Take, FeinSelect, FeinInsert, Trgm, Vector, LayerFails, InJob, ResultsLost,
       WriteUnresolved, UnresolvedLost, EmbedPending, EmbedFails, Crash
<1>7. ASSUME \/ EmbedEmployers \/ (\E n \in Names : Reject(n))
             \/ FetchChunk \/ (\E e \in full.chunk : Match(e)) \/ PassTwo \/ FeinClash
             \/ EmbedNew \/ MarkResolved \/ FullDies \/ FetchPage \/ UNCHANGED vars
      PROVE  UNCHANGED table
  BY <1>7 DEF EmbedEmployers, Reject, FetchChunk, Match, PassTwo, FeinClash, EmbedNew,
       MarkResolved, FullDies, FetchPage, vars, table
<1> QED BY <1>1, <1>2, <1>3, <1>4, <1>5, <1>6, <1>7 DEF Next

\* An entry is never removed; one becomes resolved by a merge, which gives
\* the orphans of its name an id, or by the script, which is to write them.
Underway(n) == n \in interrupted \/ (full.pc = "backfill" /\ ChosenFor(n) # {})
EntryStep ==
  /\ \A n \in Names : entry[n].state # "none" => entry'[n].state # "none"
  /\ \A n \in Names :
       entry'[n].state = "resolved" =>
         entry[n].state = "resolved" \/ Orphans(n) \subseteq keyed' \/ Underway(n)'
  /\ \A n \in Names : Underway(n) => RowsOf[n] \subseteq keyed' \/ Underway(n)'

LEMMA EntrySteps == TypeOK /\ [Next]_vars => EntryStep
<1> SUFFICES ASSUME TypeOK, [Next]_vars PROVE EntryStep
  OBVIOUS
<1>0. entry \in [Names -> EntryType(Ids)]
  BY TypeParts
<1>1. ASSUME UNCHANGED <<entry, full, interrupted>> PROVE EntryStep
  <2>1. \A n : Underway(n)' <=> Underway(n)
    BY <1>1 DEF Underway, ChosenFor
  <2> QED BY <1>1, <2>1 DEF EntryStep
<1>2. ASSUME NEW w \in Workers, WriteUnresolved(w) PROVE EntryStep
  <2>1. \A n : Underway(n)' <=> Underway(n)
    BY <1>2 DEF WriteUnresolved, Underway, ChosenFor
  <2>2. \A n \in Names : \/ entry'[n].state = entry[n].state
                         \/ entry[n].state = "none" /\ entry'[n].state = "open"
    BY <1>0, <1>2 DEF WriteUnresolved, EntryType
  <2> QED BY <2>1, <2>2 DEF EntryStep
<1>3. ASSUME NEW n \in Names, (\E c \in Ids : Merge(n, c)) \/ Create(n) PROVE EntryStep
  <2>1. PICK c \in Nat, before \in Seq(Accounts) : Merging(n, c, before)
    BY <1>3, QueueSteps
  <2>2. /\ keyed' = keyed \union Orphans(n) /\ UNCHANGED <<full, interrupted>>
        /\ entry' = [entry EXCEPT ![n].state = "resolved", ![n].to = c]
    BY <2>1 DEF Merging, MergeInto
  <2>3. \A m : Underway(m)' <=> Underway(m)
    BY <2>2 DEF Underway, ChosenFor
  <2>4. \A m \in Names : IF m = n THEN entry'[m].state = "resolved" ELSE entry'[m] = entry[m]
    BY <1>0, <2>2 DEF EntryType
  <2> QED BY <2>2, <2>3, <2>4 DEF EntryStep
<1>4. ASSUME NEW n \in Names, Reject(n) PROVE EntryStep
  <2>1. \A m : Underway(m)' <=> Underway(m)
    BY <1>4 DEF Reject, Underway, ChosenFor
  <2>2. \A m \in Names : IF m = n THEN entry'[m].state = "rejected" ELSE entry'[m] = entry[m]
    BY <1>0, <1>4 DEF Reject, EntryType
  <2> QED BY <2>1, <2>2 DEF EntryStep
<1>5. CASE MarkResolved
  <2>1. full \in FullType(Ids) /\ full.pc = "mark"
    BY <1>5, TypeParts DEF MarkResolved
  <2>2. full'.pc = "backfill" /\ full'.decided = full.decided /\ interrupted' = interrupted
    BY <1>5, <2>1 DEF MarkResolved, FullOnly, FullType
  <2>3. \A n : Underway(n)' <=> n \in interrupted \/ ChosenFor(n) # {}
    BY <2>2 DEF Underway, ChosenFor
  <2>4. \A n \in Names : IF ChosenFor(n) = {} THEN entry'[n] = entry[n]
                         ELSE entry'[n].state = "resolved"
    <3>1. PICK to \in [Names -> 0..MaxCanon] :
            entry' = [n \in Names |-> IF ChosenFor(n) = {} THEN entry[n]
                        ELSE [entry[n] EXCEPT !.state = "resolved", !.to = to[n]]]
      BY <1>5 DEF MarkResolved
    <3> QED BY <1>0, <3>1 DEF EntryType
  <2>5. \A n : Underway(n) => n \in interrupted
    BY <2>1 DEF Underway
  <2> QED BY <2>3, <2>4, <2>5 DEF EntryStep
<1>6. CASE BackfillRows
  <2>1. entry' = entry /\ interrupted' = interrupted
        /\ keyed' = keyed \union UNION {Unkeyed(d.name) : d \in full.decided}
    BY <1>6 DEF BackfillRows, FullOnly
  <2>2. ASSUME NEW n \in Names, Underway(n) PROVE RowsOf[n] \subseteq keyed' \/ Underway(n)'
    <3>1. CASE n \in interrupted
      BY <2>1, <3>1 DEF Underway
    <3>2. CASE ChosenFor(n) # {}
      <4>1. PICK d \in full.decided : d.name = n
        BY <3>2 DEF ChosenFor
      <4> QED BY <2>1, <4>1 DEF Unkeyed
    <3> QED BY <2>2, <3>1, <3>2 DEF Underway
  <2> QED BY <2>1, <2>2 DEF EntryStep
<1>7. CASE FullDies
  <2>1. \A n \in Names : Underway(n) => n \in interrupted'
    BY <1>7 DEF FullDies, Underway, ChosenFor
  <2>2. entry' = entry
    BY <1>7 DEF FullDies
  <2> QED BY <2>1, <2>2 DEF EntryStep, Underway
<1>8. CASE FetchChunk \/ (\E e \in full.chunk : Match(e)) \/ PassTwo \/ FeinClash \/ EmbedNew
  <2>1. full.pc # "backfill" /\ entry' = entry /\ interrupted' = interrupted
    BY <1>8 DEF FetchChunk, Match, PassTwo, FeinClash, EmbedNew, FullOnly
  <2> QED BY <2>1 DEF EntryStep, Underway
<1>9. ASSUME NEW w \in Workers,
             \/ \E r \in Rows : Take(w, r)
             \/ FeinSelect(w) \/ FeinInsert(w) \/ Trgm(w) \/ Vector(w) \/ LayerFails(w)
             \/ WriteResults(w) \/ ResultsLost(w) \/ UnresolvedLost(w)
             \/ EmbedPending(w) \/ EmbedFails(w) \/ Crash(w)
      PROVE  UNCHANGED <<entry, full, interrupted>>
  BY <1>9 DEF Take, FeinSelect, FeinInsert, Trgm, Vector, LayerFails, InJob, WriteResults,
       ResultsLost, UnresolvedLost, EmbedPending, EmbedFails, Crash
<1>10. ASSUME EmbedEmployers \/ FetchPage \/ (\E r \in page : ResolvePage(r)) \/ UNCHANGED vars
       PROVE  UNCHANGED <<entry, full, interrupted>>
  BY <1>10 DEF EmbedEmployers, FetchPage, ResolvePage, vars
<1> QED BY <1>1, <1>2, <1>3, <1>4, <1>5, <1>6, <1>7, <1>8, <1>9, <1>10 DEF Next

ReachInv == TypeOK /\ HeldIsKeyed /\ ResolvedReachesRows

LEMMA ReachSteps == ReachInv /\ [Next]_vars => ReachInv'
<1> SUFFICES ASSUME ReachInv, [Next]_vars PROVE HeldIsKeyed' /\ ResolvedReachesRows'
  BY StepTypes DEF ReachInv
<1>0. TypeOK /\ HeldIsKeyed /\ ResolvedReachesRows /\ TableStep /\ EntryStep
  BY TableSteps, EntrySteps DEF ReachInv
<1>1. HeldIsKeyed'
  BY <1>0 DEF HeldIsKeyed, TableStep
<1>2. ASSUME NEW n \in Names, entry'[n].state = "resolved"
      PROVE  RowsOf[n] \subseteq keyed' \/ Underway(n)'
  <2>1. keyed \subseteq keyed' /\ RowsOf[n] \subseteq Rows
    BY <1>0, EmployersAssumption DEF TableStep
  <2>2. CASE entry[n].state = "resolved"
    <3>1. RowsOf[n] \subseteq keyed \/ Underway(n)
      BY <1>0, <2>2 DEF ResolvedReachesRows, Underway
    <3> QED BY <1>0, <2>1, <3>1 DEF EntryStep
  <2>3. CASE Orphans(n) \subseteq keyed'
    <3>1. \A r \in RowsOf[n] : r \in Orphans(n) \/ r \in keyed
      BY <1>0, <2>1 DEF Orphans, HeldIsKeyed
    <3> QED BY <2>1, <2>3, <3>1
  <2> QED BY <1>0, <1>2, <2>2, <2>3 DEF EntryStep
<1>3. ResolvedReachesRows'
  BY <1>2 DEF ResolvedReachesRows, Underway
<1> QED BY <1>1, <1>3

\* An entry that says resolved has reached every row its name matches, unless
\* backfill-canonical-full is about to write them or died before it did: the
\* operator's merge and the script write rows and entry so that no order of
\* the two, of the workers and of backfill-canonical-ids leaves a row out.
THEOREM ResolvedEntriesReach == Spec => []ResolvedReachesRows
<1>1. Init => ReachInv
  BY InitTypes DEF Init, ReachInv, HeldIsKeyed, ResolvedReachesRows
<1>2. ReachInv => ResolvedReachesRows
  BY DEF ReachInv
<1> QED BY <1>1, <1>2, ReachSteps, PTL DEF Spec

-----------------------------------------------------------------------------
(* No row without an employer is out of sight.                             *)

\* The row's job is under way or will come again, or a write of it was lost.
InWork(r) ==
  \/ pending[r] > 0 \/ r \in swallowed
  \/ \E w \in Workers : job[w].row = r /\ job[w].pc \notin {"idle", "embed"}

\* A job is given up only when the name is listed or an id is written.
WorkStep ==
  \A r \in Rows :
    InWork(r) => \/ InWork(r)' \/ entry'[NameOf[r]].state # "none"
                 \/ \E w \in Workers : WriteResults(w) /\ job[w].row = r /\ job[w].emp # 0

LEMMA WorkSteps == TypeOK /\ [Next]_vars => WorkStep
<1> SUFFICES ASSUME TypeOK, [Next]_vars PROVE WorkStep
  OBVIOUS
<1>0. /\ job \in [Workers -> JobType(Ids)] /\ pending \in [Rows -> Nat] /\ swallowed \subseteq Rows
      /\ \A w \in Workers : job[w].row \in Rows
      /\ \A w \in Workers : AfterWrite(w) \in Pcs /\ "embed" \in Pcs
  BY TypeParts DEF JobType, AfterWrite, Pcs
<1>1. ASSUME pending' = pending, swallowed \subseteq swallowed', NEW w \in Workers,
             \A v \in Workers : v # w => job'[v] = job[v],
             \/ job[w].pc \in {"idle", "embed"}
             \/ job'[w].row = job[w].row /\ job'[w].pc \notin {"idle", "embed"}
             \/ job[w].row \in swallowed'
             \/ entry'[NameOf[job[w].row]].state # "none"
             \/ WriteResults(w) /\ job[w].emp # 0
      PROVE  WorkStep
  <2> SUFFICES ASSUME NEW r \in Rows, InWork(r)
               PROVE  \/ InWork(r)' \/ entry'[NameOf[r]].state # "none"
                      \/ \E v \in Workers : WriteResults(v) /\ job[v].row = r /\ job[v].emp # 0
    BY DEF WorkStep
  <2>1. CASE pending[r] > 0 \/ r \in swallowed
    BY <1>1, <2>1 DEF InWork
  <2>2. ASSUME NEW v \in Workers, job[v].row = r, job[v].pc \notin {"idle", "embed"}
        PROVE  \/ InWork(r)' \/ entry'[NameOf[r]].state # "none"
               \/ \E x \in Workers : WriteResults(x) /\ job[x].row = r /\ job[x].emp # 0
    <3>1. CASE v # w
      BY <1>1, <2>2, <3>1 DEF InWork
    <3>2. CASE v = w
      BY <1>1, <2>2, <3>2 DEF InWork
    <3> QED BY <3>1, <3>2
  <2> QED BY <2>1, <2>2 DEF InWork
<1>2. ASSUME UNCHANGED <<pending, swallowed, job>> PROVE WorkStep
  BY <1>2 DEF WorkStep, InWork
<1>3. ASSUME NEW w \in Workers,
             FeinSelect(w) \/ FeinInsert(w) \/ Trgm(w) \/ Vector(w) \/ LayerFails(w)
      PROVE  WorkStep
  <2>1. Answers(w) /\ InJob /\ job[w].pc \in {"fein", "insert", "trgm", "vector"}
    BY <1>3, ResolutionAnswers
  <2>2. pending' = pending /\ swallowed' = swallowed
    BY <2>1 DEF InJob
  <2>3. /\ \A v \in Workers : v # w => job'[v] = job[v]
        /\ job'[w].row = job[w].row /\ job'[w].pc \notin {"idle", "embed"}
    <3>1. /\ \A v \in Workers : v # w => job'[v] = job[v]
          /\ job'[w].row = job[w].row /\ job'[w].pc \in {"trgm", "insert", "vector", "write"}
      BY <1>0, <1>3 DEF FeinSelect, FeinInsert, Trgm, Vector, LayerFails, Goto, Found, JobType
    <3> QED BY <3>1
  <2> QED BY <1>1, <2>2, <2>3
<1>4. ASSUME NEW w \in Workers, NEW r \in Rows, Take(w, r) PROVE WorkStep
  <2>1. /\ \A v \in Workers : v # w => job'[v] = job[v]
        /\ job'[w].row = r /\ job'[w].pc = "fein" /\ job[w].pc = "idle"
        /\ swallowed' = swallowed /\ \A q \in Rows : q # r => pending'[q] = pending[q]
    BY <1>0, <1>4 DEF Take, At
  <2>2. InWork(r)'
    BY <2>1 DEF InWork
  <2>3. ASSUME NEW q \in Rows, q # r, InWork(q) PROVE InWork(q)'
    BY <2>1, <2>3 DEF InWork
  <2> QED BY <2>2, <2>3 DEF WorkStep
<1>5. ASSUME NEW w \in Workers, WriteResults(w) \/ ResultsLost(w) PROVE WorkStep
  <2>1. /\ \A v \in Workers : v # w => job'[v] = job[v]
        /\ job'[w].row = job[w].row /\ job'[w].pc = AfterWrite(w)
        /\ pending' = pending /\ swallowed \subseteq swallowed'
    BY <1>0, <1>5, GotoTypes DEF WriteResults, ResultsLost
  <2>2. CASE job[w].emp = 0
    BY <1>1, <2>1, <2>2 DEF AfterWrite
  <2>3. CASE job[w].emp # 0
    BY <1>1, <1>5, <2>1, <2>3 DEF ResultsLost
  <2> QED BY <2>2, <2>3
<1>6. ASSUME NEW w \in Workers, WriteUnresolved(w) \/ UnresolvedLost(w) PROVE WorkStep
  <2>1. /\ \A v \in Workers : v # w => job'[v] = job[v]
        /\ pending' = pending /\ swallowed \subseteq swallowed'
    BY <1>0, <1>6, GotoTypes DEF WriteUnresolved, UnresolvedLost
  <2>2. entry'[NameOf[job[w].row]].state # "none" \/ job[w].row \in swallowed'
    <3>1. CASE WriteUnresolved(w)
      <4>1. entry \in [Names -> EntryType(Ids)] /\ NameOf[job[w].row] \in Names
        BY <1>0, TypeParts, EmployersAssumption
      <4> QED BY <3>1, <4>1 DEF WriteUnresolved, EntryType
    <3>2. CASE UnresolvedLost(w)
      BY <3>2 DEF UnresolvedLost
    <3> QED BY <1>6, <3>1, <3>2
  <2> QED BY <1>1, <2>1, <2>2
<1>7. ASSUME NEW w \in Workers, EmbedPending(w) \/ EmbedFails(w) PROVE WorkStep
  <2>1. /\ \A v \in Workers : v # w => job'[v] = job[v]
        /\ pending' = pending /\ swallowed' = swallowed /\ job[w].pc = "embed"
    BY <1>7, IdleTypes DEF EmbedPending, EmbedFails, At
  <2> QED BY <1>1, <2>1
<1>8. ASSUME NEW w \in Workers, Crash(w) PROVE WorkStep
  <2>1. /\ \A v \in Workers : v # w => job'[v] = job[v]
        /\ swallowed' = swallowed
        /\ pending' = [pending EXCEPT ![job[w].row] = @ + 1]
    BY <1>8, IdleTypes DEF Crash
  <2>2. /\ pending'[job[w].row] > 0
        /\ \A q \in Rows : q # job[w].row => pending'[q] = pending[q]
    BY <1>0, <2>1
  <2>3. ASSUME NEW r \in Rows, InWork(r) PROVE InWork(r)'
    <3>1. CASE r = job[w].row
      BY <2>2, <3>1 DEF InWork
    <3>2. CASE r # job[w].row
      BY <2>1, <2>2, <2>3, <3>2 DEF InWork
    <3> QED BY <3>1, <3>2
  <2> QED BY <2>3 DEF WorkStep
<1>9. ASSUME \/ EmbedEmployers \/ (\E n \in Names : (\E c \in Ids : Merge(n, c)) \/ Create(n) \/ Reject(n))
             \/ FetchChunk \/ (\E e \in full.chunk : Match(e)) \/ PassTwo \/ FeinClash
             \/ EmbedNew \/ MarkResolved \/ BackfillRows \/ FullDies
             \/ FetchPage \/ (\E r \in page : ResolvePage(r)) \/ UNCHANGED vars
      PROVE  UNCHANGED <<pending, swallowed, job>>
  BY <1>9 DEF EmbedEmployers, Merge, Create, MergeInto, Reject, FetchChunk, Match, PassTwo,
       FeinClash, EmbedNew, MarkResolved, BackfillRows, FullDies, FullOnly, FetchPage,
       ResolvePage, vars, work
<1> QED BY <1>2, <1>3, <1>4, <1>5, <1>6, <1>7, <1>8, <1>9 DEF Next

SeenInv == TypeOK /\ NullIsConfident /\ OrphanIsListed

LEMMA SeenSteps == SeenInv /\ [Next]_vars => SeenInv'
<1> SUFFICES ASSUME SeenInv, [Next]_vars PROVE NullIsConfident' /\ OrphanIsListed'
  BY StepTypes DEF SeenInv
<1>0. /\ TypeOK /\ NullIsConfident /\ OrphanIsListed /\ TableStep /\ EntryStep /\ WorkStep
      /\ keyed' \subseteq Rows /\ NameOf \in [Rows -> Names]
  <2>1. TypeOK /\ TypeOK'
    BY StepTypes DEF SeenInv
  <2> QED BY <2>1, TableSteps, EntrySteps, WorkSteps, EmployersAssumption DEF SeenInv, TypeOK
<1>1. NullIsConfident'
  BY <1>0 DEF NullIsConfident, TableStep, NullWritten
<1>2. ASSUME NEW r \in keyed', emp'[r] = 0
      PROVE  entry'[NameOf[r]].state # "none" \/ InWork(r)'
  <2>0. r \in Rows /\ NameOf[r] \in Names
    BY <1>0, <1>2
  <2>1. ASSUME NEW w \in Workers, WriteResults(w), job[w].row = r, job[w].emp = 0
        PROVE  InWork(r)'
    <3>1. job'[w].row = r /\ job'[w].pc = "list"
      BY <1>0, <2>1, GotoTypes DEF WriteResults, AfterWrite, Pcs
    <3> QED BY <3>1 DEF InWork
  <2>2. CASE r \in keyed /\ emp[r] = 0
    <3>1. r \in Confident /\ (entry[NameOf[r]].state # "none" \/ InWork(r))
      BY <1>0, <2>2 DEF NullIsConfident, OrphanIsListed, InWork
    <3>2. ~\E w \in Workers : WriteResults(w) /\ job[w].row = r /\ job[w].emp # 0
      <4> SUFFICES ASSUME NEW w \in Workers, WriteResults(w), job[w].row = r, job[w].emp # 0
                   PROVE  FALSE
        OBVIOUS
      <4>1. emp' = [emp EXCEPT ![r] = job[w].emp] /\ emp \in [Rows -> Ids \union {0}]
        BY <1>0, <3>1, TypeParts DEF WriteResults
      <4> QED BY <1>2, <2>0, <4>1
    <3> QED BY <1>0, <2>0, <3>1, <3>2 DEF EntryStep, WorkStep
  <2> QED BY <1>0, <1>2, <2>1, <2>2 DEF TableStep, NullWritten
<1>3. OrphanIsListed'
  BY <1>2 DEF OrphanIsListed, InWork
<1> QED BY <1>1, <1>3

\* A row the worker has written without an employer is in the queue of
\* unresolved employers, or a job of it is under way or will be delivered
\* again, or one of its writes failed and was only logged: no crash, retry or
\* second worker makes it disappear in silence.
THEOREM OrphansAreSeen == Spec => []OrphanIsListed
<1>1. Init => SeenInv
  BY InitTypes DEF Init, SeenInv, NullIsConfident, OrphanIsListed
<1>2. SeenInv => OrphanIsListed
  BY DEF SeenInv
<1> QED BY <1>1, <1>2, SeenSteps, PTL DEF Spec
=============================================================================
