------------------------------ MODULE NlpProofs ------------------------------
(***************************************************************************)
(* Proofs about NlpQueue, for every number of slots, rows, jobs, attempts, *)
(* faults and reclaims, and about BurstNlp, which drives it: the NLP stage *)
(* of a burst implements CoverageGate, its sweep leaves no row out and its *)
(* drained queue is a queue that is done, whatever the workers, the queue  *)
(* and the faults do.                                                      *)
(***************************************************************************)
EXTENDS BurstNlp, FiniteSetTheorems, TLAPS

-----------------------------------------------------------------------------
(* The helpers.                                                            *)

\* Pushing an id onto a list adds one occurrence of it and of nothing else.
LEMMA AddFacts ==
  ASSUME NEW bag \in [Jobs -> Nat], NEW j \in Jobs
  PROVE  /\ Add(bag, j) \in [Jobs -> Nat]
         /\ Add(bag, j)[j] = bag[j] + 1
         /\ \A i \in Jobs : i # j => Add(bag, j)[i] = bag[i]
BY DEF Add

\* LREM of one occurrence takes one away if there is one, and of nothing else.
LEMMA LremFacts ==
  ASSUME NEW bag \in [Jobs -> Nat], NEW j \in Jobs
  PROVE  /\ Lrem(bag, j) \in [Jobs -> Nat]
         /\ bag[j] > 0 => Lrem(bag, j)[j] = bag[j] - 1
         /\ \A i \in Jobs : i # j => Lrem(bag, j)[i] = bag[i]
BY DEF Lrem

\* An id that was handed out is in the bound.
LEMMA CreatedInBound ==
  ASSUME TypeOK
  PROVE  /\ \A j \in Created : j \in Jobs
         /\ lastId \in Nat /\ lastId <= MaxJobs /\ MaxJobs \in Nat
BY QueueAssumption DEF TypeOK, Created, Jobs

\* A slot that is not idle holds a job that was handed out.
LEMMA HeldIsCreated ==
  ASSUME TypeOK, NEW w \in Slots, pc[w] # "idle"
  PROVE  job[w] \in Created /\ job[w] \in Jobs
BY QueueAssumption DEF TypeOK, Created, Jobs, NoJob

-----------------------------------------------------------------------------
(* Type correctness.                                                       *)

\* The initial state is typed.
LEMMA InitType == Init => TypeOK
BY QueueAssumption DEF Init, TypeOK, Jobs, Created, NoJob, Places

\* Each step of a slot keeps the types, and keeps pc and job in agreement.
LEMMA SlotType ==
  ASSUME TypeOK, NEW w \in Slots, SlotProgress(w) \/ SlotFault(w)
  PROVE  TypeOK'
<1> USE QueueAssumption
<1>j. \A j \in Created : j \in Jobs
  BY DEF TypeOK, Created, Jobs
<1>1. CASE Pull(w)
  <2>1. PICK j \in Created : /\ wait[j] > 0
                             /\ wait' = Lrem(wait, j)
                             /\ active' = Add(active, j)
                             /\ pc' = [pc EXCEPT ![w] = "handling"]
                             /\ job' = [job EXCEPT ![w] = j]
    BY <1>1 DEF Pull
  <2>2. wait' \in [Jobs -> Nat] /\ active' \in [Jobs -> Nat]
    BY <2>1, <1>j, AddFacts, LremFacts DEF TypeOK
  <2>3. pc' \in [Slots -> Places] /\ job' \in [Slots -> Created \union {NoJob}]
    BY <2>1 DEF TypeOK, Places
  <2>4. \A v \in Slots : pc'[v] = "idle" <=> job'[v] = NoJob
    BY <2>1 DEF TypeOK, Created, NoJob
  <2> QED BY <1>1, <2>2, <2>3, <2>4 DEF TypeOK, Pull, table, history, Created
<1>2. CASE PullReplyLost(w)
  <2>1. PICK j \in Created : wait' = Lrem(wait, j) /\ active' = Add(active, j)
    BY <1>2 DEF PullReplyLost
  <2>2. wait' \in [Jobs -> Nat] /\ active' \in [Jobs -> Nat]
    BY <2>1, <1>j, AddFacts, LremFacts DEF TypeOK
  <2> QED BY <1>2, <2>2 DEF TypeOK, PullReplyLost, Fault, table, history, Created
<1>3. CASE pc[w] # "idle"
  <2>1. job[w] \in Created /\ job[w] \in Jobs
    BY <1>3, HeldIsCreated
  <2>2. ASSUME NEW to \in Places \ {"idle"}, Goto(w, to)
        PROVE  /\ pc' \in [Slots -> Places]
               /\ job' = job
               /\ \A v \in Slots : pc'[v] = "idle" <=> job'[v] = NoJob
    BY <1>3, <2>2 DEF TypeOK, Goto
  <2>3. ASSUME Release(w)
        PROVE  /\ pc' \in [Slots -> Places]
               /\ job' \in [Slots -> Created \union {NoJob}]
               /\ \A v \in Slots : pc'[v] = "idle" <=> job'[v] = NoJob
    BY <2>3 DEF TypeOK, Release, Places
  <2>4. /\ Lrem(active, job[w]) \in [Jobs -> Nat]
        /\ Add(wait, job[w]) \in [Jobs -> Nat]
        /\ Add(dead, job[w]) \in [Jobs -> Nat]
        /\ Add(attempts, job[w]) \in [Jobs -> Nat]
    BY <2>1, AddFacts, LremFacts DEF TypeOK
  <2>5. CASE RejectPayload(w)
    <3>1. "rejected" \in Places \ {"idle"}
      BY DEF Places
    <3>2. Goto(w, "rejected")
      BY <2>5 DEF RejectPayload
    <3> QED BY <2>5, <2>2, <3>1, <3>2 DEF TypeOK, RejectPayload, lists, table, history, Created
  <2>6. CASE WriteResults(w)
    <3>1. "written" \in Places \ {"idle"}
      BY DEF Places
    <3>2. Goto(w, "written")
      BY <2>6 DEF WriteResults
    <3>3. soc' \subseteq Rows /\ quar' \in [Rows -> Nat]
      BY <2>6, <2>1 DEF TypeOK, WriteResults
    <3> QED BY <2>6, <2>2, <3>1, <3>2, <3>3 DEF TypeOK, WriteResults, lists, history, Created
  <2>7. CASE WriteSwallowed(w) \/ MissingJobData(w)
    <3>1. "written" \in Places \ {"idle"}
      BY DEF Places
    <3>2. /\ Goto(w, "written")
          /\ UNCHANGED <<lastId, rowsOf, lists, table, acked, dropped, again, reclaimed>>
      BY <2>7 DEF WriteSwallowed, MissingJobData
    <3>3. swallowed' \subseteq Created
      BY <2>7, <2>1 DEF TypeOK, WriteSwallowed, MissingJobData
    <3>4. faults' \in 0..MaxFaults
      BY <2>7 DEF TypeOK, WriteSwallowed, MissingJobData, Fault
    <3> QED
      BY <2>2, <3>1, <3>2, <3>3, <3>4 DEF TypeOK, lists, table, Created
  <2>8. CASE HandlerRaises(w)
    <3>1. "failed" \in Places \ {"idle"}
      BY DEF Places
    <3>2. Goto(w, "failed")
      BY <2>8 DEF HandlerRaises
    <3> QED BY <2>8, <2>2, <3>1, <3>2 DEF TypeOK, HandlerRaises, Fault, lists, table, history, Created
  <2>9. CASE Ack(w)
    BY <2>9, <2>1, <2>3, <2>4 DEF TypeOK, Ack, table, Created
  <2>10. CASE LremError(w)
    BY <2>10, <2>3 DEF TypeOK, LremError, Fault, lists, table, history, Created
  <2>11. CASE LremReplyLost(w)
    <3>1. acked' \subseteq Created /\ dropped' \subseteq Created
      BY <2>11, <2>1 DEF TypeOK, LremReplyLost
    <3>2. faults' \in 0..MaxFaults
      BY <2>11 DEF TypeOK, LremReplyLost, Fault
    <3>3. /\ Release(w)
          /\ active' = Lrem(active, job[w])
          /\ UNCHANGED <<lastId, rowsOf, wait, dead, attempts, soc, quar, swallowed, again, reclaimed>>
      BY <2>11 DEF LremReplyLost, table
    <3> QED BY <2>3, <2>4, <3>1, <3>2, <3>3 DEF TypeOK, Created
  <2>17. CASE LremAgain(w)
    <3>1. acked' \subseteq Created
      BY <2>17, <2>1 DEF TypeOK, LremAgain
    <3>2. faults' \in 0..MaxFaults
      BY <2>17 DEF TypeOK, LremAgain, Fault
    <3>3. /\ pc' \in [Slots -> Places] /\ job' = job
          /\ \A v \in Slots : pc'[v] = "idle" <=> job'[v] = NoJob
      <4>1. "retake" \in Places \ {"idle"}
        BY DEF Places, Limbo
      <4>2. CASE Goto(w, "retake")
        BY <2>2, <4>1, <4>2
      <4>3. CASE UNCHANGED <<pc, job>>
        BY <4>3 DEF TypeOK
      <4> QED BY <2>17, <4>2, <4>3 DEF LremAgain
    <3>4. /\ active' = Lrem(active, job[w])
          /\ UNCHANGED <<lastId, rowsOf, wait, dead, attempts, soc, quar, dropped, swallowed, again, reclaimed>>
      BY <2>17 DEF LremAgain, table
    <3> QED BY <2>4, <3>1, <3>2, <3>3, <3>4 DEF TypeOK, Created
  <2>12. CASE TakeOff(w)
    <3>1. "requeue" \in Places \ {"idle"}
      BY DEF Places, Limbo
    <3>2. Goto(w, "requeue")
      BY <2>12 DEF TakeOff
    <3> QED BY <2>12, <2>2, <2>4, <3>1, <3>2 DEF TypeOK, TakeOff, table, history, Created
  <2>18. CASE CountAttempt(w)
    <3>1. \E to \in Places \ {"idle"} : Goto(w, to)
      BY <2>18 DEF CountAttempt, Places, Limbo
    <3> QED BY <2>18, <2>2, <2>4, <3>1 DEF TypeOK, CountAttempt, table, history, Created
  <2>19. ASSUME Push(w)
        PROVE  /\ wait' \in [Jobs -> Nat] /\ active' \in [Jobs -> Nat]
               /\ dead' \in [Jobs -> Nat] /\ attempts' \in [Jobs -> Nat]
    BY <2>19, <2>4 DEF TypeOK, Push
  <2>13. CASE Requeue(w)
    <3>1. Push(w) /\ Release(w)
      BY <2>13 DEF Requeue
    <3> QED BY <2>13, <2>3, <2>19, <3>1 DEF TypeOK, Requeue, table, history, Created
  <2>20. CASE RequeueAgain(w)
    <3>1. again' \in [Jobs -> Nat] /\ faults' \in 0..MaxFaults
      BY <2>20, <2>1 DEF TypeOK, RequeueAgain, Again, Fault
    <3>2. /\ wait' \in [Jobs -> Nat] /\ active' \in [Jobs -> Nat]
          /\ dead' \in [Jobs -> Nat] /\ attempts' \in [Jobs -> Nat]
      BY <2>20, <2>4, <2>19 DEF TypeOK, RequeueAgain
    <3>3. UNCHANGED <<lastId, rowsOf, pc, job, soc, quar, acked, dropped, swallowed, reclaimed>>
      BY <2>20 DEF RequeueAgain, table
    <3> QED BY <3>1, <3>2, <3>3 DEF TypeOK, Created
  <2>14. CASE RequeueLost(w)
    <3>1. dropped' \subseteq Created /\ faults' \in 0..MaxFaults
      BY <2>14, <2>1 DEF TypeOK, RequeueLost, Fault
    <3>2. attempts' \in [Jobs -> Nat]
      BY <2>14, <2>4 DEF TypeOK, RequeueLost
    <3>3. /\ Release(w)
          /\ UNCHANGED <<lastId, rowsOf, wait, active, dead, soc, quar, acked, swallowed, again, reclaimed>>
      BY <2>14 DEF RequeueLost, table
    <3> QED BY <2>3, <3>1, <3>2, <3>3 DEF TypeOK, Created
  <2>15. CASE Crash(w)
    BY <2>15, <2>3 DEF TypeOK, Crash, Fault, lists, table, history, Created
  <2>16. ~Pull(w) /\ ~PullReplyLost(w)
    BY <1>3 DEF Pull, PullReplyLost
  <2> QED
    BY <2>5, <2>6, <2>7, <2>8, <2>9, <2>10, <2>11, <2>12, <2>13, <2>14, <2>15, <2>16,
       <2>17, <2>18, <2>20
    DEF SlotProgress, SlotFault
<1>4. CASE pc[w] = "idle" /\ ~Pull(w) /\ ~PullReplyLost(w)
  BY <1>4 DEF SlotProgress, SlotFault, RejectPayload, WriteResults, MissingJobData, WriteSwallowed,
       HandlerRaises, Ack, LremError, LremReplyLost, LremAgain, TakeOff, CountAttempt, Push, Requeue,
       RequeueAgain, RequeueLost, Crash, Limbo
<1> QED BY <1>1, <1>2, <1>3, <1>4

\* Adding a job, and moving an id back from active to wait, keep the types.
LEMMA AddJobType ==
  ASSUME TypeOK, NEW batch \in SUBSET Rows, AddJob(batch)
  PROVE  TypeOK'
<1> USE QueueAssumption
<1>1. lastId + 1 \in Jobs /\ lastId' \in 0..MaxJobs /\ Created \subseteq Created'
  BY DEF TypeOK, AddJob, Jobs, Created
<1>2. wait' \in [Jobs -> Nat] /\ rowsOf' \in [Jobs -> SUBSET Rows]
  BY <1>1, AddFacts DEF TypeOK, AddJob
<1>3. acked' \subseteq Created' /\ dropped' \subseteq Created' /\ swallowed' \subseteq Created' /\ job' \in [Slots -> Created' \union {NoJob}]
  BY <1>1 DEF TypeOK, AddJob, history
<1> QED BY <1>1, <1>2, <1>3 DEF TypeOK, AddJob, table, history

LEMMA ReclaimType ==
  ASSUME TypeOK, NEW j \in Created, Reclaim(j)
  PROVE  TypeOK'
<1>1. j \in Jobs
  BY QueueAssumption DEF TypeOK, Created, Jobs
<1>2. wait' \in [Jobs -> Nat] /\ active' \in [Jobs -> Nat]
  BY <1>1, AddFacts, LremFacts DEF TypeOK, Reclaim
<1>3. reclaimed' \in [Jobs -> Nat]
  BY <1>1 DEF TypeOK, Reclaim
<1> QED BY <1>2, <1>3 DEF TypeOK, Reclaim, table, Created

\* A step of any user of the queue: Next, a reclaim beyond the bound of Next,
\* or a fault of the user that leaves the queue alone.
QueueStep ==
  \/ SlotStep
  \/ \E batch \in SUBSET Rows : AddJob(batch)
  \/ \E j \in Created : Reclaim(j)
  \/ Fault /\ UNCHANGED <<lastId, rowsOf, lists, pc, job, table, history>>
  \/ UNCHANGED vars

LEMMA NextIsQueueStep == [Next]_vars => QueueStep
BY DEF Next, QueueStep

\* Every step keeps the types.
LEMMA StepType ==
  ASSUME TypeOK, QueueStep
  PROVE  TypeOK'
<1>1. CASE SlotStep
  BY <1>1, SlotType DEF SlotStep
<1>2. CASE \E batch \in SUBSET Rows : AddJob(batch)
  BY <1>2, AddJobType
<1>3. CASE \E j \in Created : Reclaim(j)
  BY <1>3, ReclaimType
<1>4. CASE Fault /\ UNCHANGED <<lastId, rowsOf, lists, pc, job, table, history>>
  BY <1>4, QueueAssumption DEF Fault, lists, table, history, TypeOK, Created
<1>5. CASE UNCHANGED vars
  BY <1>5 DEF vars, lists, table, history, TypeOK, Created
<1> QED BY <1>1, <1>2, <1>3, <1>4, <1>5 DEF QueueStep

LEMMA NextType ==
  ASSUME TypeOK, [Next]_vars
  PROVE  TypeOK'
BY NextIsQueueStep, StepType

\* The queue's state is well typed in every reachable state.
THEOREM TypeCorrect == Spec => []TypeOK
<1>1. Init => TypeOK
  BY InitType
<1>2. TypeOK /\ [Next]_vars => TypeOK'
  BY NextType
<1> QED BY <1>1, <1>2, PTL DEF Spec

-----------------------------------------------------------------------------
(* What is classified or quarantined stays so.                             *)

\* WriteResults is the only step that touches the tables.
LEMMA OnlyWritesTouchTheTable ==
  ASSUME QueueStep
  PROVE  UNCHANGED table \/ \E w \in Slots : WriteResults(w)
<1>1. ASSUME NEW w \in Slots, SlotProgress(w) \/ SlotFault(w), ~WriteResults(w)
      PROVE  UNCHANGED table
  BY <1>1 DEF SlotProgress, SlotFault, Pull, PullReplyLost, RejectPayload, WriteSwallowed,
       MissingJobData, HandlerRaises, Ack, LremError, LremReplyLost, LremAgain, TakeOff, CountAttempt,
       Requeue, RequeueAgain, RequeueLost, Crash
<1>2. CASE SlotStep
  BY <1>1, <1>2 DEF SlotStep
<1>3. CASE \E batch \in SUBSET Rows : AddJob(batch)
  BY <1>3 DEF AddJob
<1>4. CASE \E j \in Created : Reclaim(j)
  BY <1>4 DEF Reclaim
<1>5. CASE UNCHANGED vars
  BY <1>5 DEF vars
<1> QED BY <1>2, <1>3, <1>4, <1>5 DEF QueueStep

\* It covers its batch and uncovers nothing.
LEMMA WriteCovers ==
  ASSUME TypeOK, NEW w \in Slots, WriteResults(w)
  PROVE  /\ Covered \subseteq Covered'
         /\ rowsOf[job[w]] \subseteq Covered'
         /\ rowsOf[job[w]] \intersect BadRows = {}
<1>1. job[w] \in Jobs
  BY HeldIsCreated DEF WriteResults
<1>2. rowsOf[job[w]] \subseteq Rows
  BY <1>1 DEF TypeOK
<1>3. soc' = soc \union (rowsOf[job[w]] \ LowRows)
  BY DEF WriteResults
<1>4. \A r \in Rows : quar'[r] = IF r \in rowsOf[job[w]] \intersect LowRows
                                 THEN quar[r] + 1 ELSE quar[r]
  BY DEF WriteResults
<1>5. \A r \in Rows : /\ quar[r] > 0 => quar'[r] > 0
                      /\ r \in rowsOf[job[w]] \intersect LowRows => quar'[r] > 0
  BY <1>4 DEF TypeOK
<1>6. rowsOf[job[w]] \intersect BadRows = {}
  BY DEF WriteResults
<1> QED BY <1>2, <1>3, <1>5, <1>6 DEF Covered

LEMMA StepCovers ==
  ASSUME TypeOK, QueueStep
  PROVE  Covered \subseteq Covered'
<1>1. CASE UNCHANGED table
  BY <1>1 DEF table, Covered
<1>2. CASE \E w \in Slots : WriteResults(w)
  BY <1>2, WriteCovers
<1> QED BY <1>1, <1>2, OnlyWritesTouchTheTable

-----------------------------------------------------------------------------
(* An acknowledged batch has been written, or its write was swallowed.     *)

\* What a slot that left "handling" without an exception did to its batch.
HandledWell ==
  \A w \in Slots :
    /\ pc[w] = "written" => \/ rowsOf[job[w]] \subseteq Covered
                            \/ job[w] \in swallowed
    /\ pc[w] = "rejected" => rowsOf[job[w]] \intersect BadRows # {}

WrittenInv == TypeOK /\ HandledWell /\ AckedIsWritten

\* The rows of a job that was handed out never change.
LEMMA RowsStay ==
  ASSUME TypeOK, QueueStep, NEW j \in Created
  PROVE  rowsOf'[j] = rowsOf[j]
<1>1. ASSUME NEW w \in Slots, SlotProgress(w) \/ SlotFault(w)
      PROVE  UNCHANGED rowsOf
  BY <1>1 DEF SlotProgress, SlotFault, Pull, PullReplyLost, RejectPayload, WriteResults,
       WriteSwallowed, MissingJobData, HandlerRaises, Ack, LremError, LremReplyLost,
       LremAgain, TakeOff, CountAttempt, RequeueAgain, Requeue,
       RequeueLost, Crash
<1>2. CASE SlotStep
  BY <1>1, <1>2 DEF SlotStep
<1>3. CASE \E batch \in SUBSET Rows : AddJob(batch)
  BY <1>3, QueueAssumption DEF AddJob, TypeOK, Created, Jobs
<1>4. CASE \E i \in Created : Reclaim(i)
  BY <1>4 DEF Reclaim
<1>5. CASE UNCHANGED <<lastId, rowsOf, lists, pc, job, table, history>>
  BY <1>5
<1> QED BY <1>2, <1>3, <1>4, <1>5 DEF QueueStep, vars

LEMMA WrittenStep ==
  ASSUME WrittenInv, QueueStep
  PROVE  WrittenInv'
<1>t. TypeOK /\ TypeOK'
  BY StepType DEF WrittenInv
<1>c. Covered \subseteq Covered'
  BY <1>t, StepCovers
<1>r. \A j \in Created : rowsOf'[j] = rowsOf[j]
  BY <1>t, RowsStay
<1>h. \A w \in Slots : pc[w] # "idle" => job[w] \in Created
  BY <1>t, HeldIsCreated
<1>a. acked \subseteq Created
  BY <1>t DEF TypeOK
<1>s. swallowed \subseteq swallowed'
  <2>1. ASSUME NEW w \in Slots, SlotProgress(w) \/ SlotFault(w)
        PROVE  swallowed \subseteq swallowed'
    BY <2>1 DEF SlotProgress, SlotFault, Pull, PullReplyLost, RejectPayload, WriteResults,
         WriteSwallowed, MissingJobData, HandlerRaises, Ack, LremError, LremReplyLost,
         LremAgain, TakeOff, CountAttempt, RequeueAgain, Requeue,
         RequeueLost, Crash, history
  <2> QED BY <2>1 DEF QueueStep, SlotStep, AddJob, Reclaim, vars, history
\* The two parts, for a step that acknowledges no job but one handled well.
<1>1. ASSUME NEW w \in Slots, SlotProgress(w) \/ SlotFault(w), NEW v \in Slots
      PROVE  \/ pc'[v] = pc[v] /\ job'[v] = job[v]
             \/ pc'[v] \notin {"written", "rejected"}
             \/ v = w /\ job'[w] = job[w] /\ pc[w] # "idle" /\ pc'[w] = "written" /\ WriteResults(w)
             \/ /\ v = w /\ job'[w] = job[w] /\ pc[w] # "idle" /\ pc'[w] = "written"
                /\ WriteSwallowed(w) \/ MissingJobData(w)
             \/ v = w /\ job'[w] = job[w] /\ pc[w] # "idle" /\ pc'[w] = "rejected" /\ RejectPayload(w)
  <2>1. CASE v # w
    BY <1>t, <1>1, <2>1 DEF SlotProgress, SlotFault, Pull, PullReplyLost, RejectPayload,
         WriteResults, WriteSwallowed, MissingJobData, HandlerRaises, Ack, LremError, LremReplyLost,
         LremAgain, TakeOff, CountAttempt, RequeueAgain,
         Requeue, RequeueLost, Crash, Goto, Release, TypeOK
  <2>2. CASE v = w
    BY <1>t, <1>1, <2>2 DEF SlotProgress, SlotFault, Pull, PullReplyLost, RejectPayload,
         WriteResults, WriteSwallowed, MissingJobData, HandlerRaises, Ack, LremError, LremReplyLost,
         LremAgain, TakeOff, CountAttempt, RequeueAgain,
         Requeue, RequeueLost, Crash, Goto, Release, TypeOK
  <2> QED BY <2>1, <2>2
<1>2. ASSUME NEW w \in Slots, SlotProgress(w) \/ SlotFault(w)
      PROVE  HandledWell'
  <2>1. ASSUME NEW v \in Slots, pc'[v] = pc[v], job'[v] = job[v]
        PROVE  /\ pc'[v] = "written" => \/ rowsOf'[job'[v]] \subseteq Covered'
                                        \/ job'[v] \in swallowed'
               /\ pc'[v] = "rejected" => rowsOf'[job'[v]] \intersect BadRows # {}
    BY <2>1, <1>c, <1>r, <1>h, <1>s DEF WrittenInv, HandledWell
  <2>2. ASSUME pc[w] # "idle", job'[w] = job[w], WriteResults(w)
        PROVE  rowsOf'[job'[w]] \subseteq Covered'
    BY <2>2, <1>t, <1>r, <1>h, WriteCovers
  <2>3. ASSUME pc[w] # "idle", job'[w] = job[w], RejectPayload(w)
        PROVE  rowsOf'[job'[w]] \intersect BadRows # {}
    BY <2>3, <1>r, <1>h DEF RejectPayload
  <2>4. ASSUME pc[w] # "idle", job'[w] = job[w], WriteSwallowed(w) \/ MissingJobData(w)
        PROVE  job'[w] \in swallowed'
    BY <2>4 DEF WriteSwallowed, MissingJobData
  <2> QED BY <1>1, <1>2, <2>1, <2>2, <2>3, <2>4 DEF HandledWell
<1>3. ASSUME NEW w \in Slots, SlotProgress(w) \/ SlotFault(w)
      PROVE  acked' = acked \/ (acked' = acked \union {job[w]} /\ pc[w] \in {"written", "rejected"})
  BY <1>3 DEF SlotProgress, SlotFault, Pull, PullReplyLost, RejectPayload, WriteResults,
       WriteSwallowed, MissingJobData, HandlerRaises, Ack, LremError, LremReplyLost,
       LremAgain, TakeOff, CountAttempt, RequeueAgain, Requeue,
       RequeueLost, Crash, history
<1>4. CASE SlotStep
  <2>1. PICK w \in Slots : SlotProgress(w) \/ SlotFault(w)
    BY <1>4 DEF SlotStep
  <2>2. \A j \in acked : Written(j)' \/ j \in swallowed'
    BY <1>a, <1>c, <1>r, <1>s DEF WrittenInv, AckedIsWritten, Written
  <2>3. pc[w] \in {"written", "rejected"} =>
          \/ rowsOf'[job[w]] \intersect BadRows = {} => rowsOf'[job[w]] \subseteq Covered'
          \/ job[w] \in swallowed'
    BY <1>c, <1>r, <1>h, <1>s DEF WrittenInv, HandledWell
  <2>4. AckedIsWritten'
    BY <2>1, <2>2, <2>3, <1>3 DEF AckedIsWritten, Written
  <2> QED BY <1>t, <1>2, <2>1, <2>4 DEF WrittenInv
<1>5. ASSUME UNCHANGED <<pc, job, acked>>
      PROVE  HandledWell' /\ AckedIsWritten'
  BY <1>5, <1>a, <1>c, <1>h, <1>r, <1>s DEF WrittenInv, HandledWell, AckedIsWritten, Written
<1>6. CASE \E batch \in SUBSET Rows : AddJob(batch)
  BY <1>t, <1>5, <1>6 DEF AddJob, history, WrittenInv
<1>7. CASE \E j \in Created : Reclaim(j)
  BY <1>t, <1>5, <1>7 DEF Reclaim, WrittenInv
<1>8. CASE UNCHANGED <<lastId, rowsOf, lists, pc, job, table, history>>
  BY <1>t, <1>5, <1>8 DEF history, WrittenInv
<1> QED BY <1>4, <1>6, <1>7, <1>8 DEF QueueStep, vars

\* A batch that left the queue as done has all its rows classified or
\* quarantined, or was refused as a whole, or a database error was swallowed
\* while it was written.
THEOREM AcknowledgedMeansWritten == Spec => []AckedIsWritten
<1>1. Init => WrittenInv
  BY InitType DEF Init, WrittenInv, HandledWell, AckedIsWritten
<1>2. WrittenInv /\ [Next]_vars => WrittenInv'
  BY WrittenStep, NextIsQueueStep
<1>3. WrittenInv => AckedIsWritten
  BY DEF WrittenInv
<1> QED BY <1>1, <1>2, <1>3, PTL DEF Spec

-----------------------------------------------------------------------------
(* No job vanishes.                                                        *)

\* Where the id of a job that is not finished can be.
Somewhere(j) == wait[j] > 0 \/ active[j] > 0 \/ dead[j] > 0 \/ Requeueing(j)

\* A step of slot w keeps every id it leaves unfinished somewhere.
LEMMA SlotKeepsJobs ==
  ASSUME TypeOK, NEW w \in Slots, SlotProgress(w) \/ SlotFault(w),
         NEW i \in Jobs, Pending(i)', Pending(i), Somewhere(i)
  PROVE  Somewhere(i)'
<1> USE DEF Somewhere, Requeueing
<1>j. \A j \in Created : j \in Jobs
  BY QueueAssumption DEF TypeOK, Created, Jobs
<1>t. /\ wait \in [Jobs -> Nat] /\ active \in [Jobs -> Nat] /\ dead \in [Jobs -> Nat]
      /\ pc \in [Slots -> Places] /\ job \in [Slots -> Created \union {NoJob}]
  BY DEF TypeOK
\* A step that touches no list, of a slot that is not about to push its id.
<1>1. ASSUME pc[w] \notin Limbo, UNCHANGED <<wait, active, dead>>,
             \A v \in Slots \ {w} : pc'[v] = pc[v] /\ job'[v] = job[v]
      PROVE  Somewhere(i)'
  BY <1>1
<1>l. "idle" \notin Limbo
  BY DEF Limbo
\* A step that moves one id from wait to active.
<1>2. ASSUME NEW j \in Created, wait[j] > 0, pc[w] = "idle",
             wait' = Lrem(wait, j), active' = Add(active, j), dead' = dead,
             \A v \in Slots \ {w} : pc'[v] = pc[v] /\ job'[v] = job[v]
      PROVE  Somewhere(i)'
  <2>1. j \in Jobs
    BY <1>j
  <2>2. CASE i = j
    <3>1. active'[j] = active[j] + 1
      BY <1>2, <1>t, <2>1, AddFacts
    <3>2. active'[i] > 0
      BY <1>t, <2>1, <2>2, <3>1
    <3> QED BY <3>2
  <2>3. CASE i # j
    <3>1. wait'[i] = wait[i] /\ active'[i] = active[i]
      BY <1>2, <1>t, <2>1, <2>3, AddFacts, LremFacts
    <3> QED BY <1>2, <1>l, <3>1
  <2> QED BY <2>2, <2>3
\* Taking another job's id off active.
<1>3. ASSUME pc[w] # "idle", i # job[w], active' = Lrem(active, job[w]),
             UNCHANGED <<wait, dead>>,
             \A v \in Slots \ {w} : pc'[v] = pc[v] /\ job'[v] = job[v]
      PROVE  Somewhere(i)'
  <2>1. active'[i] = active[i]
    BY <1>3, <1>t, HeldIsCreated, LremFacts
  <2> QED BY <1>3, <2>1
<1>4. CASE Pull(w)
  <2>1. \A v \in Slots \ {w} : pc'[v] = pc[v] /\ job'[v] = job[v]
    BY <1>4, <1>t DEF Pull
  <2> QED BY <1>2, <1>4, <2>1 DEF Pull
<1>5. CASE PullReplyLost(w)
  BY <1>2, <1>5 DEF PullReplyLost
<1>6. CASE RejectPayload(w) \/ WriteResults(w) \/ MissingJobData(w) \/ WriteSwallowed(w)
           \/ HandlerRaises(w) \/ LremError(w) \/ Crash(w)
  <2>1. pc[w] \notin Limbo /\ UNCHANGED <<wait, active, dead>>
    BY <1>6 DEF RejectPayload, WriteResults, MissingJobData, WriteSwallowed, HandlerRaises,
         LremError, Crash, lists, Limbo
  <2>2. \A v \in Slots \ {w} : pc'[v] = pc[v] /\ job'[v] = job[v]
    BY <1>6, <1>t DEF RejectPayload, WriteResults, MissingJobData, WriteSwallowed, HandlerRaises,
         LremError, Crash, Goto, Release
  <2> QED BY <1>1, <2>1, <2>2
<1>7. CASE Ack(w)
  <2>1. i # job[w]
    BY <1>7 DEF Ack, Pending
  <2>2. \A v \in Slots \ {w} : pc'[v] = pc[v] /\ job'[v] = job[v]
    BY <1>7, <1>t DEF Ack, Release
  <2> QED BY <1>3, <1>7, <2>1, <2>2 DEF Ack
<1>8. CASE LremReplyLost(w)
  <2>1. i # job[w]
    BY <1>8 DEF LremReplyLost, Pending
  <2>2. \A v \in Slots \ {w} : pc'[v] = pc[v] /\ job'[v] = job[v]
    BY <1>8, <1>t DEF LremReplyLost, Release
  <2> QED BY <1>3, <1>8, <2>1, <2>2 DEF LremReplyLost
\* A slot on its way to push i ends up in Limbo.
<1>9. ASSUME NEW to \in Limbo, Goto(w, to), i = job[w]
      PROVE  Somewhere(i)'
  <2>1. pc'[w] = to /\ job'[w] = job[w]
    BY <1>9, <1>t DEF Goto
  <2> QED BY <1>9, <2>1
<1>10. CASE TakeOff(w)
  <2>1. "requeue" \in Limbo /\ Goto(w, "requeue") /\ pc[w] # "idle"
    BY <1>10 DEF TakeOff, Limbo
  <2>2. CASE i # job[w]
    <3>1. \A v \in Slots \ {w} : pc'[v] = pc[v] /\ job'[v] = job[v]
      BY <2>1, <1>t DEF Goto
    <3> QED BY <1>3, <1>10, <2>1, <2>2, <3>1 DEF TakeOff
  <2> QED BY <1>9, <2>1, <2>2
<1>11. CASE LremAgain(w)
  <2>1. pc[w] # "idle" /\ UNCHANGED <<wait, dead>> /\ active' = Lrem(active, job[w])
    BY <1>11 DEF LremAgain
  <2>2. \A v \in Slots \ {w} : pc'[v] = pc[v] /\ job'[v] = job[v]
    BY <1>11, <1>t DEF LremAgain, Goto
  <2>3. i = job[w] => "retake" \in Limbo /\ Goto(w, "retake")
    BY <1>11 DEF LremAgain, Pending, Limbo
  <2> QED BY <1>3, <1>9, <2>1, <2>2, <2>3
<1>12. CASE CountAttempt(w)
  <2>1. \E to \in Limbo : Goto(w, to)
    BY <1>12 DEF CountAttempt, Limbo
  <2>2. UNCHANGED <<wait, active, dead>> /\ \A v \in Slots \ {w} : pc'[v] = pc[v] /\ job'[v] = job[v]
    BY <1>12, <1>t DEF CountAttempt, Goto
  <2>3. CASE i # job[w]
    BY <2>2, <2>3
  <2> QED BY <1>9, <2>1, <2>3
\* Pushing the id on wait or dead.
<1>13. ASSUME Push(w), \A v \in Slots \ {w} : pc'[v] = pc[v] /\ job'[v] = job[v]
       PROVE  Somewhere(i)'
  <2>h. job[w] \in Jobs
    BY <1>13, HeldIsCreated DEF Push
  <2>1. CASE i = job[w]
    <3>1. \/ wait'[i] = wait[i] + 1
          \/ dead'[i] = dead[i] + 1
      BY <1>13, <1>t, <2>1, <2>h, AddFacts DEF Push
    <3> QED BY <1>t, <3>1
  <2>2. CASE i # job[w]
    <3>1. wait'[i] = wait[i] /\ dead'[i] = dead[i] /\ active'[i] = active[i]
      BY <1>13, <1>t, <2>2, <2>h, AddFacts DEF Push
    <3> QED BY <1>13, <2>2, <3>1
  <2> QED BY <2>1, <2>2
<1>14. CASE Requeue(w)
  <2>1. \A v \in Slots \ {w} : pc'[v] = pc[v] /\ job'[v] = job[v]
    BY <1>14, <1>t DEF Requeue, Release
  <2> QED BY <1>13, <1>14, <2>1 DEF Requeue
<1>15. CASE RequeueAgain(w)
  <2>1. UNCHANGED <<pc, job>>
    BY <1>15 DEF RequeueAgain
  <2>2. CASE Push(w)
    BY <1>13, <2>1, <2>2
  <2>3. CASE UNCHANGED <<wait, active, dead>>
    BY <2>1, <2>3
  <2> QED BY <1>15, <2>2, <2>3 DEF RequeueAgain
<1>16. CASE RequeueLost(w)
  <2>1. i # job[w]
    BY <1>16 DEF RequeueLost, Pending
  <2>2. UNCHANGED <<wait, active, dead>>
    BY <1>16 DEF RequeueLost
  <2>3. \A v \in Slots \ {w} : pc'[v] = pc[v] /\ job'[v] = job[v]
    BY <1>16, <1>t DEF RequeueLost, Release
  <2> QED BY <2>1, <2>2, <2>3
<1> QED
  BY <1>4, <1>5, <1>6, <1>7, <1>8, <1>10, <1>11, <1>12, <1>14, <1>15, <1>16
  DEF SlotProgress, SlotFault

LEMMA StepKeepsJobs ==
  ASSUME TypeOK, NoJobVanishes, QueueStep
  PROVE  NoJobVanishes'
<1> USE DEF Somewhere, Requeueing
<1> SUFFICES ASSUME NEW i \in Jobs, Pending(i)'
             PROVE  Somewhere(i)'
  BY DEF NoJobVanishes
<1>t. /\ wait \in [Jobs -> Nat] /\ active \in [Jobs -> Nat] /\ dead \in [Jobs -> Nat]
      /\ lastId \in 0..MaxJobs
  BY DEF TypeOK
<1>1. CASE SlotStep
  <2>1. PICK w \in Slots : SlotProgress(w) \/ SlotFault(w)
    BY <1>1 DEF SlotStep
  <2>2. lastId' = lastId /\ acked \subseteq acked' /\ dropped \subseteq dropped'
    BY <2>1 DEF SlotProgress, SlotFault, Pull, PullReplyLost, RejectPayload, WriteResults,
         WriteSwallowed, MissingJobData, HandlerRaises, Ack, LremError, LremReplyLost,
         LremAgain, TakeOff, CountAttempt, RequeueAgain, Requeue,
         RequeueLost, Crash, history
  <2>3. Pending(i)
    BY <2>2 DEF Pending, Created
  <2> QED BY <2>1, <2>3, SlotKeepsJobs DEF NoJobVanishes
<1>2. ASSUME NEW batch \in SUBSET Rows, AddJob(batch)
      PROVE  Somewhere(i)'
  <2>1. lastId + 1 \in Jobs
    BY <1>2, <1>t, QueueAssumption DEF AddJob, Jobs
  <2>2. CASE i = lastId + 1
    <3>1. wait'[i] = wait[i] + 1
      BY <1>2, <1>t, <2>1, <2>2, AddFacts DEF AddJob
    <3> QED BY <1>t, <3>1
  <2>3. CASE i # lastId + 1
    <3>1. Pending(i)
      BY <1>2, <1>t, <2>3, QueueAssumption DEF AddJob, Pending, Created, Jobs, history
    <3>2. wait'[i] = wait[i]
      BY <1>2, <1>t, <2>1, <2>3, AddFacts DEF AddJob
    <3> QED BY <1>2, <3>1, <3>2 DEF AddJob, NoJobVanishes
  <2> QED BY <2>2, <2>3
<1>3. ASSUME NEW j \in Created, Reclaim(j)
      PROVE  Somewhere(i)'
  <2>1. j \in Jobs
    BY <1>t, QueueAssumption DEF Created, Jobs
  <2>2. Pending(i)
    BY <1>3 DEF Reclaim, Pending, Created
  <2>3. CASE i = j
    <3>1. wait'[i] = wait[i] + 1
      BY <1>3, <1>t, <2>1, <2>3, AddFacts DEF Reclaim
    <3> QED BY <1>t, <3>1
  <2>4. CASE i # j
    <3>1. wait'[i] = wait[i] /\ active'[i] = active[i]
      BY <1>3, <1>t, <2>1, <2>4, AddFacts, LremFacts, SMTT(30) DEF Reclaim
    <3> QED BY <1>3, <2>2, <3>1 DEF Reclaim, NoJobVanishes
  <2> QED BY <2>3, <2>4
<1>4. CASE UNCHANGED <<lastId, rowsOf, lists, pc, job, table, history>>
  BY <1>4 DEF lists, history, NoJobVanishes, Pending, Created
<1> QED BY <1>1, <1>2, <1>3, <1>4 DEF QueueStep, vars

\* Until a job is acknowledged, or dropped in the window between lrem and
\* lpush, its id can be found on a list or with a slot about to push it.
THEOREM JobsDoNotVanish == Spec => []NoJobVanishes
<1>1. Init => NoJobVanishes
  BY DEF Init, NoJobVanishes, Pending, Created
<1>2. TypeOK /\ NoJobVanishes /\ [Next]_vars => NoJobVanishes'
  BY StepKeepsJobs, NextIsQueueStep
<1> QED BY <1>1, <1>2, TypeCorrect, PTL DEF Spec

-----------------------------------------------------------------------------
(* A poisoned batch does not loop.                                         *)

\* Nothing is known of an id that was not handed out.
Fresh ==
  \A j \in Jobs \ Created :
    /\ wait[j] = 0 /\ active[j] = 0 /\ dead[j] = 0
    /\ attempts[j] = 0 /\ again[j] = 0 /\ reclaimed[j] = 0

\* hincrby comes before lpush: what is pushed, or was executed twice, is counted.
Counted ==
  /\ \A w \in Slots : pc[w] \in {"retry", "bury"} => attempts[job[w]] > 0
  /\ \A j \in Jobs : again[j] > 0 => attempts[j] > 0

RetryInv == TypeOK /\ Fresh /\ Counted /\ BoundedRetries

\* The tries of a job are finitely many; an id not handed out has none.
LEMMA TriesFinite ==
  ASSUME TypeOK, NEW j \in Jobs
  PROVE  /\ IsFiniteSet(Tries(j))
         /\ Cardinality(Tries(j)) \in Nat
         /\ j \notin Created => Tries(j) = {}
<1>1. Tries(j) \subseteq Slots
  BY DEF Tries, Holders
<1>2. j \notin Created => Tries(j) = {}
  BY DEF Tries, Holders, TypeOK, Jobs, NoJob
<1> QED BY <1>1, <1>2, QueueAssumption, FS_Subset, FS_CardinalityType

LEMMA TriesFiniteNext ==
  ASSUME NEW j \in Jobs
  PROVE  Cardinality(Tries(j))' \in Nat
<1>1. Tries(j)' \subseteq Slots
  BY DEF Tries, Holders
<1> QED BY <1>1, QueueAssumption, FS_Subset, FS_CardinalityType

\* A slot that takes a job is one more try of it.
LEMMA TriesGain ==
  ASSUME TypeOK, NEW w \in Slots, pc[w] = "idle", NEW j \in Jobs,
         job' = [job EXCEPT ![w] = j], pc' = [pc EXCEPT ![w] = "handling"], NEW i \in Jobs
  PROVE  Cardinality(Tries(i))' = Cardinality(Tries(i)) + (IF i = j THEN 1 ELSE 0)
<1>1. job \in [Slots -> Created \union {NoJob}] /\ pc \in [Slots -> Places] /\ job[w] = NoJob
  BY DEF TypeOK
<1>2. CASE i = j
  <2>1. w \notin Tries(j)
    BY <1>1 DEF Tries, Holders, Jobs, NoJob
  <2>2. Tries(j)' = Tries(j) \union {w}
    BY <1>1 DEF Tries, Holders
  <2> QED BY <1>2, <2>1, <2>2, TriesFinite, FS_AddElement
<1>3. CASE i # j
  <2>1. Tries(i)' = Tries(i)
    BY <1>1, <1>3 DEF Tries, Holders, Jobs, NoJob
  <2> QED BY <1>3, <2>1, TriesFinite
<1> QED BY <1>2, <1>3

\* A slot that lets go of its job, or is about to bury it, is one try less.
LEMMA TriesLose ==
  ASSUME TypeOK, NEW w \in Slots, pc[w] \notin {"idle", "bury"}, Release(w) \/ Goto(w, "bury"),
         NEW i \in Jobs
  PROVE  Cardinality(Tries(i))' = Cardinality(Tries(i)) - (IF i = job[w] THEN 1 ELSE 0)
<1>1. /\ job \in [Slots -> Created \union {NoJob}] /\ pc \in [Slots -> Places]
      /\ i # NoJob
  BY DEF TypeOK, Jobs, NoJob
<1>2. Tries(i)' = Tries(i) \ {w}
  BY <1>1 DEF Tries, Holders, Release, Goto
<1>3. w \in Tries(i) <=> i = job[w]
  BY DEF Tries, Holders
<1>4. CASE i = job[w]
  BY <1>2, <1>3, <1>4, TriesFinite, FS_RemoveElement, ZenonT(60)
<1>5. CASE i # job[w]
  <2>1. Tries(i)' = Tries(i)
    BY <1>2, <1>3, <1>5
  <2> QED BY <1>5, <2>1, TriesFinite
<1> QED BY <1>4, <1>5

\* It stays one while it moves on otherwise, and was none when it has buried it.
LEMMA TriesStay ==
  ASSUME TypeOK, NEW w \in Slots, NEW i \in Jobs,
         \/ pc[w] # "bury" /\ (\E to \in Places \ {"bury"} : Goto(w, to))
         \/ pc[w] = "bury" /\ Release(w)
         \/ UNCHANGED <<pc, job>>
  PROVE  Cardinality(Tries(i))' = Cardinality(Tries(i))
<1>1. /\ job \in [Slots -> Created \union {NoJob}] /\ pc \in [Slots -> Places]
      /\ i # NoJob
  BY DEF TypeOK, Jobs, NoJob
<1>2. CASE pc[w] # "bury" /\ (\E to \in Places \ {"bury"} : Goto(w, to))
  <2>1. Tries(i)' = Tries(i)
    BY <1>1, <1>2 DEF Tries, Holders, Goto
  <2> QED BY <2>1
<1>3. CASE pc[w] = "bury" /\ Release(w)
  <2>1. Tries(i)' = Tries(i)
    BY <1>1, <1>3 DEF Tries, Holders, Release
  <2> QED BY <2>1
<1>4. CASE UNCHANGED <<pc, job>>
  BY <1>4 DEF Tries, Holders
<1> QED BY <1>2, <1>3, <1>4

\* Tries of a job that are queued or going on, and failures past the limit.
Budget(j) == wait[j] + Cardinality(Tries(j)) + Excess(j)

\* A command that Redis executes once more adds at most one to the budget.
Repeats(w, i) == RequeueAgain(w) /\ i = job[w]

\* No other step of a slot adds to a job's budget.
LEMMA SlotSpends ==
  ASSUME TypeOK, NEW w \in Slots, SlotProgress(w) \/ SlotFault(w), NEW i \in Jobs
  PROVE  Budget(i)' <= Budget(i) + (IF Repeats(w, i) THEN 1 ELSE 0)
<1> DEFINE T == Cardinality(Tries(i))
           more == IF Repeats(w, i) THEN 1 ELSE 0
<1>t. /\ wait \in [Jobs -> Nat] /\ attempts \in [Jobs -> Nat] /\ MaxAttempts \in Nat
      /\ \A j \in Created : j \in Jobs
  BY QueueAssumption, CreatedInBound DEF TypeOK
<1>h. T \in Nat /\ more \in {0, 1}
  BY TriesFinite
<1>e. Excess(i) \in Nat
  BY <1>t DEF Excess
<1>1. CASE Pull(w)
  <2>1. PICK j \in Jobs : /\ wait[j] > 0
                          /\ wait' = Lrem(wait, j)
                          /\ job' = [job EXCEPT ![w] = j]
                          /\ pc' = [pc EXCEPT ![w] = "handling"]
    BY <1>1, <1>t DEF Pull
  <2>2. T' = T + (IF i = j THEN 1 ELSE 0)
    BY <1>1, <2>1, TriesGain DEF Pull
  <2>3. wait'[i] = wait[i] - (IF i = j THEN 1 ELSE 0)
    BY <1>t, <2>1, LremFacts
  <2>4. Excess(i)' = Excess(i)
    BY <1>1 DEF Pull, Excess
  <2> HIDE DEF T, more
  <2>5. Budget(i)' = wait'[i] + T' + Excess(i)' /\ Budget(i) = wait[i] + T + Excess(i)
    BY DEF Budget, T
  <2> QED BY <1>t, <1>h, <1>e, <2>2, <2>3, <2>4, <2>5 DEF more
<1>2. CASE PullReplyLost(w)
  <2>1. PICK j \in Jobs : wait[j] > 0 /\ wait' = Lrem(wait, j)
    BY <1>2, <1>t DEF PullReplyLost
  <2>2. wait'[i] = wait[i] - (IF i = j THEN 1 ELSE 0)
    BY <1>t, <2>1, LremFacts
  <2>3. T' = T /\ Excess(i)' = Excess(i)
    BY <1>2 DEF PullReplyLost, Excess, Tries, Holders
  <2> QED BY <1>t, <1>h, <1>e, <2>2, <2>3 DEF Budget
<1>3. CASE RejectPayload(w) \/ WriteResults(w) \/ MissingJobData(w) \/ WriteSwallowed(w)
           \/ HandlerRaises(w) \/ TakeOff(w)
  <2>1. UNCHANGED <<wait, attempts>>
    BY <1>3 DEF RejectPayload, WriteResults, MissingJobData, WriteSwallowed, HandlerRaises, TakeOff, lists
  <2>2. pc[w] # "bury" /\ \E to \in Places \ {"bury"} : Goto(w, to)
    BY <1>3 DEF RejectPayload, WriteResults, MissingJobData, WriteSwallowed, HandlerRaises, TakeOff,
         Places, Limbo
  <2>3. T' = T
    BY <2>2, TriesStay
  <2> QED BY <1>t, <1>h, <1>e, <2>1, <2>3 DEF Budget, Excess
<1>4. CASE LremAgain(w)
  <2>1. UNCHANGED <<wait, attempts>>
    BY <1>4 DEF LremAgain
  <2>2. \/ pc[w] # "bury" /\ \E to \in Places \ {"bury"} : Goto(w, to)
        \/ UNCHANGED <<pc, job>>
    BY <1>4 DEF LremAgain, Places, Limbo
  <2>3. T' = T
    BY <2>2, TriesStay
  <2> QED BY <1>t, <1>h, <1>e, <2>1, <2>3 DEF Budget, Excess
<1>5. CASE Ack(w) \/ LremError(w) \/ LremReplyLost(w) \/ Crash(w)
  <2>1. pc[w] \notin {"idle", "bury"} /\ Release(w) /\ UNCHANGED <<wait, attempts>>
    BY <1>5 DEF Ack, LremError, LremReplyLost, Crash, lists
  <2>2. T' = T - (IF i = job[w] THEN 1 ELSE 0)
    BY <2>1, TriesLose
  <2> QED BY <1>t, <1>h, <1>e, <2>1, <2>2 DEF Budget, Excess
<1>6. CASE CountAttempt(w)
  <2>1. /\ job[w] \in Jobs /\ wait' = wait
        /\ pc[w] \notin {"idle", "bury"} /\ "retry" \in Places \ {"bury"}
        /\ Goto(w, IF attempts[job[w]] + 1 <= MaxAttempts THEN "retry" ELSE "bury")
    BY <1>6, HeldIsCreated DEF CountAttempt, Places, Limbo
  <2>2. attempts'[i] = attempts[i] + (IF i = job[w] THEN 1 ELSE 0)
    BY <1>6, <1>t, <2>1, AddFacts DEF CountAttempt
  <2>3. CASE attempts[job[w]] + 1 <= MaxAttempts
    <3>1. T' = T
      BY <2>1, <2>3, TriesStay
    <3>2. Excess(i)' = Excess(i)
      BY <1>t, <2>1, <2>2, <2>3 DEF Excess
    <3> QED BY <1>t, <1>h, <1>e, <2>1, <3>1, <3>2 DEF Budget
  <2>4. CASE ~(attempts[job[w]] + 1 <= MaxAttempts)
    <3>1. T' = T - (IF i = job[w] THEN 1 ELSE 0)
      BY <2>1, <2>4, TriesLose
    <3>2. Excess(i)' <= Excess(i) + (IF i = job[w] THEN 1 ELSE 0) /\ Excess(i)' \in Nat
      BY <1>t, <2>2 DEF Excess
    <3> QED BY <1>t, <1>h, <1>e, <2>1, <3>1, <3>2 DEF Budget
  <2> QED BY <2>3, <2>4
\* What a push does to the list the tries come from.
<1>7. ASSUME Push(w)
      PROVE  /\ job[w] \in Jobs /\ Excess(i)' = Excess(i)
             /\ wait'[i] = wait[i] + (IF i = job[w] /\ pc[w] = "retry" THEN 1 ELSE 0)
  BY <1>7, <1>t, HeldIsCreated, AddFacts DEF Push, Excess
<1>8. CASE Requeue(w)
  <2>1. Push(w) /\ Release(w) /\ pc[w] \in {"retry", "bury"}
    BY <1>8 DEF Requeue, Push
  <2>2. CASE pc[w] = "retry"
    <3>1. T' = T - (IF i = job[w] THEN 1 ELSE 0)
      BY <2>1, <2>2, TriesLose
    <3> QED BY <1>t, <1>h, <1>e, <1>7, <2>1, <2>2, <3>1 DEF Budget
  <2>3. CASE pc[w] = "bury"
    <3>1. T' = T
      BY <2>1, <2>3, TriesStay
    <3> QED BY <1>t, <1>h, <1>e, <1>7, <2>1, <2>3, <3>1 DEF Budget
  <2> QED BY <2>1, <2>2, <2>3
<1>9. CASE RequeueAgain(w)
  <2>1. UNCHANGED <<pc, job>> /\ pc[w] # "idle"
    BY <1>9 DEF RequeueAgain, Push
  <2>2. T' = T /\ more = (IF i = job[w] THEN 1 ELSE 0) /\ job[w] \in Jobs
    BY <1>9, <2>1, TriesStay, HeldIsCreated DEF Repeats
  <2>3. CASE Push(w)
    BY <1>t, <1>h, <1>e, <1>7, <2>2, <2>3 DEF Budget
  <2>4. CASE attempts' = Add(attempts, job[w]) /\ UNCHANGED wait
    <3>1. attempts'[i] = attempts[i] + (IF i = job[w] THEN 1 ELSE 0)
      BY <1>t, <2>2, <2>4, AddFacts
    <3>2. Excess(i)' <= Excess(i) + (IF i = job[w] THEN 1 ELSE 0) /\ Excess(i)' \in Nat
      BY <1>t, <3>1 DEF Excess
    <3> QED BY <1>t, <1>h, <1>e, <2>2, <2>4, <3>2 DEF Budget
  <2> QED BY <1>9, <2>3, <2>4 DEF RequeueAgain
<1>10. CASE RequeueLost(w)
  <2>1. pc[w] # "idle" /\ Release(w) /\ job[w] \in Jobs /\ wait' = wait
    BY <1>10, HeldIsCreated DEF RequeueLost, Limbo
  <2>2. \/ attempts'[i] = attempts[i]
        \/ pc[w] = "requeue" /\ attempts'[i] = attempts[i] + (IF i = job[w] THEN 1 ELSE 0)
    BY <1>10, <1>t, <2>1, AddFacts DEF RequeueLost
  <2>3. CASE pc[w] = "bury"
    <3>1. T' = T
      BY <2>1, <2>3, TriesStay
    <3> QED BY <1>t, <1>h, <1>e, <2>1, <2>2, <2>3, <3>1 DEF Budget, Excess
  <2>4. CASE pc[w] # "bury"
    <3>1. T' = T - (IF i = job[w] THEN 1 ELSE 0)
      BY <2>1, <2>4, TriesLose
    <3>2. Excess(i)' <= Excess(i) + (IF i = job[w] THEN 1 ELSE 0) /\ Excess(i)' \in Nat
      BY <1>t, <2>2 DEF Excess
    <3> QED BY <1>t, <1>h, <1>e, <2>1, <3>1, <3>2 DEF Budget
  <2> QED BY <2>3, <2>4
<1> QED
  BY <1>1, <1>2, <1>3, <1>4, <1>5, <1>6, <1>8, <1>9, <1>10 DEF SlotProgress, SlotFault

\* What the steps of a slot do to the counters of the history.
LEMMA SlotHistory ==
  ASSUME TypeOK, NEW w \in Slots, SlotProgress(w) \/ SlotFault(w)
  PROVE  /\ UNCHANGED <<lastId, reclaimed>>
         /\ RequeueAgain(w) => /\ job[w] \in Created /\ job[w] \in Jobs
                               /\ again' = [again EXCEPT ![job[w]] = @ + 1]
         /\ ~RequeueAgain(w) => again' = again
<1>1. UNCHANGED <<lastId, reclaimed>> /\ (~RequeueAgain(w) => again' = again)
  BY DEF SlotProgress, SlotFault, Pull, PullReplyLost, RejectPayload, WriteResults, WriteSwallowed,
     MissingJobData, HandlerRaises, Ack, LremError, LremReplyLost, LremAgain, TakeOff, CountAttempt,
     RequeueAgain, Requeue, RequeueLost, Crash, history
<1>2. RequeueAgain(w) => pc[w] # "idle" /\ Again(w)
  BY DEF RequeueAgain, Push
<1> QED BY <1>1, <1>2, HeldIsCreated DEF Again

\* A step of a slot leaves alone what was not handed out.
LEMMA SlotKeepsFresh ==
  ASSUME TypeOK, NEW w \in Slots, SlotProgress(w) \/ SlotFault(w), NEW j \in Jobs \ Created
  PROVE  UNCHANGED <<wait[j], active[j], dead[j], attempts[j], again[j], reclaimed[j]>>
<1>m. /\ wait \in [Jobs -> Nat] /\ active \in [Jobs -> Nat] /\ dead \in [Jobs -> Nat]
      /\ attempts \in [Jobs -> Nat] /\ again \in [Jobs -> Nat]
      /\ \A i \in Created : i \in Jobs
  BY CreatedInBound DEF TypeOK
<1>h. UNCHANGED <<again[j], reclaimed[j]>>
  BY <1>m, SlotHistory
<1>1. pc[w] # "idle" => job[w] \in Jobs /\ j # job[w]
  BY HeldIsCreated
<1>2. CASE Pull(w) \/ PullReplyLost(w)
  <2>1. PICK i \in Created : /\ wait' = Lrem(wait, i) /\ active' = Add(active, i)
                             /\ UNCHANGED <<dead, attempts>>
    BY <1>2 DEF Pull, PullReplyLost
  <2>2. i \in Jobs /\ j \in Jobs /\ j # i
    BY <1>m
  <2>3. wait'[j] = wait[j] /\ active'[j] = active[j]
    BY <1>m, <2>1, <2>2, AddFacts, LremFacts
  <2> QED BY <1>h, <2>1, <2>3
<1>3. CASE RejectPayload(w) \/ WriteResults(w) \/ MissingJobData(w) \/ WriteSwallowed(w)
           \/ HandlerRaises(w) \/ LremError(w) \/ Crash(w)
  BY <1>h, <1>3 DEF RejectPayload, WriteResults, MissingJobData, WriteSwallowed, HandlerRaises,
     LremError, Crash, lists
<1>4. CASE Ack(w) \/ LremReplyLost(w) \/ LremAgain(w) \/ TakeOff(w)
  <2>1. pc[w] # "idle" /\ active' = Lrem(active, job[w]) /\ UNCHANGED <<wait, dead, attempts>>
    BY <1>4 DEF Ack, LremReplyLost, LremAgain, TakeOff
  <2> QED BY <1>m, <1>h, <1>1, <2>1, LremFacts
<1>5. CASE CountAttempt(w) \/ Requeue(w) \/ RequeueAgain(w) \/ RequeueLost(w)
  <2>1. pc[w] # "idle" /\ UNCHANGED active
    BY <1>5 DEF CountAttempt, Requeue, RequeueAgain, RequeueLost, Push, Limbo
  <2>2. /\ wait' = wait \/ wait' = Add(wait, job[w])
        /\ dead' = dead \/ dead' = Add(dead, job[w])
        /\ attempts' = attempts \/ attempts' = Add(attempts, job[w])
    BY <1>5 DEF CountAttempt, Requeue, RequeueAgain, RequeueLost, Push
  <2> QED BY <1>m, <1>h, <1>1, <2>1, <2>2, AddFacts
<1> QED BY <1>2, <1>3, <1>4, <1>5 DEF SlotProgress, SlotFault

\* The attempts of a job never become fewer.
LEMMA AttemptsGrow ==
  ASSUME TypeOK, NEW w \in Slots, SlotProgress(w) \/ SlotFault(w), NEW j \in Jobs
  PROVE  attempts[j] > 0 => attempts'[j] > 0
<1>1. attempts' = attempts \/ (pc[w] # "idle" /\ attempts' = Add(attempts, job[w]))
  BY DEF SlotProgress, SlotFault, Pull, PullReplyLost, RejectPayload, WriteResults, WriteSwallowed,
     MissingJobData, HandlerRaises, Ack, LremError, LremReplyLost, LremAgain, TakeOff, CountAttempt,
     RequeueAgain, Requeue, RequeueLost, Crash, Push, lists
<1>2. attempts \in [Jobs -> Nat]
  BY DEF TypeOK
<1>3. ASSUME pc[w] # "idle", attempts' = Add(attempts, job[w])
      PROVE  attempts[j] > 0 => attempts'[j] > 0
  <2>1. job[w] \in Jobs
    BY <1>3, HeldIsCreated
  <2>2. attempts'[j] = attempts[j] \/ attempts'[j] = attempts[j] + 1
    BY <1>2, <1>3, <2>1, AddFacts
  <2> QED BY <1>2, <2>2
<1> QED BY <1>1, <1>3

LEMMA SlotCounts ==
  ASSUME TypeOK, Counted, NEW w \in Slots, SlotProgress(w) \/ SlotFault(w)
  PROVE  Counted'
<1>t. /\ pc \in [Slots -> Places] /\ job \in [Slots -> Created \union {NoJob}]
      /\ again \in [Jobs -> Nat] /\ attempts \in [Jobs -> Nat]
  BY DEF TypeOK
<1>h. \A v \in Slots : pc[v] # "idle" => job[v] \in Jobs
  BY HeldIsCreated
<1>c. pc[w] = "requeue" /\ attempts' = Add(attempts, job[w]) => attempts'[job[w]] > 0
  BY <1>t, <1>h, AddFacts
\* A slot goes on to push only by way of CountAttempt.
<1>1. ASSUME NEW v \in Slots, pc'[v] \in {"retry", "bury"}
      PROVE  attempts'[job'[v]] > 0
  <2>1. \/ pc'[v] = pc[v] /\ job'[v] = job[v]
        \/ v = w /\ CountAttempt(w)
    <3>1. CASE v # w
      BY <1>t, <1>1, <3>1 DEF SlotProgress, SlotFault, Pull, PullReplyLost, RejectPayload,
         WriteResults, WriteSwallowed, MissingJobData, HandlerRaises, Ack, LremError, LremReplyLost,
         LremAgain, TakeOff, CountAttempt, RequeueAgain, Requeue, RequeueLost, Crash, Goto, Release
    <3>2. CASE v = w
      BY <1>t, <1>1, <3>2 DEF SlotProgress, SlotFault, Pull, PullReplyLost, RejectPayload,
         WriteResults, WriteSwallowed, MissingJobData, HandlerRaises, Ack, LremError, LremReplyLost,
         LremAgain, TakeOff, CountAttempt, RequeueAgain, Requeue, RequeueLost, Crash, Goto, Release
    <3> QED BY <3>1, <3>2
  <2>2. CASE pc'[v] = pc[v] /\ job'[v] = job[v]
    BY <1>1, <1>h, <2>2, AttemptsGrow DEF Counted
  <2>3. CASE v = w /\ CountAttempt(w)
    BY <1>c, <2>3 DEF CountAttempt, Goto
  <2> QED BY <2>1, <2>2, <2>3
<1>2. ASSUME NEW j \in Jobs, again'[j] > 0
      PROVE  attempts'[j] > 0
  <2>1. CASE again[j] > 0
    BY <2>1, AttemptsGrow DEF Counted
  <2>2. CASE RequeueAgain(w) /\ j = job[w]
    <3>1. CASE pc[w] = "requeue" /\ attempts' = Add(attempts, job[w])
      BY <1>c, <2>2, <3>1
    <3>2. CASE Push(w)
      BY <2>2, <3>2, AttemptsGrow DEF Push, Counted
    <3> QED BY <2>2, <3>1, <3>2 DEF RequeueAgain
  <2> QED BY <1>t, <1>2, <2>1, <2>2, SlotHistory
<1> QED BY <1>1, <1>2 DEF Counted

LEMMA RetryStep ==
  ASSUME RetryInv, [Next]_vars
  PROVE  RetryInv'
<1>t. TypeOK /\ TypeOK'
  BY NextType DEF RetryInv
<1>m. /\ lastId \in Nat /\ MaxJobs \in Nat /\ MaxAttempts \in Nat
      /\ wait \in [Jobs -> Nat] /\ active \in [Jobs -> Nat] /\ dead \in [Jobs -> Nat]
      /\ attempts \in [Jobs -> Nat] /\ again \in [Jobs -> Nat] /\ reclaimed \in [Jobs -> Nat]
      /\ job \in [Slots -> Created \union {NoJob}]
      /\ \A j \in Created : j \in Jobs
  BY <1>t, QueueAssumption, CreatedInBound DEF TypeOK
<1>b. \A i \in Jobs : /\ Budget(i) \in Nat /\ Budget(i)' \in Nat
                      /\ Budget(i) <= 1 + reclaimed[i] + again[i]
  <2> TAKE i \in Jobs
  <2>1. Cardinality(Tries(i)) \in Nat /\ Cardinality(Tries(i))' \in Nat
    BY <1>t, TriesFinite, TriesFiniteNext
  <2> QED BY <1>t, <1>m, <2>1 DEF Budget, Excess, RetryInv, BoundedRetries, TypeOK
<1>1. CASE SlotStep
  <2>1. PICK w \in Slots : SlotProgress(w) \/ SlotFault(w)
    BY <1>1 DEF SlotStep
  <2>2. UNCHANGED <<lastId, reclaimed>>
    BY <1>t, <2>1, SlotHistory
  <2>3. BoundedRetries'
    <3> SUFFICES ASSUME NEW i \in Jobs
                 PROVE  Budget(i)' <= 1 + reclaimed'[i] + again'[i]
      BY DEF BoundedRetries, Budget
    <3>1. again'[i] = again[i] + (IF Repeats(w, i) THEN 1 ELSE 0)
      BY <1>t, <1>m, <2>1, SlotHistory DEF Repeats
    <3>2. Budget(i)' <= Budget(i) + (IF Repeats(w, i) THEN 1 ELSE 0)
      BY <1>t, <2>1, SlotSpends
    <3> QED BY <1>m, <1>b, <2>2, <3>1, <3>2
  <2>4. Fresh'
    BY <1>t, <2>1, <2>2, SlotKeepsFresh DEF RetryInv, Fresh, Created
  <2> QED BY <1>t, <2>1, <2>3, <2>4, SlotCounts DEF RetryInv
<1>2. ASSUME NEW batch \in SUBSET Rows, AddJob(batch)
      PROVE  RetryInv'
  <2>1. lastId + 1 \in Jobs \ Created /\ Created' = Created \union {lastId + 1}
    <3>1. lastId < MaxJobs /\ lastId' = lastId + 1
      BY <1>2 DEF AddJob
    <3>2. lastId \in Nat /\ MaxJobs \in Nat
      BY <1>m
    <3>3. lastId + 1 \in Jobs \ Created
      BY <3>1, <3>2 DEF Jobs, Created
    <3>4. Created' = Created \union {lastId + 1}
      BY <3>1, <3>2 DEF Created
    <3> QED BY <3>3, <3>4
  <2>2. \A i \in Jobs : wait'[i] = wait[i] + (IF i = lastId + 1 THEN 1 ELSE 0)
    <3>1. lastId + 1 \in Jobs /\ wait' = Add(wait, lastId + 1)
      BY <1>2, <2>1 DEF AddJob
    <3> QED BY <1>m, <3>1, AddFacts
  <2>3. Fresh' /\ Counted'
    BY <1>2, <2>1, <2>2, <1>m DEF AddJob, history, RetryInv, Fresh, Counted
  <2>4. \A i \in Jobs : Cardinality(Tries(i))' = Cardinality(Tries(i)) /\ Excess(i)' = Excess(i)
    BY <1>2 DEF AddJob, Tries, Holders, Excess
  <2>5. Cardinality(Tries(lastId + 1)) = 0 /\ Excess(lastId + 1) = 0 /\ wait[lastId + 1] = 0
    BY <1>t, <1>m, <2>1, TriesFinite, FS_EmptySet DEF RetryInv, Fresh, Excess
  <2>6. BoundedRetries'
    BY <1>2, <1>m, <1>b, <2>1, <2>2, <2>4, <2>5 DEF AddJob, history, BoundedRetries, Budget
  <2> QED BY <1>t, <2>3, <2>6 DEF RetryInv
<1>3. ASSUME NEW j \in Created, reclaimed[j] < MaxReclaims, Reclaim(j)
      PROVE  RetryInv'
  <2>1. \A i \in Jobs : /\ wait'[i] = wait[i] + (IF i = j THEN 1 ELSE 0)
                        /\ i # j => active'[i] = active[i]
                        /\ reclaimed'[i] = reclaimed[i] + (IF i = j THEN 1 ELSE 0)
    <3>0. j \in Jobs /\ reclaimed \in [Jobs -> Nat]
      BY <1>3, <1>m
    <3>1. \A i \in Jobs : wait'[i] = wait[i] + (IF i = j THEN 1 ELSE 0)
      <4>1. wait' = Add(wait, j)
        BY <1>3 DEF Reclaim
      <4> QED BY <1>m, <3>0, <4>1, AddFacts
    <3>2. \A i \in Jobs : i # j => active'[i] = active[i]
      <4>1. active' = Lrem(active, j)
        BY <1>3 DEF Reclaim
      <4> QED BY <1>m, <3>0, <4>1, LremFacts
    <3>3. \A i \in Jobs : reclaimed'[i] = reclaimed[i] + (IF i = j THEN 1 ELSE 0)
      BY <1>3, <3>0 DEF Reclaim
    <3> QED BY <3>1, <3>2, <3>3
  <2>2. Fresh' /\ Counted'
    BY <1>3, <1>m, <2>1 DEF Reclaim, RetryInv, Fresh, Counted, Created
  <2>3. \A i \in Jobs : Cardinality(Tries(i))' = Cardinality(Tries(i)) /\ Excess(i)' = Excess(i)
    BY <1>3 DEF Reclaim, Tries, Holders, Excess
  <2>4. \A i \in Jobs : Budget(i)' = Budget(i) + (IF i = j THEN 1 ELSE 0)
    <3> TAKE i \in Jobs
    <3>1. Cardinality(Tries(i)) \in Nat /\ Excess(i) \in Nat /\ wait[i] \in Nat
      BY <1>t, <1>m, TriesFinite DEF Excess
    <3> QED BY <2>1, <2>3, <3>1 DEF Budget
  <2>5. BoundedRetries'
    <3>1. again' = again
      BY <1>3 DEF Reclaim
    <3> QED BY <1>m, <1>b, <2>1, <2>4, <3>1 DEF BoundedRetries, Budget
  <2> QED BY <1>t, <2>2, <2>5 DEF RetryInv
<1>4. CASE UNCHANGED vars
  BY <1>4, <1>t DEF vars, lists, history, RetryInv, Fresh, Counted, BoundedRetries, Created, Tries,
     Holders, Excess
<1> QED BY <1>1, <1>2, <1>3, <1>4 DEF Next

LEMMA InitRetry == Init => RetryInv
<1> SUFFICES ASSUME Init
             PROVE  RetryInv
  OBVIOUS
<1>1. TypeOK
  BY InitType
<1>2. \A j \in Jobs : Tries(j) = {}
  BY DEF Init, Tries, Holders, Jobs, NoJob
<1>3. \A j \in Jobs : Cardinality(Tries(j)) = 0
  BY <1>2, FS_EmptySet
<1>4. Counted
  BY DEF Init, Counted
<1> QED BY <1>1, <1>3, <1>4, QueueAssumption DEF Init, RetryInv, Fresh, BoundedRetries, Excess

LEMMA RetryHolds == Spec => []RetryInv
<1>1. RetryInv /\ [Next]_vars => RetryInv'
  BY RetryStep
<1> QED BY <1>1, InitRetry, PTL DEF Spec

\* However jobs fail, crash and are reclaimed, and whatever commands the client
\* sends again, a job has no more tries left than its first delivery, its
\* reclaims and the commands Redis executed again account for.
THEOREM RetriesAreBounded == Spec => []BoundedRetries
<1>1. RetryInv => BoundedRetries
  BY DEF RetryInv
<1> QED BY <1>1, RetryHolds, PTL

-----------------------------------------------------------------------------
(* Rows quarantined twice.                                                 *)

\* A job that was never reclaimed, no command of which was executed twice, and
\* that a slot holds is held by no other slot and does not wait for one.
LEMMA SoleHolder ==
  ASSUME RetryInv, NEW j \in Created, reclaimed[j] = 0, again[j] = 0,
         NEW w \in Slots, job[w] = j, pc[w] # "bury"
  PROVE  /\ wait[j] = 0 /\ Excess(j) = 0
         /\ \A v \in Slots : job[v] = j /\ pc[v] # "bury" => v = w
<1>t. /\ TypeOK /\ j \in Jobs /\ wait[j] \in Nat /\ attempts[j] \in Nat /\ MaxAttempts \in Nat
  BY QueueAssumption, CreatedInBound DEF RetryInv, TypeOK
<1>1. wait[j] + Cardinality(Tries(j)) + Excess(j) <= 1
  BY <1>t DEF RetryInv, BoundedRetries
<1>2. w \in Tries(j) /\ IsFiniteSet(Tries(j)) /\ Cardinality(Tries(j)) \in Nat
  BY <1>t, TriesFinite DEF Tries, Holders
<1>3. /\ Cardinality(Tries(j) \ {w}) = Cardinality(Tries(j)) - 1
      /\ IsFiniteSet(Tries(j) \ {w})
  BY <1>2, FS_RemoveElement
<1>4. Cardinality(Tries(j) \ {w}) \in Nat
  BY <1>3, FS_CardinalityType
<1>5. Excess(j) \in Nat
  BY <1>t DEF Excess
<1>6. wait[j] = 0 /\ Excess(j) = 0 /\ Cardinality(Tries(j) \ {w}) = 0
  BY <1>t, <1>1, <1>2, <1>3, <1>4, <1>5
<1>7. Tries(j) \ {w} = {}
  BY <1>3, <1>6, FS_EmptySet
<1> QED BY <1>6, <1>7 DEF Tries, Holders

\* While the job's first delivery has neither failed and been counted nor been
\* reclaimed, a row of no other job is quarantined at most once, and never
\* before its writing: the slot with the job is past it, and the job is not
\* on the list for another.
Once(j) ==
  attempts[j] = 0 /\ reclaimed[j] = 0 =>
    \A r \in rowsOf[j] :
      quar[r] > 0 /\ (\A i \in Created : r \in rowsOf[i] => i = j) =>
        /\ quar[r] = 1
        /\ wait[j] = 0
        /\ \A w \in Slots : job[w] = j => pc[w] # "handling"

OnceInv ==
  /\ \A j \in Created : Once(j)
  /\ \A r \in Rows : quar[r] > 0 => \E j \in Created : r \in rowsOf[j]

\* What a step of a slot other than the write does for a job that has no
\* counted failure afterwards.
LEMMA SlotLeavesFirstTry ==
  ASSUME TypeOK, Counted, NEW w \in Slots, SlotProgress(w) \/ SlotFault(w), ~WriteResults(w),
         NEW j \in Created, attempts'[j] = 0
  PROVE  /\ attempts[j] = 0
         /\ wait'[j] <= wait[j]
         /\ \A v \in Slots : job'[v] = j /\ pc'[v] = "handling" =>
              wait[j] > 0 \/ (job[v] = j /\ pc[v] = "handling")
<1>t. /\ wait \in [Jobs -> Nat] /\ attempts \in [Jobs -> Nat] /\ j \in Jobs
      /\ pc \in [Slots -> Places] /\ job \in [Slots -> Created \union {NoJob}]
      /\ \A i \in Created : i \in Jobs
  BY CreatedInBound DEF TypeOK
<1>0. j # NoJob
  BY <1>t, QueueAssumption DEF Jobs, NoJob
<1>a. ASSUME job[w] \in Jobs, attempts' = Add(attempts, job[w])
      PROVE  attempts[j] = 0
  <2>1. attempts'[j] = attempts[j] \/ attempts'[j] = attempts[j] + 1
    BY <1>t, <1>a, AddFacts, ZenonT(60)
  <2> QED BY <1>t, <2>1
<1>1. CASE Pull(w)
  <2>1. PICK i \in Jobs : /\ wait[i] > 0
                          /\ wait' = Lrem(wait, i)
                          /\ pc' = [pc EXCEPT ![w] = "handling"]
                          /\ job' = [job EXCEPT ![w] = i]
                          /\ attempts' = attempts
    BY <1>1, <1>t DEF Pull
  <2>2. wait'[j] <= wait[j]
    <3>1. CASE i = j
      BY <1>t, <2>1, <3>1, LremFacts
    <3>2. CASE i # j
      BY <1>t, <2>1, <3>2, LremFacts
    <3> QED BY <3>1, <3>2
  <2>3. ASSUME NEW v \in Slots, job'[v] = j, pc'[v] = "handling"
        PROVE  wait[j] > 0 \/ (job[v] = j /\ pc[v] = "handling")
    BY <1>t, <2>1, <2>3
  <2> QED BY <2>1, <2>2, <2>3
<1>2. CASE PullReplyLost(w)
  <2>1. PICK i \in Jobs : wait[i] > 0 /\ wait' = Lrem(wait, i) /\ UNCHANGED <<pc, job, attempts>>
    BY <1>2, <1>t DEF PullReplyLost
  <2> QED BY <1>t, <2>1, LremFacts
<1>3. CASE RejectPayload(w) \/ MissingJobData(w) \/ WriteSwallowed(w) \/ HandlerRaises(w) \/ TakeOff(w)
  <2>1. UNCHANGED <<wait, attempts, job>>
    BY <1>3 DEF RejectPayload, MissingJobData, WriteSwallowed, HandlerRaises, TakeOff, lists, Goto
  <2>2. \E to \in {"rejected", "written", "failed", "requeue"} : pc' = [pc EXCEPT ![w] = to]
    BY <1>3 DEF RejectPayload, MissingJobData, WriteSwallowed, HandlerRaises, TakeOff, Goto
  <2> QED BY <1>t, <2>1, <2>2
<1>4. CASE LremAgain(w)
  <2>1. UNCHANGED <<wait, attempts, job>>
    BY <1>4 DEF LremAgain, Goto
  <2>2. pc' = pc \/ pc' = [pc EXCEPT ![w] = "retake"]
    BY <1>4 DEF LremAgain, Goto
  <2> QED BY <1>t, <2>1, <2>2
<1>5. CASE Ack(w) \/ LremError(w) \/ LremReplyLost(w) \/ Crash(w)
  <2>1. UNCHANGED <<wait, attempts>> /\ Release(w)
    BY <1>5 DEF Ack, LremError, LremReplyLost, Crash, lists
  <2> QED BY <1>t, <1>0, <2>1 DEF Release
<1>6. CASE CountAttempt(w)
  <2>1. /\ attempts' = Add(attempts, job[w]) /\ job[w] \in Jobs /\ wait' = wait
        /\ job' = job /\ \E to \in {"retry", "bury"} : pc' = [pc EXCEPT ![w] = to]
    BY <1>6, HeldIsCreated DEF CountAttempt, Goto
  <2>2. attempts[j] = 0
    BY <1>a, <2>1
  <2>3. ASSUME NEW v \in Slots, pc'[v] = "handling" PROVE pc[v] = "handling"
    BY <1>t, <2>1, <2>3
  <2> QED BY <1>t, <2>1, <2>2, <2>3
\* A push is of a job with a counted attempt.
<1>7. ASSUME Push(w)
      PROVE  attempts[j] = 0 /\ wait'[j] = wait[j]
  <2>1. /\ job[w] \in Jobs /\ attempts[job[w]] > 0 /\ attempts' = attempts
        /\ wait' = wait \/ wait' = Add(wait, job[w])
    BY <1>7, HeldIsCreated DEF Push, Counted
  <2>2. j # job[w]
    BY <2>1
  <2>3. attempts[j] = 0
    BY <2>1
  <2>4. wait'[j] = wait[j]
    BY <1>t, <2>1, <2>2, AddFacts
  <2> QED BY <2>3, <2>4
<1>8. CASE Requeue(w)
  <2>1. Push(w) /\ Release(w)
    BY <1>8 DEF Requeue
  <2> QED BY <1>t, <1>0, <1>7, <2>1 DEF Release
<1>9. CASE RequeueAgain(w)
  <2>1. UNCHANGED <<pc, job>>
    BY <1>9 DEF RequeueAgain
  <2>2. CASE Push(w)
    BY <1>t, <1>7, <2>1, <2>2
  <2>3. CASE pc[w] = "requeue" /\ attempts' = Add(attempts, job[w]) /\ wait' = wait
    <3>1. attempts[j] = 0
      BY <1>a, <2>3, HeldIsCreated
    <3> QED BY <1>t, <2>1, <2>3, <3>1
  <2> QED BY <1>9, <2>2, <2>3 DEF RequeueAgain
<1>10. CASE RequeueLost(w)
  <2>1. /\ job[w] \in Jobs /\ Release(w) /\ wait' = wait
        /\ attempts' = attempts \/ attempts' = Add(attempts, job[w])
    BY <1>10, HeldIsCreated DEF RequeueLost, Limbo
  <2>2. attempts[j] = 0
    BY <1>a, <2>1
  <2> QED BY <1>t, <1>0, <2>1, <2>2 DEF Release
<1> QED
  BY <1>1, <1>2, <1>3, <1>4, <1>5, <1>6, <1>8, <1>9, <1>10 DEF SlotProgress, SlotFault

LEMMA OnceStep ==
  ASSUME RetryInv, OnceInv, [Next]_vars
  PROVE  OnceInv'
<1>t. /\ TypeOK /\ TypeOK' /\ QueueStep
      /\ wait \in [Jobs -> Nat] /\ attempts \in [Jobs -> Nat] /\ reclaimed \in [Jobs -> Nat]
      /\ wait' \in [Jobs -> Nat]
      /\ rowsOf \in [Jobs -> SUBSET Rows] /\ quar \in [Rows -> Nat]
      /\ pc \in [Slots -> Places] /\ job \in [Slots -> Created \union {NoJob}]
      /\ \A i \in Created : i \in Jobs
  BY NextType, NextIsQueueStep, CreatedInBound DEF RetryInv, TypeOK
<1>1. ASSUME NEW w \in Slots, SlotProgress(w) \/ SlotFault(w), ~WriteResults(w)
      PROVE  OnceInv'
  <2>1. UNCHANGED <<lastId, rowsOf, reclaimed, quar>>
    BY <1>1 DEF SlotProgress, SlotFault, Pull, PullReplyLost, RejectPayload, WriteSwallowed,
         MissingJobData, HandlerRaises, Ack, LremError, LremReplyLost,
         LremAgain, TakeOff, CountAttempt, RequeueAgain, Requeue, RequeueLost, Crash,
         history, table
  <2>2. ASSUME NEW j \in Created PROVE Once(j)'
    <3> SUFFICES ASSUME attempts'[j] = 0, reclaimed[j] = 0, NEW r \in rowsOf[j], quar[r] > 0,
                        \A i \in Created : r \in rowsOf[i] => i = j
                 PROVE  /\ quar[r] = 1 /\ wait'[j] = 0
                        /\ \A v \in Slots : job'[v] = j => pc'[v] # "handling"
      BY <2>1 DEF Once, Created
    <3>1. /\ attempts[j] = 0 /\ wait'[j] <= wait[j]
          /\ \A v \in Slots : job'[v] = j /\ pc'[v] = "handling" =>
               wait[j] > 0 \/ (job[v] = j /\ pc[v] = "handling")
      BY <1>1, <1>t, SlotLeavesFirstTry DEF RetryInv
    <3>2. /\ quar[r] = 1 /\ wait[j] = 0
          /\ \A v \in Slots : job[v] = j => pc[v] # "handling"
      BY <3>1 DEF OnceInv, Once
    <3>3. wait'[j] \in Nat
      BY <1>t
    <3> QED BY <3>1, <3>2, <3>3
  <2> QED BY <2>1, <2>2 DEF OnceInv, Created
<1>2. ASSUME NEW w \in Slots, WriteResults(w)
      PROVE  OnceInv'
  <2>1. /\ pc[w] = "handling" /\ job[w] \in Created
        /\ pc' = [pc EXCEPT ![w] = "written"]
        /\ UNCHANGED <<lastId, rowsOf, reclaimed, attempts, wait, job>>
        /\ quar' = [r \in Rows |-> IF r \in rowsOf[job[w]] \intersect LowRows
                                   THEN quar[r] + 1 ELSE quar[r]]
    BY <1>2, <1>t, HeldIsCreated DEF WriteResults, Goto, history, lists
  <2>2. ASSUME NEW j \in Created PROVE Once(j)'
    <3> SUFFICES ASSUME attempts[j] = 0, reclaimed[j] = 0, NEW r \in rowsOf[j], quar'[r] > 0,
                        \A i \in Created : r \in rowsOf[i] => i = j
                 PROVE  /\ quar'[r] = 1 /\ wait[j] = 0
                        /\ \A v \in Slots : job[v] = j => pc'[v] # "handling"
      BY <2>1 DEF Once, Created
    <3>r. r \in Rows /\ quar[r] \in Nat
      BY <1>t
    <3>1. CASE r \in rowsOf[job[w]] \intersect LowRows
      <4>1. job[w] = j
        BY <2>1, <3>1
      <4>s. again[j] = 0 /\ \A v \in Slots : pc[v] = "bury" => job[v] # j
        BY <1>t DEF RetryInv, Counted, TypeOK
      <4>2. wait[j] = 0 /\ \A v \in Slots : job[v] = j => v = w
        BY <2>1, <4>1, <4>s, SoleHolder
      <4>3. ~(quar[r] > 0)
        BY <2>1, <4>1 DEF OnceInv, Once
      <4> QED BY <1>t, <2>1, <3>1, <3>r, <4>2, <4>3
    <3>2. CASE r \notin rowsOf[job[w]] \intersect LowRows
      <4>1. quar'[r] = quar[r]
        BY <2>1, <3>2, <3>r
      <4>2. /\ quar[r] = 1 /\ wait[j] = 0
            /\ \A v \in Slots : job[v] = j => pc[v] # "handling"
        BY <4>1 DEF OnceInv, Once
      <4> QED BY <1>t, <2>1, <4>1, <4>2
    <3> QED BY <3>1, <3>2
  <2>3. \A r \in Rows : quar'[r] > 0 => \E j \in Created : r \in rowsOf[j]
    BY <2>1 DEF OnceInv
  <2> QED BY <2>1, <2>2, <2>3 DEF OnceInv, Created
<1>3. ASSUME NEW batch \in SUBSET Rows, AddJob(batch)
      PROVE  OnceInv'
  <2> DEFINE n == lastId + 1
  <2>1. /\ lastId' = n /\ n \in Jobs /\ n \notin Created /\ Created' = Created \union {n}
        /\ rowsOf' = [rowsOf EXCEPT ![n] = batch] /\ wait' = Add(wait, n)
        /\ UNCHANGED <<attempts, reclaimed, quar, pc, job>>
    BY <1>3, <1>t, CreatedInBound DEF AddJob, history, table, Jobs, Created
  <2>2. \A j \in Created : rowsOf'[j] = rowsOf[j] /\ wait'[j] = wait[j]
    BY <1>t, <2>1, AddFacts
  <2>3. ASSUME NEW j \in Created' PROVE Once(j)'
    <3> SUFFICES ASSUME attempts[j] = 0, reclaimed[j] = 0, NEW r \in rowsOf'[j], quar[r] > 0,
                        \A i \in Created' : r \in rowsOf'[i] => i = j
                 PROVE  /\ quar[r] = 1 /\ wait'[j] = 0
                        /\ \A v \in Slots : job[v] = j => pc[v] # "handling"
      BY <2>1 DEF Once
    <3>1. r \in Rows
      <4>1. rowsOf'[j] \subseteq Rows
        BY <1>t, <2>1
      <4> QED BY <4>1
    <3>2. PICK i \in Created : r \in rowsOf[i]
      BY <3>1 DEF OnceInv
    <3>3. i = j
      BY <2>1, <2>2, <3>2
    <3>4. \A k \in Created : r \in rowsOf[k] => k = j
      BY <2>1, <2>2
    <3> QED BY <2>2, <3>2, <3>3, <3>4 DEF OnceInv, Once
  <2>4. \A r \in Rows : quar'[r] > 0 => \E j \in Created' : r \in rowsOf'[j]
    BY <2>1, <2>2 DEF OnceInv
  <2> QED BY <2>3, <2>4 DEF OnceInv
<1>4. ASSUME NEW i \in Created, reclaimed[i] < MaxReclaims, Reclaim(i)
      PROVE  OnceInv'
  <2>1. /\ reclaimed' = [reclaimed EXCEPT ![i] = IF @ < MaxReclaims THEN @ + 1 ELSE @]
        /\ wait' = Add(wait, i)
        /\ UNCHANGED <<lastId, rowsOf, attempts, quar, pc, job>>
    BY <1>4 DEF Reclaim, table
  <2>2. reclaimed'[i] # 0
    BY <1>4, <1>t, <2>1
  <2>3. \A j \in Created : j # i => reclaimed'[j] = reclaimed[j] /\ wait'[j] = wait[j]
    BY <1>t, <2>1, AddFacts
  <2>4. ASSUME NEW j \in Created PROVE Once(j)'
    <3>1. Once(j)
      BY DEF OnceInv
    <3> QED BY <2>1, <2>2, <2>3, <3>1 DEF Once, Created
  <2> QED BY <2>1, <2>4 DEF OnceInv, Created
<1>5. CASE UNCHANGED vars
  BY <1>5 DEF vars, lists, table, history, OnceInv, Once, Created
<1> QED BY <1>1, <1>2, <1>3, <1>4, <1>5 DEF Next, SlotStep

\* Two deliveries at once, a crash or a lost reply quarantine no row twice:
\* it takes a second batch with the row, a counted failure or a reclaim.
THEOREM DuplicatesHaveReasons == Spec => []DuplicatesExplained
<1>1. Init => OnceInv
  BY DEF Init, OnceInv, Created
<1>2. RetryInv /\ OnceInv /\ [Next]_vars => OnceInv'
  BY OnceStep
<1>3. RetryInv /\ OnceInv => DuplicatesExplained
  <2> SUFFICES ASSUME RetryInv, OnceInv, NEW r \in Rows, quar[r] > 1,
                      \A j \in Created : r \in rowsOf[j] => ~(attempts[j] > 0 \/ reclaimed[j] > 0)
               PROVE  \E i, j \in Created : i # j /\ r \in rowsOf[i] \intersect rowsOf[j]
    BY DEF DuplicatesExplained
  <2>t. /\ quar[r] \in Nat
        /\ \A j \in Created : attempts[j] \in Nat /\ reclaimed[j] \in Nat
    BY CreatedInBound DEF RetryInv, TypeOK
  <2>1. PICK j \in Created : r \in rowsOf[j]
    BY <2>t DEF OnceInv
  <2>2. attempts[j] = 0 /\ reclaimed[j] = 0
    BY <2>t, <2>1
  <2>3. ~(\A i \in Created : r \in rowsOf[i] => i = j)
    BY <2>t, <2>1, <2>2 DEF OnceInv, Once
  <2> QED BY <2>1, <2>3
<1> QED BY <1>1, <1>2, <1>3, RetryHolds, PTL DEF Spec

-----------------------------------------------------------------------------
(* The NLP stage of a burst.                                               *)

\* What the steps of the script need to know to be steps of the queue.
SweepTypeOK == TypeOK /\ todo \subseteq Rows

-----------------------------------------------------------------------------
\* What the script and the workers do to the queue are steps of the queue.
LEMMA BurstStepsQueue ==
  ASSUME SweepTypeOK, [BurstNext]_burstVars
  PROVE  QueueStep
<1>1. CASE IngestBatch
  BY <1>1 DEF IngestBatch, QueueStep
<1>2. CASE SweepFlush
  <2>1. PICK batch \in SUBSET todo : AddJob(batch)
    BY <1>2 DEF SweepFlush
  <2>2. batch \in SUBSET Rows
    BY <2>1 DEF SweepTypeOK
  <2> QED BY <2>1, <2>2 DEF QueueStep
<1>3. CASE ReclaimNext
  BY <1>3 DEF ReclaimNext, QueueStep
<1>4. CASE ScriptFails \/ PollError
  BY <1>4 DEF ScriptFails, PollError, QueueStep
<1>5. CASE BeginSweep \/ Poll \/ BarrierTimeout \/ BarrierExit \/ AssertCoverage
  BY <1>5 DEF BeginSweep, Poll, BarrierTimeout, BarrierExit, AssertCoverage, QueueStep
<1>6. CASE WorkerStep
  BY <1>6 DEF WorkerStep, QueueStep
<1>7. CASE UNCHANGED burstVars
  BY <1>7 DEF burstVars, QueueStep
<1> QED BY <1>1, <1>2, <1>3, <1>4, <1>5, <1>6, <1>7 DEF BurstNext, ScriptProgress

LEMMA BurstStepTypes ==
  ASSUME SweepTypeOK, [BurstNext]_burstVars
  PROVE  SweepTypeOK'
<1>1. TypeOK'
  BY BurstStepsQueue, StepType DEF SweepTypeOK
<1>2. todo' \subseteq Rows
  BY DEF SweepTypeOK, BurstNext, ScriptProgress, IngestBatch, BeginSweep, SweepFlush, Poll,
         ReclaimNext, BarrierExit, AssertCoverage, ScriptFails, PollError, BarrierTimeout,
         WorkerStep, Linger, script, burstVars, Uncovered
<1> QED BY <1>1, <1>2 DEF SweepTypeOK

\* What holds of the queue whatever uses it holds in a burst.
QueueInv == SweepTypeOK /\ WrittenInv /\ NoJobVanishes

LEMMA QueueInvStep ==
  ASSUME QueueInv, [BurstNext]_burstVars
  PROVE  QueueInv'
<1>1. QueueStep /\ SweepTypeOK'
  BY BurstStepsQueue, BurstStepTypes DEF QueueInv
<1>2. WrittenInv' /\ NoJobVanishes'
  BY <1>1, WrittenStep, StepKeepsJobs DEF QueueInv, WrittenInv
<1> QED BY <1>1, <1>2 DEF QueueInv

LEMMA BurstQueue == BurstSafety => []QueueInv
<1>1. BurstInit => QueueInv
  <2> SUFFICES ASSUME BurstInit PROVE QueueInv
    OBVIOUS
  <2>1. SweepTypeOK
    BY InitType DEF BurstInit, SweepTypeOK
  <2>2. WrittenInv
    BY <2>1 DEF BurstInit, Init, SweepTypeOK, WrittenInv, HandledWell, AckedIsWritten
  <2>3. NoJobVanishes
    BY DEF BurstInit, Init, NoJobVanishes, Pending, Created
  <2> QED BY <2>1, <2>2, <2>3 DEF QueueInv
<1>2. QueueInv /\ [BurstNext]_burstVars => QueueInv'
  BY QueueInvStep
<1> QED BY <1>1, <1>2, PTL DEF BurstSafety

LEMMA BurstTypes == BurstSafety => []SweepTypeOK
<1>1. QueueInv => SweepTypeOK
  BY DEF QueueInv
<1> QED BY <1>1, BurstQueue, PTL

-----------------------------------------------------------------------------
(* The verdict.                                                            *)

\* What the gate sees of the queue and of the script.
gateView == <<lastId, rowsOf, dead, table, dropped, swallowed, limbo>>

\* The verdict is given once, by the assertion or by a failure before it.
LEMMA VerdictStep ==
  ASSUME [BurstNext]_burstVars
  PROVE  \/ stage' = stage
         \/ stage' \notin {"passed", "failed"} /\ stage \notin {"passed", "failed"}
         \/ stage' = "failed" /\ stage # "passed" /\ UNCHANGED gateView
         \/ AssertCoverage
BY DEF BurstNext, ScriptProgress, IngestBatch, BeginSweep, SweepFlush, Poll,
       ReclaimNext, BarrierExit, ScriptFails, PollError, BarrierTimeout,
       WorkerStep, Linger, script, seen, burstVars, vars, lists, history, gateView

\* A passing assertion saw few enough uncovered rows and changed nothing.
LEMMA AssertionFacts ==
  ASSUME AssertCoverage
  PROVE  /\ stage = "drained"
         /\ stage' \in {"passed", "failed"}
         /\ stage' = "passed" => ~(Cardinality(Uncovered) > Threshold)
         /\ UNCHANGED gateView
BY DEF AssertCoverage, vars, lists, history, seen, gateView

LEMMA FewerUncovered ==
  ASSUME Covered \subseteq Covered'
  PROVE  /\ Cardinality(Uncovered) \in Nat
         /\ Cardinality(Uncovered)' \in Nat
         /\ Cardinality(Uncovered)' <= Cardinality(Uncovered)
<1>1. Uncovered \in SUBSET Rows /\ Uncovered' \in SUBSET Uncovered
  BY DEF Uncovered
<1>2. IsFiniteSet(Rows)
  BY QueueAssumption
<1>3. IsFiniteSet(Uncovered)
  BY <1>1, <1>2, FS_Subset
<1>4. IsFiniteSet(Uncovered') /\ Cardinality(Uncovered') <= Cardinality(Uncovered)
  BY <1>1, <1>3, FS_Subset
<1> QED BY <1>3, <1>4, FS_CardinalityType

\* The threshold held when the verdict was given and holds ever after.
PassedInv == stage = "passed" => Cardinality(Uncovered) <= Threshold

LEMMA PassedStep ==
  ASSUME SweepTypeOK, PassedInv, [BurstNext]_burstVars
  PROVE  PassedInv'
<1> SUFFICES ASSUME stage' = "passed"
             PROVE  Cardinality(Uncovered)' <= Threshold
  BY DEF PassedInv
<1>1. Covered \subseteq Covered'
  BY BurstStepsQueue, StepCovers DEF SweepTypeOK
<1>2. /\ Cardinality(Uncovered) \in Nat
      /\ Cardinality(Uncovered)' \in Nat
      /\ Cardinality(Uncovered)' <= Cardinality(Uncovered)
  BY <1>1, FewerUncovered
<1>3. stage = "passed" \/ AssertCoverage
  BY VerdictStep
<1>4. Cardinality(Uncovered) <= Threshold
  BY <1>2, <1>3, AssertionFacts, BurstAssumption DEF PassedInv
<1> QED BY <1>2, <1>4, BurstAssumption

\* A candidate is built only from data with at most Threshold rows neither
\* classified nor quarantined, and it stays so after the check.
THEOREM PassedIsCovered == BurstSafety => []PassedMeansCovered
<1>1. BurstInit => PassedInv
  BY DEF BurstInit, PassedInv
<1>2. SweepTypeOK /\ PassedInv /\ [BurstNext]_burstVars => PassedInv'
  BY PassedStep
<1>3. PassedInv => PassedMeansCovered
  BY DEF PassedInv, PassedMeansCovered, Gate!PassedMeansCovered, Gate!Uncovered, Uncovered
<1> QED BY <1>1, <1>2, <1>3, BurstTypes, PTL DEF BurstSafety

-----------------------------------------------------------------------------
(* The sweep.                                                              *)

\* The rows that some job has.
Enqueued == UNION {rowsOf[j] : j \in Created}

\* The rows of the jobs handed out are never fewer; a new job adds its own.
LEMMA EnqueuedGrows ==
  ASSUME TypeOK, QueueStep
  PROVE  Enqueued \subseteq Enqueued'
<1>1. CASE \E batch \in SUBSET Rows : AddJob(batch)
  BY <1>1, CreatedInBound DEF AddJob, TypeOK, Enqueued, Created, Jobs
<1>2. CASE UNCHANGED <<lastId, rowsOf>>
  BY <1>2 DEF Enqueued, Created
<1>3. CASE SlotStep
  BY <1>2, <1>3 DEF SlotStep, SlotProgress, SlotFault, Pull, PullReplyLost, RejectPayload,
     WriteResults, WriteSwallowed, MissingJobData, HandlerRaises, Ack, LremError, LremReplyLost,
     LremAgain, TakeOff, CountAttempt, RequeueAgain, Requeue, RequeueLost, Crash
<1> QED BY <1>1, <1>2, <1>3 DEF QueueStep, Reclaim, vars

LEMMA NewJobEnqueues ==
  ASSUME TypeOK, NEW batch, AddJob(batch)
  PROVE  batch \subseteq Enqueued'
<1>1. lastId \in Nat /\ lastId < MaxJobs /\ MaxJobs \in Nat /\ lastId' = lastId + 1
  BY CreatedInBound DEF AddJob
<1>2. lastId + 1 \in Created' /\ lastId + 1 \in Jobs
  BY <1>1 DEF Created, Jobs
<1>3. rowsOf'[lastId + 1] = batch
  BY <1>2 DEF AddJob, TypeOK
<1> QED BY <1>2, <1>3 DEF Enqueued

\* While the script sweeps, the uncovered rows without a job are in todo.
SweepInv ==
  /\ stage = "sweep" => Uncovered \subseteq todo \union Enqueued
  /\ stage \in {"barrier", "drained", "passed"} => Uncovered \subseteq Enqueued

LEMMA SweepStep ==
  ASSUME SweepTypeOK, SweepInv, [BurstNext]_burstVars
  PROVE  SweepInv'
<1>1. Enqueued \subseteq Enqueued'
  BY BurstStepsQueue, EnqueuedGrows DEF SweepTypeOK
<1>2. Uncovered' \subseteq Uncovered
  BY BurstStepsQueue, StepCovers DEF SweepTypeOK, Uncovered
<1>3. CASE UNCHANGED <<stage, todo>>
  BY <1>1, <1>2, <1>3 DEF SweepInv
<1>4. CASE BeginSweep
  BY <1>1, <1>2, <1>4 DEF BeginSweep, SweepInv
<1>5. CASE SweepFlush
  <2>1. PICK batch \in SUBSET todo :
               /\ AddJob(batch) /\ todo' = todo \ batch
               /\ stage' = IF todo = batch THEN "barrier" ELSE "sweep"
    BY <1>5 DEF SweepFlush
  <2>2. stage = "sweep" /\ batch \subseteq Enqueued'
    BY <1>5, <2>1, NewJobEnqueues DEF SweepFlush, SweepTypeOK
  <2> QED BY <1>1, <1>2, <2>1, <2>2 DEF SweepInv
<1>6. CASE BarrierExit \/ AssertCoverage
  BY <1>1, <1>2, <1>6 DEF BarrierExit, AssertCoverage, SweepInv
<1>7. CASE BarrierTimeout \/ ScriptFails
  BY <1>7 DEF BarrierTimeout, ScriptFails, SweepInv
<1> QED
  BY <1>3, <1>4, <1>5, <1>6, <1>7 DEF BurstNext, ScriptProgress, IngestBatch, Poll, ReclaimNext,
     PollError, WorkerStep, Linger, script, burstVars

LEMMA SweepHolds == BurstSafety => []SweepInv
<1>1. BurstInit => SweepInv
  BY DEF BurstInit, SweepInv
<1>2. SweepTypeOK /\ SweepInv /\ [BurstNext]_burstVars => SweepInv'
  BY SweepStep
<1> QED BY <1>1, <1>2, BurstTypes, PTL DEF BurstSafety

\* Once the sweep is through, an uncovered row is in a job: whatever batches
\* the ingestor lost, none is left that nothing was enqueued for.
THEOREM SweepIsComplete == BurstSafety => []SweepReachesEveryRow
<1>1. SweepInv => SweepReachesEveryRow
  BY DEF SweepInv, SweepReachesEveryRow, Enqueued
<1> QED BY <1>1, SweepHolds, PTL

-----------------------------------------------------------------------------
(* The polls.                                                              *)

\* Where the script is tells how often the queue was seen empty, and a slot
\* that lingers is where it was at the poll.
PollShape ==
  /\ empties \in 0..2
  /\ stage \in {"ingest", "sweep"} => empties = 0
  /\ stage \in {"drained", "passed"} => empties = 2
  /\ \A w \in lingering : w \in Slots /\ pc[w] \in Limbo

LEMMA PollShapeStep ==
  ASSUME PollShape, [BurstNext]_burstVars
  PROVE  PollShape'
<1>1. CASE Poll
  BY <1>1 DEF Poll, PollDue, See, SeenEmpty, SeenBusy, vars, PollShape
<1>2. CASE PollError
  BY <1>2 DEF PollError, PollDue, See, SeenBusy, PollShape
<1>3. CASE BeginSweep \/ SweepFlush \/ BarrierExit \/ AssertCoverage \/ ReclaimNext
  BY <1>3 DEF BeginSweep, SweepFlush, AddJob, BarrierExit, AssertCoverage, ReclaimNext, Reclaim,
     barrier, seen, vars, PollShape
<1>4. CASE IngestBatch \/ ScriptFails \/ BarrierTimeout \/ UNCHANGED burstVars
  BY <1>4 DEF IngestBatch, AddJob, ScriptFails, BarrierTimeout, script, barrier, seen, vars,
     burstVars, PollShape
<1>5. CASE WorkerStep
  <2>1. UNCHANGED <<stage, empties>> /\ lingering' = {w \in lingering : pc'[w] \in Limbo}
    BY <1>5 DEF WorkerStep, Linger, barrier
  <2> QED BY <2>1 DEF PollShape
<1> QED BY <1>1, <1>2, <1>3, <1>4, <1>5 DEF BurstNext, ScriptProgress

LEMMA PollShapeHolds == BurstSafety => []PollShape
<1>1. BurstInit => PollShape
  BY DEF BurstInit, PollShape
<1>2. PollShape /\ [BurstNext]_burstVars => PollShape'
  BY PollShapeStep
<1> QED BY <1>1, <1>2, PTL DEF BurstSafety

\* Only a poll changes what history keeps of the last one.
LEMMA LimboKept ==
  ASSUME PollShape, empties = 2, [BurstNext]_burstVars
  PROVE  UNCHANGED <<empties, limbo, overdue>>
<1>1. ~Poll /\ ~PollError
  BY DEF Poll, PollError, PollDue
<1>2. CASE WorkerStep
  BY <1>2 DEF WorkerStep, Linger, barrier
<1> QED
  BY <1>1, <1>2 DEF BurstNext, ScriptProgress, IngestBatch, BeginSweep, SweepFlush, ReclaimNext,
     BarrierExit, AssertCoverage, ScriptFails, BarrierTimeout, script, barrier, seen, burstVars

-----------------------------------------------------------------------------
(* The refinement.                                                         *)

\* A reason for a row to stay uncovered does not go away between polls.
LEMMA ExcusesStay ==
  ASSUME TypeOK, QueueStep, limbo' = limbo
  PROVE  Excused \subseteq Excused'
<1>1. \A j \in Created : rowsOf'[j] = rowsOf[j] /\ j \in Created'
  <2>1. lastId' = lastId \/ lastId' = lastId + 1
    BY DEF QueueStep, SlotStep, SlotProgress, SlotFault, Pull, PullReplyLost, RejectPayload,
       WriteResults, WriteSwallowed, MissingJobData, HandlerRaises, Ack, LremError, LremReplyLost,
       LremAgain, TakeOff, CountAttempt, RequeueAgain, Requeue, RequeueLost, Crash, AddJob, Reclaim,
       vars
  <2>2. \A j \in Created : j \in Created'
    BY <2>1, CreatedInBound DEF Created
  <2> QED BY <2>2, RowsStay
<1>2. dropped \subseteq dropped' /\ swallowed \subseteq swallowed'
  BY DEF QueueStep, SlotStep, SlotProgress, SlotFault, Pull, PullReplyLost, RejectPayload,
     WriteResults, WriteSwallowed, MissingJobData, HandlerRaises, Ack, LremError, LremReplyLost,
     LremAgain, TakeOff, CountAttempt, RequeueAgain, Requeue, RequeueLost, Crash, AddJob, Reclaim,
     history, vars
<1>3. dead' = dead \/ \E i \in Jobs : dead' = Add(dead, i)
  <2>1. ASSUME NEW w \in Slots, SlotProgress(w) \/ SlotFault(w)
        PROVE  dead' = dead \/ (pc[w] # "idle" /\ dead' = Add(dead, job[w]))
    BY <2>1 DEF SlotProgress, SlotFault, Pull, PullReplyLost, RejectPayload, WriteResults,
       WriteSwallowed, MissingJobData, HandlerRaises, Ack, LremError, LremReplyLost, LremAgain,
       TakeOff, CountAttempt, RequeueAgain, Requeue, RequeueLost, Crash, Push, lists
  <2>2. CASE SlotStep
    BY <2>1, <2>2, HeldIsCreated DEF SlotStep
  <2>3. CASE ~SlotStep
    BY <2>3 DEF QueueStep, AddJob, Reclaim, lists, vars
  <2> QED BY <2>2, <2>3
<1>4. \A j \in Created : dead[j] > 0 => dead'[j] > 0
  <2> SUFFICES ASSUME NEW j \in Created, dead[j] > 0
               PROVE  dead'[j] > 0
    OBVIOUS
  <2>1. j \in Jobs /\ dead \in [Jobs -> Nat]
    BY CreatedInBound DEF TypeOK
  <2>2. ASSUME NEW i \in Jobs, dead' = Add(dead, i) PROVE dead'[j] = dead[j] \/ dead'[j] = dead[j] + 1
    BY <2>1, <2>2, AddFacts
  <2> QED BY <1>3, <2>1, <2>2
<1> QED BY <1>1, <1>2, <1>4 DEF Excused, GivenUp

\* Once the queue was seen empty, an uncovered row has a reason to be.
LEMMA EmptyMeansExcused ==
  ASSUME QueueInv, SweepInv, stage = "barrier", Poll, QueueEmpty
  PROVE  (Uncovered \subseteq Excused)'
<1>1. UNCHANGED <<vars>> /\ limbo' = {j \in Created : Requeueing(j)}
  BY DEF Poll, See
<1>2. ASSUME NEW r \in Uncovered
      PROVE  \E j \in Created :
               /\ r \in rowsOf[j]
               /\ \/ rowsOf[j] \intersect BadRows # {} \/ j \in swallowed
                  \/ dead[j] > 0 \/ j \in dropped \/ j \in limbo'
  <2>1. PICK j \in Created : r \in rowsOf[j]
    BY DEF SweepInv, Enqueued
  <2>2. CASE j \in acked
    BY <2>1, <2>2 DEF QueueInv, WrittenInv, AckedIsWritten, Written, Uncovered
  <2>3. CASE j \in dropped
    BY <2>1, <2>3
  <2>4. CASE Pending(j)
    <3>1. j \in Jobs /\ wait[j] = 0 /\ active[j] = 0
      BY CreatedInBound DEF QueueInv, SweepTypeOK, QueueEmpty
    <3>2. dead[j] > 0 \/ Requeueing(j)
      BY <2>4, <3>1 DEF QueueInv, NoJobVanishes
    <3> QED BY <1>1, <2>1, <3>2
  <2> QED BY <2>2, <2>3, <2>4 DEF Pending
<1>3. Uncovered \subseteq Rows
  BY DEF Uncovered
<1>4. Uncovered' = Uncovered
  BY <1>1 DEF vars, table, Uncovered, Covered
<1>5. UNCHANGED <<lastId, rowsOf, dead, dropped, swallowed>>
  BY <1>1 DEF vars, lists, history
<1> QED BY <1>2, <1>3, <1>4, <1>5 DEF Excused, GivenUp, Created

\* From the second empty poll on, each uncovered row has a reason to be.
ExcusedInv == stage \in {"barrier", "drained"} /\ empties = 2 => Uncovered \subseteq Excused

LEMMA ExcusedStep ==
  ASSUME QueueInv, SweepInv, PollShape, ExcusedInv, [BurstNext]_burstVars
  PROVE  ExcusedInv'
<1> SUFFICES ASSUME stage' \in {"barrier", "drained"}, empties' = 2
             PROVE  (Uncovered \subseteq Excused)'
  BY DEF ExcusedInv
<1>1. TypeOK /\ QueueStep
  BY BurstStepsQueue DEF QueueInv, SweepTypeOK
<1>2. CASE empties = 2
  <2>1. limbo' = limbo
    BY <1>2, LimboKept
  <2>2. stage \in {"barrier", "drained"}
    BY <1>2 DEF PollShape, BurstNext, ScriptProgress, IngestBatch, BeginSweep, SweepFlush, Poll,
       ReclaimNext, BarrierExit, AssertCoverage, ScriptFails, PollError, BarrierTimeout, WorkerStep,
       Linger, script, burstVars
  <2>3. Uncovered' \subseteq Uncovered
    BY <1>1, StepCovers DEF Uncovered
  <2> QED BY <1>1, <1>2, <2>1, <2>2, <2>3, ExcusesStay DEF ExcusedInv
<1>3. CASE empties # 2
  <2>1. Poll /\ QueueEmpty
    BY <1>3 DEF BurstNext, ScriptProgress, IngestBatch, BeginSweep, SweepFlush, Poll, SeenBusy,
       ReclaimNext, BarrierExit, AssertCoverage, ScriptFails, PollError, BarrierTimeout, WorkerStep,
       Linger, script, barrier, burstVars
  <2>2. stage = "barrier"
    BY <2>1 DEF Poll, PollDue
  <2> QED BY <2>1, <2>2, EmptyMeansExcused
<1> QED BY <1>2, <1>3

LEMMA ExcusedHolds == BurstSafety => []ExcusedInv
<1>1. BurstInit => ExcusedInv
  BY DEF BurstInit, ExcusedInv
<1>2. QueueInv /\ SweepInv /\ PollShape /\ ExcusedInv /\ [BurstNext]_burstVars => ExcusedInv'
  BY ExcusedStep
<1> QED BY <1>1, <1>2, BurstQueue, SweepHolds, PollShapeHolds, PTL DEF BurstSafety

\* What the gate sees as a whole changes only with the parts it sees.
LEMMA ViewKept ==
  ASSUME UNCHANGED gateView
  PROVE  UNCHANGED <<Covered, Excused>>
BY DEF gateView, table, Covered, Excused, GivenUp, Created

\* Every step of the burst is a step of the gate or leaves it alone.
LEMMA GateStep ==
  ASSUME QueueInv, PollShape, ExcusedInv, [BurstNext]_burstVars
  PROVE  [Gate!Next]_(Gate!gateVars)
<1> DEFINE verdict == IF stage \in {"passed", "failed"} THEN stage ELSE "open"
<1>1. Covered \subseteq Covered'
  BY BurstStepsQueue, StepCovers DEF QueueInv, SweepTypeOK
<1>2. Covered' \in SUBSET Rows /\ Excused' \in SUBSET Rows
  <2>1. TypeOK'
    BY BurstStepTypes DEF QueueInv, SweepTypeOK
  <2> QED BY <2>1 DEF TypeOK, Covered, Excused
<1>3. CASE verdict' = verdict
  BY <1>1, <1>2, <1>3 DEF Gate!Next, Gate!Work
<1>4. CASE AssertCoverage
  <2>1. verdict = "open" /\ Covered' = Covered /\ Excused' = Excused
    BY <1>4, AssertionFacts, ViewKept
  <2>2. CASE stage' = "passed"
    <3>1. Cardinality(Uncovered) <= Threshold
      BY <1>1, <1>4, <2>2, AssertionFacts, FewerUncovered, BurstAssumption
    <3>2. Uncovered \subseteq Excused
      BY <1>4, AssertionFacts DEF PollShape, ExcusedInv
    <3> QED BY <2>1, <2>2, <3>1, <3>2 DEF Gate!Next, Gate!Pass, Gate!Uncovered, Uncovered
  <2>3. CASE stage' = "failed"
    BY <2>1, <2>3 DEF Gate!Next, Gate!Fail
  <2> QED BY <1>4, <2>2, <2>3, AssertionFacts
<1>5. CASE stage' = "failed" /\ stage \notin {"passed", "failed"} /\ UNCHANGED gateView
  <2>1. verdict = "open" /\ verdict' = "failed" /\ Covered' = Covered /\ Excused' = Excused
    BY <1>5, ViewKept
  <2> QED BY <2>1 DEF Gate!Next, Gate!Fail
<1> QED BY <1>3, <1>4, <1>5, VerdictStep

\* The script, the queue and the workers together implement CoverageGate: a
\* candidate is let through only when each row still uncovered was refused,
\* swallowed, given up, or about to be pushed back when the barrier looked.
THEOREM BurstImplementsGate == BurstSafety => GateSpec
<1>1. BurstInit => Gate!Init
  BY DEF BurstInit, Init, Gate!Init, Covered, Excused, Created
<1>2. QueueInv /\ PollShape /\ ExcusedInv /\ [BurstNext]_burstVars => [Gate!Next]_(Gate!gateVars)
  BY GateStep
<1> QED BY <1>1, <1>2, BurstQueue, PollShapeHolds, ExcusedHolds, PTL DEF BurstSafety, GateSpec, Gate!Spec

-----------------------------------------------------------------------------
(* The barrier.                                                            *)

NoReclaim == \A j \in Jobs : reclaimed[j] = 0

\* Without a reclaim the queue of the burst makes steps of NlpQueue.
LEMMA WithoutReclaim ==
  ASSUME TypeOK, QueueStep, NoReclaim'
  PROVE  /\ NoReclaim
         /\ \/ [Next]_vars /\ (SlotStep \/ (\E batch \in SUBSET Rows : AddJob(batch)) \/ UNCHANGED vars)
            \/ Fault /\ UNCHANGED <<lastId, rowsOf, lists, pc, job, table, history>>
<1>t. /\ reclaimed \in [Jobs -> Nat] /\ MaxReclaims \in Nat /\ MaxReclaims > 0
      /\ \A j \in Created : j \in Jobs
  BY CreatedInBound, QueueAssumption, BurstAssumption DEF TypeOK
<1>1. ASSUME NEW i \in Created, Reclaim(i) PROVE FALSE
  <2>1. i \in Jobs /\ reclaimed'[i] = IF reclaimed[i] < MaxReclaims THEN reclaimed[i] + 1 ELSE reclaimed[i]
    BY <1>1, <1>t DEF Reclaim
  <2>2. reclaimed[i] \in Nat /\ reclaimed'[i] = 0
    BY <1>t, <2>1 DEF NoReclaim
  <2> QED BY <1>t, <2>1, <2>2
<1>2. CASE SlotStep
  <2>1. UNCHANGED reclaimed
    BY <1>2, SlotHistory DEF SlotStep
  <2> QED BY <1>2, <2>1 DEF NoReclaim, Next
<1>3. CASE \E batch \in SUBSET Rows : AddJob(batch)
  <2>1. UNCHANGED reclaimed
    BY <1>3 DEF AddJob, history
  <2> QED BY <1>3, <2>1 DEF NoReclaim, Next
<1>4. CASE Fault /\ UNCHANGED <<lastId, rowsOf, lists, pc, job, table, history>>
  BY <1>4 DEF history, NoReclaim
<1>5. CASE UNCHANGED vars
  BY <1>5 DEF vars, history, NoReclaim
<1> QED BY <1>1, <1>2, <1>3, <1>4, <1>5 DEF QueueStep

\* No command was executed twice in the window between lrem and lpush.
NoAgain == \A j \in Jobs : again[j] = 0

\* A batch that a slot is busy with is on active, or done: the lrem of a batch
\* that went well may have been executed before its reply came.
OnActive ==
  \A w \in Slots : pc[w] \notin {"idle"} \union Limbo => active[job[w]] > 0 \/ job[w] \in acked

\* Each failure costs a fault.
Failing == {w \in Slots : pc[w] \in {"failed"} \union Limbo}
FailureIsFault == faults = 0 => Failing = {}

\* Nothing is left to do but for the jobs of S and those acknowledged.
Settled(S) ==
  /\ \A w \in Slots : job[w] \in {NoJob} \union acked \union S
  /\ \A j \in Created : wait[j] > 0 \/ active[j] > 0 => j \in acked \union S

\* The queue was seen empty once: a slot whose batch has failed was already
\* on its way from lrem to lpush then, and still is.
SeenOnce ==
  /\ faults = 0 => Settled({})
  /\ \A w \in Failing : w \in lingering \/ job[w] \in acked

\* With at most one fault and no reclaim.
Calm ==
  /\ NoAgain /\ OnActive /\ FailureIsFault
  /\ empties = 1 => SeenOnce
  /\ empties = 2 => Settled(overdue)

DrainInv == NoReclaim => RetryInv /\ (faults <= 1 => Calm)

LEMMA QueueKept ==
  ASSUME TypeOK, QueueStep, DrainInv, NoReclaim'
  PROVE  NoReclaim /\ RetryInv /\ RetryInv'
<1>1. NoReclaim /\ RetryInv
  BY WithoutReclaim DEF DrainInv
<1>2. CASE [Next]_vars
  BY <1>1, <1>2, RetryStep
<1>3. CASE UNCHANGED <<lastId, rowsOf, lists, pc, job, table, history>>
  BY <1>1, <1>3, StepType DEF RetryInv, Fresh, Counted, BoundedRetries, Created, Tries, Holders, Excess,
     lists, history
<1> QED BY <1>1, <1>2, <1>3, WithoutReclaim

\* What a slot does moves no job into the queue but its own or a waiting one,
\* and forgets no acknowledgement.
LEMMA SlotMoves ==
  ASSUME TypeOK, NEW w \in Slots, SlotProgress(w) \/ SlotFault(w)
  PROVE  /\ lastId' = lastId /\ acked \subseteq acked'
         /\ \A v \in Slots \ {w} : pc'[v] = pc[v] /\ job'[v] = job[v]
         /\ job'[w] \in {NoJob, job[w]} \/ (job'[w] \in Created /\ wait[job'[w]] > 0)
         /\ pc[w] # "idle" /\ pc'[w] # "idle" => job'[w] = job[w]
         /\ pc[w] \in Limbo => pc'[w] \in {"idle"} \union Limbo
         /\ pc[w] = "idle" => pc'[w] \in {"idle", "handling"}
<1>t. pc \in [Slots -> Places] /\ job \in [Slots -> Created \union {NoJob}]
  BY DEF TypeOK
<1>1. CASE Pull(w) \/ PullReplyLost(w)
  BY <1>1, <1>t DEF Pull, PullReplyLost, history, Limbo
<1>2. CASE RejectPayload(w) \/ WriteResults(w) \/ MissingJobData(w) \/ WriteSwallowed(w) \/ HandlerRaises(w)
  BY <1>2, <1>t DEF RejectPayload, WriteResults, MissingJobData, WriteSwallowed, HandlerRaises, Goto,
     history, Limbo
<1>3. CASE Ack(w) \/ LremError(w) \/ LremReplyLost(w) \/ Crash(w)
  BY <1>3, <1>t DEF Ack, LremError, LremReplyLost, Crash, Release, history, Limbo
<1>4. CASE LremAgain(w) \/ TakeOff(w) \/ CountAttempt(w)
  BY <1>4, <1>t DEF LremAgain, TakeOff, CountAttempt, Goto, history, Limbo
<1>5. CASE RequeueAgain(w) \/ Requeue(w) \/ RequeueLost(w)
  BY <1>5, <1>t DEF RequeueAgain, Requeue, RequeueLost, Push, Release, history, Limbo
<1> QED BY <1>1, <1>2, <1>3, <1>4, <1>5 DEF SlotProgress, SlotFault

\* An id comes onto wait or active from wait or from the slot that has it.
LEMMA ListsMove ==
  ASSUME TypeOK, NEW w \in Slots, SlotProgress(w) \/ SlotFault(w), NEW j \in Created,
         wait'[j] > 0 \/ active'[j] > 0
  PROVE  wait[j] > 0 \/ active[j] > 0 \/ (pc[w] # "idle" /\ job[w] = j)
<1>t. /\ wait \in [Jobs -> Nat] /\ active \in [Jobs -> Nat] /\ j \in Jobs
      /\ \A i \in Created : i \in Jobs
  BY CreatedInBound DEF TypeOK
<1>1. CASE Pull(w) \/ PullReplyLost(w)
  <2>1. PICK i \in Jobs : wait[i] > 0 /\ wait' = Lrem(wait, i) /\ active' = Add(active, i)
    BY <1>1, <1>t DEF Pull, PullReplyLost
  <2>2. CASE i = j
    BY <2>1, <2>2
  <2>3. CASE i # j
    BY <1>t, <2>1, <2>3, AddFacts, LremFacts
  <2> QED BY <2>2, <2>3
<1>2. CASE UNCHANGED <<wait, active>>
  BY <1>2
<1>3. CASE pc[w] # "idle" /\ UNCHANGED wait /\ active' = Lrem(active, job[w])
  BY <1>3, <1>t, HeldIsCreated, LremFacts
<1>4. CASE pc[w] # "idle" /\ UNCHANGED active /\ wait' = Add(wait, job[w])
  BY <1>4, <1>t, HeldIsCreated, AddFacts
<1> QED
  BY <1>1, <1>2, <1>3, <1>4 DEF SlotProgress, SlotFault, RejectPayload, WriteResults,
     WriteSwallowed, MissingJobData, HandlerRaises, Ack, LremError, LremReplyLost, LremAgain, TakeOff,
     CountAttempt, RequeueAgain, Requeue, RequeueLost, Crash, Push, lists

\* So what is settled stays settled, whatever fails.
LEMMA SettledStays ==
  ASSUME TypeOK, NEW S, Settled(S), NEW w \in Slots, SlotProgress(w) \/ SlotFault(w)
  PROVE  /\ \A v \in Slots : job'[v] \in {NoJob} \union acked' \union S
         /\ \A j \in Created : wait'[j] > 0 \/ active'[j] > 0 => j \in acked' \union S
<1>1. ASSUME NEW v \in Slots
      PROVE  job'[v] \in {NoJob} \union acked' \union S
  BY SlotMoves DEF Settled
<1>2. ASSUME NEW j \in Created, wait'[j] > 0 \/ active'[j] > 0
      PROVE  j \in acked' \union S
  <2>1. CASE wait[j] > 0 \/ active[j] > 0
    BY <2>1, SlotMoves DEF Settled
  <2>2. CASE pc[w] # "idle" /\ job[w] = j
    <3>1. j # NoJob
      BY <2>2, HeldIsCreated DEF Jobs, NoJob
    <3> QED BY <2>2, <3>1, SlotMoves DEF Settled
  <2> QED BY <1>2, <2>1, <2>2, ListsMove
<1> QED BY <1>1, <1>2

LEMMA SlotKeepsActive ==
  ASSUME RetryInv, NoReclaim, NoAgain, OnActive, NEW w \in Slots, SlotProgress(w) \/ SlotFault(w)
  PROVE  OnActive'
<1>t. /\ TypeOK /\ active \in [Jobs -> Nat]
      /\ pc \in [Slots -> Places] /\ job \in [Slots -> Created \union {NoJob}]
      /\ \A i \in Created : i \in Jobs
  BY CreatedInBound DEF RetryInv, TypeOK
<1>h. ASSUME NEW v \in Slots, pc[v] # "idle"
      PROVE  job[v] \in Created /\ job[v] \in Jobs
  BY <1>t, <1>h, HeldIsCreated
<1>u. ASSUME NEW u \in Slots, NEW v \in Slots, pc[u] \notin {"idle", "bury"}, pc[v] \notin {"idle", "bury"},
             job[u] = job[v]
      PROVE  u = v
  BY <1>h, <1>u, SoleHolder DEF NoReclaim, NoAgain
<1> SUFFICES ASSUME NEW v \in Slots, pc'[v] \notin {"idle"} \union Limbo
             PROVE  active'[job'[v]] > 0 \/ job'[v] \in acked'
  BY DEF OnActive
<1>m. /\ acked \subseteq acked'
      /\ v # w => pc'[v] = pc[v] /\ job'[v] = job[v]
      /\ pc[v] # "idle" => job'[v] = job[v] /\ pc[v] \notin Limbo
  BY <1>t, SlotMoves
\* A slot that was busy before, and whose id was not taken off.
<1>1. ASSUME pc[v] # "idle", \A k \in Jobs : k = job[v] /\ active[k] > 0 => active'[k] > 0
      PROVE  active'[job'[v]] > 0 \/ job'[v] \in acked'
  <2>1. active[job[v]] > 0 \/ job[v] \in acked
    BY <1>1, <1>m DEF OnActive
  <2> QED BY <1>1, <1>h, <1>m, <2>1
<1>2. CASE Pull(w)
  <2>1. PICK i \in Jobs : /\ pc[w] = "idle" /\ active' = Add(active, i)
                          /\ job' = [job EXCEPT ![w] = i]
    BY <1>2, <1>t DEF Pull
  <2>2. \A k \in Jobs : active'[k] = active[k] \/ active'[k] = active[k] + 1
    BY <1>t, <2>1, AddFacts, ZenonT(60)
  <2>3. CASE v = w
    <3>1. job'[v] = i /\ active'[i] = active[i] + 1 /\ active[i] \in Nat
      BY <1>t, <2>1, <2>3, AddFacts
    <3> QED BY <3>1
  <2>4. CASE v # w
    <3>1. pc[v] # "idle"
      BY <1>m, <2>4
    <3> QED BY <1>1, <1>t, <2>2, <3>1
  <2> QED BY <2>3, <2>4
<1>3. CASE PullReplyLost(w)
  <2>1. PICK i \in Jobs : active' = Add(active, i) /\ UNCHANGED pc
    BY <1>3, <1>t DEF PullReplyLost
  <2>2. \A k \in Jobs : active'[k] = active[k] \/ active'[k] = active[k] + 1
    BY <1>t, <2>1, AddFacts, ZenonT(60)
  <2>3. pc[v] # "idle"
    BY <2>1
  <2> QED BY <1>1, <1>t, <2>2, <2>3
<1>4. CASE pc[w] # "idle" /\ active' = active
  <2>1. pc[v] # "idle"
    BY <1>4, <1>m
  <2> QED BY <1>1, <1>4, <2>1
<1>5. CASE Ack(w) \/ LremReplyLost(w) \/ TakeOff(w) \/ LremAgain(w)
  <2>1. pc[w] \notin {"idle", "bury"} /\ active' = Lrem(active, job[w])
    BY <1>5 DEF Ack, LremReplyLost, TakeOff, LremAgain
  <2>2. pc[v] # "idle"
    BY <1>m, <2>1
  <2>3. CASE v # w
    <3>1. pc[v] # "bury"
      BY <1>m, <2>2 DEF Limbo
    <3>2. job[v] # job[w]
      BY <1>u, <2>1, <2>2, <2>3, <3>1
    <3>3. \A k \in Jobs : k = job[v] => active'[k] = active[k]
      BY <1>t, <1>h, <2>1, <3>2, LremFacts
    <3> QED BY <1>1, <2>2, <3>3
  <2>4. CASE v = w
    <3>1. job[w] \in acked'
      BY <1>5, <1>t, <2>4 DEF Ack, LremReplyLost, TakeOff, LremAgain, Release, Goto, Limbo
    <3> QED BY <1>m, <2>1, <2>4, <3>1
  <2> QED BY <2>3, <2>4
<1> QED
  BY <1>2, <1>3, <1>4, <1>5 DEF SlotProgress, SlotFault, RejectPayload, WriteResults,
     WriteSwallowed, MissingJobData, HandlerRaises, LremError, CountAttempt, RequeueAgain, Requeue,
     RequeueLost, Crash, Push, lists, Limbo

\* A slot begins to fail at the price of a fault, and repeats a push at the
\* price of another.
LEMMA FailureCosts ==
  ASSUME TypeOK, NEW w \in Slots, SlotProgress(w) \/ SlotFault(w)
  PROVE  /\ faults' \in {faults, faults + 1}
         /\ \/ Failing' \subseteq Failing
            \/ faults' = faults + 1 /\ Failing' \subseteq Failing \union {w} /\ HandlerRaises(w)
         /\ RequeueAgain(w) => w \in Failing /\ faults' = faults + 1
<1>t. pc \in [Slots -> Places]
  BY DEF TypeOK
<1>1. CASE HandlerRaises(w)
  BY <1>1, <1>t DEF HandlerRaises, RequeueAgain, Push, Fault, Goto, Failing
<1>2. CASE Pull(w) \/ PullReplyLost(w) \/ RejectPayload(w) \/ WriteResults(w) \/ MissingJobData(w)
           \/ WriteSwallowed(w)
  BY <1>2, <1>t DEF Pull, PullReplyLost, RejectPayload, WriteResults, MissingJobData, WriteSwallowed,
     RequeueAgain, Push, Fault, Goto, Failing, Limbo
<1>3. CASE Ack(w) \/ LremError(w) \/ LremReplyLost(w) \/ Crash(w)
  BY <1>3, <1>t DEF Ack, LremError, LremReplyLost, Crash, RequeueAgain, Push, Fault, Release, Failing,
     Limbo
<1>4. CASE LremAgain(w) \/ TakeOff(w) \/ CountAttempt(w)
  <2>1. Failing' \subseteq Failing
    BY <1>4, <1>t DEF LremAgain, TakeOff, CountAttempt, Goto, Failing, Limbo
  <2>2. faults' \in {faults, faults + 1}
    BY <1>4 DEF LremAgain, TakeOff, CountAttempt, Fault
  <2>3. RequeueAgain(w) => w \in Failing /\ faults' = faults + 1
    BY DEF RequeueAgain, Push, Fault, Failing, Limbo
  <2> QED BY <2>1, <2>2, <2>3
<1>5. CASE RequeueAgain(w)
  BY <1>5 DEF RequeueAgain, Push, Fault, Failing, Limbo
<1>6. CASE Requeue(w) \/ RequeueLost(w)
  <2>1. Failing' \subseteq Failing
    BY <1>6, <1>t DEF Requeue, RequeueLost, Release, Failing, Limbo
  <2>2. faults' \in {faults, faults + 1}
    BY <1>6 DEF Requeue, RequeueLost, Fault
  <2>3. RequeueAgain(w) => w \in Failing /\ faults' = faults + 1
    BY DEF RequeueAgain, Push, Fault, Failing, Limbo
  <2> QED BY <2>1, <2>2, <2>3
<1> QED BY <1>1, <1>2, <1>3, <1>4, <1>5, <1>6 DEF SlotProgress, SlotFault

\* A step of the workers keeps what is known while all is calm.
LEMMA WorkersStayCalm ==
  ASSUME RetryInv, NoReclaim, PollShape, Calm, faults <= 1, faults' <= 1, WorkerStep
  PROVE  Calm'
<1>t. /\ TypeOK /\ faults \in Nat /\ again \in [Jobs -> Nat]
      /\ pc \in [Slots -> Places]
  BY QueueAssumption DEF RetryInv, TypeOK
<1>1. PICK w \in Slots : SlotProgress(w) \/ SlotFault(w)
  BY DEF WorkerStep, SlotStep
<1>2. UNCHANGED <<empties, overdue>> /\ lingering' = {v \in lingering : pc'[v] \in Limbo}
  BY DEF WorkerStep, Linger, barrier
<1>3. /\ faults' \in {faults, faults + 1}
      /\ \/ Failing' \subseteq Failing
         \/ faults' = faults + 1 /\ Failing' \subseteq Failing \union {w} /\ HandlerRaises(w)
      /\ RequeueAgain(w) => w \in Failing /\ faults' = faults + 1
  BY <1>t, <1>1, FailureCosts
<1>4. FailureIsFault'
  BY <1>t, <1>3 DEF Calm, FailureIsFault
<1>5. ~RequeueAgain(w)
  BY <1>t, <1>3 DEF Calm, FailureIsFault
<1>6. NoAgain'
  BY <1>t, <1>1, <1>5, SlotHistory DEF Calm, NoAgain
<1>7. OnActive'
  BY <1>1, SlotKeepsActive DEF Calm
<1>8. Created' = Created
  BY <1>t, <1>1, SlotMoves DEF Created
<1>9. ASSUME empties' = 2 PROVE Settled(overdue)'
  <2>1. Settled(overdue)
    BY <1>2, <1>9 DEF Calm
  <2> QED BY <1>t, <1>1, <1>2, <1>8, <2>1, SettledStays DEF Settled
<1>10. ASSUME empties' = 1 PROVE SeenOnce'
  <2>1. SeenOnce
    BY <1>2, <1>10 DEF Calm
  <2>2. ASSUME faults' = 0 PROVE Settled({})'
    <3>1. faults = 0
      BY <1>t, <1>3, <2>2
    <3> QED BY <1>t, <1>1, <1>8, <2>1, <3>1, SettledStays DEF SeenOnce, Settled
  <2>3. ASSUME NEW v \in Failing' PROVE v \in lingering' \/ job'[v] \in acked'
    <3>1. v \in Slots /\ pc'[v] \in {"failed"} \union Limbo /\ pc'[v] # "idle"
      BY <2>3 DEF Failing, Limbo
    <3>2. CASE v \in Failing
      <4>1. pc[v] # "idle"
        BY <3>2 DEF Failing, Limbo
      <4>2. acked \subseteq acked' /\ job'[v] = job[v] /\ (pc[v] \in Limbo => pc'[v] \in Limbo)
        BY <1>t, <1>1, <3>1, <4>1, SlotMoves
      <4>3. v \in lingering \/ job[v] \in acked
        BY <2>1, <3>2 DEF SeenOnce
      <4> QED BY <1>2, <4>2, <4>3 DEF PollShape
    <3>3. CASE v \notin Failing
      <4>1. v = w /\ faults = 0 /\ HandlerRaises(w)
        BY <1>t, <1>3, <2>3, <3>3
      <4>2. pc[w] # "idle" /\ job'[w] = job[w] /\ acked' = acked
        BY <4>1 DEF HandlerRaises, Goto, history
      <4>3. job[w] # NoJob
        BY <1>t, <4>2 DEF TypeOK
      <4> QED BY <2>1, <4>1, <4>2, <4>3 DEF SeenOnce, Settled
    <3> QED BY <3>2, <3>3
  <2> QED BY <2>2, <2>3 DEF SeenOnce
<1> QED BY <1>4, <1>6, <1>7, <1>9, <1>10 DEF Calm

\* A poll that sees the queue empty sees each slot idle, done with its batch,
\* or on its way from lrem to lpush; at the second one it was there before.
LEMMA PollIsRight ==
  ASSUME TypeOK, Calm, PollShape, Poll, QueueEmpty
  PROVE  /\ empties' = 1 => SeenOnce'
         /\ empties' = 2 => Settled(overdue)'
<1>1. /\ empties' = empties + 1 /\ lingering' = {w \in Slots : pc[w] \in Limbo}
      /\ overdue' = {job[w] : w \in lingering}
      /\ empties \in {0, 1} /\ UNCHANGED vars
  BY DEF Poll, PollDue, See, SeenEmpty, PollShape
<1>2. UNCHANGED <<lastId, wait, active, pc, job, acked, faults>>
  BY <1>1 DEF vars, lists, history
<1>3. UNCHANGED <<Failing, Created>>
  BY <1>2 DEF Failing, Created
<1>4. \A w \in Slots : pc[w] = "idle" => job[w] = NoJob
  BY DEF TypeOK
<1>5. \A w \in Slots : pc[w] \notin {"idle"} \union Limbo => job[w] \in acked
  <2> SUFFICES ASSUME NEW w \in Slots, pc[w] \notin {"idle"} \union Limbo
               PROVE  job[w] \in acked
    OBVIOUS
  <2>1. job[w] \in Created
    BY HeldIsCreated
  <2>2. active[job[w]] = 0
    BY <2>1 DEF QueueEmpty
  <2> QED BY <2>2 DEF Calm, OnActive
<1>6. \A j \in Created : ~(wait[j] > 0) /\ ~(active[j] > 0)
  BY DEF QueueEmpty
<1>7. CASE empties = 0
  <2>1. \A w \in Failing : w \in lingering' \/ job[w] \in acked
    BY <1>1, <1>5 DEF Failing, Limbo
  <2>2. faults = 0 => Settled({})
    BY <1>4, <1>5, <1>6 DEF Calm, FailureIsFault, Failing, Settled
  <2>3. SeenOnce'
    BY <1>2, <1>3, <2>1, <2>2 DEF SeenOnce, Settled
  <2> QED BY <1>1, <1>7, <2>3
<1>8. CASE empties = 1
  <2>1. SeenOnce
    BY <1>8 DEF Calm
  <2>2. \A w \in Slots : pc[w] \in Limbo => job[w] \in acked \union overdue'
    BY <1>1, <2>1 DEF SeenOnce, Failing
  <2>3. Settled(overdue)'
    BY <1>2, <1>3, <1>4, <1>5, <1>6, <2>2 DEF Settled
  <2> QED BY <1>1, <1>8, <2>3
<1> QED BY <1>1, <1>7, <1>8

LEMMA DrainStep ==
  ASSUME SweepTypeOK, PollShape, DrainInv, [BurstNext]_burstVars
  PROVE  DrainInv'
<1> SUFFICES ASSUME NoReclaim'
             PROVE  RetryInv' /\ (faults' <= 1 => Calm')
  BY DEF DrainInv
<1>1. /\ TypeOK /\ TypeOK' /\ QueueStep
      /\ NoReclaim /\ RetryInv /\ RetryInv'
  BY BurstStepsQueue, BurstStepTypes, QueueKept DEF SweepTypeOK
<1> SUFFICES ASSUME faults' <= 1
             PROVE  Calm'
  BY <1>1
<1>t. faults \in Nat /\ faults' \in Nat
  BY <1>1, QueueAssumption DEF TypeOK
<1>c. faults' >= faults /\ (faults' = faults + 1 => faults = 0) => faults <= 1 /\ Calm
  BY <1>1, <1>t DEF DrainInv
<1>2. CASE WorkerStep
  <2>1. PICK w \in Slots : SlotProgress(w) \/ SlotFault(w)
    BY <1>2 DEF WorkerStep, SlotStep
  <2>2. faults' \in {faults, faults + 1}
    BY <1>1, <2>1, FailureCosts
  <2>3. faults <= 1 /\ Calm
    BY <1>c, <1>t, <2>2
  <2> QED BY <1>1, <1>2, <2>3, WorkersStayCalm
<1>3. CASE IngestBatch \/ SweepFlush
  <2>1. /\ stage \in {"ingest", "sweep"} /\ UNCHANGED <<empties, active, pc, job, acked, again, faults>>
    BY <1>3 DEF IngestBatch, SweepFlush, AddJob, script, barrier, history
  <2>2. empties' = 0 /\ Calm
    BY <1>c, <1>t, <2>1 DEF PollShape
  <2> QED BY <2>1, <2>2 DEF Calm, NoAgain, OnActive, FailureIsFault, Failing
<1>4. CASE Poll
  <2>1. UNCHANGED <<active, pc, job, acked, again, faults>>
    BY <1>4 DEF Poll, vars, lists, history
  <2>2. Calm
    BY <1>c, <1>t, <2>1
  <2>3. NoAgain' /\ OnActive' /\ FailureIsFault'
    BY <2>1, <2>2 DEF Calm, NoAgain, OnActive, FailureIsFault, Failing
  <2>4. CASE QueueEmpty
    BY <1>1, <1>4, <2>2, <2>3, <2>4, PollIsRight DEF Calm
  <2>5. CASE ~QueueEmpty
    <3>1. empties' = 0
      BY <1>4, <2>5 DEF Poll, SeenBusy
    <3> QED BY <2>3, <3>1 DEF Calm
  <2> QED BY <2>4, <2>5
<1>5. CASE PollError
  <2>1. /\ empties' = 0 /\ UNCHANGED <<active, pc, job, acked, again>> /\ faults' = faults + 1
    BY <1>5 DEF PollError, SeenBusy, Fault, lists, history
  <2>2. Calm /\ faults' # 0
    BY <1>c, <1>t, <2>1
  <2> QED BY <2>1, <2>2 DEF Calm, NoAgain, OnActive, FailureIsFault
<1>6. CASE ScriptFails
  <2>1. /\ UNCHANGED <<empties, lingering, overdue, lastId, wait, active, pc, job, acked, again>>
        /\ faults' = faults + 1
    BY <1>6 DEF ScriptFails, Fault, lists, history, barrier, seen
  <2>2. Calm /\ faults' # 0
    BY <1>c, <1>t, <2>1
  <2> QED
    BY <2>1, <2>2 DEF Calm, NoAgain, OnActive, FailureIsFault, Failing, SeenOnce, Settled, Created
\* What is left changes nothing that Calm speaks of.
<1>7. ASSUME UNCHANGED <<vars, empties, lingering, overdue>>
      PROVE  Calm'
  <2>1. Calm
    BY <1>c, <1>t, <1>7 DEF vars
  <2> QED
    BY <1>7, <2>1 DEF Calm, NoAgain, OnActive, FailureIsFault, Failing, SeenOnce, Settled, Created,
       vars, lists, history
<1>8. CASE ReclaimNext
  <2>1. UNCHANGED <<empties, lingering, overdue>>
    BY <1>8 DEF ReclaimNext, seen
  <2>2. ASSUME NEW j \in Created, Reclaim(j) PROVE FALSE
    <3>1. j \in Jobs /\ MaxReclaims \in Nat /\ reclaimed \in [Jobs -> Nat]
      BY <1>1, CreatedInBound, QueueAssumption DEF TypeOK
    <3>2. reclaimed[j] = 0 /\ reclaimed'[j] = 0
      BY <1>1, <3>1 DEF NoReclaim
    <3> QED BY <2>2, <3>1, <3>2, BurstAssumption DEF Reclaim
  <2>3. UNCHANGED vars
    BY <1>8, <2>2 DEF ReclaimNext
  <2> QED BY <1>7, <2>1, <2>3
<1>9. CASE BeginSweep \/ BarrierExit \/ AssertCoverage \/ BarrierTimeout \/ UNCHANGED burstVars
  <2>1. UNCHANGED <<vars, empties, lingering, overdue>>
    BY <1>9 DEF BeginSweep, BarrierExit, AssertCoverage, BarrierTimeout, burstVars, script, barrier, seen
  <2> QED BY <1>7, <2>1
<1> QED
  BY <1>2, <1>3, <1>4, <1>5, <1>6, <1>8, <1>9 DEF BurstNext, ScriptProgress

\* What the barrier is for: unless it reclaimed something, or two faults met,
\* the workers are done when it lets the script go on, and each job has been
\* acknowledged, dropped or is dead -- but for a batch that needed longer for
\* the way from lrem to lpush than the barrier from one poll to the next.
THEOREM DrainIsTrue == BurstSafety => []DrainedMeansWrittenBack
<1>1. BurstInit => DrainInv
  <2> SUFFICES ASSUME BurstInit PROVE DrainInv
    OBVIOUS
  <2>1. RetryInv /\ empties = 0
    BY InitRetry DEF BurstInit
  <2>2. \A w \in Slots : pc[w] = "idle"
    BY DEF BurstInit, Init
  <2>3. NoAgain /\ OnActive /\ FailureIsFault
    BY <2>2 DEF BurstInit, Init, NoAgain, OnActive, FailureIsFault, Failing, Limbo
  <2> QED BY <2>1, <2>3 DEF DrainInv, Calm
<1>2. SweepTypeOK /\ PollShape /\ DrainInv /\ [BurstNext]_burstVars => DrainInv'
  BY DrainStep
<1>3. QueueInv /\ PollShape /\ DrainInv => DrainedMeansWrittenBack
  <2> SUFFICES ASSUME QueueInv, PollShape, DrainInv, stage \in {"drained", "passed"},
                      faults <= 1, NoReclaim
               PROVE  /\ \A w \in Slots : job[w] \in {NoJob} \union acked \union overdue
                      /\ \A j \in Created : Pending(j) => dead[j] > 0 \/ j \in overdue
    BY DEF DrainedMeansWrittenBack, NoReclaim
  <2>1. Settled(overdue)
    BY DEF PollShape, DrainInv, Calm
  <2>2. ASSUME NEW j \in Created, Pending(j) PROVE dead[j] > 0 \/ j \in overdue
    <3>1. j \in Jobs /\ j # NoJob /\ j \notin acked
      BY <2>2, CreatedInBound DEF QueueInv, SweepTypeOK, Jobs, NoJob, Pending
    <3>2. CASE wait[j] > 0 \/ active[j] > 0
      BY <2>1, <3>1, <3>2 DEF Settled
    <3>3. CASE Requeueing(j)
      BY <2>1, <3>1, <3>3 DEF Settled, Requeueing
    <3> QED BY <2>2, <3>1, <3>2, <3>3 DEF QueueInv, NoJobVanishes
  <2> QED BY <2>1, <2>2 DEF Settled
<1> QED BY <1>1, <1>2, <1>3, BurstTypes, BurstQueue, PollShapeHolds, PTL DEF BurstSafety
=============================================================================
