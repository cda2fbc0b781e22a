------------------------------ MODULE NlpQueue ------------------------------
(***************************************************************************)
(* The nlp-tasks queue and the NLP workers that consume it                 *)
(* (packages/nlp-engine/src/lca_nlp_engine/worker.py).                     *)
(*                                                                         *)
(* The queue is three Redis lists of job ids: wait, active (the processing *)
(* list of the reliable-queue pattern) and dead.  A consumer slot moves an *)
(* id from wait to active with one brpoplpush, handles the batch, removes  *)
(* the id from active and, on failure, pushes it back on wait or on dead.  *)
(* Every Redis command and the commit of _write_results is a step of its   *)
(* own, so a crash, a Redis error or another slot can come between any two.*)
(* The client sends a command again when no reply came in time             *)
(* (retry_on_timeout): it may be executed more than once.                  *)
(*                                                                         *)
(* The lists are bags (how often an id is on a list): no property depends  *)
(* on the order of ids.  A row of lca_records is "covered" when it has a   *)
(* soc_code or a quarantine row; which rows the classifier finds           *)
(* unconvincing (LowRows) and which fail validation (BadRows) is fixed.    *)
(***************************************************************************)
EXTENDS Naturals, FiniteSets

CONSTANTS
  Slots,        \* consumer slots: one per process_one coroutine of any replica
  Rows,         \* rows of lca_records, named by their _nlp_id
  LowRows,      \* rows predicted below the stage-2 threshold: quarantined
  BadRows,      \* rows NlpJobPayload rejects: their whole batch is refused
  MaxJobs,      \* bound: job ids handed out
  MaxAttempts,  \* MAX_ATTEMPTS of worker.py (5 in the code)
  MaxFaults,    \* bound: crashes, Redis errors, lost replies, database errors
  MaxReclaims   \* bound: times the barrier moves an id from active to wait

ASSUME QueueAssumption ==
  /\ IsFiniteSet(Slots)
  /\ IsFiniteSet(Rows)
  /\ LowRows \subseteq Rows
  /\ BadRows \subseteq Rows
  /\ MaxJobs \in Nat
  /\ MaxAttempts \in Nat
  /\ MaxFaults \in Nat
  /\ MaxReclaims \in Nat

Jobs == 1..MaxJobs
NoJob == 0

VARIABLES
  lastId,     \* ids 1..lastId have been handed out by Queue.add
  rowsOf,     \* job data: the rows of the batch
  wait,       \* bull:nlp-tasks:wait
  active,     \* bull:nlp-tasks:active
  dead,       \* bull:nlp-tasks:dead
  attempts,   \* the "attempts" field of the job's hash
  pc,         \* where each slot is in process_one
  job,        \* the job_id each slot holds
  soc,        \* rows whose data has a soc_code
  quar,       \* number of staging.quarantine_records rows of each row
  acked,      \* history: jobs some slot finished and acknowledged
  dropped,    \* history: jobs taken off active and never pushed back
  swallowed,  \* history: jobs that went on although nothing was written
  again,      \* history: how often hincrby or lpush was executed once more
  reclaimed,  \* history: how often the barrier moved an id back to wait
  faults      \* faults so far

lists   == <<wait, active, dead, attempts>>
table   == <<soc, quar>>
history == <<acked, dropped, swallowed, again, reclaimed>>
vars == <<lastId, rowsOf, lists, pc, job, table, history, faults>>

-----------------------------------------------------------------------------
Created == 1..lastId
Covered == soc \union {r \in Rows : quar[r] > 0}

Add(bag, j) == [bag EXCEPT ![j] = @ + 1]
\* LREM list 1 id: removes one occurrence, or none when there is none.
Lrem(bag, j) == [bag EXCEPT ![j] = IF @ > 0 THEN @ - 1 ELSE 0]

\* A slot holds j from brpoplpush until it has acknowledged or requeued it.
Holders(j) == {w \in Slots : job[w] = j}
\* A slot between the lrem and the lpush of a batch that failed: before the
\* reply to lrem, before hincrby, before lpush on wait, before lpush on dead.
Limbo == {"retake", "requeue", "retry", "bury"}
Requeueing(j) == \E w \in Slots : pc[w] \in Limbo /\ job[w] = j

Fault == faults < MaxFaults /\ faults' = faults + 1
Release(w) == /\ pc'  = [pc  EXCEPT ![w] = "idle"]
              /\ job' = [job EXCEPT ![w] = NoJob]
Goto(w, to) == pc' = [pc EXCEPT ![w] = to] /\ UNCHANGED job

Init ==
  /\ lastId = 0
  /\ rowsOf = [j \in Jobs |-> {}]
  /\ wait = [j \in Jobs |-> 0]
  /\ active = [j \in Jobs |-> 0]
  /\ dead = [j \in Jobs |-> 0]
  /\ attempts = [j \in Jobs |-> 0]
  /\ pc = [w \in Slots |-> "idle"]
  /\ job = [w \in Slots |-> NoJob]
  /\ soc = {}
  /\ quar = [r \in Rows |-> 0]
  /\ acked = {}
  /\ dropped = {}
  /\ swallowed = {}
  /\ again = [j \in Jobs |-> 0]
  /\ reclaimed = [j \in Jobs |-> 0]
  /\ faults = 0

-----------------------------------------------------------------------------
(* Producers: the ingestor's flushBatch and the sweep, through Queue.add.  *)

AddJob(batch) ==
  /\ lastId < MaxJobs
  /\ batch # {}
  /\ lastId' = lastId + 1
  /\ rowsOf' = [rowsOf EXCEPT ![lastId + 1] = batch]
  /\ wait' = Add(wait, lastId + 1)
  /\ UNCHANGED <<active, dead, attempts, pc, job, table, history, faults>>

-----------------------------------------------------------------------------
(* A consumer slot: process_one, _handle_job and _write_results.           *)

\* brpoplpush(wait, active)
Pull(w) ==
  /\ pc[w] = "idle"
  /\ \E j \in Created :
       /\ wait[j] > 0
       /\ wait' = Lrem(wait, j)
       /\ active' = Add(active, j)
       /\ pc' = [pc EXCEPT ![w] = "handling"]
       /\ job' = [job EXCEPT ![w] = j]
  /\ UNCHANGED <<lastId, rowsOf, dead, attempts, table, history, faults>>

\* Redis moved the id but the reply is lost: the client pulls again, or the
\* exception is caught and job_id is still None.  The id stays on active.
PullReplyLost(w) ==
  /\ pc[w] = "idle"
  /\ Fault
  /\ \E j \in Created :
       /\ wait[j] > 0
       /\ wait' = Lrem(wait, j)
       /\ active' = Add(active, j)
  /\ UNCHANGED <<lastId, rowsOf, dead, attempts, pc, job, table, history>>

\* NlpJobPayload.model_validate refuses the batch: logged, and a normal return.
RejectPayload(w) ==
  /\ pc[w] = "handling"
  /\ rowsOf[job[w]] \intersect BadRows # {}
  /\ Goto(w, "rejected")
  /\ UNCHANGED <<lastId, rowsOf, lists, table, history, faults>>

\* One transaction: soc_code for the confident rows, one quarantine row for
\* each of the others.
WriteResults(w) ==
  LET batch == rowsOf[job[w]] IN
  /\ pc[w] = "handling"
  /\ batch \intersect BadRows = {}
  /\ soc' = soc \union (batch \ LowRows)
  /\ quar' = [r \in Rows |-> IF r \in batch \intersect LowRows
                             THEN quar[r] + 1 ELSE quar[r]]
  /\ Goto(w, "written")
  /\ UNCHANGED <<lastId, rowsOf, lists, history, faults>>

\* The hash of the job has no data (any more): a warning, and ok = True.
MissingJobData(w) ==
  /\ pc[w] = "handling"
  /\ Fault
  /\ swallowed' = swallowed \union {job[w]}
  /\ Goto(w, "written")
  /\ UNCHANGED <<lastId, rowsOf, lists, table, acked, dropped, again, reclaimed>>

\* An OperationalError (or any other error) that leaves the connection usable:
\* rollback, and _write_results returns as if it had written.  With no
\* connection at all it does so for every batch: the later ones are no faults.
WriteSwallowed(w) ==
  /\ pc[w] = "handling"
  /\ rowsOf[job[w]] \intersect BadRows = {}
  /\ Fault \/ (swallowed # {} /\ UNCHANGED faults)
  /\ swallowed' = swallowed \union {job[w]}
  /\ Goto(w, "written")
  /\ UNCHANGED <<lastId, rowsOf, lists, table, acked, dropped, again, reclaimed>>

\* Mutant: every exception is treated like those _write_results swallows.
HandlerSwallows(w) ==
  /\ pc[w] \in {"handling", "written"}
  /\ Fault
  /\ Goto(w, "written")
  /\ UNCHANGED <<lastId, rowsOf, lists, table, history>>

\* An exception leaves _handle_job (hget, classifier, or a rollback on a lost
\* connection), before the commit or after it (in _write_unresolved).
HandlerRaises(w) ==
  /\ pc[w] \in {"handling", "written"}
  /\ Fault
  /\ Goto(w, "failed")
  /\ UNCHANGED <<lastId, rowsOf, lists, table, history>>

\* finally, ok = True: lrem(active, 1, job_id)
Ack(w) ==
  /\ pc[w] \in {"written", "rejected"}
  /\ active' = Lrem(active, job[w])
  /\ acked' = acked \union {job[w]}
  /\ Release(w)
  /\ UNCHANGED <<lastId, rowsOf, wait, dead, attempts, table, dropped, swallowed, again, reclaimed, faults>>

\* The lrem of finally fails: nothing after it runs, the id stays on active.
LremError(w) ==
  /\ pc[w] \in {"written", "rejected", "failed"}
  /\ Fault
  /\ Release(w)
  /\ UNCHANGED <<lastId, rowsOf, lists, table, history>>

\* The lrem of finally is executed, but its reply is lost and so is that of
\* every try after it: the id is off active, and a failed batch is not pushed
\* back.
LremReplyLost(w) ==
  /\ pc[w] \in {"written", "rejected", "failed"}
  /\ Fault
  /\ active' = Lrem(active, job[w])
  /\ IF pc[w] = "failed"
       THEN dropped' = dropped \union {job[w]} /\ UNCHANGED acked
       ELSE acked' = acked \union {job[w]} /\ UNCHANGED dropped
  /\ Release(w)
  /\ UNCHANGED <<lastId, rowsOf, wait, dead, attempts, table, swallowed, again, reclaimed>>

\* The lrem is executed, its reply does not come in time, and the client sends
\* it again: one more occurrence of the id is removed if there is one.
LremAgain(w) ==
  /\ pc[w] \in {"written", "rejected", "failed", "retake"}
  /\ Fault
  /\ active' = Lrem(active, job[w])
  /\ IF pc[w] \in {"failed", "retake"}
       THEN Goto(w, "retake") /\ UNCHANGED acked
       ELSE acked' = acked \union {job[w]} /\ UNCHANGED <<pc, job>>
  /\ UNCHANGED <<lastId, rowsOf, wait, dead, attempts, table, dropped, swallowed, again, reclaimed>>

\* finally, ok = False: lrem first ...
TakeOff(w) ==
  /\ pc[w] \in {"failed", "retake"}
  /\ active' = Lrem(active, job[w])
  /\ Goto(w, "requeue")
  /\ UNCHANGED <<lastId, rowsOf, wait, dead, attempts, table, history, faults>>

\* Mutant: no limit on the attempts.
CountForever(w) ==
  /\ pc[w] = "requeue"
  /\ attempts' = Add(attempts, job[w])
  /\ Goto(w, "retry")
  /\ UNCHANGED <<lastId, rowsOf, wait, active, dead, table, history, faults>>

\* Mutant: the attempt is not counted.
CountNothing(w) ==
  /\ pc[w] = "requeue"
  /\ Goto(w, "retry")
  /\ UNCHANGED <<lastId, rowsOf, lists, table, history, faults>>

\* ... then hincrby, whose reply is compared with MAX_ATTEMPTS ...
CountAttempt(w) ==
  /\ pc[w] = "requeue"
  /\ attempts' = Add(attempts, job[w])
  /\ Goto(w, IF attempts[job[w]] + 1 <= MaxAttempts THEN "retry" ELSE "bury")
  /\ UNCHANGED <<lastId, rowsOf, wait, active, dead, table, history, faults>>

\* lpush on wait, or on dead.
Push(w) ==
  /\ pc[w] \in {"retry", "bury"}
  /\ IF pc[w] = "retry"
       THEN wait' = Add(wait, job[w]) /\ UNCHANGED dead
       ELSE dead' = Add(dead, job[w]) /\ UNCHANGED wait
  /\ UNCHANGED <<active, attempts>>

\* Mutant: the failed id is taken off active and only logged.
RequeueOnlyLogs(w) ==
  /\ pc[w] \in {"retry", "bury"}
  /\ Release(w)
  /\ UNCHANGED <<lastId, rowsOf, lists, table, history, faults>>

\* ... then lpush.
Requeue(w) ==
  /\ Push(w)
  /\ Release(w)
  /\ UNCHANGED <<lastId, rowsOf, table, history, faults>>

Again(w) == again' = [again EXCEPT ![job[w]] = @ + 1]

\* hincrby or lpush is executed, its reply does not come in time, and the
\* client sends it again: the slot stays where it is.
RequeueAgain(w) ==
  /\ \/ pc[w] = "requeue" /\ attempts' = Add(attempts, job[w]) /\ UNCHANGED <<wait, active, dead>>
     \/ Push(w)
  /\ Fault
  /\ Again(w)
  /\ UNCHANGED <<lastId, rowsOf, pc, job, table, acked, dropped, swallowed, reclaimed>>

\* lrem sent again, hincrby or lpush raises (requeue_failed is logged), or the
\* process dies there: as far as this slot goes, the id is on no list any more.
RequeueLost(w) ==
  /\ pc[w] \in Limbo
  /\ Fault
  /\ attempts' = attempts \/ (pc[w] = "requeue" /\ attempts' = Add(attempts, job[w]))
  /\ dropped' = dropped \union {job[w]}
  /\ Release(w)
  /\ UNCHANGED <<lastId, rowsOf, wait, active, dead, table, acked, swallowed, again, reclaimed>>

\* The process dies while it handles a batch and is restarted.
Crash(w) ==
  /\ pc[w] \in {"handling", "written", "rejected", "failed"}
  /\ Fault
  /\ Release(w)
  /\ UNCHANGED <<lastId, rowsOf, lists, table, history>>

-----------------------------------------------------------------------------
(* burst-barrier.sh, reclaim: one rpoplpush(active, wait).  Next takes it   *)
(* only while the history reclaimed[j] still counts exactly.               *)

Reclaim(j) ==
  /\ active[j] > 0
  /\ active' = Lrem(active, j)
  /\ wait' = Add(wait, j)
  /\ reclaimed' = [reclaimed EXCEPT ![j] = IF @ < MaxReclaims THEN @ + 1 ELSE @]
  /\ UNCHANGED <<lastId, rowsOf, dead, attempts, pc, job, table, acked, dropped, swallowed, again, faults>>

-----------------------------------------------------------------------------
\* What a slot does when nothing goes wrong, and what may go wrong.
SlotProgress(w) ==
  \/ Pull(w)
  \/ RejectPayload(w)
  \/ WriteResults(w)
  \/ Ack(w)
  \/ TakeOff(w)
  \/ CountAttempt(w)
  \/ Requeue(w)

SlotFault(w) ==
  \/ PullReplyLost(w)
  \/ MissingJobData(w)
  \/ WriteSwallowed(w)
  \/ HandlerRaises(w)
  \/ LremError(w)
  \/ LremReplyLost(w)
  \/ LremAgain(w)
  \/ RequeueAgain(w)
  \/ RequeueLost(w)
  \/ Crash(w)

SlotStep == \E w \in Slots : SlotProgress(w) \/ SlotFault(w)

Next ==
  \/ \E batch \in SUBSET Rows : AddJob(batch)
  \/ SlotStep
  \/ \E j \in Created : reclaimed[j] < MaxReclaims /\ Reclaim(j)

Spec == Init /\ [][Next]_vars

-----------------------------------------------------------------------------
Places == {"idle", "handling", "written", "rejected", "failed"} \union Limbo

\* Every variable has its type, a slot holds a job exactly when it is not
\* idle, and no id that was never handed out is anywhere in the queue.
TypeOK ==
  /\ lastId \in 0..MaxJobs
  /\ rowsOf \in [Jobs -> SUBSET Rows]
  /\ wait \in [Jobs -> Nat] /\ active \in [Jobs -> Nat] /\ dead \in [Jobs -> Nat]
  /\ attempts \in [Jobs -> Nat]
  /\ pc \in [Slots -> Places]
  /\ job \in [Slots -> Created \union {NoJob}]
  /\ \A w \in Slots : pc[w] = "idle" <=> job[w] = NoJob
  /\ soc \subseteq Rows
  /\ quar \in [Rows -> Nat]
  /\ acked \subseteq Created /\ dropped \subseteq Created /\ swallowed \subseteq Created
  /\ again \in [Jobs -> Nat] /\ reclaimed \in [Jobs -> Nat]
  /\ faults \in 0..MaxFaults

Pending(j) == j \in Created /\ j \notin acked /\ j \notin dropped

\* A batch is never lost between the lists: until it is acknowledged, or
\* dropped by a fault in the one unguarded window (a failed batch's id is off
\* active and not yet pushed back), its id is on wait, active or dead, or a
\* live slot is about to push it back -- whatever crashes, Redis errors and
\* reclaims come in between.
NoJobVanishes ==
  \A j \in Jobs : Pending(j) =>
    wait[j] > 0 \/ active[j] > 0 \/ dead[j] > 0 \/ Requeueing(j)

\* Slots that handle j or will push it on wait.
Tries(j) == {w \in Holders(j) : pc[w] # "bury"}
Excess(j) == IF attempts[j] > MaxAttempts THEN attempts[j] - MaxAttempts ELSE 0

\* A poisoned batch does not loop: the failures counted for a job beyond
\* MAX_ATTEMPTS, plus the tries it still has coming, never exceed the one
\* delivery it was added with, one per time the barrier reclaimed it, and one
\* per hincrby or lpush that Redis executed again after a lost reply.
BoundedRetries ==
  \A j \in Jobs : wait[j] + Cardinality(Tries(j)) + Excess(j) <= 1 + reclaimed[j] + again[j]

\* An acknowledged batch has been written -- each of its rows is classified or
\* quarantined -- unless the payload was refused as a whole, a database error
\* was swallowed while it was written, or its data was missing.
Written(j) == rowsOf[j] \intersect BadRows = {} => rowsOf[j] \subseteq Covered
AckedIsWritten == \A j \in acked : Written(j) \/ j \in swallowed

\* No row is quarantined twice, unless two batches hold it, or its batch was
\* delivered again after a counted failure or a reclaim: a crash, a lost reply
\* or a lost push alone never quarantines a row again, nor does a command that
\* Redis executed twice.
DuplicatesExplained ==
  \A r \in Rows : quar[r] > 1 =>
    \/ \E j \in Created : r \in rowsOf[j] /\ (attempts[j] > 0 \/ reclaimed[j] > 0)
    \/ \E i, j \in Created : i # j /\ r \in rowsOf[i] \intersect rowsOf[j]
=============================================================================
