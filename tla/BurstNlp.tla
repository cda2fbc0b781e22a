------------------------------ MODULE BurstNlp ------------------------------
(***************************************************************************)
(* The NLP stage of a burst run: infra/aws/scripts/burst-nlp-coverage.sh   *)
(* with burst-sweep.sh, burst-barrier.sh and assert-coverage.sh, driving   *)
(* the queue and the worker slots of NlpQueue.  The script sweeps every    *)
(* uncovered row into the queue, polls the queue until it has been seen    *)
(* empty twice in a row, reclaims the active list when the depth does not  *)
(* move, and then compares the uncovered rows with a threshold.            *)
(*                                                                         *)
(* Time is not modelled: the barrier may poll and run into its ceiling     *)
(* BARRIER_MAX_WAIT at any moment, and a slot may be between lrem and      *)
(* lpush for as long as it takes -- a Redis command may wait 30 seconds    *)
(* for its reply and be sent again, and polls are 20 seconds apart.        *)
(***************************************************************************)
EXTENDS NlpQueue, Integers, FiniteSetsExt

CONSTANTS
  SweepBatch,   \* rows per job of sweep-enqueue.mjs (5000 in the code)
  StallPolls,   \* BARRIER_STALL_AFTER / POLL (180 / 20 in the code)
  Threshold     \* COVERAGE_MAX_UNCLASSIFIED (500 in the code)

ASSUME BurstAssumption ==
  /\ SweepBatch \in Nat \ {0}
  /\ StallPolls \in Nat \ {0}
  /\ Threshold \in Nat
  /\ MaxReclaims > 0    \* a reclaim leaves its trace in reclaimed

VARIABLES
  stage,        \* where the script is
  todo,         \* rows of the sweep's SELECT not enqueued yet
  empties,      \* EMPTY
  stall,        \* STALL, in polls
  last,         \* LAST
  reclaimLeft,  \* n of the reclaim loop
  limbo,        \* history: jobs between lrem and lpush at the last poll
  lingering,    \* history: slots between lrem and lpush ever since it
  overdue       \* history: jobs that were there from the poll before to it

barrier == <<empties, stall, last, reclaimLeft>>
seen    == <<limbo, lingering, overdue>>
script  == <<stage, todo, barrier, seen>>
burstVars == <<vars, script>>

Unread == -1    \* LAST before the first poll
Err    == -2    \* DEPTH when queue-depth.mjs fails

\* Mutant: the jobs that are being worked on are not counted.
QueueEmptyWaitOnly == \A j \in Created : wait[j] = 0
QueueEmpty == \A j \in Created : wait[j] = 0 /\ active[j] = 0
\* llen, and the count queue-depth.mjs prints (delayed and paused stay empty).
Size(bag) == MapThenSumSet(LAMBDA j : bag[j], Created)
Depth == Size(wait) + Size(active)

Uncovered == Rows \ Covered

BurstInit ==
  /\ Init
  /\ stage = "ingest"
  /\ todo = {}
  /\ empties = 0
  /\ stall = 0
  /\ last = Unread
  /\ reclaimLeft = 0
  /\ limbo = {} /\ lingering = {} /\ overdue = {}

-----------------------------------------------------------------------------
\* flushBatch of the ingestor, before the sweep: batches are disjoint, and
\* rows whose nlpQueue.add failed are in no batch.
IngestBatch ==
  /\ stage = "ingest"
  /\ \E batch \in SUBSET (Rows \ UNION {rowsOf[j] : j \in Created}) : AddJob(batch)
  /\ UNCHANGED script

\* burst-sweep.sh: one SELECT of the rows with no soc_code and no quarantine row.
BeginSweep ==
  /\ stage = "ingest"
  /\ todo' = Uncovered
  /\ stage' = IF Uncovered = {} THEN "barrier" ELSE "sweep"
  /\ UNCHANGED <<vars, barrier, seen>>

\* Mutant: the rows left after the last full batch are not flushed.
SweepFlushFullOnly ==
  /\ stage = "sweep"
  /\ \/ \E batch \in kSubset(SweepBatch, todo) :
          AddJob(batch) /\ todo' = todo \ batch /\ UNCHANGED stage
     \/ /\ Cardinality(todo) < SweepBatch
        /\ stage' = "barrier"
        /\ UNCHANGED <<vars, todo>>
  /\ UNCHANGED <<barrier, seen>>

\* sweep-enqueue.mjs, flush: the next SweepBatch rows, or those left at the end.
SweepFlush ==
  /\ stage = "sweep"
  /\ \E batch \in SUBSET todo :
       /\ \/ Cardinality(batch) = SweepBatch
          \/ batch = todo /\ Cardinality(todo) < SweepBatch
       /\ AddJob(batch)
       /\ todo' = todo \ batch
       /\ stage' = IF todo = batch THEN "barrier" ELSE "sweep"
  /\ UNCHANGED <<barrier, seen>>

-----------------------------------------------------------------------------
(* burst-barrier.sh nlp-tasks                                              *)

PollDue ==
  /\ stage = "barrier"
  /\ empties < 2
  /\ reclaimLeft = 0

\* What history keeps of a poll.
See ==
  /\ limbo' = {j \in Created : Requeueing(j)}
  /\ lingering' = {w \in Slots : pc[w] \in Limbo}
  /\ overdue' = {job[w] : w \in lingering}

SeenEmpty ==
  /\ empties' = empties + 1
  /\ stall' = 0
  /\ last' = 0
  /\ UNCHANGED reclaimLeft

\* Mutant: the barrier as it was before it reclaimed anything.
SeenBusyWaits(depth) ==
  /\ empties' = 0
  /\ last' = depth
  /\ stall' = 0
  /\ UNCHANGED reclaimLeft

\* STALL counts polls with an unchanged DEPTH; at the limit the reclaim loop
\* is entered with n = llen active.
SeenBusy(depth) ==
  LET stalled == IF depth = last THEN stall + 1 ELSE 0 IN
  /\ empties' = 0
  /\ last' = depth
  /\ IF stalled >= StallPolls
       THEN stall' = 0 /\ reclaimLeft' = Size(active)
       ELSE stall' = stalled /\ UNCHANGED reclaimLeft

Poll ==
  /\ PollDue
  /\ See
  /\ IF QueueEmpty THEN SeenEmpty ELSE SeenBusy(Depth)
  /\ UNCHANGED <<vars, stage, todo>>

\* queue-depth.mjs cannot reach Redis: DEPTH is "ERR", which is not empty and
\* is compared with LAST like any depth.
PollError ==
  /\ PollDue
  /\ Fault
  /\ See
  /\ SeenBusy(Err)
  /\ UNCHANGED <<lastId, rowsOf, lists, pc, job, table, history, stage, todo>>

\* The reclaim loop runs n times; rpoplpush of an empty list moves nothing.
\* It cannot tell an orphan from an id whose slot has been on the batch for
\* longer than BARRIER_STALL_AFTER; MaxReclaims bounds how often the latter
\* happens to an id, never the reclaim of an orphan.
ReclaimNext ==
  /\ stage = "barrier"
  /\ reclaimLeft > 0
  /\ reclaimLeft' = reclaimLeft - 1
  /\ IF Size(active) > 0
       THEN \E j \in Created :
              (Holders(j) = {} \/ reclaimed[j] < MaxReclaims) /\ Reclaim(j)
       ELSE UNCHANGED vars
  /\ UNCHANGED <<stage, todo, empties, stall, last, seen>>

\* ELAPSED is compared with MAX_WAIT after every poll, the last one included.
BarrierTimeout ==
  /\ stage = "barrier"
  /\ last # Unread
  /\ reclaimLeft = 0
  /\ stage' = "failed"
  /\ UNCHANGED <<vars, todo, barrier, seen>>

\* Mutant: a single empty check is enough.
BarrierExitAtOnce ==
  /\ stage = "barrier"
  /\ empties >= 1
  /\ stage' = "drained"
  /\ UNCHANGED <<vars, todo, barrier, seen>>

BarrierExit ==
  /\ stage = "barrier"
  /\ empties = 2
  /\ stage' = "drained"
  /\ UNCHANGED <<vars, todo, barrier, seen>>

-----------------------------------------------------------------------------
\* Mutant: off by one.
AssertCoverageLax ==
  /\ stage = "drained"
  /\ stage' = IF Cardinality(Uncovered) > Threshold + 1 THEN "failed" ELSE "passed"
  /\ UNCHANGED <<vars, todo, barrier, seen>>

\* assert-coverage.sh: hard failure above the threshold.
AssertCoverage ==
  /\ stage = "drained"
  /\ stage' = IF Cardinality(Uncovered) > Threshold THEN "failed" ELSE "passed"
  /\ UNCHANGED <<vars, todo, barrier, seen>>

-----------------------------------------------------------------------------
\* A command of the script fails, and set -e or an exit 1 ends it: psql or
\* Queue.add during the sweep, the barrier's sanity check of queue-depth.mjs,
\* psql in assert-coverage.sh.
ScriptFails ==
  /\ stage \in {"ingest", "sweep", "drained"} \/ (stage = "barrier" /\ last = Unread)
  /\ Fault
  /\ stage' = "failed"
  /\ UNCHANGED <<lastId, rowsOf, lists, pc, job, table, history,
                 todo, barrier, seen>>

ScriptProgress ==
  \/ BeginSweep
  \/ SweepFlush
  \/ Poll
  \/ ReclaimNext
  \/ BarrierExit
  \/ AssertCoverage

\* A slot that left the window between lrem and lpush does not linger there.
Linger ==
  /\ lingering' = {w \in lingering : pc'[w] \in Limbo}
  /\ UNCHANGED <<stage, todo, barrier, limbo, overdue>>
WorkerStep == SlotStep /\ Linger

BurstNext ==
  \/ IngestBatch
  \/ ScriptProgress
  \/ ScriptFails
  \/ PollError
  \/ BarrierTimeout
  \/ WorkerStep

\* The workers and the script keep running (restart: unless-stopped; bash);
\* nothing makes a fault or a timeout happen.
Fairness ==
  /\ WF_burstVars(ScriptProgress)
  /\ \A w \in Slots : WF_burstVars(SlotProgress(w) /\ Linger)

BurstSafety == BurstInit /\ [][BurstNext]_burstVars
BurstSpec == BurstSafety /\ Fairness

-----------------------------------------------------------------------------
Stages == {"ingest", "sweep", "barrier", "drained", "passed", "failed"}

BurstTypeOK ==
  /\ TypeOK
  /\ stage \in Stages
  /\ todo \subseteq Rows
  /\ empties \in 0..2
  /\ stall \in 0..(StallPolls - 1)
  /\ last \in Int
  /\ reclaimLeft \in Nat
  /\ limbo \subseteq Created /\ lingering \subseteq Slots /\ overdue \subseteq Created

\* Why a row may be left uncovered: its batch was refused as a whole, or its
\* write failed with the error swallowed, or it is dead, or a failed batch was
\* dropped, or on its way back to the queue when the barrier last looked.
GivenUp(j) == dead[j] > 0 \/ j \in dropped \union limbo
Excused ==
  {r \in Rows : \E j \in Created :
     r \in rowsOf[j] /\ (rowsOf[j] \intersect BadRows # {} \/ j \in swallowed \/ GivenUp(j))}

\* The script as a CoverageGate: its promise, see there.
Gate == INSTANCE CoverageGate
          WITH Tolerable <- {S \in SUBSET Rows : Cardinality(S) <= Threshold},
               covered <- Covered,
               excused <- Excused,
               verdict <- IF stage \in {"passed", "failed"} THEN stage ELSE "open"
\* A candidate is built only when few enough rows are uncovered and each of
\* them has a reason to be: no batch is forgotten by the sweep, still waiting,
\* or being worked on, whatever crashes, lost replies and reclaims there were.
GateSpec == Gate!Spec

\* A candidate is built only from data with at most Threshold uncovered rows,
\* whatever the workers still do after the check.
PassedMeansCovered == Gate!PassedMeansCovered

\* "Wait for the NLP queue to drain (classification + write-back complete)":
\* with at most one fault and no reclaim, once the barrier is through, a job
\* that is neither acknowledged nor dropped is dead, and no slot works on one
\* -- except for a batch whose way from lrem to lpush took longer than the
\* barrier took from one poll to the next.  So a single failure does not get
\* past the two empty checks by hitting the moment between lrem and lpush;
\* one slow reply there, or two failures of one job, could.
DrainedMeansWrittenBack ==
  stage \in {"drained", "passed"} /\ faults <= 1 /\ (\A j \in Jobs : reclaimed[j] = 0) =>
    /\ \A w \in Slots : job[w] \in {NoJob} \union acked \union overdue
    /\ \A j \in Created : Pending(j) => dead[j] > 0 \/ j \in overdue

\* No uncovered row is left out by the sweep: once it is through, every
\* uncovered row is in a job, also one whose nlpQueue.add failed in the
\* ingestor and those left after the last full batch.
SweepReachesEveryRow ==
  stage \in {"barrier", "drained", "passed"} =>
    \A r \in Uncovered : \E j \in Created : r \in rowsOf[j]

\* The barrier heals itself: with finitely many crashes, Redis errors and
\* reclaims of a batch still being worked on, it does not wait for ever, because
\* ids orphaned on the active list are put back and processed.
BarrierHeals == stage = "barrier" ~> stage \in {"drained", "failed"}
=============================================================================
