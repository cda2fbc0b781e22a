------------------------------- MODULE Ingest -------------------------------
(***************************************************************************)
(* From a published file to rows of lca_records: the harvester             *)
(* (apps/harvester/index.js), the BullMQ queue ingest-tasks and the        *)
(* ingestor (apps/ingestor/index.js, replaceFilingYear and bulkCopyJsonb   *)
(* of packages/db-lib/index.js).                                           *)
(*                                                                         *)
(* The files of a fiscal year are cumulative: the file of quarter q holds  *)
(* the cases of quarters 1..q.  One batch stands for the cases of one      *)
(* quarter, so a file is batches 1..q in order, and table[y][b] says how   *)
(* many times batch b of year y is in lca_records.                         *)
(*                                                                         *)
(* BullMQ is external code, modelled from how it is used: a job is waiting *)
(* (or delayed for its backoff), active, completed or failed; its lock     *)
(* belongs to the worker slot that took it last; a run whose job is no     *)
(* longer active under its lock cannot change the job's state.             *)
(***************************************************************************)
EXTENDS Naturals, FiniteSets

CONSTANTS
  Years,          \* fiscal years in scope
  Legacy,         \* years loaded by cli-tool before the harvester ever ran
  MaxQuarter,     \* quarters per year (4 in the program)
  Files,          \* the files that appear, <<year, quarter>>
  Slots,          \* concurrent runs of the ingestor (INGESTOR_CONCURRENCY)
  Attempts,       \* attempts of an ingest job (3 in the code)
  MaxStalls,      \* maxStalledCount of BullMQ (1 by default)
  MaxJobs,        \* bound: ingest jobs
  HarvestFaults,  \* bound: failed calls of the harvester
  IngestFaults,   \* bound: failed runs, crashes and late lock renewals of the ingestor
  MaxReclaims,    \* bound: jobs the barrier puts back on wait
  PollWhileBusy   \* BOOLEAN: polls may begin while ingest jobs are pending

ASSUME IngestAssumption ==
  /\ Legacy \subseteq Years
  /\ MaxQuarter \in Nat \ {0}
  /\ Files \subseteq Years \X (1..MaxQuarter)     \* one url each
  /\ Attempts \in Nat \ {0}
  /\ {MaxStalls, MaxJobs, HarvestFaults, IngestFaults, MaxReclaims} \subseteq Nat
  /\ PollWhileBusy \in BOOLEAN

Quarters == 1..MaxQuarter
Jobs == 1..MaxJobs
NoJob == 0
NoFile == <<>>

VARIABLES
  source,     \* files on the DOL page, or in the inbox of the burst
  listed,     \* files the last poll found there
  harvested,  \* harvested_files
  todo,       \* candidates of the poll not looked at yet
  offer,      \* file the poll is busy with, NoFile between files
  stage,      \* of the offer: "download" (then add) or "mark"
  clear,      \* the supersede flag computed for the offer
  lastId,     \* jobs 1..lastId have been added
  jobs,       \* data of each job: year, quarter, supersede
  state,      \* BullMQ state of each job
  failures,   \* attemptsMade
  stalls,     \* stalled count
  lock,       \* slot that took the job last, while the job is not over
  expired,    \* jobs whose lock expired while their run was going on (history)
  task,       \* job each slot runs
  at,         \* where the slot is in processIngestJob
  next,       \* batch the slot handles next
  table,      \* lca_records
  hfaults, ifaults, reclaims

harvester == <<listed, harvested, todo, offer, stage, clear, hfaults>>
queue     == <<lastId, jobs, state, failures, stalls, lock, expired, reclaims>>
runs      == <<task, at, next>>
vars == <<source, harvester, queue, runs, table, ifaults>>

-----------------------------------------------------------------------------
Created == 1..lastId
Pending(j) == state[j] \in {"wait", "active"}
JobsOf(y) == {j \in Created : jobs[j].year = y}
HasData(y) == \E b \in Quarters : table[y][b] > 0
TrackedQuarters(y) == {q \in Quarters : <<y, q>> \in harvested}

\* Nothing is left in ingest-tasks, as the barrier sees it ...
Idle == \A j \in Created : ~Pending(j)
\* ... and nothing runs any more: the box of the burst is gone.
Quiet == Idle /\ \A s \in Slots : at[s] = "idle"

HFault == hfaults < HarvestFaults /\ hfaults' = hfaults + 1
IFault == ifaults < IngestFaults /\ ifaults' = ifaults + 1

Init ==
  /\ source = {}
  /\ listed = {}
  /\ harvested = {}
  /\ todo = {}
  /\ offer = NoFile
  /\ stage = "none"
  /\ clear = FALSE
  /\ lastId = 0
  /\ jobs = [j \in Jobs |-> NoJob]
  /\ state = [j \in Jobs |-> "none"]
  /\ failures = [j \in Jobs |-> 0]
  /\ stalls = [j \in Jobs |-> 0]
  /\ lock = [j \in Jobs |-> NoJob]
  /\ expired = {}
  /\ task = [s \in Slots |-> NoJob]
  /\ at = [s \in Slots |-> "idle"]
  /\ next = [s \in Slots |-> 1]
  /\ table = [y \in Years |-> [b \in Quarters |-> IF y \in Legacy THEN 1 ELSE 0]]
  /\ hfaults = 0
  /\ ifaults = 0
  /\ reclaims = [j \in Jobs |-> 0]

-----------------------------------------------------------------------------
(* The harvester.                                                          *)

\* DOL puts a file online, or one is uploaded to the inbox, in any order.
Publish(f) ==
  /\ f \notin source
  /\ source' = source \union {f}
  /\ UNCHANGED <<harvester, queue, runs, table, ifaults>>

\* dedupePerYear: one file per year, the one of its newest quarter.
Best(files) == {f \in files : \A g \in files : g[1] = f[1] => g[2] <= f[2]}

\* collectXlsx and scopeLinks.  Polls with nothing new are left out.
BeginPoll ==
  /\ todo = {} /\ offer = NoFile
  /\ PollWhileBusy \/ Quiet
  /\ ~(Best(source) \subseteq harvested)
  /\ listed' = source
  /\ todo' = Best(source)
  /\ UNCHANGED <<source, harvested, offer, stage, clear, hfaults, queue, runs, table, ifaults>>

\* archive_inbox of the burst, after ingest: what this poll listed leaves the
\* inbox, less the files whose move fails.  (On the DOL page files stay.)
ArchiveInbox ==
  /\ todo = {} /\ offer = NoFile /\ Quiet
  /\ source \intersect listed # {}
  /\ \E moved \in SUBSET (source \intersect listed) : source' = source \ moved
  /\ listed' = {}
  /\ UNCHANGED <<harvested, todo, offer, stage, clear, hfaults, queue, runs, table, ifaults>>

\* Mutant: only the url is looked up, and older quarters are taken too.
SkippedByUrl(y, q) ==
  \/ <<y, q>> \in harvested
  \/ HasData(y) /\ TrackedQuarters(y) = {}

\* Mutant: SUPERSEDE_UNTRACKED is on by default.
SkippedTracked(y, q) ==
  \/ <<y, q>> \in harvested
  \/ \E p \in TrackedQuarters(y) : q <= p

\* isAlreadyHarvested, or a quarter no newer than the last one harvested, or
\* a year that has data and was never harvested.
Skipped(y, q) ==
  \/ <<y, q>> \in harvested
  \/ HasData(y) /\ TrackedQuarters(y) = {}
  \/ \E p \in TrackedQuarters(y) : q <= p

\* The loop body of poll up to the download: decide, and fix supersede.
Check ==
  /\ offer = NoFile
  /\ \E f \in todo :
       /\ todo' = todo \ {f}
       /\ IF Skipped(f[1], f[2])
            THEN UNCHANGED <<offer, stage, clear>>
            ELSE offer' = f /\ stage' = "download" /\ clear' = HasData(f[1])
  /\ UNCHANGED <<source, listed, harvested, hfaults, queue, runs, table, ifaults>>

\* Queue.add
AddJob ==
  LET j == lastId + 1 IN
  /\ lastId < MaxJobs
  /\ lastId' = j
  /\ jobs' = [jobs EXCEPT ![j] = [year |-> offer[1], quarter |-> offer[2], supersede |-> clear]]
  /\ state' = [state EXCEPT ![j] = "wait"]
  /\ UNCHANGED <<failures, stalls, lock, expired, reclaims>>

DropOffer == offer' = NoFile /\ stage' = "none" /\ clear' = FALSE

Enqueue ==
  /\ stage = "download"
  /\ AddJob
  /\ stage' = "mark"
  /\ UNCHANGED <<source, listed, harvested, todo, offer, clear, hfaults, runs, table, ifaults>>

MarkHarvested ==
  /\ stage = "mark"
  /\ harvested' = harvested \union {offer}
  /\ DropOffer
  /\ UNCHANGED <<source, listed, todo, hfaults, queue, runs, table, ifaults>>

\* The download, add or insert fails: the error is counted and the file left.
\* An add that fails may still have been executed.
FileError ==
  /\ stage \in {"download", "mark"}
  /\ HFault
  /\ \/ stage = "download" /\ AddJob
     \/ UNCHANGED queue
  /\ DropOffer
  /\ UNCHANGED <<source, listed, harvested, todo, runs, table, ifaults>>

\* The harvester dies in the middle of a poll.
HarvesterCrash ==
  /\ offer # NoFile
  /\ HFault
  /\ todo' = {}
  /\ DropOffer
  /\ UNCHANGED <<source, listed, harvested, queue, runs, table, ifaults>>

-----------------------------------------------------------------------------
(* The ingestor.                                                           *)

\* Mutant: a retried job goes on appending to what it had copied.
TakeClearsOnce(s) ==
  /\ at[s] = "idle"
  /\ \E j \in Created :
       /\ state[j] = "wait"
       /\ state' = [state EXCEPT ![j] = "active"]
       /\ lock' = [lock EXCEPT ![j] = s]
       /\ task' = [task EXCEPT ![s] = j]
       /\ at' = [at EXCEPT ![s] =
                   IF jobs[j].supersede /\ failures[j] = 0 THEN "clear" ELSE "copy"]
       /\ next' = [next EXCEPT ![s] = 1]
  /\ UNCHANGED <<source, harvester, lastId, jobs, failures, stalls, expired, reclaims, table, ifaults>>

\* The BullMQ worker takes a waiting job.
Take(s) ==
  /\ at[s] = "idle"
  /\ \E j \in Created :
       /\ state[j] = "wait"
       /\ state' = [state EXCEPT ![j] = "active"]
       /\ lock' = [lock EXCEPT ![j] = s]
       /\ task' = [task EXCEPT ![s] = j]
       /\ at' = [at EXCEPT ![s] = IF jobs[j].supersede THEN "clear" ELSE "copy"]
       /\ next' = [next EXCEPT ![s] = 1]
  /\ UNCHANGED <<source, harvester, lastId, jobs, failures, stalls, expired, reclaims, table, ifaults>>

\* replaceFilingYear: TRUNCATE (or DELETE) in a transaction of its own.
ReplaceFilingYear(s) ==
  /\ at[s] = "clear"
  /\ table' = [table EXCEPT ![jobs[task[s]].year] = [b \in Quarters |-> 0]]
  /\ at' = [at EXCEPT ![s] = "copy"]
  /\ UNCHANGED <<source, harvester, queue, task, next, ifaults>>

\* flushBatch, bulkCopyJsonb: COPY the batch, committed at once.
CopyBatch(s) ==
  /\ at[s] = "copy"
  /\ table' = [table EXCEPT ![jobs[task[s]].year][next[s]] = @ + 1]
  /\ at' = [at EXCEPT ![s] = "enqueue"]
  /\ UNCHANGED <<source, harvester, queue, task, next, ifaults>>

Free(s) ==
  /\ task' = [task EXCEPT ![s] = NoJob]
  /\ at' = [at EXCEPT ![s] = "idle"]
  /\ next' = [next EXCEPT ![s] = 1]

\* Whether BullMQ still lets slot s finish or fail its job.
HoldsLock(s) == state[task[s]] = "active" /\ lock[task[s]] = s

\* BullMQ moves the job of slot s on and removes its lock.
Release(s, to) ==
  /\ state' = [state EXCEPT ![task[s]] = to]
  /\ lock' = [lock EXCEPT ![task[s]] = NoJob]

\* Mutant: the remaining rows, less than a full batch, are not flushed.
EnqueueBatchDropsLast(s) ==
  /\ at[s] = "enqueue"
  /\ IF next[s] + 1 < jobs[task[s]].quarter
       THEN /\ next' = [next EXCEPT ![s] = @ + 1]
            /\ at' = [at EXCEPT ![s] = "copy"]
            /\ UNCHANGED <<task, queue>>
       ELSE /\ Free(s)
            /\ IF HoldsLock(s) THEN Release(s, "completed") ELSE UNCHANGED <<state, lock>>
            /\ UNCHANGED <<lastId, jobs, failures, stalls, expired, reclaims>>
  /\ UNCHANGED <<source, harvester, table, ifaults>>

\* flushBatch, nlpQueue.add: then the next batch, or the job is completed.
EnqueueBatch(s) ==
  /\ at[s] = "enqueue"
  /\ IF next[s] < jobs[task[s]].quarter
       THEN /\ next' = [next EXCEPT ![s] = @ + 1]
            /\ at' = [at EXCEPT ![s] = "copy"]
            /\ UNCHANGED <<task, queue>>
       ELSE /\ Free(s)
            /\ IF HoldsLock(s) THEN Release(s, "completed") ELSE UNCHANGED <<state, lock>>
            /\ UNCHANGED <<lastId, jobs, failures, stalls, expired, reclaims>>
  /\ UNCHANGED <<source, harvester, table, ifaults>>

\* A read, a query or an add throws: the job is retried from its first row
\* until Attempts runs have failed.
RunFails(s) ==
  LET j == task[s] IN
  /\ at[s] \in {"clear", "copy", "enqueue"}
  /\ IFault
  /\ IF HoldsLock(s)
       THEN /\ failures' = [failures EXCEPT ![j] = @ + 1]
            /\ Release(s, IF failures[j] + 1 < Attempts THEN "wait" ELSE "failed")
       ELSE UNCHANGED <<failures, state, lock>>
  /\ Free(s)
  /\ UNCHANGED <<source, harvester, lastId, jobs, stalls, expired, reclaims, table>>

\* What BullMQ does with a stalled job: it is retried MaxStalls times.
AfterStall(j) == IF stalls[j] < MaxStalls THEN "wait" ELSE "failed"

\* The event loop, busy with the rows of all slots, renews the lock of slot s's
\* job too late: BullMQ takes the job for stalled, and the run goes on.
LockExpires(s) ==
  LET j == task[s] IN
  /\ at[s] # "idle"
  /\ HoldsLock(s)
  /\ IFault
  /\ stalls' = [stalls EXCEPT ![j] = @ + 1]
  /\ Release(s, AfterStall(j))
  /\ expired' = expired \union {j}
  /\ UNCHANGED <<source, harvester, lastId, jobs, failures, reclaims, runs, table>>

\* The ingestor process dies: every run ends where it is, and BullMQ finds the
\* active jobs stalled.
IngestorCrash ==
  /\ \E s \in Slots : at[s] # "idle"
  /\ IFault
  /\ stalls' = [j \in Jobs |-> IF state[j] = "active" THEN stalls[j] + 1 ELSE stalls[j]]
  /\ state' = [j \in Jobs |-> IF state[j] # "active" THEN state[j]
                              ELSE AfterStall(j)]
  /\ lock' = [j \in Jobs |-> NoJob]
  /\ task' = [s \in Slots |-> NoJob]
  /\ at' = [s \in Slots |-> "idle"]
  /\ next' = [s \in Slots |-> 1]
  /\ UNCHANGED <<source, harvester, lastId, jobs, failures, expired, reclaims, table>>

\* burst-barrier.sh ingest-tasks, reclaim: the depth did not change for
\* BARRIER_STALL_AFTER, and an active job is put back on wait.
Reclaim(j) ==
  /\ state[j] = "active"
  /\ reclaims[j] < MaxReclaims
  /\ state' = [state EXCEPT ![j] = "wait"]
  /\ reclaims' = [reclaims EXCEPT ![j] = @ + 1]
  /\ UNCHANGED <<source, harvester, lastId, jobs, failures, stalls, lock, expired, runs, table, ifaults>>

-----------------------------------------------------------------------------
PollProgress == Check \/ Enqueue \/ MarkHarvested
RunProgress(s) == Take(s) \/ ReplaceFilingYear(s) \/ CopyBatch(s) \/ EnqueueBatch(s)

Next ==
  \/ \E f \in Files : Publish(f)
  \/ ArchiveInbox
  \/ BeginPoll
  \/ PollProgress
  \/ FileError
  \/ HarvesterCrash
  \/ \E s \in Slots : RunProgress(s) \/ RunFails(s) \/ LockExpires(s)
  \/ IngestorCrash
  \/ \E j \in Created : Reclaim(j)

\* A poll that has begun goes on, and the ingestor's slots keep running.  Nothing
\* says that another poll begins: in the burst it takes another trigger, and a
\* trigger while a box runs is skipped.
Fairness == WF_vars(PollProgress) /\ \A s \in Slots : WF_vars(RunProgress(s))

Spec == Init /\ [][Next]_vars /\ Fairness

-----------------------------------------------------------------------------
JobData == [year : Years, quarter : Quarters, supersede : BOOLEAN]

TypeOK ==
  /\ source \subseteq Files /\ listed \subseteq Files
  /\ harvested \subseteq Files /\ todo \subseteq Files
  /\ offer \in Files \union {NoFile}
  /\ stage \in {"none", "download", "mark"} /\ (stage = "none" <=> offer = NoFile)
  /\ clear \in BOOLEAN
  /\ lastId \in 0..MaxJobs
  /\ DOMAIN jobs = Jobs /\ \A j \in Created : jobs[j] \in JobData
  /\ state \in [Jobs -> {"none", "wait", "active", "completed", "failed"}]
  /\ \A j \in Jobs : state[j] = "none" <=> j \notin Created
  /\ failures \in [Jobs -> 0..Attempts] /\ stalls \in [Jobs -> Nat]
  /\ lock \in [Jobs -> Slots \union {NoJob}]
  /\ expired \subseteq Created
  /\ task \in [Slots -> Created \union {NoJob}]
  /\ at \in [Slots -> {"idle", "clear", "copy", "enqueue"}]
  /\ \A s \in Slots : at[s] = "idle" <=> task[s] = NoJob
  /\ next \in [Slots -> Quarters]
  /\ table \in [Years -> [Quarters -> Nat]]

\* No run works on the year, and no job for it is waiting.
Settled(y) ==
  /\ \A j \in JobsOf(y) : ~Pending(j)
  /\ \A s \in Slots : task[s] \notin JobsOf(y)

Latest(y) == CHOOSE j \in JobsOf(y) : \A i \in JobsOf(y) : i <= j

\* "the cumulative file fully REPLACES it (no duplicate cases)": once the last
\* job of a year is completed, the year holds each case of that file once and
\* nothing else, however often a run failed, the ingestor crashed or a file was
\* enqueued twice on the way.  Two runs of one job can overlap, each appending
\* to what the other one copied: a job that the barrier reclaimed, or whose lock
\* expired, while its run went on has no such promise.  Neither has a job that
\* does not supersede once it was retried.
YearIsExact ==
  \A y \in Years : JobsOf(y) # {} /\ Settled(y) =>
    LET j == Latest(y) IN
    /\ state[j] = "completed" /\ reclaims[j] = 0 /\ j \notin expired
    /\ jobs[j].supersede \/ failures[j] + stalls[j] = 0
    => \A b \in Quarters : table[y][b] = IF b <= jobs[j].quarter THEN 1 ELSE 0

\* A year never goes back: a job added later is for a newer quarter, in
\* whatever order the files appear, polls skip and ingest fails, as long as
\* every add that was executed could be recorded in harvested_files.
QuartersAdvance ==
  \A i, j \in Created :
    i < j /\ jobs[i].year = jobs[j].year => jobs[i].quarter < jobs[j].quarter \/ hfaults > 0

\* A year loaded by the cli-tool is never cleared nor appended to: "OFF by
\* default so the first production harvest never clobbers historical data"
\* (SUPERSEDE_UNTRACKED of the harvester).
HistoryKept == [][\A y \in Legacy : table'[y] = table[y]]_vars

\* A file that a poll listed comes to be ingested: at some time from then on its
\* cases are in the table and nothing of its year is pending or running, unless
\* a job of the year failed for good or was put back while its run went on, or
\* a call of the harvester failed.  (A file that no poll lists waits for the
\* next trigger: nothing is promised to it.)
ListedIsIngested ==
  \A y \in Years \ Legacy : \A q \in Quarters :
    <<y, q>> \in listed ~>
      \/ Settled(y) /\ table[y][q] > 0
      \/ \E j \in JobsOf(y) : state[j] = "failed" \/ reclaims[j] > 0 \/ j \in expired
      \/ hfaults > 0

-----------------------------------------------------------------------------

=============================================================================
