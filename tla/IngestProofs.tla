---------------------------- MODULE IngestProofs ----------------------------
(***************************************************************************)
(* What TLAPS proves of Ingest for every number of years, quarters, slots, *)
(* attempts and jobs, and for any bound on faults.                         *)
(***************************************************************************)
EXTENDS Ingest, TLAPS

\* BullMQ fails a job for good when its attempts are used up: one that is
\* not over has some left.
AttemptsLeft ==
  \A j \in Jobs : state[j] \in {"none", "wait", "active"} => failures[j] < Attempts

TypeInv == TypeOK /\ AttemptsLeft

LEMMA ConstantsAreNaturals ==
  /\ MaxQuarter \in Nat \ {0} /\ Attempts \in Nat \ {0} /\ MaxJobs \in Nat
  /\ MaxStalls \in Nat
  BY IngestAssumption

\* A file is a year and a quarter, and never the absence of one.
LEMMA FileIsPair ==
  ASSUME NEW f \in Files
  PROVE  f # NoFile /\ f[1] \in Years /\ f[2] \in Quarters
  BY IngestAssumption DEF NoFile, Quarters

LEMMA CreatedAreJobs == TypeOK => Created \subseteq Jobs
  BY ConstantsAreNaturals DEF TypeOK, Created, Jobs

LEMMA InitType == Init => TypeInv
  <1> SUFFICES ASSUME Init PROVE TypeInv
    OBVIOUS
  <1>1. Created = {} /\ offer = NoFile /\ stage = "none"
    BY DEF Init, Created
  <1>2. /\ DOMAIN jobs = Jobs
        /\ state \in [Jobs -> {"none", "wait", "active", "completed", "failed"}]
        /\ failures \in [Jobs -> 0..Attempts] /\ stalls \in [Jobs -> Nat]
        /\ lock \in [Jobs -> Slots \union {NoJob}]
    BY ConstantsAreNaturals DEF Init
  <1>3. /\ task \in [Slots -> Created \union {NoJob}]
        /\ at \in [Slots -> {"idle", "clear", "copy", "enqueue"}]
        /\ \A s \in Slots : at[s] = "idle" <=> task[s] = NoJob
        /\ next \in [Slots -> Quarters]
    BY ConstantsAreNaturals DEF Init, Quarters
  <1>4. table \in [Years -> [Quarters -> Nat]]
    BY DEF Init
  <1>5. \A j \in Jobs : state[j] = "none" /\ failures[j] < Attempts
    BY ConstantsAreNaturals DEF Init
  <1>6. /\ source = {} /\ listed = {} /\ harvested = {} /\ todo = {}
        /\ lastId = 0 /\ expired = {}
    BY DEF Init
  <1>7. clear \in BOOLEAN
    BY DEF Init
  <1>8. /\ lastId \in 0..MaxJobs /\ expired \subseteq Created
        /\ source \subseteq Files /\ listed \subseteq Files
        /\ harvested \subseteq Files /\ todo \subseteq Files
    BY <1>6, ConstantsAreNaturals
  <1>9. TypeOK
    BY <1>1, <1>2, <1>3, <1>4, <1>5, <1>7, <1>8 DEF TypeOK
  <1> QED
    BY <1>5, <1>9 DEF TypeInv, AttemptsLeft

\* Queue.add keeps the queue well typed.
LEMMA AddJobType ==
  ASSUME TypeInv, AddJob, offer \in Files, UNCHANGED <<runs>>
  PROVE  /\ lastId' \in 0..MaxJobs
         /\ DOMAIN jobs' = Jobs /\ \A j \in Created' : jobs'[j] \in JobData
         /\ state' \in [Jobs -> {"none", "wait", "active", "completed", "failed"}]
         /\ \A j \in Jobs : state'[j] = "none" <=> j \notin Created'
         /\ failures' \in [Jobs -> 0..Attempts] /\ stalls' \in [Jobs -> Nat]
         /\ lock' \in [Jobs -> Slots \union {NoJob}] /\ expired' \subseteq Created'
         /\ task' \in [Slots -> Created' \union {NoJob}]
         /\ AttemptsLeft'
  <1>1. lastId + 1 \in Jobs /\ lastId' = lastId + 1 /\ lastId' \in 0..MaxJobs
    BY ConstantsAreNaturals DEF AddJob, TypeInv, TypeOK, Jobs
  <1>2. Created' = Created \union {lastId + 1} /\ lastId + 1 \notin Created
    <2>1. lastId \in Nat
      BY ConstantsAreNaturals DEF TypeInv, TypeOK
    <2>2. 1..(lastId + 1) = (1..lastId) \union {lastId + 1} /\ lastId + 1 \notin 1..lastId
      BY <2>1
    <2> QED
      BY <1>1, <2>2 DEF Created
  <1>3. [year |-> offer[1], quarter |-> offer[2], supersede |-> clear] \in JobData
    BY FileIsPair DEF JobData, TypeInv, TypeOK
  <1>4. state[lastId + 1] = "none" /\ state'[lastId + 1] = "wait"
    BY <1>1, <1>2 DEF AddJob, TypeInv, TypeOK
  <1>5. PICK d \in JobData : jobs' = [jobs EXCEPT ![lastId + 1] = d]
    BY <1>3 DEF AddJob
  <1>6. \A j \in Created' : jobs'[j] \in JobData
    BY <1>1, <1>2, <1>5 DEF TypeInv, TypeOK
  <1>7. DOMAIN jobs' = Jobs
    BY <1>5 DEF TypeInv, TypeOK
  <1>8. /\ state' \in [Jobs -> {"none", "wait", "active", "completed", "failed"}]
        /\ \A j \in Jobs : state'[j] = "none" <=> j \notin Created'
    BY <1>1, <1>2 DEF AddJob, TypeInv, TypeOK
  <1>9. /\ failures' = failures /\ failures \in [Jobs -> 0..Attempts]
        /\ stalls' \in [Jobs -> Nat] /\ lock' \in [Jobs -> Slots \union {NoJob}]
        /\ expired' \subseteq Created'
        /\ task' \in [Slots -> Created' \union {NoJob}]
    BY <1>2 DEF AddJob, TypeInv, TypeOK, runs
  <1>10. AttemptsLeft'
    BY <1>1, <1>4, <1>9 DEF AddJob, TypeInv, TypeOK, AttemptsLeft
  <1> QED
    BY <1>1, <1>6, <1>7, <1>8, <1>9, <1>10

\* BullMQ moves a job on only while it is active.
LEMMA ReleaseType ==
  ASSUME TypeInv, NEW s \in Slots, HoldsLock(s), task[s] \in Created,
         NEW to \in {"wait", "completed", "failed"}, Release(s, to)
  PROVE  /\ state' \in [Jobs -> {"none", "wait", "active", "completed", "failed"}]
         /\ \A j \in Jobs : state'[j] = "none" <=> j \notin Created
         /\ lock' \in [Jobs -> Slots \union {NoJob}]
         /\ \A j \in Jobs : (state'[j] \in {"wait", "active"} => Pending(j))
  BY CreatedAreJobs DEF Release, HoldsLock, TypeInv, TypeOK, Pending

LEMMA FreeType ==
  ASSUME TypeInv, NEW s \in Slots, Free(s)
  PROVE  /\ task' \in [Slots -> Created \union {NoJob}]
         /\ at' \in [Slots -> {"idle", "clear", "copy", "enqueue"}]
         /\ \A t \in Slots : at'[t] = "idle" <=> task'[t] = NoJob
         /\ next' \in [Slots -> Quarters]
  BY ConstantsAreNaturals DEF Free, TypeInv, TypeOK, Quarters

\* A busy slot runs a job that has been added.
LEMMA BusySlot ==
  ASSUME TypeOK, NEW s \in Slots, at[s] # "idle"
  PROVE  /\ task[s] \in Created /\ task[s] \in Jobs
         /\ jobs[task[s]].year \in Years /\ jobs[task[s]].quarter \in Quarters
  <1>1. task[s] \in Created
    BY DEF TypeOK
  <1> QED
    BY <1>1, CreatedAreJobs DEF TypeOK, JobData

LEMMA HarvesterType ==
  ASSUME TypeInv,
         \/ \E f \in Files : Publish(f)
         \/ ArchiveInbox \/ BeginPoll \/ PollProgress \/ FileError \/ HarvesterCrash
  PROVE  TypeInv'
  <1>1. CASE \E f \in Files : Publish(f)
    BY <1>1 DEF Publish, harvester, queue, runs, TypeInv, TypeOK, AttemptsLeft, Created
  <1>2. CASE ArchiveInbox
    BY <1>2 DEF ArchiveInbox, queue, runs, TypeInv, TypeOK, AttemptsLeft, Created
  <1>3. CASE BeginPoll
    BY <1>3 DEF BeginPoll, Best, queue, runs, TypeInv, TypeOK, AttemptsLeft, Created
  <1>4. CASE Check
    <2>1. PICK f \in todo : Check!2!(f)
      BY <1>4 DEF Check
    <2>2. f \in Files /\ f # NoFile /\ HasData(f[1]) \in BOOLEAN
      BY FileIsPair DEF TypeInv, TypeOK, HasData
    <2> QED
      BY <1>4, <2>1, <2>2
      DEF Check, queue, runs, TypeInv, TypeOK, AttemptsLeft, Created
  <1>5. CASE Enqueue
    BY <1>5, AddJobType DEF Enqueue, runs, TypeInv, TypeOK
  <1>6. CASE MarkHarvested
    BY <1>6 DEF MarkHarvested, DropOffer, queue, runs, TypeInv, TypeOK, AttemptsLeft, Created
  <1>7. CASE FileError
    <2>1. CASE AddJob
      BY <1>7, <2>1, AddJobType DEF FileError, DropOffer, runs, TypeInv, TypeOK
    <2>2. CASE UNCHANGED queue
      BY <1>7, <2>2
      DEF FileError, DropOffer, queue, runs, TypeInv, TypeOK, AttemptsLeft, Created
    <2> QED
      BY <1>7, <2>1, <2>2 DEF FileError
  <1>8. CASE HarvesterCrash
    BY <1>8 DEF HarvesterCrash, DropOffer, queue, runs, TypeInv, TypeOK, AttemptsLeft, Created
  <1> QED
    BY <1>1, <1>2, <1>3, <1>4, <1>5, <1>6, <1>7, <1>8 DEF PollProgress

LEMMA IngestorType ==
  ASSUME TypeInv, NEW s \in Slots, RunProgress(s) \/ RunFails(s) \/ LockExpires(s)
  PROVE  TypeInv'
  <1>1. CASE Take(s)
    <2>1. PICK j \in Created : Take(s)!2!(j)
      BY <1>1 DEF Take
    <2>2. j \in Jobs /\ j # NoJob
      BY CreatedAreJobs, ConstantsAreNaturals DEF TypeInv, Jobs, NoJob
    <2>3. /\ state' \in [Jobs -> {"none", "wait", "active", "completed", "failed"}]
          /\ \A k \in Jobs : state'[k] = "none" <=> k \notin Created
          /\ AttemptsLeft'
          /\ lock' \in [Jobs -> Slots \union {NoJob}]
      BY <1>1, <2>1, <2>2 DEF Take, TypeInv, TypeOK, AttemptsLeft
    <2>4. /\ task' \in [Slots -> Created \union {NoJob}]
          /\ at' \in [Slots -> {"idle", "clear", "copy", "enqueue"}]
          /\ \A t \in Slots : at'[t] = "idle" <=> task'[t] = NoJob
          /\ next' \in [Slots -> Quarters]
      BY <2>1, <2>2, ConstantsAreNaturals DEF TypeInv, TypeOK, Quarters
    <2> QED
      BY <1>1, <2>3, <2>4 DEF Take, harvester, TypeInv, TypeOK, Created
  <1>2. CASE ReplaceFilingYear(s)
    <2>1. jobs[task[s]].year \in Years
      BY <1>2, BusySlot DEF ReplaceFilingYear, TypeInv
    <2>2. table' \in [Years -> [Quarters -> Nat]]
      BY <1>2, <2>1 DEF ReplaceFilingYear, TypeInv, TypeOK
    <2> QED
      BY <1>2, <2>2
      DEF ReplaceFilingYear, harvester, queue, TypeInv, TypeOK, AttemptsLeft, Created
  <1>3. CASE CopyBatch(s)
    <2>1. jobs[task[s]].year \in Years
      BY <1>3, BusySlot DEF CopyBatch, TypeInv
    <2>2. table' \in [Years -> [Quarters -> Nat]]
      BY <1>3, <2>1 DEF CopyBatch, TypeInv, TypeOK
    <2> QED
      BY <1>3, <2>2 DEF CopyBatch, harvester, queue, TypeInv, TypeOK, AttemptsLeft, Created
  <1>4. CASE EnqueueBatch(s)
    <2>1. /\ at[s] = "enqueue" /\ task[s] \in Created
          /\ jobs[task[s]].quarter \in Quarters
      BY <1>4, BusySlot DEF EnqueueBatch, TypeInv
    <2>2. CASE next[s] < jobs[task[s]].quarter
      <3>1. next[s] + 1 \in Quarters
        BY <2>1, <2>2, ConstantsAreNaturals DEF TypeInv, TypeOK, Quarters
      <3>2. next' \in [Slots -> Quarters]
        BY <1>4, <2>2, <3>1 DEF EnqueueBatch, TypeInv, TypeOK
      <3>3. at[s] # "idle" /\ at' = [at EXCEPT ![s] = "copy"] /\ UNCHANGED <<task, queue>>
        BY <1>4, <2>1, <2>2 DEF EnqueueBatch
      <3>4. /\ at' \in [Slots -> {"idle", "clear", "copy", "enqueue"}]
            /\ \A t \in Slots : at'[t] = "idle" <=> task'[t] = NoJob
        BY <3>3 DEF TypeInv, TypeOK
      <3>5. UNCHANGED <<source, harvester, queue, task, table>>
        BY <1>4, <3>3 DEF EnqueueBatch
      <3> QED
        BY <3>2, <3>4, <3>5 DEF harvester, queue, TypeInv, TypeOK, AttemptsLeft, Created
    <2>3. CASE ~(next[s] < jobs[task[s]].quarter)
      <3>1. Free(s) /\ UNCHANGED <<lastId, jobs, failures, stalls, expired, reclaims>>
        BY <1>4, <2>3 DEF EnqueueBatch
      <3>2. CASE HoldsLock(s)
        <4>1. Release(s, "completed")
          BY <1>4, <2>3, <3>2 DEF EnqueueBatch
        <4>2. AttemptsLeft'
          BY <3>1, <4>1, <3>2, <2>1, ReleaseType DEF AttemptsLeft, TypeInv, TypeOK, Pending
        <4> QED
          BY <1>4, <2>1, <3>1, <3>2, <4>1, <4>2, ReleaseType, FreeType
          DEF EnqueueBatch, harvester, TypeInv, TypeOK, Created
      <3>3. CASE ~HoldsLock(s)
        BY <1>4, <2>3, <3>1, <3>3, FreeType
        DEF EnqueueBatch, harvester, TypeInv, TypeOK, AttemptsLeft, Created
      <3> QED
        BY <3>2, <3>3
    <2> QED
      BY <2>2, <2>3
  <1>5. CASE RunFails(s)
    <2>1. Free(s) /\ task[s] \in Created /\ task[s] \in Jobs
      BY <1>5, BusySlot DEF RunFails, TypeInv
    <2>2. CASE HoldsLock(s)
      <3>1. /\ failures' = [failures EXCEPT ![task[s]] = @ + 1]
            /\ Release(s, IF failures[task[s]] + 1 < Attempts THEN "wait" ELSE "failed")
        BY <1>5, <2>2 DEF RunFails
      <3>2. failures[task[s]] < Attempts
        BY <2>1, <2>2 DEF HoldsLock, TypeInv, AttemptsLeft
      <3>3. failures' \in [Jobs -> 0..Attempts]
        BY <2>1, <3>1, <3>2, ConstantsAreNaturals DEF TypeInv, TypeOK
      <3>4. AttemptsLeft'
        BY <2>1, <3>1, <3>2, ConstantsAreNaturals DEF AttemptsLeft, Release, TypeInv, TypeOK
      <3> QED
        BY <1>5, <2>1, <2>2, <3>1, <3>3, <3>4, ReleaseType, FreeType
        DEF RunFails, harvester, TypeInv, TypeOK, Created
    <2>3. CASE ~HoldsLock(s)
      BY <1>5, <2>1, <2>3, FreeType
      DEF RunFails, harvester, TypeInv, TypeOK, AttemptsLeft, Created
    <2> QED
      BY <2>2, <2>3
  <1>6. CASE LockExpires(s)
    <2>1. task[s] \in Created /\ task[s] \in Jobs /\ HoldsLock(s)
      BY <1>6, BusySlot DEF LockExpires, TypeInv
    <2>2. Release(s, AfterStall(task[s])) /\ AfterStall(task[s]) \in {"wait", "completed", "failed"}
      BY <1>6 DEF LockExpires, AfterStall
    <2>3. /\ stalls' \in [Jobs -> Nat] /\ expired' \subseteq Created
          /\ UNCHANGED <<source, harvester, lastId, jobs, failures, runs, table>>
      BY <1>6, <2>1 DEF LockExpires, TypeInv, TypeOK
    <2>4. AttemptsLeft'
      BY <2>1, <2>2, <2>3 DEF HoldsLock, Release, TypeInv, TypeOK, AttemptsLeft
    <2> QED
      BY <2>1, <2>2, <2>3, <2>4, ReleaseType DEF harvester, runs, TypeInv, TypeOK, Created
  <1> QED
    BY <1>1, <1>2, <1>3, <1>4, <1>5, <1>6 DEF RunProgress

LEMMA OutsideType ==
  ASSUME TypeInv, IngestorCrash \/ (\E j \in Created : Reclaim(j))
  PROVE  TypeInv'
  <1>1. CASE IngestorCrash
    <2>1. /\ state' \in [Jobs -> {"none", "wait", "active", "completed", "failed"}]
          /\ \A j \in Jobs : state'[j] = "none" <=> state[j] = "none"
          /\ \A j \in Jobs : state'[j] \in {"none", "wait", "active"} =>
                              state[j] \in {"none", "wait", "active"}
      BY <1>1 DEF IngestorCrash, AfterStall, TypeInv, TypeOK
    <2>2. stalls' \in [Jobs -> Nat]
      BY <1>1 DEF IngestorCrash, TypeInv, TypeOK
    <2>3. /\ task' \in [Slots -> Created \union {NoJob}]
          /\ at' \in [Slots -> {"idle", "clear", "copy", "enqueue"}]
          /\ \A t \in Slots : at'[t] = "idle" <=> task'[t] = NoJob
          /\ next' \in [Slots -> Quarters]
      BY <1>1, ConstantsAreNaturals DEF IngestorCrash, Quarters
    <2> QED
      BY <1>1, <2>1, <2>2, <2>3
      DEF IngestorCrash, harvester, TypeInv, TypeOK, AttemptsLeft, Created
  <1>2. ASSUME NEW j \in Created, Reclaim(j)
        PROVE  TypeInv'
    BY <1>2, CreatedAreJobs DEF Reclaim, harvester, runs, TypeInv, TypeOK, AttemptsLeft, Created
  <1> QED
    BY <1>1, <1>2

LEMMA NextType == TypeInv /\ [Next]_vars => TypeInv'
  <1> SUFFICES ASSUME TypeInv, [Next]_vars PROVE TypeInv'
    OBVIOUS
  <1>1. CASE Next
    BY <1>1, HarvesterType, IngestorType, OutsideType DEF Next
  <1>2. CASE UNCHANGED vars
    BY <1>2 DEF vars, harvester, queue, runs, TypeInv, TypeOK, AttemptsLeft, Created
  <1> QED
    BY <1>1, <1>2

\* Every state has its type, whatever fails.
THEOREM TypeCorrect == Spec => []TypeOK
  <1>1. TypeInv => TypeOK
    BY DEF TypeInv
  <1> QED
    BY <1>1, InitType, NextType, PTL DEF Spec

-----------------------------------------------------------------------------
(* The years of the cli-tool stay as they are: none of them has a file in  *)
(* harvested_files, a job, or the attention of a poll.                     *)

HistoryInv ==
  \A y \in Legacy :
    /\ \A b \in Quarters : table[y][b] = 1
    /\ \A f \in harvested : f[1] # y
    /\ offer # NoFile => offer[1] # y
    /\ \A j \in Created : jobs[j].year # y

LEMMA LegacyIsSkipped ==
  ASSUME HistoryInv, NEW y \in Legacy, NEW q
  PROVE  Skipped(y, q)
  <1>1. HasData(y)
    BY ConstantsAreNaturals DEF HistoryInv, HasData, Quarters
  <1>2. TrackedQuarters(y) = {}
    BY DEF HistoryInv, TrackedQuarters
  <1> QED
    BY <1>1, <1>2 DEF Skipped

\* A step of a run changes the year of its own job only.
LEMMA RunsKeepOtherYears ==
  ASSUME TypeOK, NEW s \in Slots, RunProgress(s), NEW y \in Years,
         \A j \in Created : jobs[j].year # y
  PROVE  table'[y] = table[y]
  <1>1. at[s] # "idle" => jobs[task[s]].year # y /\ jobs[task[s]].year \in Years
    BY BusySlot
  <1>2. CASE ReplaceFilingYear(s)
    BY <1>1, <1>2 DEF ReplaceFilingYear, TypeOK
  <1>3. CASE CopyBatch(s)
    BY <1>1, <1>3 DEF CopyBatch, TypeOK
  <1>4. CASE Take(s) \/ EnqueueBatch(s)
    BY <1>4 DEF Take, EnqueueBatch
  <1> QED
    BY <1>2, <1>3, <1>4 DEF RunProgress

LEMMA NextKeepsHistory ==
  ASSUME TypeInv, HistoryInv, [Next]_vars
  PROVE  \A y \in Legacy : table'[y] = table[y]
  <1>1. CASE \E s \in Slots : RunProgress(s)
    BY <1>1, RunsKeepOtherYears, IngestAssumption DEF HistoryInv, TypeInv
  <1>2. CASE table' = table
    BY <1>2
  <1>3. (\E s \in Slots : RunProgress(s)) \/ table' = table
    BY DEF Next, Publish, ArchiveInbox, PollProgress, BeginPoll, Check, Enqueue, MarkHarvested,
           FileError, HarvesterCrash, RunFails, LockExpires, IngestorCrash, Reclaim, vars
  <1> QED
    BY <1>1, <1>2, <1>3

\* harvested_files gains the file the poll is busy with, nothing else.
LEMMA NextKeepsUntracked ==
  ASSUME TypeInv, HistoryInv, [Next]_vars, NEW y \in Legacy
  PROVE  (\A f \in harvested' : f[1] # y) /\ (offer' # NoFile => offer'[1] # y)
  <1>1. CASE Check
    <2>1. PICK f \in todo : Check!2!(f)
      BY <1>1 DEF Check
    <2>2. CASE Skipped(f[1], f[2])
      BY <1>1, <2>1, <2>2 DEF Check, HistoryInv
    <2>3. CASE ~Skipped(f[1], f[2])
      BY <1>1, <2>1, <2>3, LegacyIsSkipped DEF Check, HistoryInv
    <2> QED
      BY <2>2, <2>3
  <1>2. CASE MarkHarvested
    BY <1>2 DEF MarkHarvested, DropOffer, HistoryInv, TypeInv, TypeOK
  <1>3. CASE harvested' = harvested /\ (offer' = offer \/ offer' = NoFile)
    BY <1>3 DEF HistoryInv
  <1>4. Check \/ MarkHarvested \/ (harvested' = harvested /\ (offer' = offer \/ offer' = NoFile))
    BY DEF Next, Publish, ArchiveInbox, PollProgress, BeginPoll, Enqueue, DropOffer,
           FileError, HarvesterCrash, RunProgress, Take, ReplaceFilingYear, CopyBatch,
           EnqueueBatch, RunFails, LockExpires, IngestorCrash, Reclaim, vars, harvester
  <1> QED
    BY <1>1, <1>2, <1>3, <1>4

\* A job is added for the file the poll is busy with.
LEMMA NextKeepsJobsOff ==
  ASSUME TypeInv, HistoryInv, [Next]_vars, NEW y \in Legacy
  PROVE  \A j \in Created' : jobs'[j].year # y
  <1>1. CASE AddJob /\ stage # "none"
    <2>1. offer # NoFile
      BY <1>1 DEF TypeInv, TypeOK
    <2>2. lastId + 1 \in Jobs /\ lastId \in Nat
      BY <1>1, ConstantsAreNaturals DEF AddJob, TypeInv, TypeOK, Jobs
    <2>3. \A j \in Created' : j = lastId + 1 \/ j \in Created
      BY <1>1, <2>2 DEF AddJob, Created
    <2>4. jobs'[lastId + 1].year = offer[1]
      BY <1>1, <2>2 DEF AddJob, TypeInv, TypeOK
    <2>5. \A j \in Created : jobs'[j] = jobs[j] \/ j = lastId + 1
      BY <1>1, CreatedAreJobs DEF AddJob, TypeInv, TypeOK
    <2> QED
      BY <2>1, <2>3, <2>4, <2>5 DEF HistoryInv
  <1>2. CASE jobs' = jobs /\ lastId' = lastId
    BY <1>2 DEF HistoryInv, Created
  <1>3. (AddJob /\ stage # "none") \/ (jobs' = jobs /\ lastId' = lastId)
    BY DEF Next, Publish, ArchiveInbox, PollProgress, BeginPoll, Check, Enqueue, MarkHarvested,
           FileError, HarvesterCrash, RunProgress, Take, ReplaceFilingYear, CopyBatch,
           EnqueueBatch, RunFails, LockExpires, IngestorCrash, Reclaim, vars, queue
  <1> QED
    BY <1>1, <1>2, <1>3

\* "so the first production harvest never clobbers historical data": what the
\* cli-tool loaded is never cleared and never appended to.
THEOREM HistoryIsKept == Spec => HistoryKept
  <1>1. Init => HistoryInv
    BY IngestAssumption DEF Init, HistoryInv, Created
  <1>2. TypeInv /\ HistoryInv /\ [Next]_vars => HistoryInv'
    BY NextKeepsHistory, NextKeepsUntracked, NextKeepsJobsOff DEF HistoryInv
  <1>3. TypeInv /\ HistoryInv /\ [Next]_vars => [\A y \in Legacy : table'[y] = table[y]]_vars
    BY NextKeepsHistory
  <1> QED
    BY <1>1, <1>2, <1>3, InitType, NextType, PTL DEF Spec, HistoryKept

-----------------------------------------------------------------------------
(* While no call of the harvester fails, each job of a year is either      *)
(* recorded in harvested_files or the one about to be, and the poll only   *)
(* adds a quarter newer than all those recorded.                           *)

FileOf(j) == <<jobs[j].year, jobs[j].quarter>>

Recorded == \A j \in Created : FileOf(j) \in harvested \/ (stage = "mark" /\ FileOf(j) = offer)

OfferIsNewest ==
  stage = "download" => \A f \in harvested : f[1] = offer[1] => f[2] < offer[2]

QuarterInv == hfaults \in Nat /\ (hfaults = 0 => Recorded /\ OfferIsNewest) /\ QuartersAdvance

LEMMA NotSkippedIsNewest ==
  ASSUME TypeInv, NEW y, NEW q \in Quarters, ~Skipped(y, q)
  PROVE  \A f \in harvested : f[1] = y => f[2] < q
  <1> SUFFICES ASSUME NEW f \in harvested, f[1] = y PROVE f[2] < q
    OBVIOUS
  <1>1. f = <<f[1], f[2]>> /\ f[2] \in Quarters
    BY IngestAssumption DEF TypeInv, TypeOK, Quarters
  <1>2. f[2] \in TrackedQuarters(y)
    BY <1>1 DEF TrackedQuarters
  <1> QED
    BY <1>1, <1>2, ConstantsAreNaturals DEF Skipped, Quarters

LEMMA EnqueueKeepsQuarters ==
  ASSUME TypeInv, QuarterInv, Enqueue
  PROVE  QuarterInv'
  <1>1. /\ offer \in Files /\ offer = <<offer[1], offer[2]>> /\ offer[2] \in Nat
        /\ hfaults' = hfaults /\ harvested' = harvested /\ offer' = offer /\ stage' = "mark"
    BY IngestAssumption DEF Enqueue, TypeInv, TypeOK
  <1>2. lastId + 1 \in Jobs /\ lastId \in Nat /\ lastId' = lastId + 1
    BY ConstantsAreNaturals DEF Enqueue, AddJob, TypeInv, TypeOK, Jobs
  <1>3. \A j \in Created' : j \in Nat /\ (j = lastId + 1 \/ (j \in Created /\ j < lastId + 1))
    BY <1>2 DEF Created
  <1>4. /\ jobs'[lastId + 1].year = offer[1] /\ jobs'[lastId + 1].quarter = offer[2]
        /\ \A j \in Created : jobs'[j] = jobs[j]
    <2>1. lastId + 1 \notin Created
      BY <1>2 DEF Created
    <2> QED
      BY <1>2, <2>1, CreatedAreJobs DEF Enqueue, AddJob, TypeInv, TypeOK
  <1>5. CASE hfaults = 0
    <2>1. Recorded' /\ OfferIsNewest'
      <3>1. \A j \in Created : FileOf(j)' = FileOf(j) /\ FileOf(j) \in harvested
        BY <1>4, <1>5 DEF FileOf, QuarterInv, Recorded, Enqueue
      <3>2. <<jobs'[lastId + 1].year, jobs'[lastId + 1].quarter>> = offer
        BY <1>1, <1>4
      <3> QED
        BY <1>1, <1>3, <3>1, <3>2 DEF Recorded, OfferIsNewest, FileOf
    <2>2. \A i \in Created : jobs[i].year = offer[1] => jobs[i].quarter < offer[2]
      <3> SUFFICES ASSUME NEW i \in Created, jobs[i].year = offer[1]
                   PROVE  jobs[i].quarter < offer[2]
        OBVIOUS
      <3>1. FileOf(i) \in harvested /\ FileOf(i)[1] = offer[1] /\ FileOf(i)[2] = jobs[i].quarter
        BY <1>5 DEF FileOf, QuarterInv, Recorded, Enqueue
      <3> QED
        BY <1>5, <3>1 DEF QuarterInv, OfferIsNewest, Enqueue
    <2>3. QuartersAdvance'
      <3> SUFFICES ASSUME NEW i \in Created', NEW j \in Created',
                          i < j, jobs'[i].year = jobs'[j].year
                   PROVE  jobs'[i].quarter < jobs'[j].quarter
        BY <1>1, <1>5 DEF QuartersAdvance
      <3>1. i \in Created /\ jobs'[i] = jobs[i]
        BY <1>2, <1>3, <1>4
      <3>2. CASE j = lastId + 1
        BY <1>4, <2>2, <3>1, <3>2
      <3>3. CASE j \in Created
        BY <1>4, <1>5, <3>1, <3>3 DEF QuarterInv, QuartersAdvance
      <3> QED
        BY <1>3, <3>2, <3>3
    <2> QED
      BY <1>1, <2>1, <2>3 DEF QuarterInv
  <1>6. CASE hfaults # 0
    BY <1>1, <1>6 DEF QuarterInv, QuartersAdvance
  <1> QED
    BY <1>5, <1>6

LEMMA NextKeepsQuarters == TypeInv /\ QuarterInv /\ [Next]_vars => QuarterInv'
  <1> SUFFICES ASSUME TypeInv, QuarterInv, [Next]_vars PROVE QuarterInv'
    OBVIOUS
  <1>1. CASE Enqueue
    BY <1>1, EnqueueKeepsQuarters
  <1>2. CASE Check
    <2>1. PICK f \in todo : Check!2!(f)
      BY <1>2 DEF Check
    <2>2. f \in Files /\ f[2] \in Quarters
      BY FileIsPair DEF TypeInv, TypeOK
    <2>3. /\ harvested' = harvested /\ hfaults' = hfaults /\ stage # "mark"
          /\ jobs' = jobs /\ lastId' = lastId
      BY <1>2 DEF Check, queue, TypeInv, TypeOK
    <2>4. OfferIsNewest'
      BY <2>1, <2>2, <2>3, NotSkippedIsNewest, <1>2 DEF OfferIsNewest, Check, TypeInv, TypeOK
    <2> QED
      BY <2>3, <2>4 DEF QuarterInv, Recorded, FileOf, QuartersAdvance, Created
  <1>3. CASE MarkHarvested
    BY <1>3
    DEF MarkHarvested, DropOffer, queue, QuarterInv, Recorded, OfferIsNewest, FileOf,
        QuartersAdvance, Created
  <1>4. CASE FileError \/ HarvesterCrash
    BY <1>4 DEF FileError, HarvesterCrash, HFault, QuarterInv, QuartersAdvance
  <1>5. CASE UNCHANGED <<harvested, offer, stage, hfaults, lastId, jobs>>
    BY <1>5 DEF QuarterInv, Recorded, OfferIsNewest, FileOf, QuartersAdvance, Created
  <1>6. CASE BeginPoll
    BY <1>6
    DEF BeginPoll, queue, QuarterInv, Recorded, OfferIsNewest, FileOf, QuartersAdvance, Created
  <1>7. \/ Enqueue \/ Check \/ MarkHarvested \/ FileError \/ HarvesterCrash \/ BeginPoll
        \/ UNCHANGED <<harvested, offer, stage, hfaults, lastId, jobs>>
    <2> DEFINE Same == UNCHANGED <<harvested, offer, stage, hfaults, lastId, jobs>>
    <2>1. CASE (\E f \in Files : Publish(f)) \/ ArchiveInbox \/ UNCHANGED vars
      BY <2>1 DEF Publish, ArchiveInbox, vars, harvester, queue
    <2>2. ASSUME NEW s \in Slots, RunProgress(s) \/ RunFails(s) \/ LockExpires(s)
          PROVE  Same
      BY <2>2 DEF RunProgress, Take, ReplaceFilingYear, CopyBatch, EnqueueBatch, RunFails,
           LockExpires, harvester, queue
    <2>3. CASE IngestorCrash \/ \E j \in Created : Reclaim(j)
      BY <2>3 DEF IngestorCrash, Reclaim, harvester, queue
    <2> QED BY <2>1, <2>2, <2>3 DEF Next, PollProgress
  <1> QED
    BY <1>1, <1>2, <1>3, <1>4, <1>5, <1>6, <1>7

\* The jobs of a year are for newer and newer quarters, whatever happens to
\* the ingestor, as long as the harvester could record each file it added.
THEOREM YearsDoNotGoBack == Spec => []QuartersAdvance
  <1>1. Init => QuarterInv
    BY DEF Init, QuarterInv, Recorded, OfferIsNewest, QuartersAdvance, Created
  <1>2. QuarterInv => QuartersAdvance
    BY DEF QuarterInv
  <1> QED
    BY <1>1, <1>2, InitType, NextType, NextKeepsQuarters, PTL DEF Spec

-----------------------------------------------------------------------------
(* When polls begin only after ingest is done, as in the burst, the runs   *)
(* of a year come one after the other, and what the table holds of it is   *)
(* what the last one has copied so far.                                    *)

\* No run of j is under way and none will come.
Over(j) == ~Pending(j) /\ \A s \in Slots : task[s] # j
LastOf(j) == \A i \in Created : jobs[i].year = jobs[j].year => i <= j

\* The years of a poll: a file each, and nothing else that works on them.
Upcoming(y) == (\E f \in todo : f[1] = y) \/ (stage = "download" /\ offer[1] = y)
FilesApart ==
  /\ \A f, g \in todo : f[1] = g[1] => f = g
  /\ offer # NoFile => \A f \in todo : f[1] # offer[1]
UpcomingIsOver == \A j \in Created : Upcoming(jobs[j].year) \/ ~LastOf(j) => Over(j)
FreshOffer == stage = "download" /\ ~clear => \A b \in Quarters : table[offer[1]][b] = 0
HasLast == \A y \in Years : JobsOf(y) # {} => \E j \in JobsOf(y) : \A i \in JobsOf(y) : i <= j
PollInv == FilesApart /\ UpcomingIsOver /\ FreshOffer /\ HasLast

\* No run of j can have another one at its side: nobody put the job back.
Alone(j) == reclaims[j] = 0 /\ j \notin expired

\* A run is the only one of its job, unless the job was put back.
RunOf(s) == at[s] # "idle" =>
  /\ next[s] <= jobs[task[s]].quarter
  /\ at[s] = "clear" => next[s] = 1
  /\ Alone(task[s]) => HoldsLock(s)
RunInv == reclaims \in [Jobs -> Nat] /\ \A s \in Slots : RunOf(s)

\* The year of j holds the batches before n, once each, and nothing else.
Holds(j, n) == \A b \in Quarters : table[jobs[j].year][b] = IF b < n THEN 1 ELSE 0
Clean(j) == Alone(j) /\ (jobs[j].supersede \/ failures[j] + stalls[j] = 0)

\* What the last job of a year has put into the table so far.
Exact(j) ==
  /\ state[j] = "wait" /\ ~jobs[j].supersede => Holds(j, 1)
  /\ \A s \in Slots : task[s] = j => /\ at[s] = "copy" => Holds(j, next[s])
                                     /\ at[s] = "enqueue" => Holds(j, next[s] + 1)
  /\ state[j] = "completed" => Holds(j, jobs[j].quarter + 1)
TableInv == \A j \in Created : LastOf(j) /\ Clean(j) => Exact(j)

YearInv == TypeInv /\ PollInv /\ RunInv /\ TableInv

\* What an add does to the queue.
LEMMA AddShape ==
  ASSUME TypeInv, AddJob, offer \in Files, NEW n, n = lastId + 1
  PROVE  /\ n \in Jobs /\ n \notin Created /\ Created' = Created \union {n}
         /\ \A j \in Created : j < n /\ jobs'[j] = jobs[j] /\ state'[j] = state[j]
         /\ \A s \in Slots : task[s] # n
         /\ jobs'[n].year = offer[1] /\ jobs'[n].supersede = clear
         /\ state'[n] = "wait" /\ offer[1] \in Years
         /\ UNCHANGED <<failures, stalls, lock, expired, reclaims>>
  <1>1. lastId \in Nat /\ n = lastId + 1 /\ n \in Jobs /\ lastId' = n
    BY ConstantsAreNaturals DEF AddJob, TypeInv, TypeOK, Jobs
  <1>2. n \notin Created /\ Created' = Created \union {n}
        /\ \A j \in Created : j < n /\ j # n
    <2>1. 1..n = (1..lastId) \union {n} /\ n \notin 1..lastId
          /\ \A j \in 1..lastId : j < n /\ j # n
      BY <1>1
    <2> QED
      BY <1>1, <2>1 DEF Created
  <1>3. \A j \in Created : j \in Jobs
    BY CreatedAreJobs DEF TypeInv
  <1>4. \A j \in Created : jobs'[j] = jobs[j] /\ state'[j] = state[j]
    BY <1>2, <1>3 DEF AddJob, TypeInv, TypeOK
  <1>5. \A s \in Slots : task[s] # n
    BY <1>1, <1>2 DEF TypeInv, TypeOK, NoJob
  <1>6. /\ jobs'[n].year = offer[1] /\ state'[n] = "wait"
        /\ UNCHANGED <<failures, stalls, lock, expired, reclaims>>
    BY <1>1 DEF AddJob, TypeInv, TypeOK
  <1>7. jobs'[n].supersede = clear
    <2>1. jobs'[n] = [year |-> offer[1], quarter |-> offer[2], supersede |-> clear]
      BY <1>1 DEF AddJob, TypeInv, TypeOK
    <2> QED
      BY <2>1
  <1> QED
    BY <1>1, <1>2, <1>4, <1>5, <1>6, <1>7, FileIsPair

LEMMA LastAfterAdd ==
  ASSUME TypeInv, AddJob, offer \in Files, NEW n, n = lastId + 1
  PROVE  /\ LastOf(n)'
         /\ \A j \in Created : LastOf(j)' <=> LastOf(j) /\ jobs[j].year # offer[1]
  <1>1. /\ Created' = Created \union {n} /\ jobs'[n].year = offer[1]
        /\ \A j \in Created : j < n /\ jobs'[j] = jobs[j]
        /\ lastId \in Nat /\ n \in Nat /\ Created \subseteq Nat
    BY AddShape DEF Created, TypeInv, TypeOK
  <1>2. LastOf(n)'
    <2> SUFFICES ASSUME NEW i \in Created', jobs'[i].year = jobs'[n].year PROVE i <= n
      BY DEF LastOf
    <2>1. CASE i = n
      BY <1>1, <2>1
    <2>2. CASE i \in Created
      <3>1. i < n /\ i \in Nat
        BY <1>1, <2>2
      <3> QED
        BY <1>1, <3>1
    <2> QED
      BY <1>1, <2>1, <2>2
  <1>3. ASSUME NEW j \in Created
        PROVE  LastOf(j)' <=> LastOf(j) /\ jobs[j].year # offer[1]
    <2>1. LastOf(j)' => LastOf(j) /\ jobs[j].year # offer[1]
      <3>1. ~(n <= j)
        BY <1>1
      <3> QED
        BY <1>1, <3>1 DEF LastOf
    <2>2. LastOf(j) /\ jobs[j].year # offer[1] => LastOf(j)'
      BY <1>1 DEF LastOf
    <2> QED
      BY <2>1, <2>2
  <1> QED
    BY <1>2, <1>3

\* What the ingestor and the barrier leave alone.
LEMMA RunsLeave ==
  ASSUME TypeInv,
         \/ \E s \in Slots : RunProgress(s) \/ RunFails(s) \/ LockExpires(s)
         \/ IngestorCrash \/ (\E j \in Created : Reclaim(j))
  PROVE  /\ UNCHANGED <<todo, offer, stage, clear, lastId, jobs>>
         /\ \A j \in Created : Over(j) => Over(j)'
  <1>1. UNCHANGED <<todo, offer, stage, clear, lastId, jobs>>
    BY DEF RunProgress, Take, ReplaceFilingYear, CopyBatch, EnqueueBatch, RunFails,
           LockExpires, IngestorCrash, Reclaim, harvester, queue
  <1> SUFFICES ASSUME NEW j \in Created, Over(j) PROVE Over(j)'
    BY <1>1
  <1>0. j \in Jobs /\ j # NoJob /\ state[j] \notin {"wait", "active"} /\ \A s \in Slots : task[s] # j
    BY CreatedAreJobs, ConstantsAreNaturals DEF TypeInv, Over, Pending, Jobs, NoJob
  <1>2. ASSUME NEW s \in Slots, Take(s)
        PROVE  Over(j)'
    BY <1>0, <1>2 DEF Take, Over, Pending, TypeInv, TypeOK
  <1>3. ASSUME NEW s \in Slots, ReplaceFilingYear(s) \/ CopyBatch(s)
        PROVE  Over(j)'
    BY <1>0, <1>3 DEF ReplaceFilingYear, CopyBatch, queue, Over, Pending
  <1>4. ASSUME NEW s \in Slots, EnqueueBatch(s) \/ RunFails(s)
        PROVE  Over(j)'
    <2>1. \A t \in Slots : task'[t] # j
      BY <1>0, <1>4 DEF EnqueueBatch, RunFails, Free, TypeInv, TypeOK
    <2>2. state'[j] = state[j]
      BY <1>0, <1>4 DEF EnqueueBatch, RunFails, Release, queue, TypeInv, TypeOK
    <2> QED
      BY <1>0, <2>1, <2>2 DEF Over, Pending
  <1>5. CASE IngestorCrash
    BY <1>0, <1>5 DEF IngestorCrash, AfterStall, Over, Pending
  <1>7. ASSUME NEW s \in Slots, LockExpires(s)
        PROVE  Over(j)'
    <2>1. task[s] # j /\ \A t \in Slots : task'[t] # j
      BY <1>0, <1>7 DEF LockExpires, runs
    <2>2. state'[j] = state[j]
      BY <1>0, <1>7, <2>1 DEF LockExpires, Release, TypeInv, TypeOK
    <2> QED
      BY <1>0, <2>1, <2>2 DEF Over, Pending
  <1>6. ASSUME NEW i \in Created, Reclaim(i)
        PROVE  Over(j)'
    BY <1>0, <1>6 DEF Reclaim, runs, Over, Pending, TypeInv, TypeOK
  <1> QED
    BY <1>2, <1>3, <1>4, <1>5, <1>6, <1>7 DEF RunProgress

\* A run changes the year of its job.
LEMMA RunsTouchTheirYear ==
  ASSUME TypeInv, NEW y \in Years,
         \/ \E s \in Slots : RunProgress(s) \/ RunFails(s) \/ LockExpires(s)
         \/ IngestorCrash \/ (\E j \in Created : Reclaim(j)),
         \A s \in Slots : at[s] # "idle" => jobs[task[s]].year # y
  PROVE  table'[y] = table[y]
  <1>1. ASSUME NEW s \in Slots, ReplaceFilingYear(s) \/ CopyBatch(s)
        PROVE  table'[y] = table[y]
    <2>1. jobs[task[s]].year # y /\ jobs[task[s]].year \in Years
      BY <1>1, BusySlot DEF ReplaceFilingYear, CopyBatch, TypeInv
    <2> QED
      BY <1>1, <2>1 DEF ReplaceFilingYear, CopyBatch, TypeInv, TypeOK
  <1>2. \/ \E s \in Slots : ReplaceFilingYear(s) \/ CopyBatch(s)
        \/ table' = table
    BY DEF RunProgress, Take, EnqueueBatch, RunFails, LockExpires, IngestorCrash, Reclaim
  <1> QED
    BY <1>1, <1>2

LEMMA PollStep ==
  ASSUME TypeInv, PollInv, ~PollWhileBusy, Next
  PROVE  PollInv'
  <1>0. /\ Created \subseteq Nat /\ lastId \in Nat /\ todo \subseteq Files
        /\ (offer # NoFile => offer \in Files) /\ (stage # "none" => offer # NoFile)
        /\ table \in [Years -> [Quarters -> Nat]]
        /\ \A j \in Created : jobs[j].year \in Years
    BY DEF TypeInv, TypeOK, Created, JobData
  \* The poll goes on, or a file is left.
  <1>1. ASSUME todo' \subseteq todo, offer' = offer \/ offer' = NoFile,
               stage' # "download" \/ (stage' = stage /\ offer' = offer /\ clear' = clear),
               UNCHANGED <<lastId, jobs, state, task, table>>
        PROVE  PollInv'
    <2>1. \A y : Upcoming(y)' => Upcoming(y)
      BY <1>1 DEF Upcoming
    <2>2. \A j : Over(j)' <=> Over(j)
      BY <1>1 DEF Over, Pending
    <2>3. \A j : LastOf(j)' <=> LastOf(j)
      BY <1>1 DEF LastOf, Created
    <2>4. \A y : JobsOf(y)' = JobsOf(y)
      BY <1>1 DEF JobsOf, Created
    <2>5. UpcomingIsOver'
      BY <1>1, <2>1, <2>2, <2>3 DEF PollInv, UpcomingIsOver, Created
    <2>6. FreshOffer'
      BY <1>1 DEF PollInv, FreshOffer
    <2>7. FilesApart'
      BY <1>1 DEF PollInv, FilesApart
    <2>8. HasLast'
      BY <2>4 DEF PollInv, HasLast
    <2> QED
      BY <2>5, <2>6, <2>7, <2>8 DEF PollInv
  <1>2. ASSUME AddJob, stage = "download", stage' # "download", todo' = todo,
               offer' = offer \/ offer' = NoFile, UNCHANGED <<task, table>>
        PROVE  PollInv'
    <2>0. offer \in Files
      BY <1>0, <1>2
    <2>n. PICK n \in Nat : n = lastId + 1
      BY <1>0
    <2>1. /\ Created' = Created \union {n} /\ jobs'[n].year = offer[1]
          /\ \A j \in Created : j < n /\ jobs'[j] = jobs[j] /\ state'[j] = state[j]
      BY <1>2, <2>0, <2>n, AddShape
    <2>2. ASSUME NEW j \in Created, (Upcoming(jobs[j].year) \/ ~LastOf(j))' PROVE Over(j)'
      <3>1. Upcoming(jobs[j].year)' => Upcoming(jobs[j].year)
        BY <1>2, <2>1 DEF Upcoming
      <3>2. ~LastOf(j)' => ~LastOf(j) \/ Upcoming(jobs[j].year)
        BY <1>2, <2>0, <2>n, LastAfterAdd DEF Upcoming
      <3>3. Over(j)
        BY <2>2, <3>1, <3>2 DEF PollInv, UpcomingIsOver
      <3> QED
        BY <1>2, <2>1, <3>3 DEF Over, Pending
    <2>3. ~Upcoming(jobs[n].year)'
      <3>1. \A f \in todo' : f[1] # offer[1]
        BY <1>0, <1>2 DEF PollInv, FilesApart
      <3> QED
        BY <1>2, <2>1, <3>1 DEF Upcoming
    <2>4. LastOf(n)'
      BY <1>2, <2>0, <2>n, LastAfterAdd
    <2>5. UpcomingIsOver'
      BY <2>1, <2>2, <2>3, <2>4 DEF UpcomingIsOver
    <2>6. ASSUME NEW y \in Years, JobsOf(y)' # {}
          PROVE  \E j \in JobsOf(y)' : \A i \in JobsOf(y)' : i <= j
      <3>1. CASE y = offer[1]
        <4>1. n \in JobsOf(y)'
          BY <2>1, <3>1 DEF JobsOf
        <4>2. \A i \in JobsOf(y)' : i <= n
          BY <2>1, <2>4, <3>1 DEF JobsOf, LastOf
        <4> QED
          BY <4>1, <4>2
      <3>2. CASE y # offer[1]
        <4>1. JobsOf(y)' = JobsOf(y)
          BY <2>1, <3>2 DEF JobsOf
        <4> QED
          BY <2>6, <4>1 DEF PollInv, HasLast
      <3> QED
        BY <3>1, <3>2
    <2>7. FilesApart' /\ FreshOffer'
      BY <1>2 DEF PollInv, FilesApart, FreshOffer
    <2> QED
      BY <2>5, <2>6, <2>7 DEF PollInv, HasLast
  <1>3. CASE BeginPoll
    <2>1. /\ todo' = Best(source) /\ offer = NoFile /\ Quiet /\ source \subseteq Files
          /\ UNCHANGED <<offer, stage, clear, lastId, jobs, state, task, table>>
      BY <1>3 DEF BeginPoll, queue, runs, TypeInv, TypeOK
    <2>2. \A f, g \in todo' : f[1] = g[1] => f = g
      <3> SUFFICES ASSUME NEW f \in Best(source), NEW g \in Best(source), f[1] = g[1]
                   PROVE  f = g
        BY <2>1
      <3>1. /\ f \in Files /\ g \in Files /\ f[2] <= g[2] /\ g[2] <= f[2]
        BY <2>1 DEF Best
      <3>2. /\ f = <<f[1], f[2]>> /\ g = <<g[1], g[2]>> /\ f[2] \in Nat /\ g[2] \in Nat
        BY <3>1, IngestAssumption DEF Quarters
      <3> QED
        BY <3>1, <3>2
    <2>3. stage' = "none" /\ offer' = NoFile
      BY <2>1 DEF TypeInv, TypeOK
    <2>4. \A j \in Created' : Over(j)'
      BY <2>1, <1>0 DEF Quiet, Idle, Over, Pending, Created, TypeInv, TypeOK, NoJob
    <2>5. \A y : JobsOf(y)' = JobsOf(y)
      BY <2>1 DEF JobsOf, Created
    <2> QED
      BY <2>2, <2>3, <2>4, <2>5 DEF PollInv, FilesApart, UpcomingIsOver, FreshOffer, HasLast
  <1>4. CASE Check
    <2>1. PICK f \in todo : Check!2!(f)
      BY <1>4 DEF Check
    <2>2. CASE Skipped(f[1], f[2])
      <3>1. /\ todo' \subseteq todo /\ UNCHANGED <<offer, stage, clear, lastId, jobs, state, task, table>>
        BY <1>4, <2>1, <2>2 DEF Check, queue, runs
      <3> QED
        BY <1>1, <3>1
    <2>3. CASE ~Skipped(f[1], f[2])
      <3>1. /\ todo' = todo \ {f} /\ offer' = f /\ stage' = "download" /\ clear' = HasData(f[1])
            /\ UNCHANGED <<lastId, jobs, state, task, table>>
        BY <1>4, <2>1, <2>3 DEF Check, queue, runs
      <3>2. \A y : Upcoming(y)' => Upcoming(y)
        BY <3>1 DEF Upcoming
      <3>3. \A j : /\ Over(j)' <=> Over(j)
                   /\ LastOf(j)' <=> LastOf(j)
        BY <3>1 DEF Over, Pending, LastOf, Created
      <3>4. \A y : JobsOf(y)' = JobsOf(y)
        BY <3>1 DEF JobsOf, Created
      <3>5. UpcomingIsOver'
        BY <3>1, <3>2, <3>3 DEF PollInv, UpcomingIsOver, Created
      <3>6. f[1] \in Years
        BY <1>0, FileIsPair
      <3>7. FreshOffer'
        BY <1>0, <3>1, <3>6 DEF HasData, FreshOffer
      <3>8. FilesApart'
        BY <3>1 DEF PollInv, FilesApart
      <3>9. HasLast'
        BY <3>4 DEF PollInv, HasLast
      <3> QED
        BY <3>5, <3>7, <3>8, <3>9 DEF PollInv
    <2> QED
      BY <2>2, <2>3
  <1>5. ASSUME \/ \E s \in Slots : RunProgress(s) \/ RunFails(s) \/ LockExpires(s)
               \/ IngestorCrash \/ (\E j \in Created : Reclaim(j))
        PROVE  PollInv'
    <2>1. /\ UNCHANGED <<todo, offer, stage, clear, lastId, jobs>>
          /\ \A j \in Created : Over(j) => Over(j)'
      BY <1>5, RunsLeave
    <2>2. /\ \A y : Upcoming(y)' <=> Upcoming(y)
          /\ \A j : LastOf(j)' <=> LastOf(j)
          /\ \A y : JobsOf(y)' = JobsOf(y)
      BY <2>1 DEF Upcoming, LastOf, JobsOf, Created
    <2>3. UpcomingIsOver'
      BY <2>1, <2>2 DEF PollInv, UpcomingIsOver, Created
    <2>4. ASSUME stage' = "download", ~clear'
          PROVE  \A b \in Quarters : table'[offer'[1]][b] = 0
      <3>1. stage = "download" /\ ~clear /\ offer[1] \in Years
        BY <1>0, <2>1, <2>4, FileIsPair
      <3>2. \A s \in Slots : at[s] # "idle" => jobs[task[s]].year # offer[1]
        <4> SUFFICES ASSUME NEW s \in Slots, at[s] # "idle", jobs[task[s]].year = offer[1]
                     PROVE  FALSE
          OBVIOUS
        <4>1. task[s] \in Created
          BY BusySlot DEF TypeInv
        <4> QED
          BY <3>1, <4>1 DEF PollInv, UpcomingIsOver, Upcoming, Over
      <3>3. table'[offer[1]] = table[offer[1]]
        BY <1>5, <3>1, <3>2, RunsTouchTheirYear
      <3> QED
        BY <2>1, <3>1, <3>3 DEF PollInv, FreshOffer
    <2>5. FilesApart' /\ HasLast'
      BY <2>1, <2>2 DEF PollInv, FilesApart, HasLast
    <2> QED
      BY <2>3, <2>4, <2>5 DEF PollInv, FreshOffer
  <1>6. CASE (\E f \in Files : Publish(f)) \/ ArchiveInbox \/ MarkHarvested \/ HarvesterCrash
    BY <1>1, <1>6 DEF Publish, ArchiveInbox, MarkHarvested, HarvesterCrash, DropOffer,
                      harvester, queue, runs
  <1>7. CASE Enqueue
    BY <1>2, <1>7 DEF Enqueue, runs
  <1>8. CASE FileError
    <2>1. CASE stage = "download" /\ AddJob
      BY <1>2, <1>8, <2>1 DEF FileError, DropOffer, runs
    <2>2. CASE UNCHANGED queue
      BY <1>1, <1>8, <2>2 DEF FileError, DropOffer, queue, runs
    <2> QED
      BY <1>8, <2>1, <2>2 DEF FileError
  <1> QED
    BY <1>3, <1>4, <1>5, <1>6, <1>7, <1>8 DEF Next, PollProgress

\* A step that leaves the job of a slot and the slot alone.
LEMMA RunKept ==
  ASSUME NEW s \in Slots, task'[s] = task[s], at'[s] = at[s], next'[s] = next[s],
         at[s] # "idle" => /\ jobs'[task[s]] = jobs[task[s]] /\ state'[task[s]] = state[task[s]]
                           /\ lock'[task[s]] = lock[task[s]]
                           /\ reclaims'[task[s]] = reclaims[task[s]]
                           /\ task[s] \in expired' <=> task[s] \in expired,
         RunOf(s)
  PROVE  RunOf(s)'
  BY DEF RunOf, HoldsLock, Alone

\* Who holds the lock of a job holds it alone.
LEMMA SoleRunner ==
  ASSUME RunInv, NEW s \in Slots, NEW t \in Slots, at[s] # "idle", at[t] # "idle",
         task[s] = task[t], Alone(task[s])
  PROVE  s = t /\ HoldsLock(s)
  BY DEF RunInv, RunOf, HoldsLock, Alone

LEMMA RunStep ==
  ASSUME TypeInv, RunInv, Next
  PROVE  RunInv'
  <1>0. /\ Created \subseteq Jobs /\ reclaims \in [Jobs -> Nat]
        /\ \A s \in Slots : at[s] # "idle" => task[s] \in Created
        /\ \A s \in Slots : RunOf(s)
        /\ lock \in [Jobs -> Slots \union {NoJob}]
        /\ state \in [Jobs -> {"none", "wait", "active", "completed", "failed"}]
        /\ task \in [Slots -> Created \union {NoJob}]
        /\ at \in [Slots -> {"idle", "clear", "copy", "enqueue"}]
        /\ next \in [Slots -> Quarters]
        /\ \A s \in Slots : at[s] = "idle" <=> task[s] = NoJob
    BY CreatedAreJobs, BusySlot DEF TypeInv, TypeOK, RunInv
  <1>1. ASSUME AddJob, stage = "download", UNCHANGED runs
        PROVE  RunInv'
    <2>1. PICK n \in Nat : n = lastId + 1
      BY DEF TypeInv, TypeOK
    <2>2. offer \in Files
      BY <1>1 DEF TypeInv, TypeOK
    <2>3. /\ \A j \in Created : jobs'[j] = jobs[j] /\ state'[j] = state[j]
          /\ UNCHANGED <<lock, expired, reclaims, task, at, next>>
      BY <1>1, <2>1, <2>2, AddShape DEF runs
    <2>4. ASSUME NEW s \in Slots PROVE RunOf(s)'
      BY <1>0, <2>3, RunKept
    <2> QED
      BY <1>0, <2>3, <2>4 DEF RunInv
  <1>2. ASSUME UNCHANGED queue, UNCHANGED runs
        PROVE  RunInv'
    <2>1. ASSUME NEW s \in Slots PROVE RunOf(s)'
      BY <1>0, <1>2, RunKept DEF queue, runs
    <2> QED
      BY <1>0, <1>2, <2>1 DEF RunInv, queue
  <1>3. ASSUME NEW s \in Slots, Take(s)
        PROVE  RunInv'
    <2>1. PICK j \in Created : Take(s)!2!(j)
      BY <1>3 DEF Take
    <2>2. /\ j \in Jobs /\ at[s] = "idle" /\ UNCHANGED <<jobs, expired, reclaims>> /\ jobs[j].quarter \in Quarters
      BY <1>0, <1>3 DEF Take, TypeInv, TypeOK, JobData
    <2>3. RunOf(s)'
      <3>1. /\ task'[s] = j /\ next'[s] = 1 /\ state'[j] = "active" /\ lock'[j] = s
        BY <1>0, <2>1, <2>2
      <3>2. next'[s] <= jobs'[j].quarter
        BY <2>2, <3>1, ConstantsAreNaturals DEF Quarters
      <3> QED
        BY <3>1, <3>2 DEF RunOf, HoldsLock, Alone
    <2>4. ASSUME NEW t \in Slots, t # s PROVE RunOf(t)'
      <3>1. task'[t] = task[t] /\ at'[t] = at[t] /\ next'[t] = next[t]
        BY <1>0, <2>1, <2>4
      <3>2. CASE task[t] = j /\ at[t] # "idle"
        <4>1. ~Alone(j) /\ next[t] <= jobs[j].quarter /\ (at[t] = "clear" => next[t] = 1)
          BY <1>0, <2>1, <3>2 DEF RunOf, HoldsLock, Alone
        <4> QED
          BY <2>2, <3>1, <3>2, <4>1 DEF RunOf, Alone
      <3>3. CASE ~(task[t] = j /\ at[t] # "idle")
        <4>1. at[t] # "idle" => /\ jobs'[task[t]] = jobs[task[t]]
                                /\ state'[task[t]] = state[task[t]]
                                /\ lock'[task[t]] = lock[task[t]]
                                /\ reclaims'[task[t]] = reclaims[task[t]]
                                /\ task[t] \in expired' <=> task[t] \in expired
          BY <1>0, <2>1, <2>2, <3>3
        <4> QED
          BY <1>0, <3>1, <4>1, RunKept
      <3> QED
        BY <3>2, <3>3
    <2> QED
      BY <1>0, <2>2, <2>3, <2>4 DEF RunInv
  <1>4. ASSUME NEW s \in Slots, ReplaceFilingYear(s) \/ CopyBatch(s)
        PROVE  RunInv'
    <2>1. /\ UNCHANGED <<jobs, state, lock, expired, reclaims, task, next>>
          /\ at[s] # "idle" /\ at' = [at EXCEPT ![s] = at'[s]] /\ at'[s] \in {"copy", "enqueue"}
      BY <1>0, <1>4 DEF ReplaceFilingYear, CopyBatch, queue
    <2>2. RunOf(s)'
      BY <1>0, <2>1 DEF RunOf, HoldsLock, Alone
    <2>3. ASSUME NEW t \in Slots, t # s PROVE RunOf(t)'
      BY <1>0, <2>1, <2>3, RunKept
    <2> QED
      BY <1>0, <2>1, <2>2, <2>3 DEF RunInv
  \* The run ends, and its job moves on if the slot still has its lock.
  <1>5. ASSUME NEW s \in Slots, at[s] # "idle", Free(s), UNCHANGED <<jobs, expired, reclaims>>,
               IF HoldsLock(s) THEN \E to \in {"wait", "completed", "failed"} : Release(s, to)
                               ELSE UNCHANGED <<state, lock>>
        PROVE  RunInv'
    <2>1. RunOf(s)'
      BY <1>0, <1>5 DEF Free, RunOf
    <2>2. ASSUME NEW t \in Slots, t # s PROVE RunOf(t)'
      <3>1. task'[t] = task[t] /\ at'[t] = at[t] /\ next'[t] = next[t]
        BY <1>0, <1>5, <2>2 DEF Free
      <3>2. CASE HoldsLock(s) /\ task[t] = task[s] /\ at[t] # "idle"
        <4>1. ~Alone(task[t])
          BY <1>0, <1>5, <2>2, <3>2, SoleRunner
        <4> QED
          BY <1>0, <1>5, <3>1, <3>2, <4>1 DEF RunOf, Alone
      <3>3. CASE ~(HoldsLock(s) /\ task[t] = task[s] /\ at[t] # "idle")
        <4>1. at[t] # "idle" => /\ jobs'[task[t]] = jobs[task[t]]
                                /\ state'[task[t]] = state[task[t]]
                                /\ lock'[task[t]] = lock[task[t]]
                                /\ reclaims'[task[t]] = reclaims[task[t]]
                                /\ task[t] \in expired' <=> task[t] \in expired
          BY <1>0, <1>5, <3>3 DEF Release
        <4> QED
          BY <1>0, <3>1, <4>1, RunKept
      <3> QED
        BY <3>2, <3>3
    <2> QED
      BY <1>0, <1>5, <2>1, <2>2 DEF RunInv
  <1>6. ASSUME NEW s \in Slots, EnqueueBatch(s)
        PROVE  RunInv'
    <2>1. CASE next[s] < jobs[task[s]].quarter
      <3>1. /\ UNCHANGED <<jobs, state, lock, expired, reclaims, task>> /\ at[s] = "enqueue"
            /\ at' = [at EXCEPT ![s] = "copy"] /\ next' = [next EXCEPT ![s] = @ + 1]
        BY <1>6, <2>1 DEF EnqueueBatch, queue
      <3>2. jobs[task[s]].quarter \in Nat /\ next[s] \in Nat
        BY <1>0, <3>1, BusySlot, ConstantsAreNaturals DEF TypeInv, Quarters
      <3>3. RunOf(s)'
        BY <1>0, <2>1, <3>1, <3>2 DEF RunOf, HoldsLock, Alone
      <3>4. ASSUME NEW t \in Slots, t # s PROVE RunOf(t)'
        BY <1>0, <3>1, <3>4, RunKept
      <3> QED
        BY <1>0, <3>1, <3>3, <3>4 DEF RunInv
    <2>2. CASE ~(next[s] < jobs[task[s]].quarter)
      BY <1>5, <1>6, <2>2 DEF EnqueueBatch
    <2> QED
      BY <2>1, <2>2
  <1>7. ASSUME NEW s \in Slots, RunFails(s)
        PROVE  RunInv'
    <2>1. /\ at[s] # "idle" /\ Free(s) /\ UNCHANGED <<jobs, expired, reclaims>>
          /\ IF HoldsLock(s) THEN \E to \in {"wait", "completed", "failed"} : Release(s, to)
                             ELSE UNCHANGED <<state, lock>>
      BY <1>7 DEF RunFails
    <2> QED
      BY <1>5, <2>1
  <1>12. ASSUME NEW s \in Slots, LockExpires(s)
         PROVE  RunInv'
    <2>1. /\ task[s] \in expired' /\ expired' = expired \union {task[s]}
          /\ UNCHANGED <<jobs, reclaims, task, at, next>>
          /\ \A i \in Jobs \ {task[s]} : state'[i] = state[i] /\ lock'[i] = lock[i]
      BY <1>0, <1>12 DEF LockExpires, Release, runs
    <2>2. ASSUME NEW t \in Slots PROVE RunOf(t)'
      <3>1. CASE task[t] = task[s]
        BY <1>0, <2>1, <3>1 DEF RunOf, Alone
      <3>2. CASE task[t] # task[s]
        BY <1>0, <2>1, <3>2, RunKept
      <3> QED
        BY <3>1, <3>2
    <2> QED
      BY <1>0, <2>1, <2>2 DEF RunInv
  <1>8. CASE IngestorCrash
    BY <1>0, <1>8 DEF IngestorCrash, RunInv, RunOf
  <1>9. ASSUME NEW j \in Created, Reclaim(j)
        PROVE  RunInv'
    <2>1. /\ reclaims' \in [Jobs -> Nat] /\ reclaims'[j] # 0
          /\ \A i \in Jobs \ {j} : reclaims'[i] = reclaims[i] /\ state'[i] = state[i]
          /\ UNCHANGED <<jobs, lock, expired, task, at, next>>
      BY <1>0, <1>9 DEF Reclaim, runs
    <2>2. ASSUME NEW s \in Slots PROVE RunOf(s)'
      <3>1. CASE task[s] = j
        BY <1>0, <2>1, <3>1 DEF RunOf, Alone
      <3>2. CASE task[s] # j
        BY <1>0, <2>1, <3>2, RunKept
      <3> QED
        BY <3>1, <3>2
    <2> QED
      BY <2>1, <2>2 DEF RunInv
  <1>10. CASE (\E f \in Files : Publish(f)) \/ ArchiveInbox \/ BeginPoll \/ Check \/ MarkHarvested
              \/ HarvesterCrash
    BY <1>2, <1>10 DEF Publish, ArchiveInbox, BeginPoll, Check, MarkHarvested, HarvesterCrash
  <1>11. CASE Enqueue \/ FileError
    BY <1>1, <1>2, <1>11 DEF Enqueue, FileError
  <1> QED
    BY <1>3, <1>4, <1>6, <1>7, <1>8, <1>9, <1>10, <1>11, <1>12 DEF Next, PollProgress, RunProgress

\* A step that leaves alone what is said of j.
LEMMA ExactKept ==
  ASSUME NEW j \in Created, Exact(j), jobs'[j] = jobs[j],
         table'[jobs[j].year] = table[jobs[j].year],
         state'[j] \in {"wait", "completed"} => state'[j] = state[j],
         \A s \in Slots : task'[s] = j => task[s] = j /\ at'[s] = at[s] /\ next'[s] = next[s]
  PROVE  Exact(j)'
  <1>1. \A m : Holds(j, m)' <=> Holds(j, m)
    BY DEF Holds
  <1>2. state'[j] = "wait" /\ ~jobs'[j].supersede => Holds(j, 1)'
    BY <1>1 DEF Exact
  <1>3. state'[j] = "completed" => Holds(j, jobs[j].quarter + 1)'
    <2>1. state'[j] = "completed" => Holds(j, jobs[j].quarter + 1)
      BY DEF Exact
    <2> QED
      BY <2>1 DEF Holds
  <1> QED
    BY <1>1, <1>2, <1>3 DEF Exact

\* The last job of a year is the only one a slot can run for it.
LEMMA OnlyTheLastRuns ==
  ASSUME TypeInv, PollInv, NEW j \in Created, LastOf(j), NEW s \in Slots, at[s] # "idle",
         jobs[task[s]].year = jobs[j].year
  PROVE  task[s] = j
  <1>1. task[s] \in Created /\ task[s] \in Nat /\ j \in Nat
    BY BusySlot DEF TypeInv, TypeOK, Created
  <1>2. LastOf(task[s])
    BY <1>1 DEF PollInv, UpcomingIsOver, Over
  <1> QED
    BY <1>1, <1>2 DEF LastOf

\* TRUNCATE and COPY.
LEMMA WriteIsExact ==
  ASSUME TypeInv, PollInv, RunInv, NEW s \in Slots, ReplaceFilingYear(s) \/ CopyBatch(s),
         NEW j \in Created, LastOf(j), Alone(j), Exact(j)
  PROVE  Exact(j)'
  <1>0. /\ at[s] \in {"clear", "copy"} /\ UNCHANGED <<jobs, state, lock, task, next>>
        /\ task[s] \in Created /\ jobs[task[s]].year \in Years /\ jobs[j].year \in Years
        /\ at' = [at EXCEPT ![s] = at'[s]] /\ at'[s] \in {"copy", "enqueue"}
        /\ at \in [Slots -> {"idle", "clear", "copy", "enqueue"}]
        /\ \A t \in Slots : at[t] = "idle" <=> task[t] = NoJob
        /\ table \in [Years -> [Quarters -> Nat]] /\ next \in [Slots -> Quarters]
        /\ j # NoJob
    BY BusySlot, ConstantsAreNaturals
    DEF ReplaceFilingYear, CopyBatch, queue, TypeInv, TypeOK, JobData, Created, NoJob
  <1>1. CASE jobs[task[s]].year # jobs[j].year
    <2>1. table'[jobs[j].year] = table[jobs[j].year]
      BY <1>0, <1>1 DEF ReplaceFilingYear, CopyBatch
    <2>2. \A t \in Slots : task'[t] = j => task[t] = j /\ at'[t] = at[t] /\ next'[t] = next[t]
      BY <1>0, <1>1
    <2> QED
      BY <1>0, <2>1, <2>2, ExactKept
  <1>2. CASE jobs[task[s]].year = jobs[j].year
    <2>1. task[s] = j
      BY <1>0, <1>2, OnlyTheLastRuns
    <2>2. /\ state[j] = "active"
          /\ \A t \in Slots : task[t] = j => t = s
      <3>1. HoldsLock(s)
        BY <1>0, <2>1, SoleRunner
      <3>2. ASSUME NEW t \in Slots, task[t] = j PROVE t = s
        BY <1>0, <2>1, <3>2, SoleRunner
      <3> QED
        BY <2>1, <3>1, <3>2 DEF HoldsLock
    <2>3. next[s] \in Nat /\ Quarters \subseteq Nat
      BY <1>0 DEF Quarters
    <2>4. CASE ReplaceFilingYear(s)
      <3>1. /\ next[s] = 1 /\ at'[s] = "copy"
            /\ \A b \in Quarters : table'[jobs[j].year][b] = 0
        BY <1>0, <2>1, <2>4 DEF ReplaceFilingYear, RunInv, RunOf
      <3>2. \A b \in Quarters : table'[jobs[j].year][b] = IF b < next[s] THEN 1 ELSE 0
        BY <2>3, <3>1 DEF Quarters
      <3> QED
        BY <1>0, <2>1, <2>2, <3>1, <3>2 DEF Exact, Holds
    <2>5. CASE CopyBatch(s)
      <3>1. at'[s] = "enqueue" /\ Holds(j, next[s])
        BY <1>0, <2>1, <2>5 DEF CopyBatch, Exact
      <3>2. /\ table'[jobs[j].year][next[s]] = table[jobs[j].year][next[s]] + 1
            /\ \A b \in Quarters \ {next[s]} : table'[jobs[j].year][b] = table[jobs[j].year][b]
        BY <1>0, <2>1, <2>5 DEF CopyBatch
      <3>3. \A b \in Quarters : table'[jobs[j].year][b] = IF b < next[s] + 1 THEN 1 ELSE 0
        <4> SUFFICES ASSUME NEW b \in Quarters
                     PROVE  table'[jobs[j].year][b] = IF b < next[s] + 1 THEN 1 ELSE 0
          OBVIOUS
        <4>1. CASE b = next[s]
          BY <2>3, <3>1, <3>2, <4>1 DEF Holds
        <4>2. CASE b # next[s]
          BY <2>3, <3>1, <3>2, <4>2 DEF Holds
        <4> QED
          BY <4>1, <4>2
      <3> QED
        BY <1>0, <2>1, <2>2, <3>1, <3>3 DEF Exact, Holds
    <2> QED
      BY <2>4, <2>5
  <1> QED
    BY <1>1, <1>2

LEMMA TableStep ==
  ASSUME TypeInv, PollInv, RunInv, TableInv, Next
  PROVE  TableInv'
  <1>0. /\ Created \subseteq Jobs /\ Created \subseteq Nat \ {NoJob}
        /\ reclaims \in [Jobs -> Nat]
        /\ failures \in [Jobs -> 0..Attempts] /\ stalls \in [Jobs -> Nat]
        /\ state \in [Jobs -> {"none", "wait", "active", "completed", "failed"}]
        /\ task \in [Slots -> Created \union {NoJob}]
        /\ at \in [Slots -> {"idle", "clear", "copy", "enqueue"}]
        /\ next \in [Slots -> Quarters]
        /\ \A s \in Slots : at[s] = "idle" <=> task[s] = NoJob
    BY CreatedAreJobs DEF TypeInv, TypeOK, RunInv, Created, NoJob
  <1>n. \A j \in Created : failures[j] \in Nat /\ stalls[j] \in Nat
    BY <1>0, ConstantsAreNaturals
  <1>1. ASSUME AddJob, stage = "download", UNCHANGED <<runs, table>>
        PROVE  TableInv'
    <2>1. PICK n \in Nat : n = lastId + 1
      BY DEF TypeInv, TypeOK
    <2>2. offer \in Files
      BY <1>1 DEF TypeInv, TypeOK
    <2>3. /\ Created' = Created \union {n}
          /\ \A j \in Created : jobs'[j] = jobs[j] /\ state'[j] = state[j]
          /\ UNCHANGED <<failures, stalls, expired, reclaims, task, at, next>>
      BY <1>1, <2>1, <2>2, AddShape DEF runs
    <2>4. ASSUME NEW j \in Created, LastOf(j)', Clean(j)'
          PROVE  Exact(j)'
      <3>1. LastOf(j) /\ Clean(j)
        BY <1>1, <2>1, <2>2, <2>3, <2>4, LastAfterAdd DEF Clean, Alone
      <3> QED
        BY <1>1, <2>3, <3>1, ExactKept DEF TableInv
    <2>5. Exact(n)'
      <3>1. /\ jobs'[n].year = offer[1] /\ jobs'[n].supersede = clear /\ state'[n] = "wait"
            /\ \A s \in Slots : task'[s] # n
        BY <1>1, <2>1, <2>2, <2>3, AddShape
      <3>2. ~clear => \A b \in Quarters : table'[offer[1]][b] = IF b < 1 THEN 1 ELSE 0
        BY <1>1, ConstantsAreNaturals DEF PollInv, FreshOffer, Quarters
      <3> QED
        BY <3>1, <3>2 DEF Exact, Holds
    <2> QED
      BY <2>3, <2>4, <2>5 DEF TableInv
  <1>2. ASSUME UNCHANGED <<queue, runs, table>>
        PROVE  TableInv'
    <2>1. ASSUME NEW j \in Created', LastOf(j)', Clean(j)'
          PROVE  Exact(j)'
      <3>1. j \in Created /\ LastOf(j) /\ Clean(j)
        BY <1>2, <2>1 DEF queue, Created, LastOf, Clean, Alone
      <3> QED
        BY <1>2, <3>1, ExactKept DEF TableInv, queue, runs
    <2> QED
      BY <2>1 DEF TableInv
  \* The steps of ingestor and barrier, job by job.
  <1>3. ASSUME \/ \E s \in Slots : RunProgress(s) \/ RunFails(s) \/ LockExpires(s)
               \/ IngestorCrash \/ (\E j \in Created : Reclaim(j)),
               NEW j \in Created, LastOf(j)', Clean(j)'
        PROVE  Exact(j)'
    <2>0. /\ UNCHANGED <<lastId, jobs>> /\ LastOf(j)
          /\ j \in Jobs /\ j # NoJob
      <3>1. UNCHANGED <<lastId, jobs>>
        BY <1>3, RunsLeave
      <3> QED
        BY <1>0, <1>3, <3>1 DEF LastOf, Created
    <2>1. ASSUME NEW s \in Slots, Take(s)
          PROVE  Exact(j)'
      <3>1. PICK i \in Created : Take(s)!2!(i)
        BY <2>1 DEF Take
      <3>2. /\ at[s] = "idle" /\ UNCHANGED <<jobs, failures, stalls, expired, reclaims, table>>
            /\ i \in Jobs
        BY <1>0, <2>1 DEF Take
      <3>3. Clean(j)
        BY <1>3, <3>2 DEF Clean, Alone
      <3>4. Exact(j)
        BY <2>0, <3>3 DEF TableInv
      <3>5. CASE i # j
        <4>1. \A t \in Slots : task'[t] = j => task[t] = j /\ at'[t] = at[t] /\ next'[t] = next[t]
          BY <1>0, <3>1, <3>5
        <4> QED
          BY <1>0, <3>1, <3>2, <3>4, <3>5, <4>1, ExactKept
      <3>6. CASE i = j
        <4>1. /\ state[j] = "wait" /\ state'[j] = "active"
              /\ at'[s] = (IF jobs[j].supersede THEN "clear" ELSE "copy") /\ next'[s] = 1
              /\ \A t \in Slots \ {s} : task'[t] = task[t] /\ at'[t] = at[t] /\ next'[t] = next[t]
          BY <1>0, <3>1, <3>2, <3>6
        <4>2. at'[s] # "enqueue" /\ (at'[s] = "copy" => Holds(j, 1))
          BY <3>4, <4>1 DEF Exact
        <4>3. \A m : Holds(j, m)' <=> Holds(j, m)
          BY <3>2 DEF Holds
        <4>4. ASSUME NEW t \in Slots, task'[t] = j
              PROVE  /\ at'[t] = "copy" => Holds(j, next'[t])
                     /\ at'[t] = "enqueue" => Holds(j, next'[t] + 1)
          <5>1. CASE t = s
            BY <4>1, <4>2, <5>1
          <5>2. CASE t # s
            BY <3>4, <4>1, <4>4, <5>2 DEF Exact
          <5> QED
            BY <5>1, <5>2
        <4>5. ASSUME NEW t \in Slots, task'[t] = j
              PROVE  (/\ at[t] = "copy" => Holds(j, next[t])
                      /\ at[t] = "enqueue" => Holds(j, next[t] + 1))'
          BY <3>2, <4>4, <4>5 DEF Holds
        <4> QED
          BY <4>1, <4>5 DEF Exact
      <3> QED
        BY <3>5, <3>6
    <2>2. ASSUME NEW s \in Slots, ReplaceFilingYear(s) \/ CopyBatch(s)
          PROVE  Exact(j)'
      <3>1. UNCHANGED <<failures, stalls, expired, reclaims>>
        BY <2>2 DEF ReplaceFilingYear, CopyBatch, queue
      <3>2. Clean(j) /\ Alone(j)
        BY <1>3, <2>0, <3>1 DEF Clean, Alone
      <3> QED
        BY <2>0, <2>2, <3>2, WriteIsExact DEF TableInv
    <2>3. ASSUME NEW s \in Slots, EnqueueBatch(s)
          PROVE  Exact(j)'
      <3>1. /\ UNCHANGED <<failures, stalls, expired, reclaims, table>> /\ at[s] = "enqueue"
            /\ task[s] \in Created /\ jobs[task[s]].quarter \in Nat
            /\ next[s] \in Nat
        BY <1>0, <2>3, BusySlot, ConstantsAreNaturals DEF EnqueueBatch, queue, TypeInv, Quarters
      <3>2. Exact(j)
        BY <1>3, <2>0, <3>1 DEF Clean, Alone, TableInv
      <3>3. CASE next[s] < jobs[task[s]].quarter
        <4>1. /\ UNCHANGED <<state, task>> /\ at' = [at EXCEPT ![s] = "copy"]
              /\ next' = [next EXCEPT ![s] = @ + 1]
          BY <2>3, <3>3 DEF EnqueueBatch, queue
        <4>2. ASSUME NEW t \in Slots, task[t] = j
              PROVE  /\ at'[t] = "copy" => Holds(j, next'[t])
                     /\ at'[t] = "enqueue" => Holds(j, next'[t] + 1)
          <5>1. CASE t = s
            BY <1>0, <3>1, <3>2, <4>1, <4>2, <5>1 DEF Exact
          <5>2. CASE t # s
            BY <1>0, <3>2, <4>1, <4>2, <5>2 DEF Exact
          <5> QED
            BY <5>1, <5>2
        <4>3. ASSUME NEW t \in Slots, task'[t] = j
              PROVE  (/\ at[t] = "copy" => Holds(j, next[t])
                      /\ at[t] = "enqueue" => Holds(j, next[t] + 1))'
          BY <2>0, <3>1, <4>1, <4>2, <4>3 DEF Holds
        <4>4. /\ state'[j] = "wait" /\ ~jobs'[j].supersede => Holds(j, 1)'
              /\ state'[j] = "completed" => Holds(j, jobs[j].quarter + 1)'
          BY <2>0, <3>1, <3>2, <4>1 DEF Exact, Holds
        <4> QED
          BY <4>3, <4>4 DEF Exact
      <3>4. CASE ~(next[s] < jobs[task[s]].quarter)
        <4>1. /\ Free(s)
              /\ IF HoldsLock(s) THEN Release(s, "completed") ELSE UNCHANGED <<state, lock>>
          BY <2>3, <3>4 DEF EnqueueBatch
        <4>2. \A t \in Slots : task'[t] = j => task[t] = j /\ at'[t] = at[t] /\ next'[t] = next[t]
          BY <1>0, <2>0, <4>1 DEF Free
        <4>3. CASE HoldsLock(s) /\ task[s] = j
          <5>1. next[s] = jobs[j].quarter
            BY <3>1, <3>4, <4>3 DEF RunInv, RunOf
          <5>2. Holds(j, jobs[j].quarter + 1)
            BY <3>1, <3>2, <4>3, <5>1 DEF Exact
          <5>3. state'[j] = "completed"
            BY <1>0, <2>0, <4>1, <4>3 DEF Release
          <5>4. ASSUME NEW t \in Slots, task'[t] = j
                PROVE  (/\ at[t] = "copy" => Holds(j, next[t])
                        /\ at[t] = "enqueue" => Holds(j, next[t] + 1))'
            BY <2>0, <3>1, <3>2, <4>2, <5>4 DEF Exact, Holds
          <5>5. Holds(j, jobs[j].quarter + 1)'
            BY <2>0, <3>1, <5>2 DEF Holds
          <5> QED
            BY <5>3, <5>4, <5>5 DEF Exact
        <4>4. CASE ~(HoldsLock(s) /\ task[s] = j)
          <5>1. state'[j] = state[j]
            BY <1>0, <2>0, <4>1, <4>4 DEF Release
          <5> QED
            BY <2>0, <3>1, <3>2, <4>2, <5>1, ExactKept
        <4> QED
          BY <4>3, <4>4
      <3> QED
        BY <3>3, <3>4
    <2>4. ASSUME NEW s \in Slots, RunFails(s)
          PROVE  Exact(j)'
      <3>1. /\ UNCHANGED <<stalls, expired, reclaims, table>> /\ Free(s)
            /\ task[s] \in Created /\ task[s] \in Jobs
            /\ IF HoldsLock(s)
                 THEN /\ failures' = [failures EXCEPT ![task[s]] = @ + 1]
                      /\ \E to \in {"wait", "failed"} : Release(s, to)
                 ELSE UNCHANGED <<failures, state, lock>>
        BY <2>4, BusySlot DEF RunFails, TypeInv
      <3>2. \A t \in Slots : task'[t] = j => task[t] = j /\ at'[t] = at[t] /\ next'[t] = next[t]
        BY <1>0, <2>0, <3>1 DEF Free
      <3>3. CASE HoldsLock(s) /\ task[s] = j
        <4>1. failures'[j] = failures[j] + 1 /\ state'[j] \in {"wait", "failed"}
          BY <1>0, <2>0, <3>1, <3>3 DEF Release
        <4>2. jobs[j].supersede
          BY <1>3, <1>n, <2>0, <3>1, <4>1 DEF Clean, Alone
        <4>3. Exact(j)
          BY <1>3, <2>0, <3>1, <4>2 DEF Clean, Alone, TableInv
        <4>4. ASSUME NEW t \in Slots, task'[t] = j
              PROVE  (/\ at[t] = "copy" => Holds(j, next[t])
                      /\ at[t] = "enqueue" => Holds(j, next[t] + 1))'
          BY <2>0, <3>1, <3>2, <4>3, <4>4 DEF Exact, Holds
        <4> QED
          BY <2>0, <4>1, <4>2, <4>4 DEF Exact
      <3>4. CASE ~(HoldsLock(s) /\ task[s] = j)
        <4>1. state'[j] = state[j] /\ failures'[j] = failures[j]
          BY <1>0, <2>0, <3>1, <3>4 DEF Release
        <4>2. Exact(j)
          BY <1>3, <2>0, <3>1, <4>1 DEF Clean, Alone, TableInv
        <4> QED
          BY <2>0, <3>1, <3>2, <4>1, <4>2, ExactKept
      <3> QED
        BY <3>3, <3>4
    <2>7. ASSUME NEW s \in Slots, LockExpires(s)
          PROVE  Exact(j)'
      <3>1. /\ UNCHANGED <<jobs, failures, reclaims, task, at, next, table>>
            /\ expired' = expired \union {task[s]} /\ task[s] \in Jobs
            /\ stalls' = [stalls EXCEPT ![task[s]] = @ + 1] /\ Release(s, AfterStall(task[s]))
        BY <2>7, BusySlot DEF LockExpires, runs, TypeInv
      <3>2. task[s] # j
        BY <1>3, <3>1 DEF Clean, Alone
      <3>3. state'[j] = state[j] /\ stalls'[j] = stalls[j]
        BY <1>0, <2>0, <3>1, <3>2 DEF Release
      <3>4. Exact(j)
        BY <1>3, <2>0, <3>1, <3>3 DEF Clean, Alone, TableInv
      <3> QED
        BY <1>0, <2>0, <3>1, <3>3, <3>4, ExactKept
    <2>5. CASE IngestorCrash
      <3>1. /\ UNCHANGED <<failures, expired, reclaims, table>>
            /\ \A s \in Slots : task'[s] = NoJob
            /\ state[j] = "active" => stalls'[j] = stalls[j] + 1 /\ state'[j] \in {"wait", "failed"}
            /\ state[j] # "active" => stalls'[j] = stalls[j] /\ state'[j] = state[j]
        BY <1>0, <2>0, <2>5 DEF IngestorCrash, AfterStall
      <3>2. Clean(j) /\ (state[j] = "active" => jobs[j].supersede)
        <4>1. stalls'[j] = 0 => stalls[j] = 0 /\ state[j] # "active"
          BY <1>n, <3>1
        <4>2. failures[j] + stalls'[j] = 0 => failures[j] = 0 /\ stalls'[j] = 0
          <5>1. failures[j] \in Nat /\ stalls'[j] \in Nat
            BY <1>n, <3>1
          <5> QED
            BY <5>1
        <4> QED
          BY <1>3, <2>0, <3>1, <4>1, <4>2 DEF Clean, Alone
      <3>3. Exact(j)
        BY <2>0, <3>2 DEF TableInv
      <3> QED
        BY <2>0, <3>1, <3>2, <3>3 DEF Exact, Holds
    <2>6. ASSUME NEW i \in Created, Reclaim(i)
          PROVE  Exact(j)'
      <3>1. /\ UNCHANGED <<jobs, failures, stalls, expired, task, at, next, table>>
            /\ reclaims' = [reclaims EXCEPT ![i] = @ + 1] /\ state' = [state EXCEPT ![i] = "wait"]
        BY <2>6 DEF Reclaim, runs
      <3>2. i # j
        BY <1>0, <1>3, <2>0, <3>1 DEF Clean, Alone
      <3>3. Exact(j)
        BY <1>0, <1>3, <2>0, <3>1, <3>2 DEF Clean, Alone, TableInv
      <3> QED
        BY <1>0, <3>1, <3>2, <3>3, ExactKept
    <2> QED
      BY <1>3, <2>1, <2>2, <2>3, <2>4, <2>5, <2>6, <2>7 DEF RunProgress
  <1>4. ASSUME \/ \E s \in Slots : RunProgress(s) \/ RunFails(s) \/ LockExpires(s)
               \/ IngestorCrash \/ (\E j \in Created : Reclaim(j))
        PROVE  TableInv'
    <2>1. Created' = Created
      BY <1>4, RunsLeave DEF Created
    <2> QED
      BY <1>3, <1>4, <2>1 DEF TableInv
  <1>5. CASE (\E f \in Files : Publish(f)) \/ ArchiveInbox \/ BeginPoll \/ Check \/ MarkHarvested
             \/ HarvesterCrash
    BY <1>2, <1>5 DEF Publish, ArchiveInbox, BeginPoll, Check, MarkHarvested, HarvesterCrash
  <1>6. CASE Enqueue \/ FileError
    BY <1>1, <1>2, <1>6 DEF Enqueue, FileError
  <1> QED
    BY <1>4, <1>5, <1>6 DEF Next, PollProgress

LEMMA InitYears == Init => YearInv
  <1> SUFFICES ASSUME Init PROVE PollInv /\ RunInv /\ TableInv
    BY InitType DEF YearInv
  <1>1. Created = {}
    BY DEF Init, Created
  <1>2. PollInv
    BY <1>1 DEF Init, PollInv, FilesApart, UpcomingIsOver, FreshOffer, HasLast, JobsOf
  <1>3. RunInv
    BY DEF Init, RunInv, RunOf
  <1>4. TableInv
    BY <1>1 DEF TableInv
  <1> QED
    BY <1>2, <1>3, <1>4

LEMMA YearsStutter == YearInv /\ UNCHANGED vars => YearInv'
  <1> SUFFICES ASSUME YearInv, UNCHANGED vars PROVE YearInv'
    OBVIOUS
  <1>1. TypeInv'
    BY NextType DEF YearInv
  <1>2. UNCHANGED <<todo, offer, stage, clear, lastId, jobs, state, failures, stalls, lock,
                    expired, reclaims, task, at, next, table>>
    BY DEF vars, harvester, queue, runs
  <1>3. PollInv'
    BY <1>2 DEF YearInv, PollInv, FilesApart, UpcomingIsOver, FreshOffer, HasLast, JobsOf,
                Created, Upcoming, LastOf, Over, Pending
  <1>4. RunInv'
    BY <1>2 DEF YearInv, RunInv, RunOf, HoldsLock, Alone
  <1>5. TableInv'
    BY <1>2 DEF YearInv, TableInv, Created, LastOf, Clean, Alone, Exact, Holds
  <1> QED
    BY <1>1, <1>3, <1>4, <1>5 DEF YearInv

LEMMA YearsHold == YearInv => YearIsExact
  <1> SUFFICES ASSUME YearInv, NEW y \in Years, JobsOf(y) # {},
                      NEW j, j = Latest(y), state[j] = "completed", reclaims[j] = 0, j \notin expired,
                      jobs[j].supersede \/ failures[j] + stalls[j] = 0,
                      NEW b \in Quarters
               PROVE  table[y][b] = IF b <= jobs[j].quarter THEN 1 ELSE 0
    BY DEF YearIsExact
  <1>1. j \in JobsOf(y) /\ \A i \in JobsOf(y) : i <= j
    BY DEF YearInv, PollInv, HasLast, Latest
  <1>2. j \in Created /\ jobs[j].year = y /\ LastOf(j)
    BY <1>1 DEF JobsOf, LastOf
  <1>3. Holds(j, jobs[j].quarter + 1)
    BY <1>2 DEF YearInv, TableInv, Clean, Alone, Exact
  <1>4. b \in Nat /\ jobs[j].quarter \in Nat
    BY <1>2 DEF YearInv, TypeInv, TypeOK, JobData, Quarters
  <1> QED
    BY <1>2, <1>3, <1>4 DEF Holds

\* "The cumulative file fully REPLACES it (no duplicate cases)", for any
\* number of years, slots, attempts, failed runs and crashes: the last completed
\* job of a year has put each case of its file into lca_records once, unless it
\* was reclaimed or its lock expired while its run went on.  As in the burst,
\* polls begin only after ingest is done.
THEOREM YearsAreExact == ~PollWhileBusy => (Spec => []YearIsExact)
  <1> SUFFICES ASSUME ~PollWhileBusy PROVE Spec => []YearIsExact
    OBVIOUS
  <1>1. YearInv /\ [Next]_vars => YearInv'
    <2>1. YearInv /\ Next => YearInv'
      BY NextType, PollStep, RunStep, TableStep DEF YearInv
    <2> QED
      BY <2>1, YearsStutter
  <1> QED
    BY <1>1, InitYears, YearsHold, PTL DEF Spec
=============================================================================
