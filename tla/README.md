# A TLA+ model of the LCA normalization engine

The engine takes the quarterly H-1B LCA disclosure files of the US Department
of Labor, loads them into PostgreSQL, classifies each row's occupation (SOC
code), resolves its employer, lets operators correct what the classifier is not
sure of, and publishes a read-only site and a data API from the result. Most of
it runs on one machine as a set of containers around PostgreSQL and Redis; once a
quarter it runs as a "burst" on a temporary EC2 box driven by shell scripts.

What is hard about it is not the computation. It is that a row has to survive a
chain of queues, retries, crashes and self-healing scripts, that whether the data
is complete is decided by looking at that chain from outside, and that what is
published once (a URL, an edit, a text) has to survive rebuilds on boxes that are
thrown away. This directory models that: TLA+ modules translated from the code,
TLC runs on small instances, and proofs for every instance.

## 1. Inventory

| Part | State it keeps | Operations | Talks to |
| --- | --- | --- | --- |
| Harvester, `apps/harvester/index.js` | `harvested_files` | `poll`: list the files, keep the newest of each year, skip, decide `supersede`, download, `add`, `markHarvested` | DOL page or inbox, `lca_records` (reads), queue `ingest-tasks` |
| `ingest-tasks` (BullMQ) | jobs with state, attempts, lock, stalled count | add, take, retry, fail, recover stalled jobs | harvester, ingestor, barrier |
| Ingestor, `apps/ingestor/index.js`, `packages/db-lib/index.js` | `lca_records` | `processIngestJob`: clear the year, then COPY and `nlpQueue.add` per batch | `ingest-tasks`, PostgreSQL, `nlp-tasks` |
| NLP queue and worker, `worker.py` | Redis lists `wait`, `active`, `dead`; `attempts`; `soc_code` in `lca_records`; `staging.quarantine_records` | `process_one`, `_handle_job`, `_write_results`, `_write_unresolved` | `nlp-tasks`, PostgreSQL |
| Burst NLP stage, `burst-nlp-coverage.sh` and its helpers | the script's variables | sweep, barrier (with reclaim), coverage assertion | both queues, PostgreSQL |
| SOC cascade, `soc_classifier.py`, `dmtf_loader.py`, `alias_bootstrap.py`, `employer_consensus.py` | `soc_aliases`, `employer_soc_consensus`, an embedding index in memory | `predict_batch`, `topk_candidates`; load, mine, rebuild | worker, LLM job, PostgreSQL |
| Entity resolution, `entity_resolution.py` and the two backfills | `canonical_employers`, `employer_embeddings`, `staging.unresolved_employers` | resolve by FEIN, trigram, vector; list; embed; backfill | worker, operators, scripts |
| Operator UI, `apps/operator-ui` | review flags, quarantine, unresolved employers | patch, reject, assign, drop, merge, create | PostgreSQL, release scripts |
| LLM reclassification, `reclassify_quarantine.py` | quarantine rows | ask, write, delete | PostgreSQL, an LLM API |
| Release, `data-pipeline-stack.ts`, `infra/aws/scripts` | inbox, archive and `latest.pgdump` in S3, the boxes, what dev and production serve | trigger, box in three modes, promote, preview, tear down, watchdog | S3, SSM, Step Functions |
| DOL watcher, `infra/mac/dol-watch.sh` | high-water mark, lock directory | poll, upload, put event | S3, EventBridge |
| Site build, `build-sqlite.ts` | `lca.db`, the archives of earlier quarters | pages, slugs, cross-references, redirects, archive copy | PostgreSQL, `next build` |
| Page texts, `generate-summaries.ts` | `entity_summary`, batches at the LLM | seed, hash, generate (stub, sync, batch), write | `lca.db`, S3, an LLM API |
| Data API, `lib/api/auth.ts`, `lib/keys-db.ts`, `manage-keys.ts` | `keys.db`, counters in memory | create, revoke; let in, refuse, count | clients |
| Pages, sitemap and archive, `analytics-web/app`, `components`, `lib` | - | routes, links, search, archive of a label | `lca.db`, archives, redirects baked into the image |
| Dashboards, `analytics-ui` | - | read | materialised views |
| CLI, `apps/cli-tool` | - | seed, reset, queue commands | PostgreSQL, Redis |

How a quarter flows: a file is uploaded and a box starts; the harvester adds an
ingest job and records the file; the ingestor clears the year if it had data,
copies batch after batch and adds an NLP job for each; the workers classify and
resolve; the burst waits for `ingest-tasks`, sweeps what is not covered into
`nlp-tasks`, waits for that queue, and asserts coverage; then `lca.db` is built,
gets its texts, is shown on the dev site, and the database is saved to S3; an
operator reviews, promotes, and the box goes.

What makes each part correct, and where it is hard:

- **Harvester.** Files are cumulative within a year: a year must never go back to
  an older quarter, a year loaded by the CLI must never be touched, and what
  `harvested_files` says must be there. Adding a job and recording it are two
  systems; the decision to supersede is taken before the job runs.
- **Ingestor.** After a superseding job a year has each case once, although the
  clearing, each COPY and each `add` commit on their own and any of them is
  retried from the first row. BullMQ may run a job again after a stall, also of a
  run that is only late with its lock; the barrier may put it back while it runs.
- **NLP queue and worker.** No batch is lost, none is retried for ever, none is
  acknowledged unwritten, none is handled twice without a reason. The
  acknowledgement is `lrem`, then `hincrby`, then `lpush`, three commands that a
  crash may separate and of which the client may send each again.
- **Burst NLP stage.** A candidate is built only from covered data; the barrier
  neither gives up on an orphaned batch nor passes while one is being handled.
- **SOC cascade.** The stage that should answer does, while the tables of the
  first two are rebuilt under it; misses of a batch get their own answers back.
- **Employers.** Five programs write `canonical_employer_id`: counts, queue and
  rows must agree, and what is said to be resolved must have reached its rows.
- **Operators, LLM job.** A decision of an operator is not overwritten, an entry
  is resolved once, no row drops out of every list.
- **Release.** A file that is archived is ingested, an edit that is promoted is
  not lost with the box, snapshots lose only what a newer quarter replaces, and no
  box is left running; although a pull, a move or a whole job may fail unnoticed.
- **Site build.** A URL that was served once leads somewhere for ever; a link
  written before its target's slug is known is right.
- **Pages.** Links are written from four tables of rows, seven tables of top
  entries and the archives of years ago: none may lead to a page that the build
  did not make.
- **Page texts.** A text belongs to its page and to data of its hash.
- **Data API.** A quota holds across window borders and concurrent handlers.

`PROJECT.json` lists 40 hazards, each at its line, with the properties that
watch it.

## 2. Plan

Each step was taken where the most of the system's behaviour was still
unmodelled.

1. `NlpQueue`: the reliable queue and the workers. *Done, proved.*
2. `CoverageGate` (abstract) and `BurstNlp`, which composes the burst's scripts
   with `NlpQueue` and implements the gate. *Done, proved.*
3. `Ingest`: harvester, `ingest-tasks`, ingestor. *Done, proved.*
4. `Hitl`: one row's life between worker, operators and LLM job. *Done, proved.*
5. `Employers`: resolution, the unresolved queue, merges, both backfills. *Done,
   proved.*
6. `Release`: boxes, snapshots, promote, watchdog. *Done, proved.*
7. `SiteBuild`, `Summaries`, `ApiKeys`: what the public site remembers. *Done,
   proved.*
8. `SocClassifier`: the cascade and its tables. *Done, proved.*
9. `Pages`: every route and link of the site on top of `SiteBuild`. *Done, proved.*

Every invariant and every step property the passing runs check is a theorem, but
for the liveness properties (section 6).
`Ingest` composed with `NlpQueue` was weighed and left
out: what a cleared year leaves in `nlp-tasks` writes nothing (its rows are
gone), and what it leaves in quarantine is in `Hitl`.

## 3. The modules

### NlpQueue

One slot is one `process_one` coroutine of any replica. Its place `pc` follows the
code: `idle`, `handling` (after `brpoplpush`), `written` (after the commit),
`rejected` (payload refused), `failed` (an exception reached `process_one`), and
`retake`, `requeue`, `retry`, `bury` (`Limbo`: a failed batch between the first
`lrem` and the `lpush` on `wait` or `dead`). Each Redis command and the commit is an
action, and so is each way it may fail: `PullReplyLost`, `MissingJobData`,
`WriteSwallowed`, `HandlerRaises`, `LremError`, `LremReplyLost`, `RequeueLost`,
`Crash`. `Reclaim` is the barrier's `rpoplpush`.

The client is built with `retry_on_timeout` (`worker.py:106`): a command whose reply
does not come within 30 seconds is sent again, and may be executed twice.
`LremAgain` and `RequeueAgain` are an execution after which the slot stays where it
is, to execute the command once more: `lrem` takes another occurrence of the id off
`active`, `hincrby` counts the attempt twice, `lpush` puts the id on the list twice.
How often the client tries depends on its version (`redis>=5.0.0`), so each is a
fault and only `MaxFaults` bounds them. A command that Redis executes only after
its second sending was answered is taken to be executed before.

The lists are bags of job ids, for nothing asked here depends on order. A row is
*covered* when it has a `soc_code` or a quarantine row, exactly the predicate of
sweep and assertion. Which rows are of low confidence (`LowRows`) or fail
validation (`BadRows`) is fixed: a retried batch gets the same answer. An `lrem`
that raises may have been executed; `LremReplyLost` is that case. A raised `lpush`
that was executed leaves the id on the list: `RequeueAgain`, and then
`RequeueLost`. A connection that is lost for good makes `_write_results` swallow
every further batch, for which `WriteSwallowed` charges one fault. `acked`,
`dropped`, `swallowed`, `again` and `reclaimed` are history variables, read by
properties only, except that `Next` bounds reclaims with the last of them and
`WriteSwallowed` reads whether anything was swallowed before.

### CoverageGate and BurstNlp

`CoverageGate` is the promise of the NLP stage without queues and polls: rows
become covered, never uncovered, some get a reason to stay uncovered, and `passed`
is said only when the uncovered rows are tolerably few and each has such a reason.
`BurstNlp` EXTENDS `NlpQueue` and adds the script:
`IngestBatch` (what the ingestor has queued, with batches missing where its `add`
failed), `BeginSweep` and `SweepFlush`, the barrier's `Poll`, `PollError`,
`ReclaimNext`, `BarrierTimeout`, `BarrierExit`, `AssertCoverage`, and
`ScriptFails` for a command that ends the script. A stage that has failed stays
failed: the box is left up for a person. The refinement maps `covered` to the
covered rows, `verdict` to the stage, and `excused` to the rows of batches that were
refused, swallowed, dropped, are dead, or were between `lrem` and `lpush` when the
barrier last looked (`limbo`). A batch the sweep left out, that still waits or that
is being worked on is no excuse: that is what the barrier is for.

Time is not modelled. `BARRIER_MAX_WAIT` may be reached at any poll, and a slot may
be between `lrem` and `lpush` for as long as it takes, over two polls too: they are
20 seconds apart, and a Redis command may wait 30 for its reply and be sent again.
`lingering` and `overdue` are histories that name the batches whose way took longer
than from one poll to the next; for these the two empty checks guard nothing.

### Ingest

A file is a year and a quarter; the file of quarter q holds batches 1..q, and
`table[y][b]` counts how often the cases of quarter b of year y are in
`lca_records`. The harvester's state is what the current poll listed, what it has
still to look at, and the file it is busy with; `Skipped` is its three skips in
their order, `clear` the supersede flag computed before the download. The ingestor
is a set of slots, each at `clear`, `copy` or `enqueue`. BullMQ is external: a job
is waiting, active, completed or failed, its lock belongs to the slot that took it
last (`HoldsLock`), a run that no longer holds it cannot complete or fail it. A job
is stalled when its process died (`IngestorCrash`), and also when its run goes on
but the event loop, shared by all runs of the process and busy with their rows, does
not renew the lock in time (`LockExpires`): the job is then run again next to itself.
Either is forgiven `MaxStalls` times. A delay for backoff is a waiting job. The rows
of `nlp-tasks` are left to `NlpQueue`.

`PollWhileBusy = FALSE` is the burst: a poll begins when ingest is at rest
(`HARVEST_ONCE`, a fresh box). `TRUE` is the long-running poller. `ArchiveInbox`
moves what the last poll listed, less any files whose move fails.

### Hitl

The rows are those of one year, just ingested, each with its NLP job queued.
`soc[r]` says whether the key `soc_code` is absent, JSON null, or who wrote the
code; `quarantine` is the table, an entry being open, assigned or dropped
(`reprocessed_at` set) until the LLM job deletes it. Each transaction of
`queries.js` and each commit of `reclassify_quarantine.py` is one action; what is
not protected by a transaction is state of its own: `reviewTabs` and `entryTabs`
(forms open in browsers, which may be submitted late and more than once) and
`page` (the batch the LLM job fetched, entry by entry seconds apart). A transaction
that is rolled back has no effect: for the LLM job that is `PassOver`. `Patch` is
`data || patch`, with no effect on a row that is gone; rows go with `ClearYear`,
while their entries and NLP jobs stay.

A worker may quarantine or classify at each delivery, since replicas load their
consensus index at different times. Deliveries beyond the first are those of
`NlpQueue` (`Redeliver`) and of the sweep, which looks for the key, not the code.

### Employers

A row has a name (standing for the pair of name and state that is unique in the
queue of unresolved employers) and a FEIN. `job[w]` is what a worker is at: the
three layers in their order, each a transaction that counts what it found
(`Found`), except that `resolve_fein`'s SELECT and INSERT are two actions, so that
two workers may insert the same FEIN and one of them breaks the unique index; then
the write of the row, the entry for a name nobody knew, and the embedding, whose
advisory lock is the variable `lock`: held between two calls only by a session
whose unlock failed. `ResultsLost` and `UnresolvedLost` are the writes whose
errors the worker logs and forgets.

`Merge`, `Create` and `Reject` are the operator's transactions.
`backfill-canonical-full` is `FetchChunk` to `BackfillRows`, one action per commit,
and `FullDies` between any two; which entries it decided is its own state and may
be stale by then. `backfill-canonical-ids` keeps a page of rows in memory. An entry
without a state matches its name in every state, hence `RowsOf`. Which rows a
layer finds similar are the constants `Alike` and `Near`.

### Release

A database, a snapshot and an `lca.db` are sets of items, each a kind and the file it
is about: the rows of a file, their classification, the record that the file was
harvested, what an operator decided on those rows; a merge of employers is about no
file. A file is its year and quarter, so that a corrected file of the same quarter
is the same file. Ingesting a quarter clears its year (`Cleared`), with what was
classified and decided on the rows of the earlier one: decisions on superseded rows
are lost by design of the code.

A trigger goes through the state machine (`flow`): it is skipped for good when a box
is up (`Trigger`), and the launch does not look again (`Launch`). The box goes
through the user-data script of its mode. `ingest` pulls snapshot and inbox,
harvests, waits, archives the inbox, builds, shows, saves and goes into review;
`nlp` restores, drains or, with `NLP_REPLICAS=0`, does not, builds, shows, saves and
ends. What the scripts let fail without stopping is modelled: the pull of the
snapshot (`Pulled`, history `blank`), a move to the archive (`ArchiveInbox`), a
summary that cannot be read and counts as nothing enqueued (`SummaryLost`), a file
the harvester could not add (`Harvest`), an ingest job that failed for good before
or after its year was cleared (`Barrier`). A harvest in which every file failed
exits with 1 (`harvester/index.js:304`), which is `ScriptFails`. `passed` and
`dropped` remember the years whose files were left unread for rows without a record,
and those of which a file was given up although the box archived it.

The operator's commands (`promote`, `preview`) are scripts of their own on the same
box, next to each other and to the box's own, sharing one `lca.db` (`file`, and `by`,
who began to make it). `Teardown` asks nothing of what is running; the watchdog ends
any box after `Watchdog` periods. `Unsaved` and `cut` record when a box took work
with it, or was not alone.

### SiteBuild

`Begin` reads pages and redirects of the `lca.db` that is there and removes it;
`InsertRow` writes one employer after another, the top ones first and then those
other pages link to; `WriteRedirects` gives every URL that has no page any more a
redirect to the newest archive that has one; `CopyToArchive` overwrites the
archive of the quarter. `SlugAt` is `slugsSeen`, the counter of equal names, and
`LinkSlug` is what a link is written with before the tail has slugs. Base slugs
and numbered slugs are constants, so that a name that ends in a number may
collide with the number of another. `Publish` is the deployed image, `FreshBox` a
box without `data/`, `Prune` the routine of `DEPLOY.md`.

### Pages

The site on top of `SiteBuild`, without state of its own: a page is the set of the
URLs it links to, a function of the file and the archives. There is one operator
per page or component, named as in the source, composed as they are: an entity's
page is its list, the rows of its top tables, the comparison picker and the
see-also links. `Answers` says which URLs the routes serve (`dynamicParams =
false`, `notFound()`, `archiveExists`), `Moved` what the redirects of the file
catch. A top table names codes of which some have no row (`Cited`, `Curated`); the
`LEFT JOIN`s of `lib/queries.ts` are `LeftJoin`, while the slugs of employers are
those the build has written into the tables (`CrossRefs`, `LinkSlug`). `withArchiveDb`,
which runs the queries of a request on another file, is `SlugsIn`.

Left open is which rows a list shows: any list may show any row of its kind, so
limits, ranks, filters, sorting and pagination cannot hide a bad link. The rows of
occupations, states and sectors are the same in every build, so that only employers
drop out; the loop that writes redirects treats all four kinds alike, and employers
are the only kind whose slugs collide.

### Summaries

A page's data is what its hash covers (`own`) and what is nested (`inner`), which
it does not. `Start` seeds from the last candidate, computes the changed pages and
puts them in some order; answers arrive in any order, or never; `sync` writes each
at once, `batch` all at the end under their `custom_id`, `stub` writes
placeholders. Then a run is systemically failed and stops the script, or the file
is uploaded, and kept as the next candidate or not, depending on the script
(`Upload`, `UploadBare`).

### SocClassifier

`batch`, `out` and `at` follow `predict_batch` record by record through the
consensus lookup and the exact match, then all misses at once through stage 2.
Meanwhile filings arrive, `load-dmtf` upserts batch by batch, `bootstrap-aliases`
and `refresh-employer-consensus` compute from one state and write into a later
one, and PostgreSQL restarts, after which a broken connection answers "no hit" and
is opened again. `steady` records which entries were in their tables throughout.
`TopK` is `topk_candidates`, checked against what it should return for every title
and every order of equally similar aliases; its loop is a recursive function on the
number of rounds (`Picked`). Titles are what they are after
`lower()`; `Trim` is applied where the SQL applies it.

### ApiKeys

Time is in milliseconds; a day is `Window` of them and a second `Second`. A grant
(`withAuth` up to the handler) is one step, since there is no await in it; handlers
return in any order (`Return`). `keys.db` changes under the process, the counters
go with it.

## 4. The runs

| Run | Shows | Distinct states |
| --- | --- | --- |
| `queue` | The four properties of the queue with every placement of two faults and a reclaim per job | 669 836 |
| `burst` | Gate refinement, coverage, barrier safety and liveness | 301 014 |
| `ingest` | Exactness, advance, history and arrival of listed files | 298 052 |
| `hitl` | Rows, entries and decisions under operators, LLM job, workers and sweep | 1 618 473 |
| `employers` | Counts, queue and rows agree under two workers, operators and both backfills | 926 582 |
| `release` | Archived and promoted data is kept, snapshots and production lose only what is superseded, boxes end | 530 029 |
| `site` | URLs, redirects and the links of every page and archive over three builds and two quarters | 236 842 |
| `summaries` | Texts are their page's, runs are complete | 339 619 |
| `classifier` | The right stage answers, with its own answer; DMTF codes prevail; candidates are best | 1 260 970 |
| `keys` | Quota in any day, distinct remaining counts, reset times that hold | 545 084 |
| `employers_orphans` | *violated*: the backfill leaves no orphan of its names | until found |
| `summaries_stale` | *violated*: an unchanged page has unchanged data | until found |

**Bounds.** `queue`: three rows, one of each kind (confident, quarantined,
refused), two slots and two jobs, so that two slots can hold one id, one slot can
work while another requeues, and two batches can share a row; `MAX_ATTEMPTS` 1
instead of 5, which two faults exceed, so that dead-lettering happens. `burst`:
two rows and two jobs, one from ingest and one from the sweep or two from the
sweep (batch size 2, so that both a full and a partial batch occur); stall limit
two polls instead of nine, so that an intervening change of depth can reset it;
a threshold of one, so that `passed` with an uncovered row happens. One fault: a
lost reply, a failure, a crash and a late reply each meet every point of the
script. `ingest`: a new year with both quarters, in any order, and a historical one;
two attempts and one forgiven stall, so that a job is retried after an exception, a
crash or an expired lock. With one fault of the ingestor no job runs out of attempts,
so the exception of `ListedIsIngested` for jobs that failed for good is not met there;
with two faults and no reclaim all four properties hold as well (134 140 states).
`hitl`: two rows, three entries and batches of one entry, so that a batch ends
between two entries; one row may be delivered twice, which gives it two entries,
and the other once, the case `OverrideStands` is about.

`employers`: two workers, two rows of two names, one entry matching both rows; one
FEIN of the form and one not, one confident row and one that is quarantined, two
canonicals, so that the second insert of a FEIN clashes; one row delivered twice,
and one error anywhere. `release`: two triggers, one command at a time, two quarters
of one year, the first of which the CLI may have loaded, one edit and one failure
anywhere: enough for a box to start from what another has saved, for a quarter to
replace an edited one, to be cut short between any two steps, and to be doubled by
none (`MaxUp` 1; section 5 has two). A file is not uploaded again once archived
(`Again`). `Watchdog` and `DrainMax` are both one period, so that either may come
first. `site`: two employers of one name and a third
whose name is the other's with a 2, which is what makes slugs collide; three builds
in two quarters, so that a page goes, comes back, and goes again; an occupation and a state with and
one of each without a row, and a sector, so that each top table names a code it
must not link to. `summaries`: two
pages with two values each, two builds, any number of runs, `Scale` 2 instead of 20,
so that with two pages both a tolerable and a systemic failure happen. `classifier`:
batches of two, so that a miss may be first or second; one outage; a title that
equals another when trimmed, two aliases equally similar, and three codes, one more
than the candidates asked for. `keys`: a window of 4
and seconds of 2, two windows, a limit of 2, so that every offset of a window and of
the rounding occurs.

Symmetry is used in `queue` (slots), `site` (the two employers of one name) and
`summaries` (pages and values), where no property is a liveness property and no
constant operator tells the permuted values apart. `classifier` checks deadlock;
the other runs do not: their bounds on jobs, faults, files and time let every
instance come to rest, and so does the program when there is nothing to do.

**Fairness.** `burst`: weak fairness of the script and of each slot's normal
progress (the containers restart, bash goes on), none of faults, timeouts or
reclaims as such. `ReclaimNext` is part of the script's progress; a reclaim of
a batch that is being handled is bounded, one of an orphan is not, so
`BarrierHeals` is about healing, not about running out of orphans. `ingest`: weak
fairness of a poll that has begun and of each slot; publication, faults, the archive
and the begin of a poll are under no obligation: in the burst a poll comes with a
trigger, and a trigger while a box is up is skipped. So `ListedIsIngested` promises
nothing to a file no poll has listed. `release`: weak fairness, for each box, of its
script, time and the watchdog's `sleep` taken together: a box does something as long
as it can; operators, triggers and commands are under no obligation. The other
modules state safety only and no fairness.

**Conditions in the properties.** `DrainedMeansWrittenBack` speaks of at most one
fault and no reclaim: two failures of one batch, each in the instant before a
poll, are both taken for an empty queue. And it excepts a batch whose way from `lrem`
to `lpush` took longer than from one poll to the next: one slow reply there gets past
the barrier. `GateSpec` has no such limit on faults, and for it such a batch is a
reason to be uncovered, which the coverage assertion then counts. `BoundedRetries`
grants a try for each `hincrby` or `lpush` that was executed again. `YearIsExact`
leaves out a job that the barrier reclaimed or whose lock expired while its run went
on: two runs append to one table (section 5). It leaves out too a retried job that
does not supersede: such a job appends what
it had already copied, and nothing in the code says otherwise. `OverrideStands` is
about rows delivered to a worker once: with two deliveries, both below the
threshold, a second entry stays behind when the first one has led to a review.
`QuartersAdvance` and `ListedIsIngested` need that the harvester could record what it
added. `ArchivedIsKept`, `PromotedIsKept`, `SnapshotGrows` and `ProdGrows` speak of
histories in which no box was cut short or doubled and none went on without the
snapshot there is: the inbox is archived before the snapshot is taken, so a failure
between the two needs a person, who is told by the script's own trap. What a newer
quarter replaced is not lost for them, and years of which a file was dropped are
excepted, by name; `ArchivedIsKept` excepts the years the CLI loaded, whose files are
archived unread. `ProdGrows` needs that the promote was the last command to begin a
build. `OrphanIsListed` leaves out rows of which a write was lost
and only logged. `UrlsSurvive` and `ArchiveLinksBack` leave out what a half-made file or a new box has
forgotten, `NoDeadLinks` employers that no row of the outcomes view exists for, `RedirectsLanded` what was deleted or overwritten in an archive.

## 5. Disagreements seen while modelling

Two are runs that TLC refutes, with the text they contradict in `PROJECT.json`:

- `employers_orphans`: `backfill-canonical-full` looks for rows without the key
  `canonical_employer_id`, while the worker writes the key with a JSON null. Its
  header promises that every orphan row gets an id; just the rows the queue is
  about do not.
- `summaries_stale`: `hashPayload` passes a list of top-level keys as the replacer
  of `JSON.stringify`, which filters every level: a page whose nested data alone
  has changed keeps its old text.

The others were met while the modules were written or under instances larger than
those of the runs. They are no runs of the project any more or never were.

- A batch whose write times out is acknowledged all the same (`worker.py:311`,
  against `worker.py:151-152`). The sweep repairs it in a burst, nothing does in the
  long-running deployment.
- The barrier's reclaim, harmless by its comment (`burst-barrier.sh:40-41`), hands
  a batch that is being handled to a second slot, which quarantines its rows twice;
  and, for it treats both queues alike (`burst-barrier.sh:50`), hands a running
  job of `ingest-tasks` to a second ingestor when a file takes longer than three
  minutes: the year then has cases twice. BullMQ does the same by itself when the lock
  of a running job is not renewed in time, the parsing of four to eight files in one event loop
  being the reason it might not be (`ingestor/index.js:149-156`).
- A Redis client that waits up to 30 seconds for a reply and then sends the command
  again (`worker.py:104-106`) does not go together with polls that are 20 seconds apart
  (`burst-barrier.sh:28`): a batch between `lrem` and `lpush` is on no list at both,
  and the queue counts as drained. Sent again after all, the `lpush` puts the id on
  the list twice and the `hincrby` counts one failure as two.
- A job of `ingest-tasks` that failed for good is no part of its depth
  (`queue-depth.mjs:20`), so "drained" does not mean "ingested", and the inbox is
  archived with the file in it. Nor is it looked at when the harvest says `ENQUEUED=0`
  (`data-pipeline-stack.ts:401-410`): a poll that skipped the year as an untracked one,
  or whose summary line was lost, archives the whole inbox. (A poll in which every file
  errored ends with exit code 1, `harvester/index.js:304`, and the box as a failed one.)
- The pull of the snapshot ends in `|| true` (`data-pipeline-stack.ts:326`). When it
  fails, the box goes on from an empty database without telling anyone, and
  `burst-finalize.sh:64-65` saves that over `latest.pgdump`: history and operators' edits
  are gone but for the dated copies.
- A newer quarter replaces its year (`ingestor/index.js:54-57`), and with the rows go
  the operators' edits and decisions on them, in the snapshot and in the next promoted
  file. That is what cumulative files are meant for; nobody carries the edits over.
- A poll that fails between `add` and `markHarvested` leaves a year that looks like
  one of the CLI's (`harvester/index.js:253-254`, `:270`): the next file of that
  year is skipped.
- The LLM job asks for all low-confidence entries, decided or not
  (`reclassify_quarantine.py:66`), though its header speaks of "rows still in
  quarantine" (`:18`) and `operator-ui/lib/queries.js:6` calls those without
  `reprocessed_at` the queue: an assigned code can be replaced, and the entry that
  recorded it deleted. No row is lost (`NobodyForgotten`).
- The watchdog sleeps 129600 seconds, 36 hours (`data-pipeline-stack.ts:219`); the
  NLP processor gives up draining after `DRAIN_MAX_HOURS`, by default 60
  (`nlp-processor.sh:75`): a drain that takes longer than the watchdog's time is not
  finalized but lost, and the next one starts from the same snapshot.
- Two triggers can pass the check for a running box together
  (`data-pipeline-stack.ts`, `CheckBurstRunning`); the box that saves last wins.
- Two commands on one box share `data/lca.db` (`ec2-promote.sh:67`): a preview that
  begins to build after a promote has built empties the file the promote uploads.
  `ProdGrows` needs that the promote was the last command to begin a build; without
  that condition two commands violate it.
- A second build in a quarter overwrites the archive to which redirects of the
  first point (`build-sqlite.ts:822`). And when no archive has a page any more, its
  redirect keeps the target it had (`build-sqlite.ts:792-793`), though
  `DEPLOY.md:671-673` rebuilds after deleting archives "so the dropout redirect
  logic forgets archives that no longer exist as targets".
- The image is built from `lca.db` alone (`build-and-deploy.yml:91`): the archives its
  redirects lead to, and the archive's own pages, are not in what that job deploys.
- Redirects are written for the pages of entities, not for comparisons
  (`build-sqlite.ts:782-791`): `/compare/...` of an employer that has left is a 404,
  and the data API answers 404 for its slug, the redirect being one of the pages.
- A tail employer whose slug got a number is linked by no top table: the entry is
  written with the bare name (`build-sqlite.ts:411-412`), which is the page of the
  employer that came first. `NoDeadLinks` says such a link finds a page, not whose.
- An occupation's slug has its title in it (`lib/slugify.ts`), so that a page moves,
  by a redirect into the archive, when only the title has changed.
- A burst box starts without `data/`: no redirects are carried over, and no URL of
  an employer that has left the pages survives.
- With `SKIP_SUMMARIES`, `nlp-finalize.sh` leaves out the generator and the seeding
  with it, and makes the bare file the next candidate, though its message says that
  pages keep their seeded summaries (`nlp-finalize.sh:45`). Stub texts stand under
  the current hash and are never replaced by an LLM's.
- Quotas are said to be rolling (`auth.ts:14`) and their windows are fixed: twice
  the limit fits in one day, which is the bound of `InAnyDay`. Each Lambda instance
  has counters of its own.
- A classifier that starts while the database is down has no stages until it is
  started again (`soc_classifier.py:112`); rows with an alias that `load-dmtf` takes
  over keep the source `lca_bootstrap` (`dmtf_loader.py:125`).

## 6. The proofs

All proofs are for any number of slots, rows, jobs, boxes, workers, years, pages and
faults, under the assumptions named in the modules (`QueueAssumption`,
`BurstAssumption`, `IngestAssumption`, `HitlAssumption`, `EmployersAssumption`,
`ReleaseAssumption`, `SummariesAssumption`, `SiteBuildAssumption`, `PagesAssumption`):
constants are naturals, sets, subsets and functions, and what is counted is finite
(`IsFiniteSet` of rows, names and workers in `Employers`); the barrier may reclaim at
least once (`MaxReclaims > 0`, for its code has no way to be told not to).
`ApiKeysAssumption` says that a window is a whole number of seconds, as 24 hours
are, and that `None` is none of the records. `ClassifierAssumption` says that the
list of `load-dmtf` names a title once, since `parse_dmtf` drops duplicates, and
that `None` is no title, code or employer.

- `NlpProofs`, the queue. `TypeCorrect` is inductive as it stands. `JobsDoNotVanish`
  needs only `TypeOK`: each step that takes an id off a list puts it on another,
  acknowledges or drops it, or leaves it with a requeueing slot; the lemmas are
  about what adding to and removing from a list does. `RetriesAreBounded` counts:
  deliveries waiting, slots that may still try the id and failures beyond the limit
  never exceed one plus the reclaims and the commands that were executed again after
  a lost reply. A slot about to bury the id is not counted (`Tries`): its failure already
  is. The bound is not inductive alone, for nothing would
  forbid an id from being in a list before it is handed out; `RetryInv` adds that
  (`Fresh`). `AcknowledgedMeansWritten` strengthens the invariant with what a
  slot at `written` has done: its batch is written, or its write was
  swallowed.
  `DuplicatesHaveReasons` rests on `RetryInv`: a job that was never reclaimed has one
  holder and is not waiting while it has it (`SoleHolder`). `OnceInv` then follows
  its first delivery: a row that is quarantined once belongs to a job past its
  write, and no delivery of that job is left.
- `NlpProofs`, the stage. Every step of the script is a step of the queue, one of a
  slot or a stutter of both (`QueueStep`), so the lemmas about the queue carry
  over. `PassedIsCovered` follows from the assertion's guard and from
  coverage that no step takes back. `BurstImplementsGate` maps the initial state and
  each step to `CoverageGate`; that a row which is still uncovered when the candidate is
  let through has one of the gate's reasons (`Excused`) takes the sweep, the
  acknowledgements and what the barrier saw at its two polls together (`ExcusedInv`).
  `SweepIsComplete` needs what the sweep still has to do (`SweepInv`: an uncovered row
  is in `todo` or in a job). `DrainIsTrue` is the deepest: two empty polls say that nothing is left only because one fault cannot hide a job twice,
  unless it keeps a slot between `lrem` and `lpush` from one poll to the next.
  `DrainInv` keeps what the first poll saw (`SeenOnce`): nothing but what is
  acknowledged is left (`Settled`), or the fault is spent and its slot was on that way
  then and has not left it (`lingering`), which makes its job one of `overdue` at the second.
  That an id is on `active` while a slot is busy with it (`OnActive`) and that each
  failure costs a fault (`FailureIsFault`) carry it; `NoJobVanishes` turns it into the
  statement about jobs.
- `IngestProofs`. `TypeCorrect` needs that a job which is not over has attempts
  left (`AttemptsLeft`). `HistoryIsKept` is by `HistoryInv`: a year of the CLI has
  its rows, no harvested file, no job and no poll busy with it, each of which
  depends on the others. `YearsDoNotGoBack` is by `QuarterInv`: every job is
  recorded or the one about to be, and the file a poll is busy with is newer than
  all recorded ones of its year. `YearsAreExact` has the hypothesis that polls begin
  only after ingest is done (`~PollWhileBusy`), as in the burst. Without it TLC
  shows two jobs of a new year: a file whose mark could not be saved is offered again
  while its first job waits, the year has no rows to clear, and both copy. `YearInv`
  then says what a year's rows are at each step of its last job: none before its
  first run, the batches before `next` while it copies, all of them when it is
  completed (`TableInv`). That holds only if no other run touches the year:
  when the next job of it is coming, all before are over, and what a poll does not
  mean to clear has no rows (`PollInv`); and a job that was neither reclaimed nor lost its lock
  while it ran (`Alone`) is held by one run, the one with the lock (`RunInv`).
- `HitlProofs`. `NobodyIsForgotten` needs more than itself: a row whose code is
  null has an entry that is not assigned, a row without the key has no assigned one
  (`Codeless`), and a batch entry still names the row its id has in the table
  (`PageSound`); with `KeyThere` (a row under review, in a form or with an
  operator's mark has the key) they make `IInv`, from which `DecidedStaysOut` and
  `DecisionsOfEntries` follow for every step. `PassesAreComplete` adds that what
  was come to lies behind the cursor and that a run starts afresh.
  `OverridesStand` needs `OverrideInv`: a row delivered once has no entry before its
  delivery is handled and one at most after (`OneEntry`), and a review, a form of it
  or an override exists only when the delivery is handled and the entry is gone
  (`Reviewed`), so that nothing is left from which the LLM job could write.
- `EmployersProofs`. `TypesHold` holds by itself: an id that is written anywhere is
  one of `canonical_employers`, from which nothing is deleted. `CountsCover` is about
  cardinalities: rows that carry an id and answers that are counted but not yet
  written. `CountInv` adds that a job without an answer claims nothing (`Unanswered`);
  the lemmas on loads say by how much a step may move rows and claims to an id, and
  each step counts as much. `ResolvedEntriesReach` needs that a row with an id has the
  key (`HeldIsKeyed`), for the scripts choose rows by id and by key; `OrphansAreSeen`
  needs that a null was written by a worker for a row that is not quarantined
  (`NullIsConfident`), or a row no queue entry was made for could have one.
- `ReleaseProofs`. What is kept is said once, for a database and the years of dropped
  files (`KeptBy`, `CarriedBy`): an item is in it, or a newer quarter with its rows is, or
  its year is one of those; the lemmas say that this composes. The inductive invariant
  has four parts. `Places` is about where things are: types, boxes before their launch
  (`Unlaunched`), a command's box, which is under review (`CommandsInReview`), and an
  `lca.db` that has nothing its database has not (`FileIsOfDb`). `Databases` says that the
  snapshot and each box are `Sane`: classifications and edits come with the rows of their
  file (`Whole`), a year with a record has one for every file with rows (`Recorded`), and
  a file with a record, unless queued, is kept (`HasRecorded`); and a box has one file
  a year queued, newer than all its database has of it (`QueueFits`). Without it a
  superseding ingest could replace a newer quarter by an older one. `Lineage` speaks of
  histories that are `Unbroken`, in which no box was cut short, doubled or started
  without the snapshot: one box is up at a time (`OneBox`), and it keeps all that the
  snapshot holds (`HasSnapshot`, `AsPulled`), which is `SnapshotNeverShrinks`. `Keeping`
  says where archived files and promoted edits are in between: what is in the inbox is
  handled (`HandlesAll`); archived files and the keys in the snapshot, or on a box at the
  steps before its save (`ArchivedSafe`, `KeySafe`, `ProdSafe`); and all that production serves in
  the `lca.db` of a command that was the last to begin a build (`FileWhole`).
  `ArchivedStays`, `PromotedStays` and `ProdNeverShrinks` are read off.
- `SummariesProofs`. `TextsAreOwn` is inductive over the three tables of texts and
  needs no types. `RunsAreComplete` is about a count, and follows from a statement
  about pages: while a run that was not cut short is at work, every page is current
  or among those still to be written (`NoneIsForgotten`); that the list has all
  changed pages is a pigeonhole argument on its length (`OrderIsOnto`).
- `SiteProofs`, the build. `TypeCorrect` needs the shape of a build (`Shape`): off, it
  holds nothing in memory; at the rows, the file has no redirects; its rows are
  different employers, which bounds the counter of equal names by the numbers there
  are slugs for. `UrlsAreKept` says in `UrlInv` where the URLs are meanwhile: in the
  file while the script is off, in its memory while it is at work, in both once the
  redirects are written. `RedirectsLand` carries the same through the script's memory
  of the old redirects. `LinksAreGood` rests on three lemmas about slugs: what comes
  behind a list does not change the slugs of it (`SlugInPrefix`), the first of a
  name has the bare name (`FirstOfName`), and every row's slug has a page when the
  rows are done. That newest archives exist and orders are complete is
  proved once, for the build and its archives alike.
- `SiteProofs`, the pages. `NoLinkIsDead` has no induction of its own: page by page, every set
  of links is fine (`EntityPagesFine`, `ComparePagesFine`, `ListPagesFine`, ...), for
  employers by `LinksAreGood`, for the rest because a joined slug is a row's
  (`JoinsHaveRows`). `ArchiveIsLinked` has one: what an archive has, the file
  remembers while the script is off and the script while it is at work, unless it
  is forgotten (`ArchiveInv`), for which `UrlInv` is needed at the copy.
- `SiteProofs`, the keys. `RemainingDiffers` needs that an answer under way was told no
  less than its counter has left, and nothing about a later window (`OpenInv`).
  `WaitingIsEnough` is arithmetic: rounding up to seconds never names a time before
  the end of the window, and that window is the one of the refusal or is over
  (`RefusalInv`). `DayHasItsQuota` is about every interval of a day, wherever it
  begins; what can be kept from step to step is a statement about those that are
  not over (`PresentDay`): what was let in since their beginning is in the present
  counter, or in an earlier one, of which a day can meet one more and one for each
  restart. An interval that is over gets no more requests.
- `SocClassifierProofs`. `TypeCorrect` includes how far a batch is (`Progress`, `Before`):
  until stage 2 an answer is a hit, unclassified or a miss. `StagesInOrder` needs that a
  steady entry is in its table and that a record which has come to stage 1 was not a
  steady one of its employer's (`StageInv`). `AnswersAreOwn` is about positions: the
  n-th miss gets the n-th answer, since counting the misses up to an index undoes
  `Misses` (`MissesAreInOrder`). `FilePrevails` needs that the titles before those left
  to load have their codes already, whoever else inserts (`LoadInv`).
  `CandidatesAreNearest` is about the loop of `topk_candidates`: what it has after n
  aliases of the ranking (`Good`), by its least counterexample, for the library's
  induction rules take an operator; then the codes shown are counted, for which
  the aliases must be finite in number (`FiniteInv`).

Only model-checked, because liveness is out of the prover's reach: `BarrierHeals`,
`ListedIsIngested` and `BoxEnds`. The two runs that end in a violation check what
the code does not do, so there is nothing to prove about their properties.

## 7. What is not modelled

What a page shows is presentation: figures, charts, tables and their sorting, the
dashboards of `analytics-ui` with the queries they run on data that does not change
while it is served, `landing`, and geographic data. There is no state, no order and
no failure in them that a model checker would reach, and the aggregates are SQL whose
correctness is that of the query; of the pages, only the links are modelled. The
infrastructure stacks declare cloud resources; what runs in them (the state machine,
user-data, watchdog, SSM scripts) is in `Release`. The map covers what is left, a
little less than a third of all lines.

Left out of the programs that are modelled:

- the column renaming of the pre-FLAG files (pure, with tests of its own) and the
  schema's DDL, whose unique indexes and upserts are used where they bite;
- the models' arithmetic: embeddings, similarity and the LLM are constants or
  choices; scraping, downloads, notifications, DNS, Caddy, the box's installation;
- the employer that the LLM job resolves on the way (its layers are those of
  `Employers`) and every `--dry-run`; `--max-chunks`; `sweep-enqueue.mjs --drain`;
- `COVERAGE_WARN_ONLY` and `HARVEST_SUPERSEDE_UNTRACKED`, off as by default;
- `dol-watch.sh`'s high-water mark; `scripts/release.sh`, `promote-to-prod.sh` and
  `migrate-from-local.sh`, which a person runs; the CLI's commands, meant for an
  idle system (its `seed` is the Legacy years of `Ingest`);
- slugs of occupations, states and sectors as text (they end in a code and never
  collide), rows of these kinds that come and go between builds, the tables of
  yearly and per-level figures, articles, ads and the forecast texts;
- matviews and their refresh, CI, and the landing page.
