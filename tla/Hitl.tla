-------------------------------- MODULE Hitl --------------------------------
(***************************************************************************)
(* What becomes of a row after its NLP job: the worker's write, the two    *)
(* review queues of the operator UI (apps/operator-ui/lib/queries.js and   *)
(* routes) and the LLM job that drains the quarantine                      *)
(* (reclassify_quarantine.py).  All of them write the same rows of         *)
(* lca_records and the same staging.quarantine_records.                    *)
(*                                                                         *)
(* Each action is one transaction: its statements lock the rows they       *)
(* change, so transactions that meet on a row take effect one after the    *)
(* other, or one of them is rolled back (a deadlock of Assign and          *)
(* WriteBack included) and has no effect.  What is not in one transaction  *)
(* is what a form or a fetched page shows and the write made from it:      *)
(* reviewTabs, entryTabs and page are such reads, and may be stale.        *)
(*                                                                         *)
(* The rows are those of one filing year, just ingested; a case is one row *)
(* and has its own _nlp_id.  Batches are of one row here: NlpQueue has     *)
(* what batches do.                                                        *)
(***************************************************************************)
EXTENDS Naturals, FiniteSets

CONSTANTS
  Records,      \* rows of lca_records, named by their _nlp_id
  BatchSize,    \* --batch of reclassify-quarantine (200 by default)
  MaxEntries,   \* bound: quarantine ids handed out
  MaxDeliveries \* bound: how often each row is delivered to a worker

ASSUME HitlAssumption ==
  /\ BatchSize \in Nat \ {0}
  /\ MaxEntries \in Nat
  /\ MaxDeliveries \in [Records -> Nat \ {0}]

VARIABLES
  rows,         \* the rows that are in lca_records
  soc,          \* data->soc_code: no key, JSON null, or who wrote the code
  review,       \* data->requires_review is true
  action,       \* data->operator_action
  quarantine,   \* staging.quarantine_records
  lastId,       \* its id sequence
  queued,       \* deliveries of the row's NLP jobs still to come
  enqueued,     \* history: deliveries of the row's NLP jobs so far or to come
  redelivered,  \* history: deliveries of a job that had been handled before
  reviewTabs,   \* rows whose review form is open in some browser tab
  entryTabs,    \* ids whose quarantine form is open in some browser tab
  llm,          \* the LLM job: off or running
  cursor,       \* its last_id
  page,         \* the entries of the fetched batch it has not come to yet
  firstNew,     \* history: the first id handed out after it started
  seen          \* history: ids it has come to

jobs    == <<queued, enqueued, redelivered>>
tabs    == <<reviewTabs, entryTabs>>
llmJob  == <<llm, cursor, page, firstNew, seen>>
table   == <<soc, review, action>>
entries == <<quarantine, lastId>>
vars == <<rows, table, entries, jobs, tabs, llmJob>>

Entry == [id: 1..MaxEntries, rec: Records, kind: {"low", "rejected"},
          state: {"open", "assigned", "dropped"}]

HasCode(r) == soc[r] \notin {"absent", "null"}
EntriesOf(r) == {q \in quarantine : q.rec = r}
\* The predicate of burst-sweep.sh and assert-coverage.sh: the key counts.
Covered(r) == soc[r] # "absent" \/ EntriesOf(r) # {}

\* UPDATE lca_records SET data = data || patch WHERE ...: no row, no effect.
Patch(r, code, flag, act) ==
  IF r \in rows
  THEN /\ soc'    = [soc    EXCEPT ![r] = code]
       /\ review' = [review EXCEPT ![r] = flag]
       /\ action' = [action EXCEPT ![r] = act]
  ELSE UNCHANGED table

Insert(r, kind) ==
  /\ lastId < MaxEntries
  /\ lastId' = lastId + 1
  /\ quarantine' = quarantine \union
       {[id |-> lastId + 1, rec |-> r, kind |-> kind, state |-> "open"]}

\* UPDATE staging.quarantine_records SET reprocessed_at = NOW(), errors = ...
Close(q, how) ==
  quarantine' = (quarantine \ {q}) \union {[q EXCEPT !.state = how]}

Init ==
  /\ rows = Records
  /\ soc = [r \in Records |-> "absent"]
  /\ review = [r \in Records |-> FALSE]
  /\ action = [r \in Records |-> "none"]
  /\ quarantine = {} /\ lastId = 0
  /\ queued = [r \in Records |-> 1]
  /\ enqueued = [r \in Records |-> 1]
  /\ redelivered = 0
  /\ reviewTabs = {} /\ entryTabs = {}
  /\ llm = "off" /\ cursor = 0 /\ page = {} /\ firstNew = 0 /\ seen = {}

-----------------------------------------------------------------------------
(* Ingest, sweep and worker.                                               *)

Enqueue(r) ==
  /\ enqueued[r] < MaxDeliveries[r]
  /\ queued'   = [queued   EXCEPT ![r] = @ + 1]
  /\ enqueued' = [enqueued EXCEPT ![r] = @ + 1]
  /\ UNCHANGED <<rows, table, entries, tabs, llmJob>>

\* Mutant: the sweep looks at codes and not at the quarantine.
SweepCodeless(r) == r \in rows /\ ~HasCode(r) /\ Enqueue(r) /\ UNCHANGED redelivered
\* burst-sweep.sh enqueues what is not covered, jobs on their way or not.
Sweep(r) == r \in rows /\ ~Covered(r) /\ Enqueue(r) /\ UNCHANGED redelivered

\* A job that was handled is handled again: it failed after its commit, or
\* the barrier moved it back to wait (module NlpQueue).
Redeliver(r) ==
  /\ queued[r] < enqueued[r]
  /\ Enqueue(r)
  /\ redelivered' = redelivered + 1

Handled(r) ==
  /\ queued[r] > 0
  /\ queued' = [queued EXCEPT ![r] = @ - 1]
  /\ UNCHANGED <<rows, enqueued, redelivered, tabs, llmJob>>

\* _write_results, a prediction above the threshold: the flag and the
\* operator's fields stay as they are.
WriteClassified(r) ==
  Handled(r) /\ Patch(r, "nlp", review[r], action[r]) /\ UNCHANGED entries

\* _write_results, a prediction below it: lca_records is left alone, and a
\* row that is gone by now gets its entry all the same.
WriteQuarantined(r) == Handled(r) /\ Insert(r, "low") /\ UNCHANGED table

\* A superseding ingest job clears the year; the new rows are other rows.
ClearYear ==
  /\ rows # {}
  /\ rows' = {}
  /\ soc' = [r \in Records |-> "absent"]
  /\ review' = [r \in Records |-> FALSE]
  /\ action' = [r \in Records |-> "none"]
  /\ UNCHANGED <<entries, jobs, tabs, llmJob>>

-----------------------------------------------------------------------------
(* The operator UI.  A form is opened from a list and may be submitted     *)
(* more than once (a double click, the back button, a second tab), at any  *)
(* later time.                                                             *)

OpenReview(r) ==
  /\ r \in rows /\ review[r]
  /\ reviewTabs' = reviewTabs \union {r}
  /\ UNCHANGED <<rows, table, entries, jobs, entryTabs, llmJob>>

OpenEntry(q) ==
  /\ q.state = "open"
  /\ entryTabs' = entryTabs \union {q.id}
  /\ UNCHANGED <<rows, table, entries, jobs, reviewTabs, llmJob>>

CloseTabs ==
  /\ reviewTabs' = {} /\ entryTabs' = {}
  /\ UNCHANGED <<rows, table, entries, jobs, llmJob>>

Submitted == UNCHANGED <<rows, jobs, tabs, llmJob>>

\* patchReview from /accept: the code is kept, whatever it is by now.
Accept(r) ==
  /\ r \in reviewTabs
  /\ Patch(r, soc[r], FALSE, "accepted")
  /\ UNCHANGED entries /\ Submitted

\* patchReview from /override
Override(r) ==
  /\ r \in reviewTabs
  /\ Patch(r, "operator", FALSE, "overridden")
  /\ UNCHANGED entries /\ Submitted

\* Mutant: the copy is not inserted.
RejectOnlyClears(r) ==
  /\ r \in reviewTabs /\ r \in rows
  /\ UNCHANGED entries
  /\ Patch(r, "null", FALSE, "rejected_to_quarantine")
  /\ Submitted
\* rejectReviewToQuarantine: the row is locked, and not asked whether it is
\* still under review.
Reject(r) ==
  /\ r \in reviewTabs /\ r \in rows
  /\ Insert(r, "rejected")
  /\ Patch(r, "null", FALSE, "rejected_to_quarantine")
  /\ Submitted

\* Mutant: the form's word is taken for it.
AsTheFormSaid(q) == q.id \in entryTabs
\* WHERE id = $1 AND reprocessed_at IS NULL, FOR UPDATE in assign.
Undecided(q) == q.id \in entryTabs /\ q.state = "open"

\* assignQuarantineSoc; the row may be gone ("assigned_orphan").
Assign(q) ==
  /\ Undecided(q)
  /\ Patch(q.rec, "operator", FALSE, "quarantine_assigned")
  /\ Close(q, "assigned")
  /\ UNCHANGED lastId /\ Submitted

\* dropQuarantine: the row keeps its state.
Drop(q) ==
  /\ Undecided(q)
  /\ Close(q, "dropped")
  /\ UNCHANGED <<table, lastId>> /\ Submitted

-----------------------------------------------------------------------------
(* reclassify-quarantine: fetch a batch by id, ask the LLM entry by entry, *)
(* write each actionable answer back in a transaction of its own.          *)

\* Mutant: the row the last batch ended with is fetched again.
EligibleFromLast == {q \in quarantine : q.kind = "low" /\ q.rec \in rows /\ q.id >= cursor}
\* Rows of _FETCH_SQL beyond last_id.  reprocessed_at is not asked for.
Eligible == {q \in quarantine : q.kind = "low" /\ q.rec \in rows /\ q.id > cursor}

StartLlm ==
  /\ llm = "off"
  /\ llm' = "running"
  /\ firstNew' = lastId + 1
  /\ UNCHANGED <<rows, table, entries, jobs, tabs, cursor, page, seen>>

\* ORDER BY q.id LIMIT batch; last_id becomes the id of the last one.
FetchBatch ==
  /\ llm = "running" /\ page = {}
  /\ \E batch \in SUBSET Eligible : \E last \in batch :
       /\ Cardinality(batch) <= BatchSize
       /\ batch = Eligible \/ Cardinality(batch) = BatchSize
       /\ \A q \in batch : q.id <= last.id
       /\ \A q \in Eligible \ batch : q.id > last.id
       /\ page' = batch
       /\ cursor' = last.id
  /\ UNCHANGED <<rows, table, entries, jobs, tabs, llm, firstNew, seen>>

ComeTo(e) ==
  /\ e \in page /\ \A q \in page : e.id <= q.id
  /\ page' = page \ {e}
  /\ seen' = seen \union {e.id}
  /\ UNCHANGED <<rows, jobs, tabs, llm, cursor, firstNew>>

\* No candidates, no answer, an answer not to be acted on, or a rollback.
PassOver(e) == ComeTo(e) /\ UNCHANGED <<table, entries>>

\* Mutant: a flagged entry is left in quarantine for the operator.
WriteBackKeepsFlagged(e, flagged) ==
  /\ ComeTo(e)
  /\ Patch(e.rec, "llm", review[e.rec] \/ flagged, action[e.rec])
  /\ quarantine' = IF flagged THEN quarantine ELSE {q \in quarantine : q.id # e.id}
  /\ UNCHANGED lastId
\* _UPDATE_SQL and _DELETE_SQL; a gate's doubt only ever sets the flag.
WriteBack(e, flagged) ==
  /\ ComeTo(e)
  /\ Patch(e.rec, "llm", review[e.rec] \/ flagged, action[e.rec])
  /\ quarantine' = {q \in quarantine : q.id # e.id}
  /\ UNCHANGED lastId

\* _FETCH_SQL returns no row, --limit is reached, or the process is stopped.
EndLlm ==
  /\ llm = "running"
  /\ llm' = "off" /\ cursor' = 0 /\ page' = {} /\ firstNew' = 0 /\ seen' = {}
  /\ UNCHANGED <<rows, table, entries, jobs, tabs>>

Next ==
  \/ \E r \in Records : Sweep(r) \/ Redeliver(r) \/ WriteClassified(r) \/ WriteQuarantined(r)
  \/ ClearYear
  \/ \E r \in Records : OpenReview(r) \/ Accept(r) \/ Override(r) \/ Reject(r)
  \/ \E q \in quarantine : OpenEntry(q) \/ Assign(q) \/ Drop(q)
  \/ CloseTabs
  \/ StartLlm \/ FetchBatch \/ EndLlm
  \/ \E e \in page : PassOver(e) \/ \E flagged \in BOOLEAN : WriteBack(e, flagged)

Spec == Init /\ [][Next]_vars

-----------------------------------------------------------------------------
(* Properties.                                                             *)

\* The type of the state; ids are handed out once.
TypeOK ==
  /\ rows \subseteq Records
  /\ soc \in [Records -> {"absent", "null", "nlp", "llm", "operator"}]
  /\ review \in [Records -> BOOLEAN]
  /\ action \in [Records -> {"none", "accepted", "overridden",
                             "rejected_to_quarantine", "quarantine_assigned"}]
  /\ quarantine \subseteq Entry
  /\ lastId \in 0..MaxEntries
  /\ queued \in [Records -> Nat] /\ enqueued \in [Records -> Nat]
  /\ redelivered \in Nat
  /\ reviewTabs \subseteq Records /\ entryTabs \subseteq 1..lastId
  /\ llm \in {"off", "running"}
  /\ cursor \in 0..lastId
  /\ page \subseteq Entry
  /\ firstNew \in 0..(lastId + 1)
  /\ seen \subseteq 1..lastId
  /\ \A q \in quarantine \union page : q.id <= lastId
  /\ \A p, q \in quarantine : p.id = q.id => p = q

\* Nobody is forgotten: a row without a usable code is one the sweep would
\* still take, or has an entry on the operators' list, or one an operator has
\* dropped -- whatever forms and fetched batches were out of date when they
\* were written.  (A rejected row keeps its soc_code key, so without an entry
\* neither sweep nor coverage assertion would ever notice it.)
NobodyForgotten ==
  \A r \in rows : ~HasCode(r) =>
    ~Covered(r) \/ \E q \in EntriesOf(r) : q.state \in {"open", "dropped"}

\* What stands on the list of reviews has a code to accept.
ReviewHasCode == \A r \in rows : review[r] => HasCode(r)

\* An operator's override of a review stands until an operator changes it,
\* if the row was delivered to a worker once: the LLM job takes its entry away
\* with the very write that raises the flag, and never comes back to it.
\* (A second delivery brings a second entry, and with it the LLM.)
OverrideStands ==
  \A r \in rows : action[r] = "overridden" /\ enqueued[r] = 1 => soc[r] = "operator"

\* "the next NLP run won't re-flag the record": a row an operator has decided
\* about is not enqueued again, except by redelivery of an earlier job.
Decided(r) == action[r] # "none" \/ \E q \in EntriesOf(r) : q.state = "dropped"
DecidedIsNotSwept ==
  [][\A r \in rows : Decided(r) /\ enqueued'[r] > enqueued[r] => redelivered' > redelivered]_vars

\* Two operators with the same entry before them do not overrule each other:
\* an entry is decided once, until the LLM job deletes it.
EntryDecidedOnce ==
  [][\A q \in quarantine : q.state # "open" =>
       q \in quarantine' \/ \A p \in quarantine' : p.id # q.id]_vars

\* A run of the LLM job passes over no entry and comes to none twice: each one
\* that was there at its start and still has its row has been come to, is in
\* the batch, or will be fetched, although entries come and go meanwhile.  (A
\* transaction that was under way at the start may commit an older id later.)
PassIsComplete ==
  /\ llm = "running" => \A q \in quarantine :
       q.id < firstNew /\ q.kind = "low" /\ q.rec \in rows =>
         q.id \in seen \/ q \in Eligible \/ \E e \in page : e.id = q.id
  /\ \A e \in page : e.id \notin seen

=============================================================================
