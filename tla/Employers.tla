------------------------------- MODULE Employers -------------------------------
(***************************************************************************)
(* Which employer a filing belongs to.  The rows of lca_records carry a    *)
(* canonical_employer_id; five programs write it: the NLP workers          *)
(* (entity_resolution.py, worker.py), the operator UI's queue of           *)
(* unresolved employers (queries.js), backfill-canonical-full, which       *)
(* empties that queue by itself, backfill-canonical-ids, and the embedder  *)
(* that feeds the third layer of the resolution.                           *)
(*                                                                         *)
(* An action is one transaction, the two statements of resolve_fein        *)
(* excepted: what they decide together two workers may decide at once.     *)
(* A job has one row; a name stands for the pair (lower(name), state) that *)
(* is unique in staging.unresolved_employers.  Which of several canonicals *)
(* above the threshold a layer returns (the nearest) is left open.         *)
(***************************************************************************)
EXTENDS Naturals, FiniteSets, Sequences

CONSTANTS
  Workers, Rows, Names,
  NameOf,       \* the employer name and state a row carries
  RowsOf,       \* the rows an entry's name matches: an entry without a state
                \* matches the name in every state
  FeinOf,       \* the row's FEIN, or NoFein
  Confident,    \* rows whose SOC prediction is above the threshold
  ValidFeins,   \* the FEINs of the form NN-NNNNNNN
  NoFein,
  Alike,        \* pairs of names with pg_trgm similarity above the threshold
  Near,         \* pairs of names with cosine distance below it
  Batch,        \* --batch of backfill-canonical-full
  Deliveries,   \* bound: how often each row's job is delivered
  MaxCanon,     \* bound: canonical employers
  MaxErrors     \* bound: database errors and crashes of a process

ASSUME EmployersAssumption ==
  /\ IsFiniteSet(Rows) /\ Rows # {} /\ IsFiniteSet(Names) /\ IsFiniteSet(Workers)
  /\ NameOf \in [Rows -> Names] /\ RowsOf \in [Names -> SUBSET Rows]
  /\ \A r \in Rows : r \in RowsOf[NameOf[r]]
  /\ Confident \subseteq Rows /\ NoFein \notin ValidFeins
  /\ Batch \in Nat \ {0} /\ Deliveries \in [Rows -> Nat]
  /\ MaxCanon \in Nat /\ MaxErrors \in Nat

VARIABLES
  canon,        \* canonical_employers, a sequence: ids are positions
  embedded,     \* ids that are in employer_embeddings
  emp,          \* data->>'canonical_employer_id', 0 when NULL
  keyed,        \* rows whose data has that key, JSON null included
  entry,        \* staging.unresolved_employers
  pending,      \* deliveries of the row's job still to come
  job,          \* what each worker is doing
  lock,         \* holders of the embedding advisory lock between two calls
  full,         \* backfill-canonical-full
  page,         \* rows backfill-canonical-ids has fetched
  errors,       \* errors so far
  swallowed,    \* history: rows of which a write failed and was only logged
  interrupted   \* history: names marked resolved by a run that died then

table  == <<emp, keyed>>
people == <<canon, embedded>>
work   == <<pending, job, lock, swallowed>>
vars == <<people, table, entry, work, full, page, errors, interrupted>>

Ids   == DOMAIN canon
Feins == {FeinOf[r] : r \in Rows} \union {NoFein}
\* A fetched entry.
Fetched == [name : Names, fein : Feins]

OfFein(f)   == {c \in Ids : f # NoFein /\ canon[c].fein = f}
ByTrgm(n)   == {c \in Ids : <<canon[c].name, n>> \in Alike}
ByVector(n) == {c \in embedded : <<canon[c].name, n>> \in Near}

\* UPDATE canonical_employers SET record_count = record_count + k
Bumped(c, k) == [canon EXCEPT ![c].count = @ + k]
Canonical(n, f, k) == [name |-> n, fein |-> f, count |-> k]
Open(n) == entry[n].state = "open"
Errs == errors < MaxErrors /\ errors' = errors + 1

Idle == [pc |-> "idle", row |-> CHOOSE r \in Rows : TRUE, emp |-> 0]
FullOff == [pc |-> "off", chunk |-> {}, missed |-> {}, decided |-> {}, new |-> {}]

Init ==
  /\ canon = <<>> /\ embedded = {}
  /\ emp = [r \in Rows |-> 0] /\ keyed = {}
  /\ entry = [n \in Names |-> [state |-> "none", fein |-> NoFein, to |-> 0]]
  /\ pending = Deliveries
  /\ job = [w \in Workers |-> Idle]
  /\ lock = {} /\ full = FullOff /\ page = {}
  /\ errors = 0 /\ swallowed = {} /\ interrupted = {}

-----------------------------------------------------------------------------
(* A worker: resolve the employer layer by layer, write the row, list the  *)
(* name if no layer knew it, embed what is new.                            *)

At(w, pc) == job[w].pc = pc
Goto(w, pc) == job' = [job EXCEPT ![w].pc = pc]
\* The layer's answer, bumped and committed with it.
Found(w, c) ==
  /\ canon' = Bumped(c, 1)
  /\ job' = [job EXCEPT ![w].pc = "write", ![w].emp = c]
InJob == UNCHANGED <<table, entry, pending, lock, full, page, swallowed, interrupted>>

Take(w, r) ==
  /\ At(w, "idle") /\ pending[r] > 0
  /\ pending' = [pending EXCEPT ![r] = @ - 1]
  /\ job' = [job EXCEPT ![w] = [pc |-> "fein", row |-> r, emp |-> 0]]
  /\ UNCHANGED <<people, table, entry, lock, full, page, errors, swallowed, interrupted>>

\* resolve_fein, its SELECT and the bump of the row it found.
FeinSelect(w) ==
  LET f == FeinOf[job[w].row] IN
  /\ At(w, "fein")
  /\ \/ f \notin ValidFeins /\ Goto(w, "trgm") /\ UNCHANGED canon
     \/ \E c \in OfFein(f) : f \in ValidFeins /\ Found(w, c)
     \/ f \in ValidFeins /\ OfFein(f) = {} /\ Goto(w, "insert") /\ UNCHANGED canon
  /\ UNCHANGED <<embedded, errors>> /\ InJob

\* Its INSERT: record_count starts at 1.  A FEIN that is there by now breaks
\* the unique index; the worker rolls back and asks the next layer.
FeinInsert(w) ==
  LET r == job[w].row IN
  /\ At(w, "insert")
  /\ \/ /\ OfFein(FeinOf[r]) # {}
        /\ Goto(w, "trgm") /\ UNCHANGED canon
     \/ /\ OfFein(FeinOf[r]) = {} /\ Len(canon) < MaxCanon
        /\ canon' = Append(canon, Canonical(NameOf[r], FeinOf[r], 1))
        /\ job' = [job EXCEPT ![w].pc = "write", ![w].emp = Len(canon) + 1]
  /\ UNCHANGED <<embedded, errors>> /\ InJob

\* Mutant: the match is returned and not counted.
TrgmUncounted(w) ==
  LET ids == ByTrgm(NameOf[job[w].row]) IN
  /\ At(w, "trgm")
  /\ \/ ids = {} /\ Goto(w, "vector")
     \/ \E c \in ids : job' = [job EXCEPT ![w].pc = "write", ![w].emp = c]
  /\ UNCHANGED <<canon, embedded, errors>> /\ InJob
\* resolve_trgm
Trgm(w) ==
  LET ids == ByTrgm(NameOf[job[w].row]) IN
  /\ At(w, "trgm")
  /\ \/ ids = {} /\ Goto(w, "vector") /\ UNCHANGED canon
     \/ \E c \in ids : Found(w, c)
  /\ UNCHANGED <<embedded, errors>> /\ InJob

\* resolve_vector: only embedded canonicals are found.
Vector(w) ==
  LET ids == ByVector(NameOf[job[w].row]) IN
  /\ At(w, "vector")
  /\ \/ ids = {} /\ Goto(w, "write") /\ UNCHANGED canon
     \/ \E c \in ids : Found(w, c)
  /\ UNCHANGED <<embedded, errors>> /\ InJob

\* A layer that fails is rolled back and answers None.
LayerFails(w) ==
  /\ job[w].pc \in {"fein", "insert", "trgm", "vector"}
  /\ Errs
  /\ Goto(w, CASE At(w, "trgm") -> "vector" [] At(w, "vector") -> "write"
               [] OTHER -> "trgm")
  /\ UNCHANGED people /\ InJob

\* Mutant: the test is the wrong way round.
ListIfFound(w) == IF job[w].emp # 0 THEN "list" ELSE "embed"
\* After the write, a row without an employer is listed.
AfterWrite(w) == IF job[w].emp = 0 THEN "list" ELSE "embed"

\* _write_results: a confident row is patched with the id or with JSON null;
\* a quarantined one is left alone.
WriteResults(w) ==
  LET r == job[w].row IN
  /\ At(w, "write")
  /\ \/ /\ r \in Confident
        /\ emp' = [emp EXCEPT ![r] = job[w].emp] /\ keyed' = keyed \union {r}
     \/ r \notin Confident /\ UNCHANGED table
  /\ Goto(w, AfterWrite(w))
  /\ UNCHANGED <<people, entry, pending, lock, full, page, errors, swallowed, interrupted>>

\* It fails: rolled back and logged, and the job goes on.
ResultsLost(w) ==
  /\ At(w, "write") /\ Errs
  /\ swallowed' = swallowed \union {job[w].row}
  /\ Goto(w, AfterWrite(w))
  /\ UNCHANGED <<people, table, entry, pending, lock, full, page, interrupted>>

\* _write_unresolved: an entry that is there keeps its state, closed or not,
\* and its FEIN unless it has none.
WriteUnresolved(w) ==
  LET n == NameOf[job[w].row]  f == FeinOf[job[w].row] IN
  /\ At(w, "list")
  /\ entry' = [entry EXCEPT ![n].state = IF @ = "none" THEN "open" ELSE @,
                            ![n].fein  = IF @ = NoFein THEN f ELSE @]
  /\ Goto(w, "embed")
  /\ UNCHANGED <<people, table, pending, lock, full, page, errors, swallowed, interrupted>>

\* It fails: logged and forgotten.
UnresolvedLost(w) ==
  /\ At(w, "list") /\ Errs
  /\ swallowed' = swallowed \union {job[w].row}
  /\ Goto(w, "embed")
  /\ UNCHANGED <<people, table, entry, pending, lock, full, page, interrupted>>

\* embed_pending: everything, unless another session has the lock.  The lock
\* counts its acquisitions, so a session that kept it keeps it.
EmbedPending(w) ==
  /\ At(w, "embed")
  /\ embedded' = IF lock \subseteq {w} THEN Ids ELSE embedded
  /\ job' = [job EXCEPT ![w] = Idle]
  /\ UNCHANGED <<canon, table, entry, pending, lock, full, page, errors, swallowed, interrupted>>

\* An insert fails; the unlock fails with it, and the session keeps the lock.
EmbedFails(w) ==
  /\ At(w, "embed") /\ lock \subseteq {w} /\ Errs
  /\ lock' = {w}
  /\ job' = [job EXCEPT ![w] = Idle]
  /\ UNCHANGED <<people, table, entry, pending, full, page, swallowed, interrupted>>

\* The worker dies; its lock goes with the session, its job comes back.
Crash(w) ==
  /\ ~At(w, "idle") /\ Errs
  /\ pending' = [pending EXCEPT ![job[w].row] = @ + 1]
  /\ job' = [job EXCEPT ![w] = Idle]
  /\ lock' = lock \ {w}
  /\ UNCHANGED <<people, table, entry, full, page, swallowed, interrupted>>

\* embed-employers, run by hand or by the burst: it takes no lock.
EmbedEmployers ==
  /\ embedded # Ids /\ embedded' = Ids
  /\ UNCHANGED <<canon, table, entry, work, full, page, errors, interrupted>>

-----------------------------------------------------------------------------
(* The operator's queue.                                                   *)

\* Mutant: the rows that have the key, if only with a null.
KeyedOrphans(n) == {r \in RowsOf[n] : r \in keyed /\ emp[r] = 0}
\* Rows of the name with no employer id.
Orphans(n) == {r \in RowsOf[n] : emp[r] = 0}

\* The transaction mergeUnresolved and createCanonicalAndMerge share.
MergeInto(n, c, before) ==
  LET rows == Orphans(n) IN
  /\ emp' = [r \in Rows |-> IF r \in rows THEN c ELSE emp[r]]
  /\ keyed' = keyed \union rows
  /\ canon' = [before EXCEPT ![c].count = @ + Cardinality(rows)]
  /\ entry' = [entry EXCEPT ![n].state = "resolved", ![n].to = c]
  /\ UNCHANGED <<embedded, work, full, page, errors, interrupted>>

Merge(n, c) == Open(n) /\ MergeInto(n, c, canon)

\* The FEIN's canonical if there is one, else a new one; the entry's FEIN is
\* taken as it is.
Create(n) ==
  LET f == entry[n].fein IN
  /\ Open(n)
  /\ \/ \E c \in OfFein(f) : MergeInto(n, c, canon)
     \/ /\ OfFein(f) = {} /\ Len(canon) < MaxCanon
        /\ MergeInto(n, Len(canon) + 1, Append(canon, Canonical(n, f, 0)))

Reject(n) ==
  /\ Open(n)
  /\ entry' = [entry EXCEPT ![n].state = "rejected", ![n].to = 0]
  /\ UNCHANGED <<people, table, work, full, page, errors, interrupted>>

-----------------------------------------------------------------------------
(* backfill-canonical-full, chunk by chunk.                                *)

FullOnly == UNCHANGED <<work, page, errors, interrupted>>

FetchChunk ==
  LET open == {n \in Names : Open(n)} IN
  /\ full.pc = "off"
  /\ \E ns \in SUBSET open \ {{}} :
       /\ Cardinality(ns) = IF Cardinality(open) < Batch THEN Cardinality(open) ELSE Batch
       /\ full' = [FullOff EXCEPT !.pc = "match",
            !.chunk = {[name |-> n, fein |-> entry[n].fein] : n \in ns}]
  /\ UNCHANGED <<people, table, entry>> /\ FullOnly

\* Pass 1: layers 1 and 2, entry by entry.  Nothing is counted yet.
Match(e) ==
  LET l1 == IF e.fein \in ValidFeins THEN OfFein(e.fein) ELSE {}
      ids == IF l1 # {} THEN l1 ELSE ByTrgm(e.name) IN
  /\ full.pc = "match" /\ e \in full.chunk
  /\ \/ ids = {} /\ full' = [full EXCEPT !.chunk = @ \ {e}, !.missed = @ \union {e}]
     \/ \E c \in ids : full' = [full EXCEPT !.chunk = @ \ {e},
          !.decided = @ \union {[name |-> e.name, emp |-> c]}]
  /\ UNCHANGED <<people, table, entry>> /\ FullOnly

\* Pass 2, one transaction: layer 3 for the rest, and what it does not know
\* becomes canonical with the FEIN of its entry, of the form or not.
Insertable(new) ==
  /\ \A e \in new : OfFein(e.fein) = {}
  /\ \A e, f \in new : e.fein = f.fein /\ e.fein # NoFein => e = f

Inserted(order) ==
  [i \in DOMAIN order |-> Canonical(order[i].name, order[i].fein, 0)]

PassTwo ==
  LET new == {e \in full.missed : ByVector(e.name) = {}} IN
  /\ full.pc = "match" /\ full.chunk = {}
  /\ Insertable(new) /\ Len(canon) + Cardinality(new) <= MaxCanon
  /\ \E near \in [full.missed \ new -> Ids],
        order \in [1..Cardinality(new) -> new] :
       /\ \A e \in DOMAIN near : near[e] \in ByVector(e.name)
       /\ \A e \in new : \E i \in DOMAIN order : order[i] = e
       /\ canon' = canon \o Inserted(order)
       /\ full' = [full EXCEPT !.pc = "embed", !.missed = {},
            !.new = (Len(canon) + 1)..(Len(canon) + Cardinality(new)),
            !.decided = @
              \union {[name |-> e.name, emp |-> near[e]] : e \in DOMAIN near}
              \union {[name |-> order[i].name, emp |-> Len(canon) + i] :
                        i \in 1..Cardinality(new)}]
  /\ UNCHANGED <<embedded, table, entry>> /\ FullOnly

\* A FEIN that is there already breaks the unique index and ends the script.
FeinClash ==
  /\ full.pc = "match" /\ full.chunk = {}
  /\ ~Insertable({e \in full.missed : ByVector(e.name) = {}})
  /\ full' = FullOff
  /\ UNCHANGED <<people, table, entry>> /\ FullOnly

EmbedNew ==
  /\ full.pc = "embed"
  /\ embedded' = embedded \union full.new
  /\ full' = [full EXCEPT !.pc = "mark", !.new = {}]
  /\ UNCHANGED <<canon, table, entry>> /\ FullOnly

ChosenFor(n) == {d \in full.decided : d.name = n}
\* MARK_RESOLVED goes by id: an entry decided meanwhile is decided again.
MarkResolved ==
  /\ full.pc = "mark"
  /\ \E to \in [Names -> 0..MaxCanon] :
       /\ \A n \in Names : IF ChosenFor(n) = {} THEN to[n] = entry[n].to
                           ELSE \E d \in ChosenFor(n) : to[n] = d.emp
       /\ entry' = [n \in Names |-> IF ChosenFor(n) = {} THEN entry[n]
                      ELSE [entry[n] EXCEPT !.state = "resolved", !.to = to[n]]]
  /\ full' = [full EXCEPT !.pc = "backfill"]
  /\ UNCHANGED <<people, table>> /\ FullOnly

\* Rows the entry's name matches whose data lacks the key.  Two entries that
\* match a row are written in turn: the first one has it.
Unkeyed(n) == RowsOf[n] \ keyed
BackfillRows ==
  LET open == UNION {Unkeyed(d.name) : d \in full.decided} IN
  /\ full.pc = "backfill"
  /\ \E by \in [open -> 1..MaxCanon] :
       /\ \A r \in open : \E d \in full.decided : r \in RowsOf[d.name] /\ by[r] = d.emp
       /\ emp' = [r \in Rows |-> IF r \in open THEN by[r] ELSE emp[r]]
       /\ canon' = [c \in Ids |-> [canon[c] EXCEPT
                      !.count = @ + Cardinality({r \in open : by[r] = c})]]
  /\ keyed' = keyed \union open
  /\ full' = FullOff
  /\ UNCHANGED <<embedded, entry>> /\ FullOnly

\* The script dies between two of its commits.
FullDies ==
  /\ full.pc # "off" /\ Errs
  /\ full' = FullOff
  /\ interrupted' = IF full.pc = "backfill"
       THEN interrupted \union {d.name : d \in full.decided} ELSE interrupted
  /\ UNCHANGED <<people, table, entry, work, page>>

-----------------------------------------------------------------------------
(* backfill-canonical-ids: layer 1 for rows without an id.  The page may   *)
(* leave rows out, and the write does not look again.                      *)

FetchPage ==
  /\ page = {}
  /\ page' \in SUBSET {r \in Rows : emp[r] = 0} \ {{}}
  /\ UNCHANGED <<people, table, entry, work, full, errors, interrupted>>

\* The count is committed before the row: a write that fails is only logged.
PatchRow(r, c, counted) ==
  /\ canon' = counted
  /\ \/ emp' = [emp EXCEPT ![r] = c] /\ keyed' = keyed \union {r} /\ UNCHANGED errors
     \/ Errs /\ UNCHANGED table

\* resolve_fein, and the write of what it found.
ResolvePage(r) ==
  LET f == FeinOf[r] IN
  /\ r \in page /\ page' = page \ {r}
  /\ \/ f \notin ValidFeins /\ UNCHANGED <<canon, table, errors>>
     \/ \E c \in OfFein(f) : f \in ValidFeins /\ PatchRow(r, c, Bumped(c, 1))
     \/ /\ f \in ValidFeins /\ OfFein(f) = {} /\ Len(canon) < MaxCanon
        /\ PatchRow(r, Len(canon) + 1, Append(canon, Canonical(NameOf[r], f, 1)))
  /\ UNCHANGED <<embedded, entry, work, full, interrupted>>

-----------------------------------------------------------------------------
Next ==
  \/ \E w \in Workers :
       \/ \E r \in Rows : Take(w, r)
       \/ FeinSelect(w) \/ FeinInsert(w) \/ Trgm(w) \/ Vector(w) \/ LayerFails(w)
       \/ WriteResults(w) \/ ResultsLost(w) \/ WriteUnresolved(w) \/ UnresolvedLost(w)
       \/ EmbedPending(w) \/ EmbedFails(w) \/ Crash(w)
  \/ EmbedEmployers
  \/ \E n \in Names : (\E c \in Ids : Merge(n, c)) \/ Create(n) \/ Reject(n)
  \/ FetchChunk \/ (\E e \in full.chunk : Match(e)) \/ PassTwo \/ FeinClash
  \/ EmbedNew \/ MarkResolved \/ BackfillRows \/ FullDies
  \/ FetchPage \/ (\E r \in page : ResolvePage(r))

Spec == Init /\ [][Next]_vars

-----------------------------------------------------------------------------
(* Properties.                                                             *)

States == {"none", "open", "resolved", "rejected"}
Pcs == {"idle", "fein", "insert", "trgm", "vector", "write", "list", "embed"}

\* Types; an id that is written anywhere is one of canonical_employers.
TypeOK ==
  /\ canon \in Seq([name : Names, fein : Feins, count : Nat])
  /\ Len(canon) <= MaxCanon
  /\ embedded \subseteq Ids
  /\ emp \in [Rows -> Ids \union {0}] /\ keyed \subseteq Rows
  /\ entry \in [Names -> [state : States, fein : Feins, to : Ids \union {0}]]
  /\ pending \in [Rows -> Nat]
  /\ job \in [Workers -> [pc : Pcs, row : Rows, emp : Ids \union {0}]]
  /\ lock \subseteq Workers
  /\ full \in [pc : {"off", "match", "embed", "mark", "backfill"},
       chunk : SUBSET Fetched, missed : SUBSET Fetched,
       decided : SUBSET [name : Names, emp : Ids], new : SUBSET Ids]
  /\ page \subseteq Rows /\ errors \in 0..MaxErrors
  /\ swallowed \subseteq Rows /\ interrupted \subseteq Names

\* A canonical's record_count is never below the number of rows that carry
\* its id, whoever wrote them and in whatever order, a worker's answer that
\* is counted and not yet written included: the counts are bumped with the
\* resolution in one transaction and with the backfill in another.
Claims(c) == {w \in Workers : At(w, "write") /\ job[w].emp = c}
HeldBy(c) == {r \in Rows : emp[r] = c}
CountCoversRows ==
  \A c \in Ids : canon[c].count >= Cardinality(HeldBy(c)) + Cardinality(Claims(c))

\* A row written without an employer is never out of sight: its name is in
\* the queue's table (decided or not), or a job of the row is under way
\* or will come again, or a write of one failed, which is only logged.
OrphanIsListed ==
  \A r \in keyed :
    emp[r] = 0 =>
      \/ entry[NameOf[r]].state # "none"
      \/ pending[r] > 0 \/ r \in swallowed
      \/ \E w \in Workers : job[w].row = r /\ job[w].pc \notin {"idle", "embed"}

\* An entry that says resolved has reached every row its name matches: each
\* has a canonical_employer_id key (a worker's null counts, and may come
\* later), unless the script is about to write it, or died before it did.
ResolvedReachesRows ==
  \A n \in Names :
    entry[n].state = "resolved" =>
      \/ RowsOf[n] \subseteq keyed
      \/ n \in interrupted
      \/ full.pc = "backfill" /\ ChosenFor(n) # {}

\* What the script's header promises: when a chunk's backfill has run, no row
\* of its names is an orphan.  A row the worker wrote with a null is.
BackfillLeavesNoOrphan ==
  [][full.pc = "backfill" /\ errors' = errors /\ full'.pc = "off" =>
       \A d \in full.decided : \A r \in RowsOf[d.name] : emp'[r] # 0]_vars
===============================================================================
