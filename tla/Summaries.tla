------------------------------ MODULE Summaries ------------------------------
(***************************************************************************)
(* The texts of the site's pages                                           *)
(* (apps/analytics-web/scripts/generate-summaries.ts, lib/llm/             *)
(* seo-content.ts) and the scripts around it.  Every build makes an lca.db *)
(* without texts.  The generator seeds it from the last candidate, asks    *)
(* the LLM about the pages whose hash is not the seeded one, and writes    *)
(* what comes back under the page's hash; then the file is uploaded.       *)
(*                                                                         *)
(* A page's data is [own, inner]: the fields of its payload and those of   *)
(* the rows nested in it (the top occupations of an employer, the rows of  *)
(* a ranking, both sides of a comparison).  The list of top-level keys     *)
(* that hashPayload gives JSON.stringify is a filter on every level: the   *)
(* nested fields are not part of the hash.  A text remembers, for the      *)
(* properties, the page it was asked about and the data it was made from.  *)
(***************************************************************************)
EXTENDS Naturals, Sequences, FiniteSets, SequencesExt

CONSTANTS
  Pages,
  Values,       \* of the own and of the nested fields
  Scale,        \* a run fails when more than one in Scale has no result: 20
  MaxBuilds, MaxErrors   \* bounds: builds; crashes and answers that never come

ASSUME SummariesAssumption ==
  IsFiniteSet(Pages) /\ Scale \in Nat \ {0} /\ MaxBuilds \in Nat /\ MaxErrors \in Nat

VARIABLES
  data,         \* lca.db: the pages it has and their data
  text,         \* lca.db: entity_summary
  last,         \* s3: entity_summary of candidates/last/lca.db
  site,         \* data and texts of the candidate that was last shown
  run,          \* the generator
  builds, errors

vars == <<data, text, last, site, run, builds, errors>>

None == [p \in {} |-> 0]
Payload == [own : Values, inner : Values]
Hash(payload) == payload.own
Text(p, by) == [hash |-> Hash(data[p]), page |-> p, from |-> data[p], by |-> by]
Put(f, p, t) == [q \in DOMAIN f \union {p} |-> IF q = p THEN t ELSE f[q]]

\* todo: the changed pages; answers: the positions that have one; ended: those
\* that have ended one way or the other.
Off == [pc |-> "off", todo |-> <<>>, answers |-> {}, ended |-> {}, capped |-> FALSE]
Failed == Len(run.todo) - Cardinality(run.answers)

Init ==
  /\ data = None /\ text = None /\ last = None
  /\ site = [data |-> None, text |-> None]
  /\ run = Off
  /\ builds = 0 /\ errors = 0

-----------------------------------------------------------------------------
\* build:sqlite: pages come and go, their data changes, there are no texts.
BuildDb ==
  /\ run.pc = "off" /\ builds < MaxBuilds
  /\ \E ps \in SUBSET Pages \ {{}} : data' \in [ps -> Payload]
  /\ text' = None
  /\ run' = [Off EXCEPT !.pc = "built"]
  /\ builds' = builds + 1
  /\ UNCHANGED <<last, site, errors>>

\* seedFromPrior: INSERT OR IGNORE
Seeded(seed) ==
  IF ~seed THEN text
  ELSE [p \in DOMAIN text \union DOMAIN last |->
          IF p \in DOMAIN text THEN text[p] ELSE last[p]]

\* Mutant: any row of the page will do.
ChangedIfNew(t) == {p \in DOMAIN data : p \notin DOMAIN t}
Changed(t) == {p \in DOMAIN data : p \in DOMAIN t => t[p].hash # Hash(data[p])}

\* main, up to the calls: LLM_LIMIT cuts the list, 0 leaves it.
Start(mode, seed, limit) ==
  /\ run.pc \in {"built", "off"} /\ data # None
  /\ text' = Seeded(seed)
  /\ \E order \in SetToSeqs(Changed(text')) :
       LET capped == limit > 0 /\ Len(order) > limit
           todo == IF capped THEN SubSeq(order, 1, limit) ELSE order IN
       run' = [Off EXCEPT !.pc = IF todo = <<>> THEN "done" ELSE mode,
                          !.todo = todo, !.capped = capped]
  /\ UNCHANGED <<data, last, site, builds, errors>>

Generating == UNCHANGED <<data, last, site, builds>>

\* No provider: placeholders, under the hash of the data.
Stub ==
  /\ run.pc = "stub"
  /\ text' = [p \in DOMAIN text \union ToSet(run.todo) |->
       IF p \in ToSet(run.todo) THEN Text(p, "stub") ELSE text[p]]
  /\ run' = [run EXCEPT !.pc = "done", !.answers = DOMAIN run.todo,
                         !.ended = DOMAIN run.todo]
  /\ Generating /\ UNCHANGED errors

\* The LLM answers a request, or never does (an error, an answer that cannot
\* be read, an expired item).  In sync mode the answer is written at once.
Answer(i) ==
  /\ run.pc \in {"sync", "batch"} /\ i \in DOMAIN run.todo \ run.ended
  /\ run' = [run EXCEPT !.answers = @ \union {i}, !.ended = @ \union {i}]
  /\ text' = IF run.pc = "sync" THEN Put(text, run.todo[i], Text(run.todo[i], "llm"))
             ELSE text
  /\ Generating /\ UNCHANGED errors
NoAnswer(i) ==
  /\ run.pc \in {"sync", "batch"} /\ i \in DOMAIN run.todo \ run.ended
  /\ errors < MaxErrors /\ errors' = errors + 1
  /\ run' = [run EXCEPT !.ended = @ \union {i}]
  /\ Generating /\ UNCHANGED text

\* Mutant: the answers are counted off in the order they come.
Kth(i) == Cardinality({j \in run.answers : j <= i})
InTurn(i) == Text(run.todo[Kth(i)], "llm")
\* custom_id: the answer to the i-th request.
AnswerTo(i) == Text(run.todo[i], "llm")

\* The batch has ended: every answer is written.
WriteBatch ==
  /\ run.pc = "batch" /\ run.ended = DOMAIN run.todo
  /\ text' = [p \in DOMAIN text \union {run.todo[i] : i \in run.answers} |->
       IF \E i \in run.answers : run.todo[i] = p
       THEN AnswerTo(CHOOSE i \in run.answers : run.todo[i] = p) ELSE text[p]]
  /\ run' = [run EXCEPT !.pc = "done"]
  /\ Generating /\ UNCHANGED errors
SyncEnds ==
  /\ run.pc = "sync" /\ run.ended = DOMAIN run.todo
  /\ run' = [run EXCEPT !.pc = "done"]
  /\ Generating /\ UNCHANGED <<text, errors>>

Systemic == Failed * Scale > Len(run.todo)

\* exitCode 1: set -e ends the script, nothing is uploaded.
Stops ==
  /\ run.pc = "done" /\ Systemic
  /\ run' = Off
  /\ UNCHANGED <<data, text, last, site, builds, errors>>

\* The file is uploaded and shown; nlp-finalize.sh also makes it the candidate
\* the next run is seeded from, burst-finalize.sh and ec2-promote.sh do not.
Upload(keep) ==
  /\ run.pc = "done" /\ ~Systemic
  /\ site' = [data |-> data, text |-> text]
  /\ last' = IF keep THEN text ELSE last
  /\ run' = Off
  /\ UNCHANGED <<data, text, builds, errors>>

\* nlp-finalize.sh with SKIP_SUMMARIES: the generator, and with it the seeding,
\* is left out, and the file becomes the candidate all the same.
UploadBare ==
  /\ run.pc = "built"
  /\ site' = [data |-> data, text |-> text]
  /\ last' = text
  /\ run' = Off
  /\ UNCHANGED <<data, text, builds, errors>>

\* It dies: a batch is lost with its answers, and is asked for again.
Dies ==
  /\ run.pc \in {"stub", "sync", "batch"}
  /\ errors < MaxErrors /\ errors' = errors + 1
  /\ run' = Off
  /\ Generating /\ UNCHANGED text

-----------------------------------------------------------------------------
Next ==
  \/ BuildDb
  \/ \E mode \in {"stub", "sync", "batch"}, seed \in BOOLEAN, limit \in {0, 1} :
       Start(mode, seed, limit)
  \/ Stub \/ (\E i \in DOMAIN run.todo : Answer(i) \/ NoAnswer(i))
  \/ WriteBatch \/ SyncEnds \/ Stops \/ (\E keep \in BOOLEAN : Upload(keep))
  \/ UploadBare \/ Dies

Spec == Init /\ [][Next]_vars

-----------------------------------------------------------------------------
(* Properties.                                                             *)

Texts == [hash : Values, page : Pages, from : Payload, by : {"stub", "llm"}]
IsTable(t) == DOMAIN t \subseteq Pages /\ \A p \in DOMAIN t : t[p] \in Texts
IsData(d) == DOMAIN d \subseteq Pages /\ \A p \in DOMAIN d : d[p] \in Payload

\* Types; a generator that has ended has heard of all its requests.
TypeOK ==
  /\ IsData(data) /\ IsData(site.data)
  /\ IsTable(text) /\ IsTable(last) /\ IsTable(site.text)
  /\ run.pc \in {"off", "built", "stub", "sync", "batch", "done"}
  /\ run.todo \in Seq(Pages) /\ run.answers \subseteq DOMAIN run.todo
  /\ run.ended \subseteq DOMAIN run.todo /\ (run.pc = "done" => run.ended = DOMAIN run.todo)
  /\ run.capped \in BOOLEAN
  /\ builds \in 0..MaxBuilds /\ errors \in 0..MaxErrors

\* A page's text is about that page and made from data of its hash, through
\* batches with gaps, partial runs, and files seeded from one another.
TextIsOwn ==
  \A t \in {text, last, site.text} : \A p \in DOMAIN t :
    t[p].page = p /\ t[p].hash = Hash(t[p].from)

\* When the generator has ended, every page of the file has a text of its
\* current hash, whatever was seeded, but for those without an answer and
\* those LLM_LIMIT has cut.
Current(p) == p \in DOMAIN text /\ text[p].hash = Hash(data[p])
RunIsComplete ==
  run.pc = "done" /\ ~run.capped =>
    Cardinality({p \in DOMAIN data : ~Current(p)}) <= Failed

\* "only for rows whose hash changed": a page that keeps its text has the data
\* the text was made from.
UnchangedIsUnchanged ==
  run.pc = "done" /\ ~run.capped /\ Failed = 0 =>
    \A p \in DOMAIN data : text[p].from = data[p]
=============================================================================
