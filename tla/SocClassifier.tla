---------------------------- MODULE SocClassifier ----------------------------
(***************************************************************************)
(* The SOC cascade (packages/nlp-engine: soc_classifier.py) and the jobs   *)
(* that maintain the two tables it looks into (dmtf_loader.py,             *)
(* alias_bootstrap.py, employer_consensus.py), while filings arrive and    *)
(* PostgreSQL restarts.                                                    *)
(*                                                                         *)
(* A title is what it is after lower(); Trim is what trim() makes of it:   *)
(* the consensus table and both miners use the trimmed title, the exact    *)
(* match of stage 1 does not trim the one it is asked about.  Similarity   *)
(* and confidence are in percent.  The classifier embeds the aliases once, *)
(* when its process starts: known is that copy.                            *)
(***************************************************************************)
EXTENDS Integers, Sequences, FiniteSets, SequencesExt, FiniteSetsExt

CONSTANTS
  Titles, Trim,       \* [Titles -> Titles]
  Feins, Codes, None,
  Cases,              \* all filings: [id, fein, title, code]
  Dmtf,               \* the DMTF file: pairs of a title and a code, each title once
  Sim,                \* [Titles -> [Titles -> 0 .. 100]]
  MinHits, MinEmployers, MinAgreement,  \* of the miners
  K,                  \* candidates shown to the LLM
  Records,            \* [title, fein]: what a batch is made of
  BatchSize, MaxOutages  \* bounds

ASSUME ClassifierAssumption ==
  /\ Trim \in [Titles -> Titles] /\ \A t \in Titles : Trim[Trim[t]] = Trim[t]
  /\ Sim \in [Titles -> [Titles -> 0 .. 100]]
  /\ K \in Nat \ {0} /\ BatchSize \in Nat \ {0} /\ MaxOutages \in Nat
  /\ MinHits \in Nat \ {0} /\ MinEmployers \in Nat \ {0} /\ MinAgreement \in 0 .. 100
  /\ Dmtf \in Seq(Titles \X Codes)
  /\ \A i, j \in DOMAIN Dmtf : Dmtf[i][1] = Dmtf[j][1] => i = j
  /\ Records \subseteq [title : Titles \union {None}, fein : Feins \union {None}]
  /\ None \notin Titles \union Codes \union Feins

VARIABLES
  filed,       \* lca_records: the cases that are there
  aliases,     \* soc_aliases: a code, or None, for each title
  consensus,   \* employer_soc_consensus: agreement and code of each key
  toLoad,      \* load-dmtf: what it has not upserted yet
  loads,       \* how often load-dmtf has ended
  mined,       \* bootstrap-aliases: the candidates it has in memory
  rebuilt,     \* refresh-employer-consensus: the entries it has in memory
  db,          \* the server is up
  conn,        \* _db_conn: "none", "open", or "broken" by a restart
  known,       \* _alias_codes with _alias_embeddings, or None
  batch, out, at,  \* the batch, its predictions so far, the stage it is at
  steady, missed,  \* ghosts: entries there since the batch began; failed lookups
  outages

tables == <<filed, aliases, consensus>>
jobs == <<toLoad, loads, mined, rebuilt>>
worker == <<conn, known, batch, out, at>>
vars == <<filed, aliases, consensus, toLoad, loads, mined, rebuilt, db, conn,
          known, batch, out, at, steady, missed, outages>>

Keys == Feins \X {Trim[t] : t \in Titles}
Empty == [k \in {} |-> None]
NoSteady == [keys |-> {}, titles |-> {}]
Prediction == [code : Codes \union {None}, confidence : 0 .. 100,
               source : {"employer_consensus", "dmtf", "stage2", "unclassified", "miss"}]
Unclassified == [code |-> None, confidence |-> 0, source |-> "unclassified"]
Miss == [code |-> None, confidence |-> 0, source |-> "miss"]
Aliased(t) == aliases[t] # None

Init ==
  /\ filed = {}
  /\ aliases = [t \in Titles |-> None]
  /\ consensus = Empty
  /\ toLoad = <<>> /\ loads = 0
  /\ mined = None /\ rebuilt = None
  /\ db = TRUE /\ conn = "none" /\ known = None
  /\ batch = <<>> /\ out = <<>> /\ at = "off"
  /\ steady = NoSteady /\ missed = FALSE
  /\ outages = 0

-----------------------------------------------------------------------------
\* The tables.  An entry is steady as long as no commit takes it away.

Committed(entries, titles) ==
  steady' = [keys |-> steady.keys \cap DOMAIN entries,
             titles |-> {t \in steady.titles : titles[t] # None}]

File ==
  /\ \E c \in Cases \ filed : filed' = filed \union {c}
  /\ UNCHANGED <<aliases, consensus, jobs, db, worker, steady, missed, outages>>

\* load_into_db: each batch of upserts commits on its own.
StartLoad ==
  /\ toLoad = <<>> /\ loads = 0 /\ db
  /\ toLoad' = Dmtf
  /\ UNCHANGED <<tables, loads, mined, rebuilt, db, worker, steady, missed, outages>>

LoadBatch ==
  /\ toLoad # <<>> /\ db
  /\ aliases' = [aliases EXCEPT ![Head(toLoad)[1]] = Head(toLoad)[2]]
  /\ toLoad' = Tail(toLoad)
  /\ loads' = IF toLoad' = <<>> THEN loads + 1 ELSE loads
  /\ Committed(consensus, aliases')
  /\ UNCHANGED <<filed, consensus, mined, rebuilt, db, worker, missed, outages>>

\* What both miners count: pair_stats, and title totals.
Of(cases, t, c) == {x \in cases : Trim[x.title] = t /\ x.code = c}
Agreement(cases, t, c) ==
  LET total == {x \in cases : Trim[x.title] = t} IN
  (100 * Cardinality(Of(cases, t, c))) \div Cardinality(total)
Admitted(cases, t, c) ==
  /\ Cardinality(Of(cases, t, c)) >= MinHits
  /\ Agreement(cases, t, c) >= MinAgreement

\* bootstrap_aliases: the query, and later the insert, in one transaction that
\* takes no lock before the insert.
MineAliases ==
  /\ mined = None /\ db
  /\ mined' = {p \in Titles \X Codes :
                 /\ Admitted(filed, p[1], p[2])
                 /\ Cardinality({x.fein : x \in Of(filed, p[1], p[2])}) >= MinEmployers
                 /\ ~Aliased(p[1])}
  /\ mined' # {}
  /\ UNCHANGED <<tables, toLoad, loads, rebuilt, db, worker, steady, missed, outages>>

\* Mutant: the insert is an upsert.
InsertAliasesUpserts ==
  /\ mined # None /\ db
  /\ aliases' = [t \in Titles |->
                   IF \E p \in mined : p[1] = t
                   THEN (CHOOSE p \in mined : p[1] = t)[2] ELSE aliases[t]]
  /\ mined' = None
  /\ Committed(consensus, aliases')
  /\ UNCHANGED <<filed, consensus, toLoad, loads, rebuilt, db, worker, missed, outages>>

\* ON CONFLICT DO NOTHING: of two candidates of a title the first is kept.
InsertAliases ==
  /\ mined # None /\ db
  /\ aliases' \in {f \in [Titles -> Codes \union {None}] : \A t \in Titles :
       IF Aliased(t) \/ \A p \in mined : p[1] # t THEN f[t] = aliases[t]
       ELSE <<t, f[t]>> \in mined}
  /\ mined' = None
  /\ Committed(consensus, aliases')
  /\ UNCHANGED <<filed, consensus, toLoad, loads, rebuilt, db, worker, missed, outages>>

\* refresh_consensus: the aggregation of every employer's own filings ...
Mined(k) ==
  LET own == {x \in filed : x.fein = k[1]} IN
  {c \in Codes : Of(own, k[2], c) # {} /\ Admitted(own, k[2], c)}

MineConsensus ==
  /\ rebuilt = None /\ db
  /\ \E f \in [{k \in Keys : Mined(k) # {}} -> Codes] :
       /\ \A k \in DOMAIN f : f[k] \in Mined(k)
       /\ rebuilt' = [k \in DOMAIN f |->
            [code |-> f[k],
             agreement |-> Agreement({x \in filed : x.fein = k[1]}, k[2], f[k])]]
       /\ rebuilt' # consensus
  /\ UNCHANGED <<tables, toLoad, loads, mined, db, worker, steady, missed, outages>>

\* Mutant: TRUNCATE commits before the entries are inserted.
RebuildInTwo ==
  /\ rebuilt # None /\ db
  /\ IF consensus # Empty THEN consensus' = Empty /\ rebuilt' = rebuilt
                          ELSE consensus' = rebuilt /\ rebuilt' = None
  /\ steady' = IF rebuilt' = None THEN [steady EXCEPT !.keys = @ \cap DOMAIN rebuilt]
                                  ELSE steady
  /\ UNCHANGED <<filed, aliases, toLoad, loads, mined, db, worker, missed, outages>>

\* ... and TRUNCATE with all the inserts: readers wait for the commit.
RebuildConsensus ==
  /\ rebuilt # None /\ db
  /\ consensus' = rebuilt
  /\ rebuilt' = None
  /\ Committed(consensus', aliases)
  /\ UNCHANGED <<filed, aliases, toLoad, loads, mined, db, worker, missed, outages>>

\* The server goes down: open connections break, and jobs end without a
\* commit of their own; load-dmtf leaves what it has upserted.
DbDown ==
  /\ db /\ outages < MaxOutages
  /\ db' = FALSE
  /\ outages' = outages + 1
  /\ conn' = IF conn = "open" THEN "broken" ELSE conn
  /\ toLoad' = <<>> /\ mined' = None /\ rebuilt' = None
  /\ UNCHANGED <<tables, loads, known, batch, out, at, steady, missed>>

DbUp ==
  /\ ~db
  /\ db' = TRUE
  /\ UNCHANGED <<tables, jobs, worker, steady, missed, outages>>

-----------------------------------------------------------------------------
\* The classifier.

Rest == <<tables, jobs, db, outages>>
Snapshot == [t \in {t \in Titles : Aliased(t)} |-> aliases[t]]

\* from_pretrained: without a connection there are no stages at all, now or
\* later; _load_stage2 gives up when there are no aliases, or no model.
Start ==
  /\ at = "off"
  /\ conn' = IF db THEN "open" ELSE "none"
  /\ known' \in IF db /\ DOMAIN Snapshot # {} THEN {None, Snapshot} ELSE {None}
  /\ at' = "idle"
  /\ UNCHANGED <<Rest, batch, out, steady, missed>>

\* The process ends; its batch is taken again (module NlpQueue).
Stop ==
  /\ at # "off"
  /\ at' = "off" /\ conn' = "none" /\ known' = None
  /\ batch' = <<>> /\ out' = <<>>
  /\ steady' = NoSteady /\ missed' = FALSE
  /\ UNCHANGED Rest

\* _handle_job: predict_batch is called.
Take ==
  /\ at \in {"idle", "done"}
  /\ batch' \in UNION {[1 .. n -> Records] : n \in 1 .. BatchSize}
  /\ out' = <<>>
  /\ at' = "stage0"
  /\ steady' = [keys |-> DOMAIN consensus, titles |-> {t \in Titles : Aliased(t)}]
  /\ missed' = FALSE
  /\ UNCHANGED <<Rest, conn, known>>

Record == batch[Len(out) + 1]

\* One record has its answer, or is a miss for stage 2.
Answered(p) ==
  /\ out' = Append(out, p)
  /\ at' = IF Len(out') = Len(batch) THEN "stage2" ELSE "stage0"

\* A lookup on a connection: an OperationalError counts as no hit, and is
\* answered by connecting again, when that succeeds.
Answers == conn = "open"
Asked ==
  /\ conn' = IF conn = "broken" /\ db THEN "open" ELSE conn
  /\ missed' = (missed \/ conn # "open")
  /\ UNCHANGED <<Rest, known, batch, steady>>

\* An empty title is nobody's.
PassOver ==
  /\ at = "stage0" /\ Record.title = None
  /\ Answered(Unclassified)
  /\ UNCHANGED <<Rest, conn, known, batch, steady, missed>>

\* _lookup_employer_consensus; the confidence is capped at 0.99.
LookupConsensus ==
  /\ at = "stage0" /\ Record.title # None
  /\ LET key == <<Record.fein, Trim[Record.title]>> IN
     IF Answers /\ key \in DOMAIN consensus
     THEN Answered([code |-> consensus[key].code, source |-> "employer_consensus",
                    confidence |-> Min({99, consensus[key].agreement})])
     ELSE at' = "stage1" /\ out' = out
  /\ IF Record.fein = None THEN UNCHANGED <<Rest, conn, known, batch, steady, missed>>
                           ELSE Asked

\* _lookup_dmtf
LookupDmtf ==
  /\ at = "stage1"
  /\ IF Answers /\ Aliased(Record.title)
     THEN Answered([code |-> aliases[Record.title], source |-> "dmtf", confidence |-> 100])
     ELSE Answered(Miss)
  /\ Asked

\* The rows of the similarity matrix: a most similar alias, whichever it is.
Nearest(t) == {a \in DOMAIN known : \A b \in DOMAIN known : Sim[t][a] >= Sim[t][b]}
Retrieved(t, a) == [code |-> known[a], confidence |-> Sim[t][a], source |-> "stage2"]

\* Mutant: the answers are laid over the predictions from the first one on.
FilledFromFirst(answers) ==
  [i \in DOMAIN out |-> IF i <= Len(answers) THEN answers[i] ELSE out[i]]

\* miss_indices, in the order of the batch
Missed == {i \in DOMAIN out : out[i] = Miss}
Nth(i) == Cardinality({j \in Missed : j <= i})
Misses == [n \in 1 .. Cardinality(Missed) |-> CHOOSE i \in Missed : Nth(i) = n]

\* zip(miss_indices, stage2)
Filled(answers) == [i \in DOMAIN out |-> IF out[i] = Miss THEN answers[Nth(i)] ELSE out[i]]

\* _predict_stage2_batch: one call for all the misses, which all succeed or
\* all stay unclassified.
Stage2 ==
  /\ at = "stage2"
  /\ \/ out' = Filled([j \in DOMAIN Misses |-> Unclassified])
     \/ /\ known # None
        /\ \E best \in [DOMAIN Misses -> DOMAIN known] :
             /\ \A j \in DOMAIN Misses : best[j] \in Nearest(batch[Misses[j]].title)
             /\ out' = Filled([j \in DOMAIN Misses |->
                                 Retrieved(batch[Misses[j]].title, best[j])])
  /\ at' = "done"
  /\ UNCHANGED <<Rest, conn, known, batch, steady, missed>>

\* topk_candidates: the aliases by falling similarity, whatever the order of
\* equal ones, each code once.
Ranked(t) ==
  {s \in SetToSeqs(DOMAIN known) :
     \A i, j \in DOMAIN s : i < j => Sim[t][s[i]] >= Sim[t][s[j]]}
\* Mutant: the list is cut before its codes are told apart.
CutFirst(t, order) ==
  FoldLeft(LAMBDA picked, a :
             IF \E i \in DOMAIN picked : picked[i].code = known[a] THEN picked
             ELSE Append(picked, Retrieved(t, a)),
           <<>>, SubSeq(order, 1, Min({K, Len(order)})))
Picked(t, order) ==
  LET picked[n \in 0 .. Len(order)] ==
        IF n = 0 THEN <<>>
        ELSE LET before == picked[n - 1] IN
             IF Len(before) = K \/ \E i \in DOMAIN before : before[i].code = known[order[n]]
             THEN before
             ELSE Append(before, Retrieved(t, order[n]))
  IN picked
TopK(t, order) == Picked(t, order)[Len(order)]

Next ==
  \/ File
  \/ StartLoad \/ LoadBatch
  \/ MineAliases \/ InsertAliases
  \/ MineConsensus \/ RebuildConsensus
  \/ DbDown \/ DbUp
  \/ Start \/ Stop \/ Take
  \/ PassOver \/ LookupConsensus \/ LookupDmtf \/ Stage2

Spec == Init /\ [][Next]_vars

-----------------------------------------------------------------------------
Entries(f) ==
  /\ DOMAIN f \subseteq Keys
  /\ f \in [DOMAIN f -> [code : Codes, agreement : MinAgreement .. 100]]

TypeOK ==
  /\ filed \subseteq Cases
  /\ aliases \in [Titles -> Codes \union {None}]
  /\ Entries(consensus)
  /\ toLoad \in {SubSeq(Dmtf, n, Len(Dmtf)) : n \in 1 .. Len(Dmtf) + 1}
  /\ loads \in 0 .. 1
  /\ mined # None => mined \subseteq Titles \X Codes
  /\ rebuilt # None => Entries(rebuilt)
  /\ db \in BOOLEAN /\ conn \in {"none", "open", "broken"}
  /\ conn = "open" => db
  /\ known # None => DOMAIN known \subseteq Titles /\ known \in [DOMAIN known -> Codes]
  /\ batch \in Seq(Records) /\ out \in Seq(Prediction)
  /\ at \in {"off", "idle", "stage0", "stage1", "stage2", "done"}
  /\ steady \in [keys : SUBSET Keys, titles : SUBSET Titles] /\ missed \in BOOLEAN
  /\ outages \in 0 .. MaxOutages

\* An employer's own usage comes before an exact alias, and that before the
\* nearest alias: an entry that was in its table while the batch was looked up
\* answers for its records, though the tables are rebuilt and extended under
\* the lookups, unless one of these failed (soc_classifier.py, predict_batch).
HigherStageAnswers ==
  \A i \in DOMAIN out : batch[i].title # None /\ ~missed =>
    /\ <<batch[i].fein, Trim[batch[i].title]>> \in steady.keys =>
         out[i].source = "employer_consensus"
    /\ batch[i].title \in steady.titles =>
         out[i].source \in {"employer_consensus", "dmtf"}

\* Every record of a finished batch has an answer, and one from stage 2 is the
\* nearest alias of that record's own title, wherever in the batch the other
\* misses were (predict_batch, miss_indices).
AnswerIsOwn ==
  at = "done" =>
    /\ Len(out) = Len(batch)
    /\ \A i \in DOMAIN out :
         /\ out[i].source # "miss"
         /\ batch[i].title = None => out[i] = Unclassified
         /\ out[i].source = "stage2" =>
              \E a \in Nearest(batch[i].title) : out[i] = Retrieved(batch[i].title, a)

\* Once load-dmtf has ended, the titles of its file have its codes, whatever
\* bootstrap-aliases mined before and inserts afterwards (alias_bootstrap.py,
\* dmtf_loader.py).
DmtfPrevails ==
  loads > 0 => \A i \in DOMAIN Dmtf : aliases[Dmtf[i][1]] = Dmtf[i][2]

\* What the LLM is shown: as many different codes as there are, up to K, and
\* none that is left out is nearer to the title than one that is shown
\* (topk_candidates).
CandidatesAreBest ==
  known # None => \A t \in Titles : \A order \in Ranked(t) :
    LET shown == TopK(t, order)
        codes == {shown[i].code : i \in DOMAIN shown} IN
    /\ Cardinality(codes) = Len(shown)
    /\ Len(shown) = Min({K, Cardinality({known[a] : a \in DOMAIN known})})
    /\ \A a \in DOMAIN known : known[a] \notin codes =>
         \A i \in DOMAIN shown : Sim[t][a] <= shown[i].confidence
=============================================================================
