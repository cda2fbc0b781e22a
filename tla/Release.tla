------------------------------- MODULE Release -------------------------------
(***************************************************************************)
(* From an uploaded DOL file to the production site: the build state       *)
(* machine that starts a box (infra/aws/lib/data-pipeline-stack.ts), the   *)
(* box's user-data and scripts, the three commands the operator UI sends   *)
(* to it (promote, rebuild preview, shut down), the watchdog, and the two  *)
(* things that outlive a box: the snapshot of Postgres in S3 and what the  *)
(* sites serve.                                                            *)
(*                                                                         *)
(* A database, a snapshot and an lca.db are the set of things that are in  *)
(* them, each a kind and the file it is about: the rows of a file, their   *)
(* classification, the record that the file was harvested, and what an     *)
(* operator decided on those rows; an operator's merge of employers is     *)
(* about no file.  A file is its fiscal year and quarter: a quarter holds  *)
(* all earlier ones of its year, and ingesting it clears the year, with    *)
(* what was classified and decided on its rows.  (An lca.db has no record  *)
(* of harvested files; it is left in it here.)                             *)
(*                                                                         *)
(* A box is named by the trigger that started it.  Commands run next to    *)
(* each other on the box: nothing serialises them, and the builds write    *)
(* one file, apps/analytics-web/data/lca.db.                               *)
(***************************************************************************)
EXTENDS Naturals, FiniteSets

CONSTANTS
  Boxes,        \* triggers of the build pipeline, numbered as they come
  Commands,     \* clicks on Promote or Rebuild preview
  Files,        \* DOL files, <<fiscal year, quarter>>
  Seeds,        \* files the cli-tool has loaded, without a record
  Edits,        \* operator decisions
  Watchdog,     \* periods after which a box ends itself: 36 hours
  DrainMax,     \* DRAIN_MAX_HOURS of the NLP processor, in the same periods
  Again,        \* bound: whether an archived file is ever uploaded again
  MaxUp,        \* bound: boxes that are up at once
  MaxFailures   \* bound: scripts, calls and jobs that fail

Loads == Files \union Seeds
Kinds == {"rows", "soc", "harvested"}

ASSUME ReleaseAssumption ==
  /\ Watchdog \in Nat \ {0} /\ DrainMax \in Nat \ {0}
  /\ Boxes \subseteq Nat /\ Again \in BOOLEAN
  /\ MaxUp \in Nat \ {0} /\ MaxFailures \in Nat
  /\ Loads \subseteq Nat \X (1..4)
  /\ Edits \intersect Kinds = {}

VARIABLES
  inbox,        \* s3://scratch/incoming/
  archived,     \* s3://scratch/incoming/processed/
  latest,       \* s3://pgsnapshot/latest.pgdump
  prodKey,      \* s3://lcadb/lca.db
  prod,         \* the lca.db baked into the image the production site serves
  flow,         \* the build pipeline's execution for each trigger
  box,          \* the boxes
  command,      \* the promote and preview scripts
  made,         \* operator edits made so far
  failures,     \* scripts, calls and jobs that failed so far
  cut,          \* history: a box was lost with work nobody had saved, a promote
                \* stopped between key and snapshot, or two boxes were up at once
  blank,        \* history: a box went on without the snapshot there is
  passed,       \* history: fiscal years of files the harvester left unread for
                \* the rows the year has had without a record
  dropped       \* history: fiscal years of files the harvester or the ingestor
                \* gave up and the box archived all the same

s3   == <<inbox, archived, latest, prodKey>>
past == <<cut, blank, passed, dropped>>
vars == <<s3, prod, flow, box, command, made, failures, past>>

Rows(f)        == <<"rows", f>>
Soc(f)         == <<"soc", f>>
Harvested(f)   == <<"harvested", f>>
Decision(e, f) == <<e, f>>
Merge(e)       == <<e, <<>> >>
Items == ((Kinds \union Edits) \X Loads) \union {Merge(e) : e \in Edits}

Year(f) == f[1]
Newer(g, f) == Year(g) = Year(f) /\ f[2] < g[2]
\* What goes when the year of f is cleared.
OfRows(i, f) == i[1] # "harvested" /\ i[2] = f
\* The partitions of the years of S are truncated.
Cleared(D, S) == {i \in D : ~\E f \in Loads : OfRows(i, f) /\ \E g \in S : Year(g) = Year(f)}

BoxOff == [pc |-> "off", mode |-> "ingest", defer |-> FALSE, age |-> 0,
           db |-> {}, local |-> {}, queued |-> {}, file |-> {}, by |-> "script"]
\* What is left of a box, and of a command: nothing.
BoxGone == [BoxOff EXCEPT !.pc = "gone"]
CommandOff == [kind |-> "promote", pc |-> "off", on |-> {}]
Up(b)  == box[b].pc \notin {"off", "gone"}
UpBoxes == {b \in Boxes : Up(b)}
Step(b, from, to) == box[b].pc = from /\ box' = [box EXCEPT ![b].pc = to]
Waiting == {"barrier", "drain", "review", "failed"}
Fails == failures < MaxFailures /\ failures' = failures + 1

Init ==
  /\ inbox = {} /\ archived = {}
  /\ \E S \in SUBSET Seeds : latest = {"rows", "soc"} \X S
  /\ prodKey = {} /\ prod = {}
  /\ flow = [b \in Boxes |-> "idle"]
  /\ box = [b \in Boxes |-> BoxOff]
  /\ command = [c \in Commands |-> CommandOff]
  /\ made = {} /\ failures = 0
  /\ cut = FALSE /\ blank = FALSE /\ passed = {} /\ dropped = {}

-----------------------------------------------------------------------------
(* dol-watch and upload-dol.sh; the state machine.                         *)

\* Also again, by hand; a file whose move failed is there still.
Upload(f) ==
  /\ f \notin inbox /\ (f \in archived => Again)
  /\ inbox' = inbox \union {f}
  /\ UNCHANGED <<archived, latest, prodKey, prod, flow, box, command, made, failures, past>>

\* lca.manual build.run or nlp.run, and CheckBurstRunning: with a box pending
\* or running the trigger is skipped, for good.
Trigger(b) ==
  /\ flow[b] = "idle" /\ \A d \in Boxes : d < b => flow[d] # "idle"
  /\ flow' = [flow EXCEPT ![b] = IF UpBoxes = {} THEN "launch" ELSE "skipped"]
  /\ UNCHANGED <<s3, prod, box, command, made, failures, past>>

\* StartBurstEc2, with the mode of the event (PrepareConfig); the check is
\* not made again.
Launch(b) ==
  /\ flow[b] = "launch" /\ Cardinality(UpBoxes) < MaxUp
  /\ flow' = [flow EXCEPT ![b] = "launched"]
  /\ \E m \in {"ingest", "nlp"} : box' = [box EXCEPT ![b].pc = "boot", ![b].mode = m]
  /\ cut' = (cut \/ UpBoxes # {})
  /\ UNCHANGED <<s3, prod, command, made, failures, blank, passed, dropped>>

-----------------------------------------------------------------------------
(* The box's own script.                                                   *)

OnBox == UNCHANGED <<prod, flow, command, made, failures, past>>

\* The snapshot, or nothing: a pull that failed is not noticed (|| true), nor
\* are the errors of the processor's restore, at worst that of every table.
Pulled(D) ==
  \/ D = latest /\ UNCHANGED <<failures, blank>>
  \/ D = {} /\ latest # {} /\ Fails /\ blank' = TRUE

\* With an empty inbox the box ends.
NoFiles(b) ==
  /\ box[b].pc = "boot" /\ box[b].mode = "ingest" /\ inbox = {}
  /\ box' = [box EXCEPT ![b] = BoxGone]
  /\ UNCHANGED s3 /\ OnBox
Boot(b) ==
  /\ box[b].pc = "boot" /\ box[b].mode = "ingest" /\ inbox # {}
  /\ \E D \in {latest, {}} :
       /\ Pulled(D)
       /\ box' = [box EXCEPT ![b] = [@ EXCEPT !.pc = "harvest", !.db = D, !.local = inbox]]
  /\ UNCHANGED <<s3, prod, flow, command, made, cut, passed, dropped>>

\* The year of f has rows in D but no record of a file: the cli-tool's.
Untracked(D, f) ==
  /\ \E g \in Loads : Rows(g) \in D /\ Year(g) = Year(f)
  /\ ~\E g \in Loads : Harvested(g) \in D /\ Year(g) = Year(f)
\* Mutant: a file is passed over for its name alone.
SkippedUnread(D, f) == Untracked(D, f) \/ Harvested(f) \in D
\* The harvester passes over a file of such a year, and one no newer than
\* what the year has had.
Skipped(D, f) ==
  \/ Untracked(D, f)
  \/ \E g \in Loads : Harvested(g) \in D /\ Year(g) = Year(f) /\ f[2] <= g[2]
\* Of each year the newest file there is, unless it is passed over.
Candidates(D, L) == {f \in L : ~Skipped(D, f) /\ ~\E g \in L : Newer(g, f)}
ToHarvest(b) == Candidates(box[b].db, box[b].local)
Years(S) == {Year(f) : f \in S}
\* What the harvester's look at the local directory is remembered for: given
\* up are the files of S.
Looked(b, S) ==
  /\ passed' = passed \union Years({f \in box[b].local : Untracked(box[b].db, f)})
  /\ dropped' = dropped \union Years(S)

\* Mutant: the inbox is moved, with what came in meanwhile.
ArchiveWholeInbox(b) ==
  /\ archived' = archived \union inbox /\ inbox' = {}
  /\ UNCHANGED failures
\* archive_inbox moves what is in the local directory, whatever became of it;
\* a move that fails is passed over.
ArchiveInbox(b) ==
  \E moved \in SUBSET (inbox \intersect box[b].local) :
    /\ archived' = archived \union moved /\ inbox' = inbox \ moved
    /\ IF moved = inbox \intersect box[b].local THEN UNCHANGED failures ELSE Fails

\* ENQUEUED = 0: archive and end.  A harvest in which every file failed ends
\* with exit code 1, which is ScriptFails.
NothingNew(b) ==
  /\ box[b].pc = "harvest" /\ ToHarvest(b) = {}
  /\ box' = [box EXCEPT ![b] = BoxGone]
  /\ ArchiveInbox(b) /\ Looked(b, {})
  /\ UNCHANGED <<latest, prodKey, prod, flow, command, made, cut, blank>>
\* The summary cannot be read, which counts as ENQUEUED = 0 as well: what was
\* queued goes with the box.
SummaryLost(b) ==
  /\ box[b].pc = "harvest" /\ ToHarvest(b) # {} /\ Fails
  /\ box' = [box EXCEPT ![b] = BoxGone]
  /\ archived' = archived \union (inbox \intersect box[b].local)
  /\ inbox' = inbox \ box[b].local
  /\ Looked(b, ToHarvest(b))
  /\ UNCHANGED <<latest, prodKey, prod, flow, command, made, cut, blank>>

\* Some files are queued and recorded; the others met an error.  The DeferNlp
\* tag is read.
Harvest(b) ==
  /\ box[b].pc = "harvest"
  /\ \E enq \in SUBSET ToHarvest(b), defer \in BOOLEAN :
       /\ enq # {}
       /\ IF enq = ToHarvest(b) THEN UNCHANGED failures ELSE Fails
       /\ Looked(b, ToHarvest(b) \ enq)
       /\ box' = [box EXCEPT ![b] = [@ EXCEPT !.pc = "barrier", !.queued = enq,
                    !.defer = defer, !.db = box[b].db \union {Harvested(f) : f \in enq}]]
  /\ UNCHANGED <<s3, prod, flow, command, made, cut, blank>>

\* Both queues have drained, or with DeferNlp the ingest queue.  A file that
\* went in has replaced its year; an ingest job may have failed, which the
\* barrier does not see, before its year was cleared or after.
Ingested(D, ok, wiped, defer) ==
  Cleared(D, ok \union wiped) \union {Rows(f) : f \in ok}
    \union {Soc(f) : f \in IF defer THEN {} ELSE ok}
Barrier(b) ==
  /\ box[b].pc = "barrier"
  /\ \E ok \in SUBSET box[b].queued : \E wiped \in SUBSET (box[b].queued \ ok) :
       /\ IF ok = box[b].queued THEN UNCHANGED failures ELSE Fails
       /\ dropped' = dropped \union Years(box[b].queued \ ok)
       /\ box' = [box EXCEPT ![b] = [@ EXCEPT !.pc = "archive", !.queued = {},
                    !.db = Ingested(box[b].db, ok, wiped, box[b].defer)]]
  /\ UNCHANGED <<s3, prod, flow, command, made, cut, blank, passed>>

Archive(b) ==
  /\ box[b].pc = "archive"
  /\ box' = [box EXCEPT ![b].pc = "build", ![b].local = {}]
  /\ ArchiveInbox(b)
  /\ UNCHANGED <<latest, prodKey, prod, flow, command, made, past>>

\* nlp-processor.sh: restore, and without a snapshot the script stops.
\* With NLP_REPLICAS=0 it goes on to the build.
Restore(b) ==
  /\ box[b].pc = "boot" /\ box[b].mode = "nlp"
  /\ \E D \in {latest, {}}, to \in {"drain", "build"} :
       /\ Pulled(D)
       /\ box' = [box EXCEPT ![b] = [@ EXCEPT !.db = D,
                    !.pc = IF latest = {} THEN "failed" ELSE to]]
  /\ UNCHANGED <<s3, prod, flow, command, made, cut, passed, dropped>>

\* The rows there are, classified.
Classified(D) == {Soc(f) : f \in {g \in Loads : Rows(g) \in D}}
\* The queue is empty twice in a row.
Drained(b) ==
  /\ box[b].pc = "drain"
  /\ box' = [box EXCEPT ![b].pc = "build", ![b].db = @ \union Classified(@)]
  /\ UNCHANGED s3 /\ OnBox
\* DRAIN_MAX_HOURS: finalizing anyway.
DrainCapped(b) ==
  /\ box[b].age >= DrainMax
  /\ Step(b, "drain", "build")
  /\ UNCHANGED s3 /\ OnBox

\* burst-finalize.sh and nlp-finalize.sh: build, show on dev, save.
Build(b) ==
  /\ box[b].pc = "build"
  /\ box' = [box EXCEPT ![b].pc = "show", ![b].file = box[b].db]
  /\ UNCHANGED s3 /\ OnBox
Show(b) ==
  /\ Step(b, "show", "save")
  /\ UNCHANGED s3 /\ OnBox
\* Then the burst box starts the operator UI, the processor ends itself.
Save(b) ==
  /\ box[b].pc = "save"
  /\ latest' = box[b].db
  /\ box' = [box EXCEPT ![b] = IF box[b].mode = "ingest"
       THEN [@ EXCEPT !.pc = "review"] ELSE BoxGone]
  /\ UNCHANGED <<inbox, archived, prodKey>> /\ OnBox

\* set -e: the ERR trap notifies and the box stays up.
ScriptFails(b) ==
  /\ Up(b) /\ box[b].pc \notin {"review", "failed"}
  /\ Fails
  /\ box' = [box EXCEPT ![b].pc = "failed"]
  /\ UNCHANGED <<s3, prod, flow, command, made, past>>

-----------------------------------------------------------------------------
(* The operator's review.                                                  *)

\* On rows, or a merge of employers.
Edit(b, e) ==
  /\ box[b].pc = "review" /\ e \notin made
  /\ made' = made \union {e}
  /\ \E i \in {Merge(e)} \union {Decision(e, f) : f \in {g \in Loads : Rows(g) \in box[b].db}} :
       box' = [box EXCEPT ![b].db = @ \union {i}]
  /\ UNCHANGED <<s3, prod, flow, command, failures, past>>

\* With DeferNlp the workers go on during the review.
BackgroundNlp(b) ==
  /\ box[b].pc = "review" /\ box[b].defer
  /\ box' = [box EXCEPT ![b].defer = FALSE, ![b].db = @ \union Classified(@)]
  /\ UNCHANGED s3 /\ OnBox

\* emit, the rule, the state machine, SSM: a script starts on the box.
Click(b, c, kind) ==
  /\ box[b].pc = "review" /\ command[c].pc = "off"
  /\ command' = [command EXCEPT ![c] = [kind |-> kind, pc |-> "build", on |-> {b}]]
  /\ UNCHANGED <<s3, prod, flow, box, made, failures, past>>

Runs(b, c, pc) == Up(b) /\ command[c].on = {b} /\ command[c].pc = pc
To(c, pc) == command' = [command EXCEPT ![c] =
               IF pc = "off" THEN CommandOff ELSE [@ EXCEPT !.pc = pc]]
ByCommand == UNCHANGED <<inbox, archived, flow, made, failures, past>>

\* build:sqlite removes the file and makes it anew: it is empty at first.
BuildStart(b, c) ==
  /\ Runs(b, c, "build") /\ To(c, "building")
  /\ box' = [box EXCEPT ![b].file = {}, ![b].by = c]
  /\ UNCHANGED <<latest, prodKey, prod>> /\ ByCommand
\* A build whose file was removed meanwhile ends in a file without a name.
BuildEnd(b, c) ==
  /\ Runs(b, c, "building")
  /\ To(c, IF command[c].kind = "promote" THEN "key" ELSE "image")
  /\ box' = IF box[b].by = c THEN [box EXCEPT ![b].file = box[b].db] ELSE box
  /\ UNCHANGED <<latest, prodKey, prod>> /\ ByCommand

\* ec2-promote.sh: the production key, the image, the snapshot.
UploadKey(b, c) ==
  /\ Runs(b, c, "key") /\ To(c, "image")
  /\ prodKey' = box[b].file
  /\ UNCHANGED <<latest, prod, box>> /\ ByCommand
PromoteImage(b, c) ==
  /\ Runs(b, c, "image") /\ command[c].kind = "promote" /\ To(c, "save")
  /\ prod' = box[b].file
  /\ UNCHANGED <<latest, prodKey, box>> /\ ByCommand
PreviewImage(b, c) ==
  /\ Runs(b, c, "image") /\ command[c].kind = "preview" /\ To(c, "off")
  /\ UNCHANGED <<latest, prodKey, prod, box>> /\ ByCommand
\* Mutant: the promoted database is not saved.
PromoteForgets(b, c) ==
  /\ Runs(b, c, "save") /\ To(c, "off")
  /\ UNCHANGED <<latest, prodKey, prod, box>> /\ ByCommand
PromoteSave(b, c) ==
  /\ Runs(b, c, "save") /\ To(c, "off")
  /\ latest' = box[b].db
  /\ UNCHANGED <<prodKey, prod, box>> /\ ByCommand

CommandFails(b, c) ==
  /\ Up(b) /\ command[c].on = {b}
  /\ Fails /\ To(c, "off")
  /\ cut' = (cut \/ (command[c].kind = "promote" /\ command[c].pc \in {"image", "save"}))
  /\ UNCHANGED <<s3, prod, flow, box, made, blank, passed, dropped>>

-----------------------------------------------------------------------------
(* The end of a box: its database and the scripts on it go with it.        *)

\* Work on the box that only its next snapshot would have kept.
Unsaved(b) ==
  \/ box[b].pc \in {"archive", "build", "show", "save", "failed"}
  \/ \E c \in Commands : command[c].on = {b}
Gone(b) ==
  /\ box' = [box EXCEPT ![b] = BoxGone]
  /\ command' = [c \in Commands |-> IF command[c].on = {b} THEN CommandOff ELSE command[c]]
  /\ cut' = (cut \/ Unsaved(b))

\* Shut down: ec2-teardown.sh asks nothing of the scripts that run.
Teardown(b) ==
  /\ box[b].pc = "review" /\ Gone(b)
  /\ UNCHANGED <<s3, prod, flow, made, failures, blank, passed, dropped>>

\* Mutant: the watchdog is for boxes under review.
FiresInReview(b) == box[b].age >= Watchdog /\ box[b].pc = "review"
Fires(b) == box[b].age >= Watchdog /\ Up(b)
\* sleep 129600, started before the script looks at the Mode tag.
WatchdogEnds(b) ==
  /\ Fires(b) /\ Gone(b)
  /\ UNCHANGED <<s3, prod, flow, made, failures, blank, passed, dropped>>

\* A period passes: the other steps take minutes, these wait.
TimePasses(b) ==
  /\ box[b].pc \in Waiting /\ box[b].age < Watchdog
  /\ box' = [box EXCEPT ![b].age = @ + 1]
  /\ UNCHANGED s3 /\ OnBox

-----------------------------------------------------------------------------
Script(b) ==
  \/ NoFiles(b) \/ Boot(b) \/ NothingNew(b) \/ SummaryLost(b) \/ Harvest(b)
  \/ Barrier(b) \/ Archive(b) \/ Restore(b) \/ Drained(b) \/ DrainCapped(b)
  \/ Build(b) \/ Show(b) \/ Save(b) \/ ScriptFails(b)
Command(b, c) ==
  \/ BuildStart(b, c) \/ BuildEnd(b, c) \/ UploadKey(b, c) \/ PromoteImage(b, c)
  \/ PreviewImage(b, c) \/ PromoteSave(b, c) \/ CommandFails(b, c)

Next ==
  \/ \E f \in Files : Upload(f)
  \/ \E b \in Boxes :
       \/ Trigger(b) \/ Launch(b) \/ Script(b)
       \/ (\E e \in Edits : Edit(b, e)) \/ BackgroundNlp(b)
       \/ \E c \in Commands :
            Click(b, c, "promote") \/ Click(b, c, "preview") \/ Command(b, c)
       \/ Teardown(b) \/ WatchdogEnds(b) \/ TimePasses(b)

\* On a box that is up the script goes on, or time passes and the watchdog's
\* sleep ends.
Goes(b) == Script(b) \/ TimePasses(b) \/ WatchdogEnds(b)
Fairness == \A b \in Boxes : WF_vars(Goes(b))
Spec == Init /\ [][Next]_vars /\ Fairness

-----------------------------------------------------------------------------
(* Properties.                                                             *)

BoxPcs == {"off", "boot", "harvest", "barrier", "archive", "drain", "build",
           "show", "save", "review", "failed", "gone"}
CommandPcs == {"off", "build", "building", "key", "image", "save"}

\* Types; a script runs on a box that is up.
TypeOK ==
  /\ inbox \subseteq Files /\ archived \subseteq Files /\ latest \subseteq Items
  /\ prodKey \subseteq Items /\ prod \subseteq Items
  /\ flow \in [Boxes -> {"idle", "skipped", "launch", "launched"}]
  /\ box \in [Boxes -> [pc : BoxPcs, mode : {"ingest", "nlp"},
       defer : BOOLEAN, age : 0..Watchdog, db : SUBSET Items,
       local : SUBSET Files, queued : SUBSET Files, file : SUBSET Items,
       by : Commands \union {"script"}]]
  /\ command \in [Commands -> [kind : {"promote", "preview"}, pc : CommandPcs,
       on : SUBSET Boxes]]
  /\ \A c \in Commands : command[c].on \subseteq UpBoxes
  /\ made \subseteq Edits /\ failures \in 0..MaxFailures
  /\ cut \in BOOLEAN /\ blank \in BOOLEAN /\ passed \subseteq Years(Loads) /\ dropped \subseteq Years(Loads)

\* Item i is in D, or was about rows that a newer quarter in D has replaced,
\* or rows of a year of which a file was dropped.
Superseded(i, D) == \E f, g \in Loads : OfRows(i, f) /\ Newer(g, f) /\ Rows(g) \in D
GivenUp(i) == \E f \in Loads : OfRows(i, f) /\ Year(f) \in dropped
KeptIn(i, D) == i \in D \/ Superseded(i, D) \/ GivenUp(i)
Carried(C, D) == \A i \in C : KeptIn(i, D)
\* In the snapshot, or on a box that is up.
Safe(i) == KeptIn(i, latest) \/ \E b \in UpBoxes : KeptIn(i, box[b].db)
\* No snapshot was lost to the next box.
Unbroken == ~cut /\ ~blank

\* A file that is out of the inbox is in the snapshot or in the database of a
\* box that is up, or a newer quarter of its year is: nothing brings it back
\* otherwise, since the file has to be moved by hand.  archive_inbox moves
\* files whatever became of them, before the snapshot is saved.  The years
\* the cli-tool loaded are excepted (their files are archived unread), the
\* years of which a file was dropped, and a history in which a box was cut
\* short, doubled or started without the snapshot.
ArchivedIsKept ==
  Unbroken => \A f \in archived : Year(f) \in passed \/ Safe(Rows(f))

\* What production's key holds is in the snapshot the next release starts
\* from, or on a box that is up, unless a newer quarter has replaced the rows
\* it was about: an edit on the site that is not in there would be undone by
\* the next promote.
PromotedIsKept == Unbroken => \A i \in prodKey : Safe(i)

\* While boxes come one at a time and pull the snapshot there is, it never
\* loses anything but rows a newer quarter replaces, with what was decided on
\* them, and the years of dropped files.
SnapshotGrows == [][Unbroken' => Carried(latest, latest')]_vars

\* What production has served it goes on serving, with the same exceptions:
\* the box a promote runs on was started from a snapshot that has all of it.
\* It needs that the promote was the last command to begin a build: a build
\* begins by removing the file that the promote takes its image from.
ProdGrows ==
  [][Unbroken'
     /\ (\A b \in Boxes, c \in Commands :
           Runs(b, c, "image") /\ command'[c].pc = "save" => box[b].by = c)
     => Carried(prod, prod')]_vars

\* No box is left running: the watchdog ends what nothing else ends.
BoxEnds == \A b \in Boxes : Up(b) ~> ~Up(b)

===============================================================================
