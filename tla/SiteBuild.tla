------------------------------ MODULE SiteBuild ------------------------------
(***************************************************************************)
(* The URLs of the public site over its rebuilds                           *)
(* (apps/analytics-web/scripts/build-sqlite.ts).  A build reads the pages  *)
(* and redirects of the lca.db that is there, removes it, and makes a new  *)
(* one row by row: the top employers, the tail employers that other pages  *)
(* link to, and a redirect for every URL that has no page any more, to the *)
(* newest archive that has one.  Last it copies the new file to the        *)
(* archive of the calendar quarter.                                        *)
(*                                                                         *)
(* Slugs of one kind only: those of occupations, states and sectors end in *)
(* a code and never collide.  A slug is also its page's URL, a quarter the *)
(* label of an archive; a redirect's target is the quarter whose archive   *)
(* has the page, or 0 for the list page.                                   *)
(***************************************************************************)
EXTENDS Naturals, Sequences, FiniteSets, SequencesExt

CONSTANTS
  Employers,    \* canonical ids
  Slugs,
  Base,         \* slugify(canonical_name) of each
  Numbered,     \* Numbered[s][n] is the slug s-n
  MaxQuarter,   \* bound: calendar quarters
  MaxBuilds,    \* bound: builds
  MaxCrashes    \* bound: builds that die half way for an outside reason

ASSUME SiteBuildAssumption ==
  /\ IsFiniteSet(Employers)
  /\ Base \in [Employers -> Slugs]
  /\ Numbered \in [Slugs -> [2..(Cardinality(Employers) + 1) -> Slugs]]
  /\ MaxQuarter \in Nat \ {0} /\ MaxBuilds \in Nat /\ MaxCrashes \in Nat

VARIABLES
  live,         \* data/lca.db: its pages and redirects, and if it is complete
  archive,      \* data/archives: the slugs of each quarter's file
  quarter,      \* now
  build,        \* the script
  links,        \* cross-references of the new file: employer and slug
  published,    \* history: slugs of pages the site has ever served
  forgotten,    \* history: URLs that left the file with a crash or a box
  gone,         \* history: pages that left an archive
  builds, crashes

vars == <<live, archive, quarter, build, links, published, forgotten, gone, builds, crashes>>

Nothing == [s \in {} |-> 0]
NoDb  == [page |-> {}, redirect |-> Nothing, whole |-> FALSE]
Off   == [pc |-> "off", top |-> <<>>, tail |-> <<>>, next |-> 0, past |-> NoDb]
Ids(q) == {q[i] : i \in DOMAIN q}
\* The employers of S in some order.
Orders(S) == SetToSeqs(S)

Init ==
  /\ live = NoDb /\ archive = Nothing /\ quarter = 1
  /\ build = Off /\ links = {}
  /\ published = {} /\ forgotten = {} /\ gone = {}
  /\ builds = 0 /\ crashes = 0

-----------------------------------------------------------------------------
(* Slugs.                                                                  *)

Rows == build.top \o build.tail
\* The i-th row's slug: its base, numbered when slugsSeen has it already.
SlugAt(i) ==
  LET b == Base[Rows[i]]
      n == Cardinality({j \in 1..i : Base[Rows[j]] = b}) IN
  IF n = 1 THEN b ELSE Numbered[b][n]
IsTop(i) == i <= Len(build.top)

\* The slug a cross-reference is written with, before the tail has slugs.
LinkSlug(top, e) ==
  IF e \in Ids(top)
  THEN LET i == CHOOSE i \in DOMAIN top : top[i] = e
           n == Cardinality({j \in 1..i : Base[top[j]] = Base[e]})
       IN IF n = 1 THEN Base[e] ELSE Numbered[Base[e]][n]
  ELSE Base[e]

-----------------------------------------------------------------------------
(* A build.                                                                *)

Rest == UNCHANGED <<quarter, published, gone, builds, crashes>>

\* Mutant: employers only one page links to get no page.
NoTail(linked, top) == {}
\* noteTail
TailIds(linked, top) == linked \ Ids(top)

\* snapshotPastState, rmSync, the schema.  top is the outcomes view by
\* filings; known are the employers that view has, all others are too new for
\* it; linked are those the other tables refer to.
Begin(known, top, linked) ==
  /\ build.pc = "off" /\ builds < MaxBuilds
  /\ Ids(top) \subseteq known
  /\ \E tail \in Orders(TailIds(linked, top) \intersect known) :
       build' = [pc |-> "rows", top |-> top, tail |-> tail, next |-> 1, past |-> live]
  /\ links' = {[to |-> e, slug |-> LinkSlug(top, e), seen |-> e \in known] : e \in linked}
  /\ live' = NoDb
  /\ builds' = builds + 1
  /\ UNCHANGED <<archive, quarter, published, forgotten, gone, crashes>>

\* INSERT INTO employer.  A tail row is INSERT OR IGNORE: when its slug is taken
\* its occupations and years go under the page that has the slug.
InsertRow ==
  LET i == build.next  s == SlugAt(i) IN
  /\ build.pc = "rows" /\ i <= Len(Rows)
  /\ s \in live.page => ~IsTop(i)
  /\ live' = [live EXCEPT !.page = @ \union {s}]
  /\ build' = [build EXCEPT !.next = i + 1]
  /\ UNCHANGED <<archive, links, forgotten>> /\ Rest

\* What the file was to remember and no longer does.
Lost == (build.past.page \union DOMAIN build.past.redirect)
          \ (live.page \union DOMAIN live.redirect)

\* A top row whose slug is taken breaks the primary key: the build ends.
SlugTaken ==
  LET i == build.next IN
  /\ build.pc = "rows" /\ i <= Len(build.top)
  /\ SlugAt(i) \in live.page
  /\ build' = Off /\ forgotten' = forgotten \union Lost
  /\ UNCHANGED <<live, archive, links>> /\ Rest

\* Mutant: redirects of earlier builds are not carried on.
PagesOnly(past) == past.page
\* everExisted
EverExisted(past) == past.page \union DOMAIN past.redirect

\* Mutant: the newest archive, with the slug or without it.
AnyArchive(s) == {q \in DOMAIN archive : q > 0}
\* findArchiveWithSlug
ArchivesWith(s) == {q \in DOMAIN archive : s \in archive[q]}
Newest(qs) == CHOOSE q \in qs : \A p \in qs : p <= q

Target(past, s) ==
  IF ArchivesWith(s) # {} THEN Newest(ArchivesWith(s))
  ELSE IF s \in DOMAIN past.redirect THEN past.redirect[s] ELSE 0

Redirected(past) == EverExisted(past) \ live.page

WriteRedirects ==
  /\ build.pc = "rows" /\ build.next > Len(Rows)
  /\ live' = [live EXCEPT !.redirect =
       [s \in Redirected(build.past) |-> Target(build.past, s)]]
  /\ build' = [build EXCEPT !.pc = "copy"]
  /\ UNCHANGED <<archive, links, forgotten>> /\ Rest

\* copyFileSync: a build of the same quarter overwrites its archive.
Without(q, slugs) == IF q \in DOMAIN archive THEN archive[q] \ slugs ELSE {}
CopyToArchive ==
  LET slugs == live.page IN
  /\ build.pc = "copy"
  /\ archive' = [q \in DOMAIN archive \union {quarter} |->
                   IF q = quarter THEN slugs ELSE archive[q]]
  /\ gone' = (gone \ ({quarter} \X slugs)) \union ({quarter} \X Without(quarter, slugs))
  /\ live' = [live EXCEPT !.whole = TRUE]
  /\ build' = Off
  /\ UNCHANGED <<quarter, links, published, forgotten, builds, crashes>>

\* It dies anywhere; the next build finds the file as it is.
BuildDies ==
  /\ build.pc # "off" /\ crashes < MaxCrashes
  /\ crashes' = crashes + 1
  /\ build' = Off /\ forgotten' = forgotten \union Lost
  /\ UNCHANGED <<live, archive, quarter, links, published, gone, builds>>

-----------------------------------------------------------------------------
(* Around it.                                                              *)

\* next build bakes pages and redirects into the image that is deployed.
Publish ==
  /\ build.pc = "off" /\ live.whole
  /\ ~(live.page \subseteq published)
  /\ published' = published \union live.page
  /\ UNCHANGED <<live, archive, quarter, build, links, forgotten, gone, builds, crashes>>

NextQuarter ==
  /\ build.pc = "off" /\ quarter < MaxQuarter
  /\ quarter' = quarter + 1
  /\ UNCHANGED <<live, archive, build, links, published, forgotten, gone, builds, crashes>>

\* DEPLOY.md's routine: old archives are deleted, the site is rebuilt.
Prune(q) ==
  /\ build.pc = "off" /\ q \in DOMAIN archive /\ q < quarter
  /\ archive' = [p \in DOMAIN archive \ {q} |-> archive[p]]
  /\ gone' = gone \union ({q} \X archive[q])
  /\ UNCHANGED <<live, quarter, build, links, published, forgotten, builds, crashes>>

\* A burst box is new: data/ is not in the repository, nor fetched from S3.
FreshBox ==
  /\ build.pc = "off" /\ live # NoDb
  /\ live' = NoDb /\ archive' = Nothing /\ links' = {}
  /\ forgotten' = forgotten \union published
  /\ UNCHANGED <<quarter, build, published, gone, builds, crashes>>

-----------------------------------------------------------------------------
Tops == UNION {Orders(S) : S \in SUBSET Employers \ {{}}}

Next ==
  \/ \E top \in Tops, known, linked \in SUBSET Employers : Begin(known, top, linked)
  \/ InsertRow \/ SlugTaken \/ WriteRedirects \/ CopyToArchive \/ BuildDies
  \/ Publish \/ NextQuarter \/ (\E q \in 1..MaxQuarter : Prune(q)) \/ FreshBox

Spec == Init /\ [][Next]_vars

-----------------------------------------------------------------------------
(* Properties.                                                             *)

Quarters == 1..MaxQuarter
IsDb(db) ==
  /\ DOMAIN db = {"page", "redirect", "whole"}
  /\ db.page \subseteq Slugs
  /\ DOMAIN db.redirect \subseteq Slugs
  /\ \A s \in DOMAIN db.redirect : db.redirect[s] \in Quarters \union {0}
  /\ db.page \intersect DOMAIN db.redirect = {}
  /\ db.whole \in BOOLEAN

\* Types; no page is hidden behind a redirect.
TypeOK ==
  /\ IsDb(live) /\ IsDb(build.past)
  /\ DOMAIN archive \subseteq Quarters /\ \A q \in DOMAIN archive : archive[q] \subseteq Slugs
  /\ quarter \in Quarters
  /\ build.pc \in {"off", "rows", "copy"} /\ build.next \in Nat
  /\ build.top \in Seq(Employers) /\ build.tail \in Seq(Employers)
  /\ links \subseteq [to : Employers, slug : Slugs, seen : BOOLEAN]
  /\ published \subseteq Slugs /\ forgotten \subseteq Slugs
  /\ gone \subseteq Quarters \X Slugs
  /\ builds \in 0..MaxBuilds /\ crashes \in 0..MaxCrashes

\* A URL that was ever served has a page or a redirect in every complete
\* lca.db, however often its employer dropped out and came back, unless a box
\* or a half-made file has forgotten it.
UrlsSurvive ==
  live.whole =>
    published \subseteq live.page \union DOMAIN live.redirect \union forgotten

\* A link from another page to an employer of the outcomes view is no 404,
\* although it is written before the employer's own slug is known.
LinksResolve ==
  live.whole => \A k \in links : k.seen => k.slug \in live.page

\* A redirect into an archive lands on a page, or that page was there until
\* the archive was overwritten or deleted.
RedirectsLanded ==
  \A s \in DOMAIN live.redirect :
    LET q == live.redirect[s] IN
    q # 0 => <<q, s>> \in gone \/ (q \in DOMAIN archive /\ s \in archive[q])

=============================================================================
