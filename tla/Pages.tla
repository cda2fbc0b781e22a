-------------------------------- MODULE Pages --------------------------------
(***************************************************************************)
(* What the public site (apps/analytics-web) serves from an lca.db that    *)
(* SiteBuild has made: which URLs its routes answer, and which links its   *)
(* pages, its sitemap and its API carry.  Nothing here is state: a page is *)
(* a function of the file, and a visitor of the archive that a label names.*)
(*                                                                         *)
(* A URL is a record.  The slug of an occupation, a state or a sector ends *)
(* in its code and stands for it here; the rows of these kinds are the     *)
(* same in every build.  Which rows a list shows (LIMIT, rank, filters of  *)
(* the visitor) is left open: any list may show any row of its kind.       *)
(***************************************************************************)
EXTENDS SiteBuild

CONSTANTS
  Codes,        \* SOC codes, state codes and NAICS sectors
  Curated,      \* the codes of each kind that have a row, and so a page
  Cited,        \* the codes that each table of top entries names
  Api           \* the feature flag of the data API

Kinds == {"employer", "occupation", "state", "sector"}
OtherKinds == Kinds \ {"employer"}
Tables == {"employer_top_soc", "occupation_top_state", "state_top_occupation",
           "sector_top_occupation", "sector_top_state"}

ASSUME PagesAssumption ==
  /\ Curated \in [OtherKinds -> SUBSET Codes]
  /\ Cited \in [Tables -> SUBSET Codes]
  /\ Api \in BOOLEAN

-----------------------------------------------------------------------------
(* URLs.                                                                   *)

Entity(k, s)        == [at |-> "entity", kind |-> k, slug |-> s]
ListOf(k)           == [at |-> "list", kind |-> k]
Comparison(k, a, b) == [at |-> "compare", kind |-> k, left |-> a, right |-> b]
Archived(q, k, s)   == [at |-> "archived", label |-> q, kind |-> k, slug |-> s]
Snapshot(q)         == [at |-> "snapshot", label |-> q]
Fixed(name)         == [at |-> "fixed", name |-> name]

Entities(k, slugs) == {Entity(k, s) : s \in slugs}
Fixeds(names) == {Fixed(n) : n \in names}
Lists == {ListOf(k) : k \in Kinds}

-----------------------------------------------------------------------------
(* The file behind a page.                                                 *)

occupation == Curated["occupation"]
state      == Curated["state"]
sector     == Curated["sector"]
\* The rows of a kind in a file whose employers are page.
SlugsAmong(page, k) ==
  CASE k = "employer" -> page [] k = "occupation" -> occupation
    [] k = "state" -> state   [] k = "sector" -> sector
\* Of the live file.
SlugsOf(k) == SlugsAmong(live.page, k)
\* withArchiveDb: the same queries on the file of an archive.
SlugsIn(q, k) == SlugsAmong(archive[q], k)

\* What the top tables name, page or no page.
employer_top_soc      == Cited["employer_top_soc"]
occupation_top_state  == Cited["occupation_top_state"]
state_top_occupation  == Cited["state_top_occupation"]
sector_top_occupation == Cited["sector_top_occupation"]
sector_top_state      == Cited["sector_top_state"]

\* The slugs of employers in the other top tables, written by the build.
CrossRefs == {k.slug : k \in links}
occupation_top_employer == CrossRefs
state_top_employer      == CrossRefs
sector_top_employer     == CrossRefs

\* Mutant: every entry of a top table is a link.
AllCited(codes, k) == codes
\* LEFT JOIN with the kind's own table: an entry without a row has no slug, and
\* the pages print its code without a link.
LeftJoin(codes, k) == codes \intersect SlugsOf(k)

EmployerTopSocs      == LeftJoin(employer_top_soc, "occupation")
OccupationTopStates  == LeftJoin(occupation_top_state, "state")
StateTopOccupations  == LeftJoin(state_top_occupation, "occupation")
SectorTopOccupations == LeftJoin(sector_top_occupation, "occupation")
SectorTopStates      == LeftJoin(sector_top_state, "state")

-----------------------------------------------------------------------------
(* Routes.                                                                 *)

\* dynamicParams is false: the pages are those of generateStaticParams.
EntityAnswers(u) == u.slug \in SlugsOf(u.kind)
\* Any two rows, in any order.
ComparisonAnswers(u) == {u.left, u.right} \subseteq SlugsOf(u.kind)
\* archiveExists
SnapshotAnswers(u) == u.label \in DOMAIN archive
ArchivedAnswers(u) == SnapshotAnswers(u) /\ u.slug \in SlugsIn(u.label, u.kind)
\* /h1b-forecast answers without a forecast too: it sends the visitor home.
FixedAnswers(u) == u.name = "api/docs" => Api

Answers(u) ==
  \/ u.at = "list"
  \/ u.at = "entity" /\ EntityAnswers(u)
  \/ u.at = "compare" /\ ComparisonAnswers(u)
  \/ u.at = "snapshot" /\ SnapshotAnswers(u)
  \/ u.at = "archived" /\ ArchivedAnswers(u)
  \/ u.at = "fixed" /\ FixedAnswers(u)

\* The redirects of lca.db, which next.config.ts loads.
Moved(u) == u.at = "entity" /\ u.kind = "employer" /\ u.slug \in DOMAIN live.redirect

-----------------------------------------------------------------------------
(* Parts of several pages: links and, for the search, a form.              *)

ApiDocs == IF Api THEN Fixeds({"api/docs"}) ELSE {}
SiteHeader == Fixeds({"home", "rankings", "search"}) \union Lists \union ApiDocs
MobileNav == Fixeds({"rankings"}) \union Lists \union ApiDocs
SiteFooter == Fixeds({"about", "methodology", "privacy", "h1b-forecast"}) \union ApiDocs

SeeAlsoLinks(k) == Fixeds({"rankings"} \union
  CASE k = "employer"   -> {"top-h1b-sponsors", "cleanest-h1b-sponsors"}
    [] k = "occupation" -> {"top-h1b-occupations", "highest-paying-h1b-jobs"}
    [] k = "state"      -> {"top-h1b-states"}
    [] k = "sector"     -> {"h1b-by-industry"})

\* Search results and suggestions, without the entity itself.
ComparePicker(k, s) == {Comparison(k, s, p) : p \in SlugsOf(k) \ {s}}
\* Either side replaced by a peer.
CompareSwapper(k, a, b) ==
  UNION {{Comparison(k, p, b), Comparison(k, a, p)} : p \in SlugsOf(k) \ {a, b}}
\* The three tables of a comparison page link to both sides and to the list.
Sides(k, a, b) == Entities(k, {a, b}) \union {ListOf(k)}

-----------------------------------------------------------------------------
(* The pages of an entity.                                                 *)

\* The cards of the top tables.
EmployerTops == Entities("occupation", EmployerTopSocs)
OccupationTops ==
  Entities("state", OccupationTopStates) \union Entities("employer", occupation_top_employer)
StateTops ==
  Entities("employer", state_top_employer) \union Entities("occupation", StateTopOccupations)
SectorTops ==
  Entities("employer", sector_top_employer) \union Entities("occupation", SectorTopOccupations)
    \union Entities("state", SectorTopStates)

\* What a page tells search engines of itself: its canonical URL.
Itself(k, s) == {Entity(k, s)}

EmployerPage(s) ==
  {ListOf("employer")} \union Itself("employer", s) \union EmployerTops
    \union ComparePicker("employer", s) \union SeeAlsoLinks("employer")

OccupationPage(s) ==
  {ListOf("occupation")} \union Itself("occupation", s) \union OccupationTops
    \union ComparePicker("occupation", s) \union SeeAlsoLinks("occupation")

StatePage(s) ==
  {ListOf("state")} \union Itself("state", s) \union StateTops
    \union ComparePicker("state", s) \union SeeAlsoLinks("state")

SectorPage(s) ==
  {ListOf("sector")} \union Itself("sector", s) \union SectorTops
    \union ComparePicker("sector", s) \union SeeAlsoLinks("sector")

EntityPages ==
  UNION ({EmployerPage(s) : s \in SlugsOf("employer")}
    \union {OccupationPage(s) : s \in SlugsOf("occupation")}
    \union {StatePage(s) : s \in SlugsOf("state")}
    \union {SectorPage(s) : s \in SlugsOf("sector")})

-----------------------------------------------------------------------------
(* Comparisons.                                                            *)

CompareEmployersPage(a, b) ==
  Sides("employer", a, b) \union EmployerTops \union CompareSwapper("employer", a, b)

CompareOccupationsPage(a, b) ==
  Sides("occupation", a, b) \union OccupationTops \union CompareSwapper("occupation", a, b)

CompareStatesPage(a, b) ==
  Sides("state", a, b) \union StateTops \union CompareSwapper("state", a, b)

CompareSectorsPage(a, b) ==
  Sides("sector", a, b) \union SectorTops \union CompareSwapper("sector", a, b)

\* The pages that answer: a visitor may type any pair, a slug with itself too.
ComparePages ==
  UNION ({CompareEmployersPage(a, b) : a, b \in SlugsOf("employer")}
    \union {CompareOccupationsPage(a, b) : a, b \in SlugsOf("occupation")}
    \union {CompareStatesPage(a, b) : a, b \in SlugsOf("state")}
    \union {CompareSectorsPage(a, b) : a, b \in SlugsOf("sector")})

-----------------------------------------------------------------------------
(* Lists, rankings and the rest.                                           *)

EmployerExplorer   == Entities("employer", SlugsOf("employer"))
OccupationExplorer == Entities("occupation", SlugsOf("occupation"))
SectorExplorer     == Entities("sector", SlugsOf("sector"))
\* The map of the states shows each one's first top employer.
UsChoropleth ==
  Entities("state", SlugsOf("state")) \union Entities("employer", state_top_employer)
StateExplorer == Entities("state", SlugsOf("state")) \union UsChoropleth

\* /employer, /occupation, /state and /sector: their one client component.
EmployerIndex   == EmployerExplorer
OccupationIndex == OccupationExplorer
StateIndex      == StateExplorer
SectorIndex     == SectorExplorer

ListPages == EmployerIndex \union OccupationIndex \union StateIndex \union SectorIndex

\* A ranking: its rows, once more for search engines, and the way back.
PaginatedRankingTable(k) == Entities(k, SlugsOf(k))
ItemList(k) == Entities(k, SlugsOf(k))
RankingPage(k) == PaginatedRankingTable(k) \union ItemList(k) \union Fixeds({"rankings"})

TopH1bSponsors       == RankingPage("employer")
CleanestH1bSponsors  == RankingPage("employer")
TopH1bOccupations    == RankingPage("occupation")
HighestPayingH1bJobs == RankingPage("occupation")
TopH1bStates         == RankingPage("state")
H1bByIndustry        == RankingPage("sector")

RankingNames == {"top-h1b-sponsors", "top-h1b-occupations", "highest-paying-h1b-jobs",
                 "top-h1b-states", "h1b-by-industry", "cleanest-h1b-sponsors"}
RankingsIndex == Fixeds(RankingNames)

RankingPages == TopH1bSponsors \union CleanestH1bSponsors \union TopH1bOccupations
  \union HighestPayingH1bJobs \union TopH1bStates \union H1bByIndustry \union RankingsIndex

\* Of any fiscal year: the years' tables are joined with the rows.
HomeTopTables ==
  Entities("employer", SlugsOf("employer")) \union Entities("occupation", SlugsOf("occupation"))
    \union Fixeds({"top-h1b-sponsors", "top-h1b-occupations"})
HomeCharts == Fixeds({"highest-paying-h1b-jobs", "top-h1b-states"})
HomePage == Lists \union Fixeds({"rankings"}) \union ApiDocs \union HomeCharts \union HomeTopTables

LeaderTable(k) == Entities(k, SlugsOf(k))
ForecastPage ==
  LeaderTable("employer") \union LeaderTable("occupation") \union Fixeds({"methodology"})

\* searchAll finds rows of every kind, employers of the tail among them.
SearchResults == UNION {Entities(k, SlugsOf(k)) : k \in Kinds}
SearchPage == SearchResults \union {ListOf("employer")}

NotFound == Fixeds({"home", "search"})
AboutPage == Fixeds({"methodology", "home"})
MethodologyPage == Fixeds({"about"})
PrivacyPage == Fixeds({"about"})
TextPages == NotFound \union AboutPage \union MethodologyPage \union PrivacyPage

\* /h1b-forecast is listed while there is a forecast.
Sitemap ==
  Lists \union Fixeds({"home", "about", "methodology", "privacy", "rankings", "h1b-forecast"}
                        \union RankingNames)
    \union UNION {Entities(k, SlugsOf(k)) : k \in Kinds}

-----------------------------------------------------------------------------
(* The data API: the url fields of its answers.                            *)

\* A row of a list and, on its own route, the row with its top tables.
ApiEmployers   == Entities("employer", SlugsOf("employer"))
ApiEmployer(s) == Itself("employer", s) \union EmployerTops
ApiOccupations   == Entities("occupation", SlugsOf("occupation"))
ApiOccupation(s) == Itself("occupation", s) \union OccupationTops
ApiStates   == Entities("state", SlugsOf("state"))
ApiState(s) == Itself("state", s) \union StateTops
ApiSectors   == Entities("sector", SlugsOf("sector"))
ApiSector(s) == Itself("sector", s)
ApiLists == ApiEmployers \union ApiOccupations \union ApiStates \union ApiSectors
\* Without a row of that slug they answer 404.
ApiDetails ==
  UNION ({ApiEmployer(s) : s \in SlugsOf("employer")}
    \union {ApiOccupation(s) : s \in SlugsOf("occupation")}
    \union {ApiState(s) : s \in SlugsOf("state")}
    \union {ApiSector(s) : s \in SlugsOf("sector")})
\* The middleware answers 404 for all of it while the flag is off.
ApiAnswers == IF Api THEN ApiLists \union ApiDetails ELSE {}

-----------------------------------------------------------------------------
(* Archives.                                                               *)

\* ArchiveIndexPage, listArchives
ArchiveIndexPage == {Snapshot(q) : q \in DOMAIN archive}
TopList(q, k) == {Archived(q, k, s) : s \in SlugsIn(q, k)}
ArchiveLabelPage(q) == Fixeds({"home"}) \union UNION {TopList(q, k) : k \in Kinds}

\* See current data.
ArchiveBanner(livePath) == {livePath}
ArchivedEmployer(q, s)   == ArchiveBanner(Entity("employer", s)) \union {Snapshot(q)}
ArchivedOccupation(q, s) == ArchiveBanner(Entity("occupation", s)) \union {Snapshot(q)}
ArchivedState(q, s)      == ArchiveBanner(Entity("state", s)) \union {Snapshot(q)}
ArchivedSector(q, s)     == ArchiveBanner(Entity("sector", s)) \union {Snapshot(q)}

ArchivedPages(q) ==
  UNION ({ArchivedEmployer(q, s) : s \in SlugsIn(q, "employer")}
    \union {ArchivedOccupation(q, s) : s \in SlugsIn(q, "occupation")}
    \union {ArchivedState(q, s) : s \in SlugsIn(q, "state")}
    \union {ArchivedSector(q, s) : s \in SlugsIn(q, "sector")})

ArchiveLinks ==
  ArchiveIndexPage \union UNION {ArchiveLabelPage(q) \union ArchivedPages(q) : q \in DOMAIN archive}

-----------------------------------------------------------------------------
(* Properties.                                                             *)

LiveLinks == SiteHeader \union MobileNav \union SiteFooter \union EntityPages \union ComparePages
  \union ListPages \union RankingPages \union HomePage \union ForecastPage \union SearchPage
  \union TextPages \union Sitemap \union ApiAnswers

\* Employers too new for the outcomes view, which no build gives a page.
TooNew == {k.slug : k \in {l \in links : ~l.seen}} \ {k.slug : k \in {l \in links : l.seen}}
IsTooNew(u) == u.at = "entity" /\ u.kind = "employer" /\ u.slug \in TooNew

\* While a complete lca.db is served, every link of its pages, its sitemap and
\* its API leads to a page, not to a 404 or a redirect: although the build
\* writes links to employers before their slugs are settled, and top tables
\* name codes that have no page.  Excepted are employers too new for the view
\* the pages are made from.
NoDeadLinks == live.whole => \A u \in LiveLinks : Answers(u) \/ IsTooNew(u)

IsForgotten(u) == u.at = "entity" /\ u.kind = "employer" /\ u.slug \in forgotten

\* The links of the archive's pages lead somewhere too.  Above all, "See
\* current data" on an archived page finds the employer's page of today or the
\* redirect that took its place, however many builds ago the employer dropped
\* out, unless a box or a half-made file has forgotten it.
ArchiveLinksBack ==
  live.whole => \A u \in ArchiveLinks : Answers(u) \/ Moved(u) \/ IsForgotten(u)

=============================================================================
