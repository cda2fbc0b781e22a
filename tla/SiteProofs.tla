----------------------------- MODULE SiteProofs -----------------------------
(***************************************************************************)
(* What TLAPS proves of SiteBuild for any finite set of employers, any     *)
(* names and numbered slugs, and any number of builds and crashes; then of *)
(* Pages, for any codes, curated rows and top tables; and of ApiKeys, for  *)
(* any keys, limits and windows, and any number of requests and restarts.  *)
(***************************************************************************)
EXTENDS Pages, ApiKeys, SequencesExt, FiniteSetTheorems, TLAPS

-----------------------------------------------------------------------------
(* Lists of distinct things, and sets of naturals.                         *)

Distinct(list) == \A i, j \in DOMAIN list : list[i] = list[j] => i = j

\* The members of a finite set in some order: each of them once, and nothing
\* else (an ORDER BY that leaves ties open).
LEMMA OrderIsOnto ==
  ASSUME NEW S, IsFiniteSet(S), NEW order \in SetToSeqs(S)
  PROVE  /\ order \in Seq(S) /\ Distinct(order)
         /\ \A p \in S : \E i \in DOMAIN order : order[i] = p
  <1> DEFINE D == 1..Cardinality(S)
  <1>1. Cardinality(S) \in Nat
    BY FS_CardinalityType
  <1>2. order \in [D -> S] /\ \A i, j \in D : i # j => order[i] # order[j]
    BY DEF SetToSeqs
  <1>3. order \in Injection(D, S)
    BY <1>2 DEF Injection, IsInjective
  <1>4. IsFiniteSet(D) /\ Cardinality(D) = Cardinality(S)
    BY <1>1, FS_Interval
  <1>5. order \in Surjection(D, S)
    BY <1>3, <1>4, FS_Injection
  <1> QED
    BY <1>1, <1>2, <1>5 DEF Surjection, Distinct

\* As many positions of a list of distinct things as there are things, at most.
LEMMA NoMoreThanThings ==
  ASSUME NEW S, IsFiniteSet(S), NEW list \in Seq(S), Distinct(list),
         NEW I \in SUBSET DOMAIN list
  PROVE  IsFiniteSet(I) /\ Cardinality(I) \in Nat /\ Cardinality(I) <= Cardinality(S)
  <1> DEFINE f == [i \in I |-> list[i]]
  <1>1. f \in Injection(I, S)
    BY DEF Injection, IsInjective, Distinct
  <1>2. IsFiniteSet(I) /\ Cardinality(I) <= Cardinality(S)
    BY <1>1, FS_Injection
  <1> QED
    BY <1>2, FS_CardinalityType

LEMMA LeastNatural ==
  ASSUME NEW T \in SUBSET Nat, T # {}
  PROVE  \E n \in T : \A m \in T : n <= m
  <1>1. PICK n \in T : \A m \in T : ~(<<m, n>> \in OpToRel(<, Nat))
    BY WFMin, NatLessThanWellFounded
  <1>2. ASSUME NEW m \in T PROVE n <= m
    <2>1. ~(m < n)
      BY <1>1 DEF OpToRel
    <2> QED
      BY <2>1
  <1> QED
    BY <1>2

LEMMA GreatestNatural ==
  ASSUME NEW b \in Nat, NEW T \in SUBSET (0..b), T # {}
  PROVE  \E n \in T : \A m \in T : m <= n
  <1> DEFINE U == {b - n : n \in T}
  <1>1. U \in SUBSET Nat /\ U # {}
    <2>1. \A n \in T : b - n \in Nat
      OBVIOUS
    <2>2. PICK n \in T : TRUE
      OBVIOUS
    <2>3. b - n \in U
      BY <2>2
    <2> QED
      BY <2>1, <2>3
  <1>2. PICK k \in U : \A m \in U : k <= m
    <2> HIDE DEF U
    <2> QED
      BY <1>1, LeastNatural
  <1>3. PICK n \in T : k = b - n
    OBVIOUS
  <1>4. ASSUME NEW m \in T PROVE m <= n
    BY <1>2, <1>3
  <1> QED
    BY <1>4

-----------------------------------------------------------------------------
\* A script that is off has nothing in memory; a file under construction has
\* no redirects; the rows are different employers.
Shape ==
  /\ DOMAIN build = {"pc", "top", "tail", "next", "past"}
  /\ (build.pc = "off" => build = Off)
  /\ (build.pc = "rows" => DOMAIN live.redirect = {} /\ build.next # 0)
  /\ Distinct(Rows)

TypeInv == TypeOK /\ Shape

\* What a file or the script working on it remembers of a URL.
Remembers(db) == db.page \union DOMAIN db.redirect
UrlInv ==
  /\ (build.pc = "off" => published \subseteq Remembers(live) \union forgotten)
  /\ (build.pc # "off" => published \subseteq Remembers(build.past) \union forgotten)
  /\ (build.pc = "copy" => Remembers(build.past) \subseteq Remembers(live))

\* The script's memory of the redirects lands where the file's did.
Lands(db) ==
  \A s \in DOMAIN db.redirect :
    LET q == db.redirect[s] IN
    q # 0 => <<q, s>> \in gone \/ (q \in DOMAIN archive /\ s \in archive[q])
LandInv == Lands(live) /\ Lands(build.past)

\* Links are those to rows, with the slugs the rows have or will have.
LinkInv ==
  /\ (build.pc # "off" => ~live.whole)
  /\ (build.pc = "rows" =>
       /\ build.next \in 1..(Len(Rows) + 1)
       /\ \A i \in 1..(build.next - 1) : SlugAt(i) \in live.page
       /\ \A k \in links :
            k.seen => k.to \in Ids(Rows) /\ k.slug = LinkSlug(build.top, k.to))
  /\ (build.pc = "copy" \/ live.whole =>
       \A k \in links : k.seen => k.slug \in live.page)

-----------------------------------------------------------------------------
(* Slugs.                                                                  *)

\* The slug of the i-th of a list of employers: SlugAt and LinkSlug are this,
\* for the rows and for the top of them.
SameBase(rows, i) == {j \in 1..i : Base[rows[j]] = Base[rows[i]]}
SlugIn(rows, i) ==
  LET n == Cardinality(SameBase(rows, i)) IN
  IF n = 1 THEN Base[rows[i]] ELSE Numbered[Base[rows[i]]][n]

\* The counter of equal names stays within the numbers there are slugs for.
LEMMA SlugType ==
  ASSUME NEW rows \in Seq(Employers), Distinct(rows), NEW i \in DOMAIN rows
  PROVE  SlugIn(rows, i) \in Slugs
  <1> DEFINE J == SameBase(rows, i)  n == Cardinality(J)
  <1>1. i \in 1..Len(rows) /\ DOMAIN rows = 1..Len(rows) /\ Len(rows) \in Nat
    OBVIOUS
  <1>2. J \in SUBSET DOMAIN rows /\ i \in J
    BY <1>1 DEF SameBase
  <1>3. IsFiniteSet(J) /\ n \in Nat /\ n <= Cardinality(Employers)
    BY <1>2, NoMoreThanThings, SiteBuildAssumption
  <1>4. n # 0
    BY <1>2, <1>3, FS_EmptySet
  <1>5. Cardinality(Employers) \in Nat
    BY SiteBuildAssumption, FS_CardinalityType
  <1>6. n # 1 => n \in 2..(Cardinality(Employers) + 1)
    BY <1>3, <1>4, <1>5
  <1>7. rows[i] \in Employers /\ Base[rows[i]] \in Slugs
    BY SiteBuildAssumption
  <1> HIDE DEF n
  <1>8. n # 1 => Numbered[Base[rows[i]]][n] \in Slugs
    BY <1>6, <1>7, SiteBuildAssumption
  <1> QED
    BY <1>7, <1>8 DEF SlugIn, n

\* The first of a name has the name as its slug.
LEMMA FirstOfName ==
  ASSUME NEW rows \in Seq(Employers), NEW i \in DOMAIN rows
  PROVE  \E j \in DOMAIN rows : SlugIn(rows, j) = Base[rows[i]]
  <1> DEFINE J == SameBase(rows, i)
  <1>1. J \subseteq DOMAIN rows /\ i \in J /\ DOMAIN rows \in SUBSET Nat
    BY DEF SameBase
  <1>2. PICK j \in J : \A k \in J : j <= k
    BY <1>1, LeastNatural
  <1>3. j \in 1..i /\ i \in Nat /\ Base[rows[j]] = Base[rows[i]]
    BY <1>1, <1>2 DEF SameBase
  <1>4. SameBase(rows, j) \subseteq J
    BY <1>3 DEF SameBase
  <1>5. \A k \in SameBase(rows, j) : k = j
    <2>1. ASSUME NEW k \in SameBase(rows, j) PROVE k = j
      <3>1. k \in 1..j /\ j <= k
        BY <1>2, <1>4, <2>1 DEF SameBase
      <3> QED
        BY <1>3, <3>1
    <2> QED
      BY <2>1
  <1>6. j \in SameBase(rows, j)
    BY <1>3 DEF SameBase
  <1>7. SameBase(rows, j) = {j}
    BY <1>5, <1>6
  <1>8. Cardinality(SameBase(rows, j)) = 1
    BY <1>7, FS_Singleton
  <1> QED
    BY <1>1, <1>3, <1>8 DEF SlugIn

\* What comes behind a list does not change the slugs of it.
LEMMA SlugInPrefix ==
  ASSUME NEW top \in Seq(Employers), NEW tail \in Seq(Employers), NEW i \in DOMAIN top
  PROVE  SlugIn(top \o tail, i) = SlugIn(top, i)
  <1>1. \A j \in 1..i : (top \o tail)[j] = top[j]
    OBVIOUS
  <1>2. i \in 1..i
    OBVIOUS
  <1>3. SameBase(top \o tail, i) = SameBase(top, i)
    BY <1>1, <1>2 DEF SameBase
  <1> QED
    BY <1>1, <1>2, <1>3 DEF SlugIn

LEMMA SlugAtIsSlugIn == \A i : SlugAt(i) = SlugIn(Rows, i)
  BY DEF SlugAt, SlugIn, SameBase

LEMMA LinkSlugIsSlugIn ==
  ASSUME NEW top \in Seq(Employers), NEW e \in Ids(top)
  PROVE  \E i \in DOMAIN top : top[i] = e /\ LinkSlug(top, e) = SlugIn(top, i)
  <1> DEFINE i == CHOOSE i \in DOMAIN top : top[i] = e
  <1>1. i \in DOMAIN top /\ top[i] = e
    BY DEF Ids
  <1>2. LinkSlug(top, e) = SlugIn(top, i)
    BY <1>1 DEF LinkSlug, SlugIn, SameBase
  <1> QED
    BY <1>1, <1>2

LEMMA LinkSlugType ==
  ASSUME NEW top \in Seq(Employers), Distinct(top), NEW e \in Employers
  PROVE  LinkSlug(top, e) \in Slugs
  <1>1. CASE e \in Ids(top)
    BY <1>1, LinkSlugIsSlugIn, SlugType
  <1>2. CASE e \notin Ids(top)
    BY <1>2, SiteBuildAssumption DEF LinkSlug
  <1> QED
    BY <1>1, <1>2

-----------------------------------------------------------------------------
(* Types.                                                                  *)

BuildType ==
  /\ build.pc \in {"off", "rows", "copy"} /\ build.next \in Nat
  /\ build.top \in Seq(Employers) /\ build.tail \in Seq(Employers)
ArchiveType ==
  DOMAIN archive \subseteq Quarters /\ \A q \in DOMAIN archive : archive[q] \subseteq Slugs
LinkType == links \subseteq [to : Employers, slug : Slugs, seen : BOOLEAN]
HistoryType ==
  published \subseteq Slugs /\ forgotten \subseteq Slugs /\ gone \subseteq Quarters \X Slugs
Numbers == quarter \in Quarters /\ builds \in 0..MaxBuilds /\ crashes \in 0..MaxCrashes

LEMMA TypeParts ==
  TypeInv <=> /\ IsDb(live) /\ IsDb(build.past) /\ BuildType /\ ArchiveType
              /\ LinkType /\ HistoryType /\ Numbers /\ Shape
  BY DEF TypeInv, TypeOK, BuildType, ArchiveType, LinkType, HistoryType, Numbers

LEMMA NoDbType == IsDb(NoDb)
  BY DEF NoDb, Nothing, IsDb

LEMMA ListsAreLists == TypeInv => Rows \in Seq(Employers)
  BY DEF TypeInv, TypeOK, Rows

LEMMA SlugAtType == TypeInv => \A i \in 1..Len(Rows) : SlugAt(i) \in Slugs
  BY ListsAreLists, SlugType, SlugAtIsSlugIn DEF TypeInv, Shape

LEMMA OffType ==
  ASSUME build' = Off
  PROVE  IsDb(build.past)' /\ BuildType' /\ Shape'
  <1>1. /\ build'.pc = "off" /\ build'.top = <<>> /\ build'.tail = <<>>
        /\ build'.next = 0 /\ build'.past = NoDb
        /\ DOMAIN build' = {"pc", "top", "tail", "next", "past"}
    BY DEF Off
  <1>2. IsDb(build.past)'
    BY <1>1, NoDbType DEF IsDb
  <1>3. <<>> \in Seq(Employers) /\ <<>> \o <<>> = <<>> /\ DOMAIN <<>> = {}
    OBVIOUS
  <1>4. BuildType'
    BY <1>1, <1>3 DEF BuildType
  <1>5. Rows' = <<>>
    BY <1>1, <1>3 DEF Rows
  <1>6. Distinct(Rows')
    BY <1>3, <1>5 DEF Distinct
  <1>7. Shape'
    BY <1>1, <1>6 DEF Shape
  <1> QED
    BY <1>2, <1>4, <1>7

\* Top and tail of a build: different employers, all that are linked to and
\* known among them.
LEMMA RowsOfBuild ==
  ASSUME NEW top \in Tops, NEW known \in SUBSET Employers, NEW linked \in SUBSET Employers,
         NEW tail \in Orders(TailIds(linked, top) \intersect known)
  PROVE  /\ top \in Seq(Employers) /\ Distinct(top)
         /\ tail \in Seq(Employers) /\ Distinct(top \o tail)
         /\ \A e \in linked \intersect known : e \in Ids(top \o tail)
  <1>1. PICK S \in SUBSET Employers : top \in SetToSeqs(S)
    BY DEF Tops, Orders
  <1>2. IsFiniteSet(S)
    BY SiteBuildAssumption, FS_Subset
  <1>3. top \in Seq(S) /\ Distinct(top)
    BY <1>1, <1>2, OrderIsOnto
  <1> DEFINE T == TailIds(linked, top) \intersect known
  <1>4. T \subseteq Employers
    OBVIOUS
  <1>5. IsFiniteSet(T)
    BY <1>4, SiteBuildAssumption, FS_Subset
  <1>6. tail \in SetToSeqs(T)
    BY DEF Orders
  <1>7. tail \in Seq(T) /\ Distinct(tail) /\ \A p \in T : \E i \in DOMAIN tail : tail[i] = p
    <2> HIDE DEF T
    <2> QED
      BY <1>5, <1>6, OrderIsOnto
  <1>8. top \in Seq(Employers) /\ tail \in Seq(Employers)
    BY <1>3, <1>4, <1>7
  <1>9. \A i \in DOMAIN tail : tail[i] \notin Ids(top)
    <2>1. \A i \in DOMAIN tail : tail[i] \in T
      BY <1>7
    <2> QED
      BY <2>1 DEF TailIds
  <1>10. \A i \in DOMAIN tail, j \in DOMAIN top : tail[i] # top[j]
    BY <1>9 DEF Ids
  <1>11. /\ \A i \in DOMAIN top : i \in DOMAIN (top \o tail) /\ (top \o tail)[i] = top[i]
         /\ \A i \in DOMAIN tail : /\ i + Len(top) \in DOMAIN (top \o tail)
                                   /\ (top \o tail)[i + Len(top)] = tail[i]
         /\ \A i \in DOMAIN (top \o tail) :
              i \in DOMAIN top \/ (i - Len(top) \in DOMAIN tail /\ i = (i - Len(top)) + Len(top))
    BY <1>8
  <1>12. Distinct(top \o tail)
    <2>1. SUFFICES ASSUME NEW i \in DOMAIN (top \o tail), NEW j \in DOMAIN (top \o tail),
                          (top \o tail)[i] = (top \o tail)[j]
                   PROVE  i = j
      BY DEF Distinct
    <2>2. CASE i \in DOMAIN top /\ j \in DOMAIN top
      BY <1>3, <1>11, <2>1, <2>2 DEF Distinct
    <2>3. CASE i \in DOMAIN top /\ j \notin DOMAIN top
      BY <1>10, <1>11, <2>1, <2>3
    <2>4. CASE i \notin DOMAIN top /\ j \in DOMAIN top
      BY <1>10, <1>11, <2>1, <2>4
    <2>5. CASE i \notin DOMAIN top /\ j \notin DOMAIN top
      <3>1. /\ i - Len(top) \in DOMAIN tail /\ tail[i - Len(top)] = (top \o tail)[i]
            /\ j - Len(top) \in DOMAIN tail /\ tail[j - Len(top)] = (top \o tail)[j]
        BY <1>11, <2>5
      <3>2. i - Len(top) = j - Len(top)
        BY <1>7, <2>1, <3>1 DEF Distinct
      <3>3. i \in Nat /\ j \in Nat /\ Len(top) \in Nat
        BY <1>8
      <3> QED
        BY <3>2, <3>3
    <2> QED
      BY <2>2, <2>3, <2>4, <2>5
  <1>13. ASSUME NEW e \in linked \intersect known PROVE e \in Ids(top \o tail)
    <2>1. CASE e \in Ids(top)
      BY <1>11, <2>1 DEF Ids
    <2>2. CASE e \notin Ids(top)
      <3>1. e \in T
        BY <1>13, <2>2 DEF TailIds
      <3> QED
        BY <1>7, <1>11, <3>1 DEF Ids
    <2> QED
      BY <2>1, <2>2
  <1> QED
    BY <1>3, <1>8, <1>12, <1>13

LEMMA InitTypes == Init => TypeInv
  <1> SUFFICES ASSUME Init PROVE TypeInv
    OBVIOUS
  <1>1. /\ build.pc = "off" /\ build.top = <<>> /\ build.tail = <<>>
        /\ build.next = 0 /\ build.past = NoDb
        /\ DOMAIN build = {"pc", "top", "tail", "next", "past"}
    BY DEF Init, Off
  <1>2. IsDb(live) /\ IsDb(build.past)
    BY <1>1, NoDbType DEF Init
  <1>3. <<>> \in Seq(Employers) /\ <<>> \o <<>> = <<>> /\ DOMAIN <<>> = {}
    OBVIOUS
  <1>4. BuildType
    BY <1>1, <1>3 DEF BuildType
  <1>5. Rows = <<>>
    BY <1>1, <1>3 DEF Rows
  <1>6. Distinct(Rows)
    BY <1>3, <1>5 DEF Distinct
  <1>7. Shape
    BY <1>1, <1>6 DEF Shape, Init
  <1>8. ArchiveType /\ LinkType /\ HistoryType
    BY DEF Init, ArchiveType, LinkType, HistoryType, Nothing
  <1>9. Numbers
    BY SiteBuildAssumption DEF Init, Numbers, Quarters
  <1> QED
    BY <1>2, <1>4, <1>7, <1>8, <1>9, TypeParts

LEMMA BeginType ==
  ASSUME TypeInv, NEW top \in Tops, NEW known \in SUBSET Employers,
         NEW linked \in SUBSET Employers, Begin(known, top, linked)
  PROVE  TypeInv'
  <1>0. /\ IsDb(live) /\ ArchiveType /\ HistoryType /\ Numbers
    BY TypeParts
  <1>1. PICK tail \in Orders(TailIds(linked, top) \intersect known) :
          build' = [pc |-> "rows", top |-> top, tail |-> tail, next |-> 1, past |-> live]
    BY DEF Begin
  <1>2. /\ top \in Seq(Employers) /\ Distinct(top)
        /\ tail \in Seq(Employers) /\ Distinct(top \o tail)
    BY RowsOfBuild
  <1>3. /\ build'.pc = "rows" /\ build'.top = top /\ build'.tail = tail
        /\ build'.next = 1 /\ build'.past = live
        /\ DOMAIN build' = {"pc", "top", "tail", "next", "past"}
    BY <1>1
  <1>4. BuildType'
    BY <1>2, <1>3 DEF BuildType
  <1>5. live' = NoDb
    BY DEF Begin
  <1>6. Rows' = top \o tail
    BY <1>3 DEF Rows
  <1>7. Shape'
    BY <1>2, <1>3, <1>5, <1>6 DEF Shape, NoDb, Nothing
  <1>8. IsDb(live)' /\ IsDb(build.past)'
    BY <1>0, <1>3, <1>5, NoDbType DEF IsDb
  <1>9. LinkType'
    <2>1. ASSUME NEW e \in linked
          PROVE  [to |-> e, slug |-> LinkSlug(top, e), seen |-> e \in known]
                   \in [to : Employers, slug : Slugs, seen : BOOLEAN]
      BY <1>2, LinkSlugType
    <2>2. links' = {[to |-> e, slug |-> LinkSlug(top, e), seen |-> e \in known] : e \in linked}
      BY DEF Begin
    <2> QED
      BY <2>1, <2>2 DEF LinkType
  <1>10. ArchiveType' /\ HistoryType'
    BY <1>0 DEF Begin, ArchiveType, HistoryType
  <1>11. Numbers'
    BY <1>0, SiteBuildAssumption DEF Begin, Numbers
  <1> QED
    BY <1>4, <1>7, <1>8, <1>9, <1>10, <1>11
    DEF TypeInv, TypeOK, BuildType, ArchiveType, LinkType, HistoryType, Numbers

\* An archive that has a page is the newest that has it, or there is a newer.
LEMMA NewestIsThere ==
  ASSUME ArchiveType, NEW s, ArchivesWith(s) # {}
  PROVE  Newest(ArchivesWith(s)) \in ArchivesWith(s)
  <1>1. ArchivesWith(s) \in SUBSET (0..MaxQuarter)
    BY SiteBuildAssumption DEF ArchivesWith, ArchiveType, Quarters
  <1>2. \E q \in ArchivesWith(s) : \A p \in ArchivesWith(s) : p <= q
    BY <1>1, GreatestNatural, SiteBuildAssumption
  <1> QED
    BY <1>2 DEF Newest

LEMMA TargetType ==
  ASSUME ArchiveType, NEW past, IsDb(past), NEW s
  PROVE  Target(past, s) \in Quarters \union {0}
  <1>1. CASE ArchivesWith(s) # {}
    BY <1>1, NewestIsThere DEF Target, ArchivesWith, ArchiveType
  <1>2. CASE ArchivesWith(s) = {}
    BY <1>2 DEF Target, IsDb
  <1> QED
    BY <1>1, <1>2

LEMMA RowsTypes ==
  ASSUME TypeInv, InsertRow \/ WriteRedirects
  PROVE  TypeInv'
  <1>0. /\ IsDb(live) /\ IsDb(build.past) /\ BuildType /\ ArchiveType
        /\ LinkType /\ HistoryType /\ Numbers /\ Shape
    BY TypeParts
  <1>1. build.pc = "rows" /\ DOMAIN live.redirect = {}
    BY <1>0 DEF InsertRow, WriteRedirects, Shape
  <1>2. LinkType' /\ HistoryType' /\ Numbers' /\ ArchiveType'
    BY <1>0 DEF InsertRow, WriteRedirects, Rest, LinkType, HistoryType, Numbers, ArchiveType
  <1>3. CASE InsertRow
    <2>1. SlugAt(build.next) \in Slugs
      <3>1. Len(Rows) \in Nat
        BY ListsAreLists
      <3>2. build.next \in 1..Len(Rows)
        BY <1>0, <1>1, <1>3, <3>1 DEF InsertRow, BuildType, Shape
      <3> QED
        BY <3>2, SlugAtType
    <2>2. /\ live' = [live EXCEPT !.page = @ \union {SlugAt(build.next)}]
          /\ build' = [build EXCEPT !.next = build.next + 1]
      BY <1>3 DEF InsertRow
    <2>3. /\ DOMAIN live' = DOMAIN live /\ live'.redirect = live.redirect
          /\ live'.whole = live.whole /\ live'.page = live.page \union {SlugAt(build.next)}
      BY <1>0, <2>2 DEF IsDb
    <2>4. /\ DOMAIN build' = DOMAIN build /\ build'.pc = build.pc /\ build'.top = build.top
          /\ build'.tail = build.tail /\ build'.past = build.past
          /\ build'.next = build.next + 1
      BY <1>0, <2>2 DEF Shape
    <2>5. IsDb(live)' /\ IsDb(build.past)'
      BY <1>0, <1>1, <2>1, <2>3, <2>4 DEF IsDb
    <2>6. BuildType'
      BY <1>0, <2>4 DEF BuildType
    <2>7. Rows' = Rows
      BY <2>4 DEF Rows
    <2>8. build'.next # 0
      BY <1>0, <2>4 DEF BuildType
    <2>9. Shape'
      BY <1>0, <1>1, <2>3, <2>4, <2>7, <2>8 DEF Shape
    <2> QED
      BY <1>2, <2>5, <2>6, <2>9
      DEF TypeInv, TypeOK, BuildType, ArchiveType, LinkType, HistoryType, Numbers
  <1>4. CASE WriteRedirects
    <2> DEFINE R == [s \in Redirected(build.past) |-> Target(build.past, s)]
    <2>1. live' = [live EXCEPT !.redirect = R] /\ build' = [build EXCEPT !.pc = "copy"]
      BY <1>4 DEF WriteRedirects
    <2>2. /\ DOMAIN R \subseteq Slugs /\ DOMAIN R \intersect live.page = {}
          /\ \A s \in DOMAIN R : R[s] \in Quarters \union {0}
      BY <1>0, TargetType DEF Redirected, EverExisted, IsDb
    <2> HIDE DEF R
    <2>3. /\ DOMAIN live' = DOMAIN live /\ live'.page = live.page
          /\ live'.whole = live.whole /\ live'.redirect = R
      BY <1>0, <2>1 DEF IsDb
    <2>4. /\ DOMAIN build' = DOMAIN build /\ build'.pc = "copy" /\ build'.top = build.top
          /\ build'.tail = build.tail /\ build'.past = build.past
          /\ build'.next = build.next
      BY <1>0, <2>1 DEF Shape
    <2>5. IsDb(live)' /\ IsDb(build.past)'
      BY <1>0, <2>2, <2>3, <2>4 DEF IsDb
    <2>6. BuildType'
      BY <1>0, <2>4 DEF BuildType
    <2>7. Rows' = Rows
      BY <2>4 DEF Rows
    <2>8. Shape'
      BY <1>0, <2>4, <2>7 DEF Shape
    <2> QED
      BY <1>2, <2>5, <2>6, <2>8
      DEF TypeInv, TypeOK, BuildType, ArchiveType, LinkType, HistoryType, Numbers
  <1> QED
    BY <1>3, <1>4

\* What the file was to remember is made of slugs.
LEMMA LostType == TypeInv => Lost \subseteq Slugs
  BY DEF TypeInv, TypeOK, Lost, IsDb

LEMMA EndTypes ==
  ASSUME TypeInv, SlugTaken \/ CopyToArchive \/ BuildDies
  PROVE  TypeInv'
  <1>0. /\ IsDb(live) /\ ArchiveType /\ LinkType /\ HistoryType /\ Numbers
    BY TypeParts
  <1>1. build' = Off
    BY DEF SlugTaken, CopyToArchive, BuildDies
  <1>2. IsDb(build.past)' /\ BuildType' /\ Shape'
    BY <1>1, OffType
  <1>3. LinkType' /\ Numbers'
    BY <1>0, SiteBuildAssumption
    DEF SlugTaken, CopyToArchive, BuildDies, Rest, LinkType, Numbers
  <1>4. CASE SlugTaken \/ BuildDies
    <2>1. IsDb(live)' /\ ArchiveType'
      BY <1>0, <1>4 DEF SlugTaken, BuildDies, IsDb, ArchiveType
    <2>2. HistoryType'
      BY <1>0, <1>4, LostType DEF SlugTaken, BuildDies, Rest, HistoryType
    <2> QED
      BY <1>2, <1>3, <2>1, <2>2
      DEF TypeInv, TypeOK, BuildType, ArchiveType, LinkType, HistoryType, Numbers
  <1>5. CASE CopyToArchive
    <2>1. live.page \subseteq Slugs /\ quarter \in Quarters
      BY <1>0 DEF IsDb, Numbers
    <2>2. live' = [live EXCEPT !.whole = TRUE]
      BY <1>5 DEF CopyToArchive
    <2>3. IsDb(live)'
      BY <1>0, <2>2 DEF IsDb
    <2>4. ArchiveType'
      BY <1>0, <1>5, <2>1 DEF CopyToArchive, ArchiveType
    <2>5. Without(quarter, live.page) \subseteq Slugs
      BY <1>0 DEF Without, ArchiveType
    <2>6. HistoryType'
      BY <1>0, <1>5, <2>1, <2>5 DEF CopyToArchive, HistoryType
    <2> QED
      BY <1>2, <1>3, <2>3, <2>4, <2>6
      DEF TypeInv, TypeOK, BuildType, ArchiveType, LinkType, HistoryType, Numbers
  <1> QED
    BY <1>4, <1>5

LEMMA AroundTypes ==
  ASSUME TypeInv, \/ Publish \/ NextQuarter \/ FreshBox \/ UNCHANGED vars
                  \/ \E q \in 1..MaxQuarter : Prune(q)
  PROVE  TypeInv'
  <1>0. /\ IsDb(live) /\ IsDb(build.past) /\ BuildType /\ ArchiveType
        /\ LinkType /\ HistoryType /\ Numbers /\ Shape
    BY TypeParts
  <1>1. build' = build
    BY DEF Publish, NextQuarter, FreshBox, Prune, vars
  <1>2. IsDb(build.past)' /\ BuildType'
    BY <1>0, <1>1 DEF IsDb, BuildType
  <1>3. live' = live \/ live' = NoDb
    BY DEF Publish, NextQuarter, FreshBox, Prune, vars
  <1>4. IsDb(live)'
    BY <1>0, <1>3, NoDbType DEF IsDb
  <1>5. Rows' = Rows
    BY <1>1 DEF Rows
  <1>6. Shape'
    BY <1>0, <1>1, <1>3, <1>5 DEF Shape, NoDb, Nothing
  <1>7. ArchiveType' /\ LinkType'
    BY <1>0 DEF Publish, NextQuarter, FreshBox, Prune, vars, ArchiveType, LinkType, Nothing
  <1>8. HistoryType'
    <2>1. \A q \in DOMAIN archive : {q} \X archive[q] \subseteq Quarters \X Slugs
      BY <1>0 DEF ArchiveType
    <2>2. live.page \subseteq Slugs
      BY <1>0 DEF IsDb
    <2> QED
      BY <1>0, <2>1, <2>2 DEF Publish, NextQuarter, FreshBox, Prune, vars, HistoryType
  <1>9. Numbers'
    <2>1. quarter' = quarter \/ (quarter < MaxQuarter /\ quarter' = quarter + 1)
      BY DEF Publish, NextQuarter, FreshBox, Prune, vars
    <2>2. builds' = builds /\ crashes' = crashes
      BY DEF Publish, NextQuarter, FreshBox, Prune, vars
    <2>3. quarter' \in Quarters
      BY <1>0, <2>1, SiteBuildAssumption DEF Numbers, Quarters
    <2> QED
      BY <1>0, <2>2, <2>3 DEF Numbers, Quarters
  <1> QED
    BY <1>2, <1>4, <1>6, <1>7, <1>8, <1>9
    DEF TypeInv, TypeOK, BuildType, ArchiveType, LinkType, HistoryType, Numbers

LEMMA StepTypes == TypeInv /\ [Next]_vars => TypeInv'
  BY BeginType, RowsTypes, EndTypes, AroundTypes DEF Next

\* No page is hidden behind a redirect, and the rest of the types
\* (build-sqlite.ts, the redirects are written after all the pages).
THEOREM TypeCorrect == Spec => []TypeOK
  <1>1. TypeInv => TypeOK
    BY DEF TypeInv
  <1> QED
    BY <1>1, InitTypes, StepTypes, PTL DEF Spec

-----------------------------------------------------------------------------
(* Steps: the fields of the file and of the script after each.             *)

\* Every step, by name.
LEMMA Steps ==
  ASSUME Next
  PROVE  \/ \E top \in Tops, known, linked \in SUBSET Employers : Begin(known, top, linked)
         \/ InsertRow \/ SlugTaken \/ WriteRedirects \/ CopyToArchive \/ BuildDies
         \/ Publish \/ NextQuarter \/ (\E q \in 1..MaxQuarter : Prune(q)) \/ FreshBox
  BY DEF Next

LEMMA AfterRow ==
  ASSUME TypeInv, InsertRow
  PROVE  /\ live'.page = live.page \union {SlugAt(build.next)}
         /\ live'.redirect = live.redirect /\ live'.whole = live.whole
         /\ build'.pc = "rows" /\ build'.past = build.past /\ build'.top = build.top
         /\ build'.tail = build.tail /\ build'.next = build.next + 1
  BY DEF TypeInv, TypeOK, Shape, IsDb, InsertRow

LEMMA AfterRedirects ==
  ASSUME TypeInv, WriteRedirects
  PROVE  /\ live'.page = live.page /\ live'.whole = live.whole
         /\ live'.redirect = [s \in Redirected(build.past) |-> Target(build.past, s)]
         /\ build'.pc = "copy" /\ build'.past = build.past
  <1> DEFINE R == [s \in Redirected(build.past) |-> Target(build.past, s)]
  <1>1. /\ live' = [live EXCEPT !.redirect = R] /\ build' = [build EXCEPT !.pc = "copy"]
    BY DEF WriteRedirects
  <1>2. /\ DOMAIN live = {"page", "redirect", "whole"}
        /\ DOMAIN build = {"pc", "top", "tail", "next", "past"}
    BY DEF TypeInv, TypeOK, Shape, IsDb
  <1> HIDE DEF R
  <1>3. /\ live'.page = live.page /\ live'.whole = live.whole /\ live'.redirect = R
        /\ build'.pc = "copy" /\ build'.past = build.past
    BY <1>1, <1>2
  <1> QED
    BY <1>3 DEF R

LEMMA AfterCopy ==
  ASSUME TypeInv, CopyToArchive
  PROVE  /\ live'.page = live.page /\ live'.redirect = live.redirect /\ live'.whole
         /\ build' = Off /\ build'.pc = "off" /\ build'.past = NoDb
  BY DEF TypeInv, TypeOK, IsDb, CopyToArchive, Off

LEMMA AfterBegin ==
  ASSUME NEW top, NEW known, NEW linked, Begin(known, top, linked)
  PROVE  /\ build.pc = "off" /\ live' = NoDb
         /\ build'.pc = "rows" /\ build'.past = live /\ build'.top = top /\ build'.next = 1
         /\ build'.tail \in Orders(TailIds(linked, top) \intersect known)
  BY DEF Begin

LEMMA TypesHold == Spec => []TypeInv
  BY InitTypes, StepTypes, PTL DEF Spec

-----------------------------------------------------------------------------
(* Links resolve.                                                          *)

\* The links that are written resolve, once all the rows are.
LEMMA RowsResolve ==
  ASSUME TypeInv, \A i \in 1..Len(Rows) : SlugAt(i) \in live.page,
         NEW e \in Ids(Rows)
  PROVE  LinkSlug(build.top, e) \in live.page
  <1>1. build.top \in Seq(Employers) /\ build.tail \in Seq(Employers)
    BY DEF TypeInv, TypeOK
  <1>2. Rows \in Seq(Employers) /\ DOMAIN Rows = 1..Len(Rows)
    BY ListsAreLists
  <1>3. CASE e \in Ids(build.top)
    <2>1. PICK i \in DOMAIN build.top : LinkSlug(build.top, e) = SlugIn(build.top, i)
      BY <1>1, <1>3, LinkSlugIsSlugIn
    <2>2. SlugIn(Rows, i) = SlugIn(build.top, i)
      BY <1>1, SlugInPrefix DEF Rows
    <2>3. i \in 1..Len(Rows)
      <3>1. ASSUME NEW top \in Seq(Employers), NEW tail \in Seq(Employers)
            PROVE  DOMAIN top \subseteq 1..Len(top \o tail)
        OBVIOUS
      <3>2. DOMAIN build.top \subseteq 1..Len(build.top \o build.tail)
        BY <1>1, <3>1
      <3> QED
        BY <3>2 DEF Rows
    <2> QED
      BY <2>1, <2>2, <2>3, SlugAtIsSlugIn
  <1>4. CASE e \notin Ids(build.top)
    <2>1. PICK i \in DOMAIN Rows : Rows[i] = e
      BY DEF Ids
    <2>2. PICK j \in DOMAIN Rows : SlugIn(Rows, j) = Base[e]
      BY <1>2, <2>1, FirstOfName
    <2>3. LinkSlug(build.top, e) = Base[e]
      BY <1>4 DEF LinkSlug
    <2> QED
      BY <1>2, <2>2, <2>3, SlugAtIsSlugIn
  <1> QED
    BY <1>3, <1>4

LEMMA LinkStep ==
  ASSUME TypeInv, LinkInv, [Next]_vars
  PROVE  LinkInv'
  <1>1. ASSUME NEW top \in Tops, NEW known \in SUBSET Employers,
               NEW linked \in SUBSET Employers, Begin(known, top, linked)
        PROVE  LinkInv'
    <2>1. /\ live'.whole = FALSE /\ build'.pc = "rows" /\ build'.top = top /\ build'.next = 1
          /\ build'.tail \in Orders(TailIds(linked, top) \intersect known)
      BY <1>1, AfterBegin DEF NoDb
    <2>2. /\ Rows' = top \o build'.tail
          /\ top \in Seq(Employers) /\ build'.tail \in Seq(Employers)
          /\ \A e \in linked \intersect known : e \in Ids(Rows')
      BY <2>1, RowsOfBuild DEF Rows
    <2>3. Len(Rows') \in Nat
      BY <2>2
    <2>4. build'.next \in 1..(Len(Rows') + 1) /\ 1..(build'.next - 1) = {}
      BY <2>1, <2>3
    <2>5. links' = {[to |-> e, slug |-> LinkSlug(top, e), seen |-> e \in known] : e \in linked}
      BY <1>1 DEF Begin
    <2>6. ASSUME NEW l \in links', l.seen
          PROVE  l.to \in Ids(Rows') /\ l.slug = LinkSlug(build'.top, l.to)
      <3>1. PICK e \in linked :
              l = [to |-> e, slug |-> LinkSlug(top, e), seen |-> e \in known]
        BY <2>5
      <3>2. l.to = e /\ l.slug = LinkSlug(top, e) /\ l.seen = (e \in known)
        BY <3>1
      <3>3. e \in known
        BY <2>6, <3>2
      <3> QED
        BY <2>1, <2>2, <3>2, <3>3
    <2> QED
      BY <2>1, <2>4, <2>6 DEF LinkInv
  <1>2. CASE InsertRow
    <2>1. build.pc = "rows" /\ build.next <= Len(Rows) /\ links' = links
      BY <1>2 DEF InsertRow
    <2>2. /\ live'.page = live.page \union {SlugAt(build.next)} /\ live'.whole = live.whole
          /\ build'.pc = "rows" /\ build'.top = build.top /\ build'.tail = build.tail
          /\ build'.next = build.next + 1
      BY <1>2, AfterRow
    <2>3. Rows' = Rows /\ Len(Rows) \in Nat /\ build.next \in Nat
      <3>1. Len(Rows) \in Nat
        BY ListsAreLists
      <3>2. build.next \in Nat
        BY DEF TypeInv, TypeOK
      <3> QED
        BY <2>2, <3>1, <3>2 DEF Rows
    <2>4. \A i : SlugAt(i)' = SlugAt(i)
      BY <2>3 DEF SlugAt
    <2>5. build'.next \in 1..(Len(Rows') + 1)
      BY <2>1, <2>2, <2>3
    <2>6. ASSUME NEW i \in 1..(build'.next - 1) PROVE SlugAt(i)' \in live'.page
      <3>1. i = build.next \/ i \in 1..(build.next - 1)
        BY <2>2, <2>3
      <3>2. SlugAt(i) \in live'.page
        BY <2>1, <2>2, <3>1 DEF LinkInv
      <3> QED
        BY <2>4, <3>2
    <2>7. ~live'.whole
      BY <2>1, <2>2 DEF LinkInv
    <2>8. \A l \in links' :
            l.seen => l.to \in Ids(Rows') /\ l.slug = LinkSlug(build'.top, l.to)
      BY <2>1, <2>2, <2>3 DEF LinkInv
    <2> QED
      BY <2>2, <2>5, <2>6, <2>7, <2>8 DEF LinkInv
  <1>3. CASE SlugTaken \/ BuildDies
    <2>1. build.pc # "off" /\ live' = live /\ build'.pc = "off"
      BY <1>3 DEF SlugTaken, BuildDies, Off
    <2> QED
      BY <2>1 DEF LinkInv
  <1>4. CASE WriteRedirects
    <2>1. build.pc = "rows" /\ build.next > Len(Rows) /\ links' = links
      BY <1>4 DEF WriteRedirects
    <2>2. live'.page = live.page /\ live'.whole = live.whole /\ build'.pc = "copy"
      BY <1>4, AfterRedirects
    <2>3. Len(Rows) \in Nat
      BY ListsAreLists
    <2>4. \A i \in 1..Len(Rows) : SlugAt(i) \in live.page
      <3>1. build.next - 1 = Len(Rows)
        BY <2>1, <2>3 DEF LinkInv
      <3> QED
        BY <2>1, <3>1 DEF LinkInv
    <2>5. \A l \in links : l.seen => l.slug \in live.page
      BY <2>1, <2>4, RowsResolve DEF LinkInv
    <2> QED
      BY <2>1, <2>2, <2>5 DEF LinkInv
  <1>5. CASE CopyToArchive
    <2>1. build.pc = "copy" /\ links' = links
      BY <1>5 DEF CopyToArchive
    <2>2. live'.page = live.page /\ build'.pc = "off"
      BY <1>5, AfterCopy
    <2> QED
      BY <2>1, <2>2 DEF LinkInv
  <1>6. CASE FreshBox
    <2>1. links' = {} /\ build' = build /\ build.pc = "off"
      BY <1>6 DEF FreshBox
    <2> QED
      BY <2>1 DEF LinkInv
  <1>7. CASE Publish \/ NextQuarter \/ (\E q \in 1..MaxQuarter : Prune(q)) \/ UNCHANGED vars
    <2>1. links' = links /\ build' = build /\ live' = live
      BY <1>7 DEF Publish, NextQuarter, Prune, vars
    <2>2. Rows' = Rows /\ \A i : SlugAt(i)' = SlugAt(i)
      BY <2>1 DEF Rows, SlugAt
    <2> QED
      BY <2>1, <2>2 DEF LinkInv
  <1> QED
    BY <1>1, <1>2, <1>3, <1>4, <1>5, <1>6, <1>7, Steps

LEMMA LinksHold == Spec => []LinkInv
  <1>1. Init => LinkInv
    BY DEF Init, LinkInv, Off, NoDb
  <1> QED
    BY <1>1, TypesHold, LinkStep, PTL DEF Spec

\* A link to an employer of the outcomes view finds a page in every complete
\* file: the slug it was written with, before the tail had slugs, is that of
\* some row (employerSlug and noteTail).
THEOREM LinksAreGood == Spec => []LinksResolve
  <1>1. LinkInv => LinksResolve
    BY DEF LinkInv, LinksResolve
  <1> QED
    BY <1>1, LinksHold, PTL

-----------------------------------------------------------------------------
(* URLs survive.                                                           *)

LEMMA UrlStep ==
  ASSUME TypeInv, UrlInv, [Next]_vars
  PROVE  UrlInv'
  <1>1. ASSUME NEW top \in Tops, NEW known \in SUBSET Employers,
               NEW linked \in SUBSET Employers, Begin(known, top, linked)
        PROVE  UrlInv'
    <2>1. UNCHANGED <<published, forgotten>>
      BY <1>1 DEF Begin
    <2> QED
      BY <1>1, <2>1, AfterBegin DEF UrlInv, Remembers
  <1>2. CASE InsertRow
    <2>1. UNCHANGED <<published, forgotten>> /\ build.pc = "rows"
      BY <1>2 DEF InsertRow, Rest
    <2> QED
      BY <1>2, <2>1, AfterRow DEF UrlInv, Remembers
  <1>3. CASE SlugTaken \/ BuildDies
    <2>1. /\ build.pc # "off" /\ build' = Off /\ UNCHANGED <<published, live>>
          /\ forgotten' = forgotten \union Lost
      BY <1>3 DEF SlugTaken, BuildDies, Rest
    <2>2. Remembers(build.past) \subseteq Remembers(live) \union Lost
      BY DEF Remembers, Lost
    <2>3. build'.pc = "off"
      BY <2>1 DEF Off
    <2> QED
      BY <2>1, <2>2, <2>3 DEF UrlInv, Remembers
  <1>4. CASE WriteRedirects
    <2>1. UNCHANGED <<published, forgotten>> /\ build.pc = "rows"
      BY <1>4 DEF WriteRedirects, Rest
    <2>2. DOMAIN live'.redirect = Remembers(build.past) \ live.page
      BY <1>4, AfterRedirects DEF Redirected, EverExisted, Remembers
    <2>3. build'.pc = "copy" /\ build'.past = build.past /\ live'.page = live.page
      BY <1>4, AfterRedirects
    <2> QED
      BY <2>1, <2>2, <2>3 DEF UrlInv, Remembers
  <1>5. CASE CopyToArchive
    <2>1. UNCHANGED <<published, forgotten>> /\ build.pc = "copy"
      BY <1>5 DEF CopyToArchive
    <2> QED
      BY <1>5, <2>1, AfterCopy DEF UrlInv, Remembers
  <1>6. CASE Publish
    BY <1>6 DEF Publish, UrlInv, Remembers
  <1>7. CASE FreshBox
    BY <1>7 DEF FreshBox, UrlInv, Remembers
  <1>8. CASE NextQuarter \/ (\E q \in 1..MaxQuarter : Prune(q)) \/ UNCHANGED vars
    BY <1>8 DEF NextQuarter, Prune, vars, UrlInv, Remembers
  <1> QED
    BY <1>1, <1>2, <1>3, <1>4, <1>5, <1>6, <1>7, <1>8, Steps

\* A URL that was ever served has a page or a redirect in every complete file,
\* whatever employers come, go, come back, or change places
\* (snapshotPastState and everExisted).
THEOREM UrlsAreKept == Spec => []UrlsSurvive
  <1>1. Init => UrlInv
    BY DEF Init, UrlInv, Off
  <1>2. LinkInv /\ UrlInv => UrlsSurvive
    BY DEF LinkInv, UrlInv, UrlsSurvive, Remembers
  <1> QED
    BY <1>1, <1>2, TypesHold, LinksHold, UrlStep, PTL DEF Spec

-----------------------------------------------------------------------------
(* Redirects land.                                                         *)

LEMMA LandStep ==
  ASSUME TypeInv, LandInv, [Next]_vars
  PROVE  LandInv'
  <1>1. ASSUME NEW top \in Tops, NEW known \in SUBSET Employers,
               NEW linked \in SUBSET Employers, Begin(known, top, linked)
        PROVE  LandInv'
    <2>1. UNCHANGED <<archive, gone>>
      BY <1>1 DEF Begin
    <2>2. live' = NoDb /\ build'.past = live
      BY <1>1, AfterBegin
    <2>3. Lands(live)'
      BY <2>2 DEF Lands, NoDb, Nothing
    <2>4. Lands(build.past)'
      BY <2>1, <2>2 DEF LandInv, Lands
    <2> QED
      BY <2>3, <2>4 DEF LandInv
  <1>2. CASE InsertRow
    <2>1. UNCHANGED <<archive, gone>>
      BY <1>2 DEF InsertRow, Rest
    <2>2. live'.redirect = live.redirect /\ build'.past = build.past
      BY <1>2, AfterRow
    <2> QED
      BY <2>1, <2>2 DEF LandInv, Lands
  <1>3. CASE SlugTaken \/ BuildDies
    <2>1. UNCHANGED <<archive, gone, live>> /\ build' = Off
      BY <1>3 DEF SlugTaken, BuildDies, Rest
    <2>2. DOMAIN build'.past.redirect = {}
      BY <2>1 DEF Off, NoDb, Nothing
    <2> QED
      BY <2>1, <2>2 DEF LandInv, Lands
  <1>4. CASE WriteRedirects
    <2>1. UNCHANGED <<archive, gone>>
      BY <1>4 DEF WriteRedirects, Rest
    <2>2. /\ live'.redirect = [s \in Redirected(build.past) |-> Target(build.past, s)]
          /\ build'.past = build.past
      BY <1>4, AfterRedirects
    <2>3. ASSUME NEW s, Target(build.past, s) # 0
          PROVE  LET q == Target(build.past, s) IN
                 <<q, s>> \in gone \/ (q \in DOMAIN archive /\ s \in archive[q])
      <3>1. ArchiveType
        BY TypeParts
      <3>2. CASE ArchivesWith(s) # {}
        <4>1. Target(build.past, s) \in ArchivesWith(s)
          BY <3>1, <3>2, NewestIsThere DEF Target
        <4> QED
          BY <4>1 DEF ArchivesWith
      <3>3. CASE ArchivesWith(s) = {}
        <4>1. s \in DOMAIN build.past.redirect /\ Target(build.past, s) = build.past.redirect[s]
          BY <2>3, <3>3 DEF Target
        <4> QED
          BY <2>3, <4>1 DEF LandInv, Lands
      <3> QED
        BY <3>2, <3>3
    <2>4. Lands(live)'
      BY <2>1, <2>2, <2>3 DEF Lands
    <2>5. Lands(build.past)'
      BY <2>1, <2>2 DEF LandInv, Lands
    <2> QED
      BY <2>4, <2>5 DEF LandInv
  <1>5. CASE CopyToArchive
    <2>1. live'.redirect = live.redirect /\ build'.past = NoDb
      BY <1>5, AfterCopy
    <2>2. /\ archive' = [q \in DOMAIN archive \union {quarter} |->
                           IF q = quarter THEN live.page ELSE archive[q]]
          /\ gone' = (gone \ ({quarter} \X live.page))
                       \union ({quarter} \X Without(quarter, live.page))
      BY <1>5 DEF CopyToArchive
    <2>3. ASSUME NEW q, NEW s, <<q, s>> \in gone \/ (q \in DOMAIN archive /\ s \in archive[q])
          PROVE  <<q, s>> \in gone' \/ (q \in DOMAIN archive' /\ s \in archive'[q])
      <3>1. CASE q = quarter /\ s \in live.page
        BY <2>2, <3>1
      <3>2. CASE <<q, s>> \in gone /\ ~(q = quarter /\ s \in live.page)
        BY <2>2, <3>2
      <3>3. CASE q # quarter /\ q \in DOMAIN archive /\ s \in archive[q]
        BY <2>2, <3>3
      <3>4. CASE q = quarter /\ s \notin live.page /\ q \in DOMAIN archive /\ s \in archive[q]
        BY <2>2, <3>4 DEF Without
      <3> QED
        BY <2>3, <3>1, <3>2, <3>3, <3>4
    <2>4. Lands(live)'
      BY <2>1, <2>3 DEF LandInv, Lands
    <2>5. Lands(build.past)'
      BY <2>1 DEF Lands, NoDb, Nothing
    <2> QED
      BY <2>4, <2>5 DEF LandInv
  <1>6. ASSUME NEW q \in 1..MaxQuarter, Prune(q) PROVE LandInv'
    <2>1. /\ archive' = [p \in DOMAIN archive \ {q} |-> archive[p]]
          /\ gone' = gone \union ({q} \X archive[q]) /\ UNCHANGED <<live, build>>
      BY <1>6 DEF Prune
    <2>2. ASSUME NEW p, NEW s, <<p, s>> \in gone \/ (p \in DOMAIN archive /\ s \in archive[p])
          PROVE  <<p, s>> \in gone' \/ (p \in DOMAIN archive' /\ s \in archive'[p])
      <3>1. CASE p = q
        BY <2>1, <2>2, <3>1
      <3>2. CASE p # q
        BY <2>1, <2>2, <3>2
      <3> QED
        BY <3>1, <3>2
    <2> QED
      BY <2>1, <2>2 DEF LandInv, Lands
  <1>7. CASE FreshBox
    <2>1. build.pc = "off" /\ live' = NoDb /\ build' = build
      BY <1>7 DEF FreshBox
    <2>2. build = Off
      BY <2>1 DEF TypeInv, Shape
    <2>3. DOMAIN live'.redirect = {} /\ DOMAIN build'.past.redirect = {}
      BY <2>1, <2>2 DEF Off, NoDb, Nothing
    <2> QED
      BY <2>3 DEF LandInv, Lands
  <1>8. CASE Publish \/ NextQuarter \/ UNCHANGED vars
    BY <1>8 DEF Publish, NextQuarter, vars, LandInv, Lands
  <1> QED
    BY <1>1, <1>2, <1>3, <1>4, <1>5, <1>6, <1>7, <1>8, Steps

\* A redirect into an archive lands on a page of it, or that page was there
\* until the archive was overwritten or deleted (findArchiveWithSlug, and the
\* old target where no archive has the slug).
THEOREM RedirectsLand == Spec => []RedirectsLanded
  <1>1. Init => LandInv
    BY DEF Init, LandInv, Lands, Off, NoDb, Nothing
  <1>2. LandInv => RedirectsLanded
    BY DEF LandInv, Lands, RedirectsLanded
  <1> QED
    BY <1>1, <1>2, TypesHold, LandStep, PTL DEF Spec

-----------------------------------------------------------------------------
(* Archives: their pages are remembered.                                   *)

\* What an archive has, the file or the script working on it remembers.
ArchiveInv ==
  \A q \in DOMAIN archive :
    /\ build.pc = "off" => archive[q] \subseteq Remembers(live) \union forgotten
    /\ build.pc # "off" => archive[q] \subseteq Remembers(build.past) \union forgotten

LEMMA ArchiveStep ==
  ASSUME TypeInv, UrlInv, ArchiveInv, [Next]_vars
  PROVE  ArchiveInv'
  <1>1. ASSUME NEW top \in Tops, NEW known \in SUBSET Employers,
               NEW linked \in SUBSET Employers, Begin(known, top, linked)
        PROVE  ArchiveInv'
    <2>1. UNCHANGED <<archive, forgotten>>
      BY <1>1 DEF Begin
    <2> QED
      BY <1>1, <2>1, AfterBegin DEF ArchiveInv, Remembers
  <1>2. CASE InsertRow \/ WriteRedirects
    <2>1. /\ UNCHANGED <<archive, forgotten>> /\ build.pc = "rows"
      BY <1>2 DEF InsertRow, WriteRedirects
    <2>2. build'.pc # "off" /\ build'.past = build.past
      BY <1>2, AfterRow, AfterRedirects
    <2> QED
      BY <2>1, <2>2 DEF ArchiveInv, Remembers
  <1>3. CASE SlugTaken \/ BuildDies
    <2>1. /\ build.pc # "off" /\ build' = Off /\ UNCHANGED <<archive, live>>
          /\ forgotten' = forgotten \union Lost
      BY <1>3 DEF SlugTaken, BuildDies
    <2>2. Remembers(build.past) \subseteq Remembers(live) \union Lost
      BY DEF Remembers, Lost
    <2>3. build'.pc = "off"
      BY <2>1 DEF Off
    <2> QED
      BY <2>1, <2>2, <2>3 DEF ArchiveInv, Remembers
  <1>4. CASE CopyToArchive
    <2>1. /\ UNCHANGED forgotten /\ build.pc = "copy"
          /\ archive' = [q \in DOMAIN archive \union {quarter} |->
                           IF q = quarter THEN live.page ELSE archive[q]]
      BY <1>4 DEF CopyToArchive
    <2>2. build'.pc = "off" /\ Remembers(live') = Remembers(live)
      BY <1>4, AfterCopy DEF Remembers
    <2>3. Remembers(build.past) \subseteq Remembers(live)
      BY <2>1 DEF UrlInv
    <2>4. ASSUME NEW q \in DOMAIN archive' PROVE archive'[q] \subseteq Remembers(live) \union forgotten
      <3>1. CASE q = quarter
        BY <2>1, <3>1 DEF Remembers
      <3>2. CASE q # quarter
        BY <2>1, <2>3, <3>2 DEF ArchiveInv
      <3> QED
        BY <3>1, <3>2
    <2> QED
      BY <2>1, <2>2, <2>4 DEF ArchiveInv, Remembers
  <1>5. ASSUME NEW q \in 1..MaxQuarter, Prune(q) PROVE ArchiveInv'
    <2>1. /\ archive' = [p \in DOMAIN archive \ {q} |-> archive[p]]
          /\ UNCHANGED <<live, build, forgotten>>
      BY <1>5 DEF Prune
    <2> QED
      BY <2>1 DEF ArchiveInv, Remembers
  <1>6. CASE FreshBox
    BY <1>6 DEF FreshBox, Nothing, ArchiveInv
  <1>7. CASE Publish \/ NextQuarter \/ UNCHANGED vars
    BY <1>7 DEF Publish, NextQuarter, vars, ArchiveInv, Remembers
  <1> QED
    BY <1>1, <1>2, <1>3, <1>4, <1>5, <1>6, <1>7, Steps

LEMMA UrlsHold == Spec => []UrlInv
  <1>1. Init => UrlInv
    BY DEF Init, UrlInv, Off
  <1> QED
    BY <1>1, TypesHold, UrlStep, PTL DEF Spec

LEMMA ArchivesHold == Spec => []ArchiveInv
  <1>1. Init => ArchiveInv
    BY DEF Init, ArchiveInv, Nothing
  <1> QED
    BY <1>1, TypesHold, UrlsHold, ArchiveStep, PTL DEF Spec

-----------------------------------------------------------------------------
(* Sets of links.                                                          *)

Known(u) == Answers(u) \/ Moved(u) \/ IsForgotten(u)
Fine(u) == Answers(u) \/ IsTooNew(u)
AllFine(S) == \A u \in S : Fine(u)

LEMMA FineUnion ==
  ASSUME NEW S, NEW T, AllFine(S), AllFine(T)
  PROVE  AllFine(S \union T)
  BY DEF AllFine

LEMMA FixedsAnswer ==
  ASSUME NEW names, "api/docs" \notin names
  PROVE  \A u \in Fixeds(names) : Answers(u)
  BY DEF Fixeds, Fixed, Answers, FixedAnswers

LEMMA ApiDocsFine == AllFine(ApiDocs)
  BY DEF AllFine, Fine, ApiDocs, Fixeds, Fixed, Answers, FixedAnswers

LEMMA ListsFine == AllFine(Lists)
  BY DEF AllFine, Fine, Lists, ListOf, Answers

LEMMA EntitiesFine ==
  ASSUME NEW k, NEW slugs, slugs \subseteq SlugsOf(k)
  PROVE  AllFine(Entities(k, slugs))
  <1>1. ASSUME NEW s \in slugs PROVE Answers(Entity(k, s))
    BY <1>1 DEF Entity, Answers, EntityAnswers
  <1> QED
    BY <1>1 DEF AllFine, Fine, Entities

LEMMA ComparisonFine ==
  ASSUME NEW k, NEW a \in SlugsOf(k), NEW b \in SlugsOf(k)
  PROVE  Fine(Comparison(k, a, b))
  BY DEF Fine, Comparison, Answers, ComparisonAnswers

\* The slugs of employers in the top tables, wherever they are shown.
LEMMA CrossRefsFine ==
  ASSUME live.whole, LinksResolve
  PROVE  AllFine(Entities("employer", CrossRefs))
  <1>1. ASSUME NEW s \in CrossRefs PROVE Fine(Entity("employer", s))
    <2>1. PICK k \in links : s = k.slug
      BY <1>1 DEF CrossRefs
    <2>2. CASE \E l \in links : l.seen /\ l.slug = s
      <3>1. s \in live.page
        BY <2>2 DEF LinksResolve
      <3> QED
        BY <3>1 DEF Fine, Entity, Answers, EntityAnswers, SlugsOf, SlugsAmong
    <2>3. CASE ~(\E l \in links : l.seen /\ l.slug = s)
      <3>1. s \in TooNew
        BY <2>1, <2>3 DEF TooNew
      <3> QED
        BY <3>1 DEF Fine, IsTooNew, Entity
    <2> QED
      BY <2>2, <2>3
  <1> QED
    BY <1>1 DEF AllFine, Entities

LEMMA JoinsHaveRows ==
  /\ EmployerTopSocs \subseteq SlugsOf("occupation")
  /\ OccupationTopStates \subseteq SlugsOf("state")
  /\ StateTopOccupations \subseteq SlugsOf("occupation")
  /\ SectorTopOccupations \subseteq SlugsOf("occupation")
  /\ SectorTopStates \subseteq SlugsOf("state")
  BY DEF EmployerTopSocs, OccupationTopStates, StateTopOccupations, SectorTopOccupations,
         SectorTopStates, LeftJoin

LEMMA OneListFine == ASSUME NEW k PROVE AllFine({ListOf(k)})
  BY DEF AllFine, Fine, ListOf, Answers

LEMMA FixedsFine ==
  ASSUME NEW names, "api/docs" \notin names
  PROVE  AllFine(Fixeds(names))
  BY FixedsAnswer DEF AllFine, Fine

LEMMA RowsFine == \A k : AllFine(Entities(k, SlugsOf(k)))
  BY EntitiesFine

LEMMA ItselfFine ==
  ASSUME NEW k, NEW s \in SlugsOf(k)
  PROVE  AllFine(Itself(k, s))
  <1>1. Itself(k, s) = Entities(k, {s})
    BY DEF Itself, Entities
  <1> QED
    BY <1>1, EntitiesFine

LEMMA PickerFine ==
  ASSUME NEW k, NEW s \in SlugsOf(k)
  PROVE  AllFine(ComparePicker(k, s))
  BY ComparisonFine DEF AllFine, ComparePicker

LEMMA SwapperFine ==
  ASSUME NEW k, NEW a \in SlugsOf(k), NEW b \in SlugsOf(k)
  PROVE  AllFine(CompareSwapper(k, a, b))
  <1>1. ASSUME NEW u \in CompareSwapper(k, a, b) PROVE Fine(u)
    <2>1. PICK p \in SlugsOf(k) : u = Comparison(k, p, b) \/ u = Comparison(k, a, p)
      BY <1>1 DEF CompareSwapper
    <2> QED
      BY <2>1, ComparisonFine
  <1> QED
    BY <1>1 DEF AllFine

LEMMA SidesFine ==
  ASSUME NEW k, NEW a \in SlugsOf(k), NEW b \in SlugsOf(k)
  PROVE  AllFine(Sides(k, a, b))
  <1>1. AllFine(Entities(k, {a, b}))
    BY EntitiesFine
  <1> QED
    BY <1>1, OneListFine, FineUnion DEF Sides

LEMMA SeeAlsoFine == \A k \in Kinds : AllFine(SeeAlsoLinks(k))
  <1> SUFFICES ASSUME NEW k \in Kinds PROVE AllFine(SeeAlsoLinks(k))
    OBVIOUS
  <1>1. CASE k = "employer"
    BY <1>1, FixedsFine DEF SeeAlsoLinks
  <1>2. CASE k = "occupation"
    BY <1>2, FixedsFine DEF SeeAlsoLinks
  <1>3. CASE k = "state"
    BY <1>3, FixedsFine DEF SeeAlsoLinks
  <1>4. CASE k = "sector"
    BY <1>4, FixedsFine DEF SeeAlsoLinks
  <1> QED
    BY <1>1, <1>2, <1>3, <1>4 DEF Kinds

\* The links into other tables, on whatever page they stand.
LEMMA TopTablesFine ==
  ASSUME live.whole, LinksResolve
  PROVE  /\ AllFine(EmployerTops) /\ AllFine(OccupationTops)
         /\ AllFine(StateTops) /\ AllFine(SectorTops)
         /\ AllFine(Entities("employer", state_top_employer))
  <1>1. /\ AllFine(Entities("occupation", EmployerTopSocs))
        /\ AllFine(Entities("state", OccupationTopStates))
        /\ AllFine(Entities("occupation", StateTopOccupations))
        /\ AllFine(Entities("occupation", SectorTopOccupations))
        /\ AllFine(Entities("state", SectorTopStates))
    BY JoinsHaveRows, EntitiesFine
  <1>2. /\ AllFine(Entities("employer", occupation_top_employer))
        /\ AllFine(Entities("employer", state_top_employer))
        /\ AllFine(Entities("employer", sector_top_employer))
    BY CrossRefsFine DEF occupation_top_employer, state_top_employer, sector_top_employer
  <1> QED
    BY <1>1, <1>2, FineUnion DEF EmployerTops, OccupationTops, StateTops, SectorTops

-----------------------------------------------------------------------------
(* Pages.                                                                  *)

LEMMA EntityPagesFine ==
  ASSUME live.whole, LinksResolve
  PROVE  AllFine(EntityPages)
  <1>1. ASSUME NEW s \in SlugsOf("employer") PROVE AllFine(EmployerPage(s))
    BY TopTablesFine, OneListFine, ItselfFine, PickerFine, SeeAlsoFine, FineUnion DEF EmployerPage, Kinds
  <1>2. ASSUME NEW s \in SlugsOf("occupation") PROVE AllFine(OccupationPage(s))
    BY TopTablesFine, OneListFine, ItselfFine, PickerFine, SeeAlsoFine, FineUnion DEF OccupationPage, Kinds
  <1>3. ASSUME NEW s \in SlugsOf("state") PROVE AllFine(StatePage(s))
    BY TopTablesFine, OneListFine, ItselfFine, PickerFine, SeeAlsoFine, FineUnion DEF StatePage, Kinds
  <1>4. ASSUME NEW s \in SlugsOf("sector") PROVE AllFine(SectorPage(s))
    BY TopTablesFine, OneListFine, ItselfFine, PickerFine, SeeAlsoFine, FineUnion DEF SectorPage, Kinds
  <1> QED
    BY <1>1, <1>2, <1>3, <1>4 DEF AllFine, EntityPages

LEMMA ComparePagesFine ==
  ASSUME live.whole, LinksResolve
  PROVE  AllFine(ComparePages)
  <1>1. ASSUME NEW a \in SlugsOf("employer"), NEW b \in SlugsOf("employer")
        PROVE  AllFine(CompareEmployersPage(a, b))
    BY TopTablesFine, SidesFine, SwapperFine, FineUnion DEF CompareEmployersPage
  <1>2. ASSUME NEW a \in SlugsOf("occupation"), NEW b \in SlugsOf("occupation")
        PROVE  AllFine(CompareOccupationsPage(a, b))
    BY TopTablesFine, SidesFine, SwapperFine, FineUnion DEF CompareOccupationsPage
  <1>3. ASSUME NEW a \in SlugsOf("state"), NEW b \in SlugsOf("state")
        PROVE  AllFine(CompareStatesPage(a, b))
    BY TopTablesFine, SidesFine, SwapperFine, FineUnion DEF CompareStatesPage
  <1>4. ASSUME NEW a \in SlugsOf("sector"), NEW b \in SlugsOf("sector")
        PROVE  AllFine(CompareSectorsPage(a, b))
    BY TopTablesFine, SidesFine, SwapperFine, FineUnion DEF CompareSectorsPage
  <1> QED
    BY <1>1, <1>2, <1>3, <1>4 DEF AllFine, ComparePages

LEMMA ListPagesFine ==
  ASSUME live.whole, LinksResolve
  PROVE  AllFine(ListPages) /\ AllFine(RankingPages)
  <1>1. AllFine(UsChoropleth)
    BY TopTablesFine, RowsFine, FineUnion DEF UsChoropleth
  <1>2. AllFine(ListPages)
    BY <1>1, RowsFine, FineUnion DEF ListPages, EmployerIndex, OccupationIndex, StateIndex,
       SectorIndex, EmployerExplorer, OccupationExplorer, StateExplorer, SectorExplorer
  <1>3. ASSUME NEW k PROVE AllFine(RankingPage(k))
    BY RowsFine, FixedsFine, FineUnion DEF RankingPage, PaginatedRankingTable, ItemList
  <1>4. AllFine(RankingsIndex)
    BY FixedsFine DEF RankingsIndex, RankingNames
  <1>5. AllFine(RankingPages)
    BY <1>3, <1>4, FineUnion DEF RankingPages, TopH1bSponsors, CleanestH1bSponsors,
       TopH1bOccupations, HighestPayingH1bJobs, TopH1bStates, H1bByIndustry
  <1> QED
    BY <1>2, <1>5

\* Rows of all kinds: the sitemap and the search.
LEMMA AllRowsFine == AllFine(UNION {Entities(k, SlugsOf(k)) : k \in Kinds})
  BY RowsFine DEF AllFine

LEMMA OtherPagesFine ==
  /\ AllFine(SiteHeader) /\ AllFine(MobileNav) /\ AllFine(SiteFooter)
  /\ AllFine(HomePage) /\ AllFine(ForecastPage) /\ AllFine(SearchPage)
  /\ AllFine(TextPages) /\ AllFine(Sitemap)
  <1>1. AllFine(SiteHeader) /\ AllFine(MobileNav) /\ AllFine(SiteFooter)
    BY FixedsFine, ListsFine, ApiDocsFine, FineUnion DEF SiteHeader, MobileNav, SiteFooter
  <1>2. AllFine(HomeTopTables) /\ AllFine(HomeCharts)
    BY FixedsFine, RowsFine, FineUnion DEF HomeTopTables, HomeCharts
  <1>3. AllFine(HomePage)
    BY <1>2, FixedsFine, ListsFine, ApiDocsFine, FineUnion DEF HomePage
  <1>4. AllFine(ForecastPage)
    BY FixedsFine, RowsFine, FineUnion DEF ForecastPage, LeaderTable
  <1>5. AllFine(SearchPage)
    BY AllRowsFine, OneListFine, FineUnion DEF SearchPage, SearchResults
  <1>6. AllFine(TextPages)
    BY FixedsFine, FineUnion DEF TextPages, NotFound, AboutPage, MethodologyPage, PrivacyPage
  <1>7. AllFine(Sitemap)
    BY AllRowsFine, FixedsFine, ListsFine, FineUnion DEF Sitemap, RankingNames
  <1> QED
    BY <1>1, <1>3, <1>4, <1>5, <1>6, <1>7

LEMMA ApiFine ==
  ASSUME live.whole, LinksResolve
  PROVE  AllFine(ApiAnswers)
  <1>1. AllFine(ApiLists)
    BY RowsFine, FineUnion DEF ApiLists, ApiEmployers, ApiOccupations, ApiStates, ApiSectors
  <1>2. /\ \A s \in SlugsOf("employer") : AllFine(ApiEmployer(s))
        /\ \A s \in SlugsOf("occupation") : AllFine(ApiOccupation(s))
        /\ \A s \in SlugsOf("state") : AllFine(ApiState(s))
        /\ \A s \in SlugsOf("sector") : AllFine(ApiSector(s))
    BY TopTablesFine, ItselfFine, FineUnion DEF ApiEmployer, ApiOccupation, ApiState, ApiSector
  <1>3. AllFine(ApiDetails)
    BY <1>2 DEF AllFine, ApiDetails
  <1> QED
    BY <1>1, <1>3, FineUnion DEF ApiAnswers, AllFine

\* No link of a complete lca.db is dead, for any rows, top tables and codes:
\* the links to employers by what the builds guarantee, the rest by the LEFT
\* JOINs of lib/queries.ts.
THEOREM NoLinkIsDead == Spec => []NoDeadLinks
  <1>1. LinksResolve => NoDeadLinks
    <2> SUFFICES ASSUME LinksResolve, live.whole PROVE AllFine(LiveLinks)
      BY DEF NoDeadLinks, AllFine, Fine
    <2> QED
      BY EntityPagesFine, ComparePagesFine, ListPagesFine, OtherPagesFine, ApiFine, FineUnion
         DEF LiveLinks
  <1> QED
    BY <1>1, LinksAreGood, PTL

-----------------------------------------------------------------------------
(* Links of the archive.                                                   *)

\* "See current data" on an archived page, and every other link of the
\* archive, leads to a page or a redirect, whatever was dropped since: for an
\* employer it is what snapshotPastState carries from build to build.
THEOREM ArchiveIsLinked == Spec => []ArchiveLinksBack
  <1>1. ArchiveInv /\ LinkInv => ArchiveLinksBack
    <2> SUFFICES ASSUME ArchiveInv, LinkInv, live.whole, NEW u \in ArchiveLinks
                 PROVE  Known(u)
      BY DEF ArchiveLinksBack, Known
    <2>1. build.pc = "off"
      BY DEF LinkInv
    <2>2. ASSUME NEW q \in DOMAIN archive PROVE Known(Snapshot(q))
      BY <2>2 DEF Known, Answers, Snapshot, SnapshotAnswers
    <2>3. ASSUME NEW q \in DOMAIN archive, NEW k \in Kinds, NEW s \in SlugsIn(q, k)
          PROVE  Known(Archived(q, k, s)) /\ Known(Entity(k, s))
      <3>1. Known(Archived(q, k, s))
        BY <2>3 DEF Known, Answers, Archived, ArchivedAnswers, SnapshotAnswers
      <3>2. CASE k = "employer"
        <4>1. s \in archive[q]
          BY <2>3, <3>2 DEF SlugsIn, SlugsAmong
        <4>2. s \in live.page \union DOMAIN live.redirect \union forgotten
          BY <2>1, <2>3, <4>1 DEF ArchiveInv, Remembers
        <4> QED
          BY <3>1, <3>2, <4>2 DEF Known, Answers, Entity, EntityAnswers, SlugsOf, SlugsAmong,
                                  Moved, IsForgotten
      <3>3. CASE k # "employer"
        <4>1. SlugsIn(q, k) = SlugsOf(k)
          BY <3>3 DEF SlugsIn, SlugsOf, SlugsAmong, Kinds
        <4> QED
          BY <2>3, <3>1, <4>1 DEF Known, Answers, Entity, EntityAnswers
      <3> QED
        BY <3>2, <3>3
    <2>4. CASE u \in ArchiveIndexPage
      BY <2>2, <2>4 DEF ArchiveIndexPage
    <2>5. ASSUME NEW q \in DOMAIN archive, u \in ArchiveLabelPage(q) PROVE Known(u)
      <3>1. CASE u \in Fixeds({"home"})
        BY <3>1, FixedsAnswer DEF Known
      <3>2. CASE \E k \in Kinds : u \in TopList(q, k)
        BY <2>3, <3>2 DEF TopList
      <3> QED
        BY <2>5, <3>1, <3>2 DEF ArchiveLabelPage
    <2>6. ASSUME NEW q \in DOMAIN archive, u \in ArchivedPages(q) PROVE Known(u)
      <3>1. PICK k \in Kinds : \E s \in SlugsIn(q, k) : u = Entity(k, s) \/ u = Snapshot(q)
        BY <2>6 DEF ArchivedPages, ArchivedEmployer, ArchivedOccupation, ArchivedState,
                    ArchivedSector, ArchiveBanner, Kinds
      <3>2. PICK s \in SlugsIn(q, k) : u = Entity(k, s) \/ u = Snapshot(q)
        BY <3>1
      <3> QED
        BY <2>2, <2>3, <2>6, <3>2
    <2> QED
      BY <2>4, <2>5, <2>6 DEF ArchiveLinks
  <1> QED
    BY <1>1, ArchivesHold, LinksHold, PTL


-----------------------------------------------------------------------------
(* The keys of the data API (module ApiKeys).                               *)

Counters == [count : Nat, start : Nat]
Requests == [key : Keys, start : Nat, n : Nat, remaining : Nat]
Refusals == [at : Nat, reset : Nat]
Grants   == [at : Nat, start : Nat]

\* The types, and a counter that has begun and is within its limit.
KeyTypes ==
  /\ now \in Nat /\ restarts \in Nat
  /\ row \in [Keys -> {"none", "active", "revoked"}]
  /\ counter \in [Keys -> Counters \union {None}]
  /\ \A k \in Keys : counter[k] # None => counter[k].count <= Limit[k] /\ counter[k].start <= now
  /\ open \subseteq Requests
  /\ refused \in [Keys -> Refusals \union {None}]
  /\ \A k \in Keys : refused[k] # None => refused[k].at <= now
  /\ granted \in [Keys -> Seq(Grants)]
  /\ \A k \in Keys : \A i \in DOMAIN granted[k] : granted[k][i].at <= now

LEMMA KeyConstants ==
  /\ \A k \in Keys : Limit[k] \in Nat \ {0}
  /\ Window \in Nat \ {0} /\ Second \in Nat \ {0}
  /\ None \notin Counters /\ None \notin Refusals
  <1>1. PICK n \in 1..Window : Window = n * Second
    BY ApiKeysAssumption
  <1>2. Second \in Nat \ {0}
    BY ApiKeysAssumption
  <1>3. Window \in Nat \ {0}
    <2>1. n \in Int /\ 1 <= n
      BY <1>1
    <2> QED
      BY <1>1, <1>2, <2>1
  <1> QED
    BY <1>2, <1>3, ApiKeysAssumption DEF Counters, Refusals

\* What checkAndIncrement counts in: the counter there is, or a new one.
LEMMA CounterShape ==
  ASSUME KeyTypes, NEW k \in Keys
  PROVE  /\ Counter(k) \in Counters
         /\ \/ Counter(k) = [count |-> 0, start |-> now] /\ Over(counter[k])
            \/ /\ Counter(k) = counter[k] /\ counter[k] # None
               /\ now - counter[k].start < Window
  <1>1. CASE Over(counter[k])
    BY <1>1 DEF Counter, Counters, KeyTypes
  <1>2. CASE ~Over(counter[k])
    <2>1. counter[k] # None /\ counter[k] \in Counters /\ ~(now - counter[k].start >= Window)
      BY <1>2 DEF Over, KeyTypes
    <2>2. now - counter[k].start \in Int /\ counter[k].start \in Nat
      BY <2>1 DEF Counters, KeyTypes
    <2> QED
      BY <1>2, <2>1, <2>2, KeyConstants DEF Counter
  <1> QED
    BY <1>1, <1>2

\* A refused request leaves the counter as it is: a new window has room.
LEMMA RefuseLeavesCounter ==
  ASSUME KeyTypes, NEW k \in Keys, Refuse(k)
  PROVE  /\ counter' = counter /\ Counter(k) = counter[k] /\ counter[k] # None
         /\ now - counter[k].start < Window
  <1>1. Limit[k] \in Nat \ {0} /\ Counter(k).count >= Limit[k]
    BY KeyConstants DEF Refuse
  <1>2. Counter(k) # [count |-> 0, start |-> now]
    BY <1>1
  <1>3. Counter(k) = counter[k] /\ counter[k] # None /\ now - counter[k].start < Window
    BY <1>2, CounterShape
  <1>4. counter' = [counter EXCEPT ![k] = counter[k]]
    BY <1>3 DEF Refuse
  <1> QED
    BY <1>3, <1>4 DEF KeyTypes

LEMMA RoundedUp ==
  ASSUME NEW x \in Nat, NEW s \in Nat \ {0}
  PROVE  (x + s - 1) \div s \in Nat /\ ((x + s - 1) \div s) * s >= x
  BY SMT

\* A refusal says when the window is over, or later.
LEMMA ResetReaches ==
  ASSUME KeyTypes, NEW c \in Counters, c.start <= now, now - c.start < Window
  PROVE  ResetSec(c) \in Nat /\ now + ResetSec(c) * Second >= c.start + Window
  <1> DEFINE left == c.start + Window - now
  <1>1. now \in Nat /\ c.start \in Nat /\ Window \in Nat /\ Second \in Nat \ {0}
    BY KeyConstants DEF Counters, KeyTypes
  <1>2. left \in Nat
    BY <1>1
  <1>3. ResetSec(c) = (left + Second - 1) \div Second
    BY DEF ResetSec
  <1>4. ResetSec(c) \in Nat /\ ResetSec(c) * Second >= left
    <2> HIDE DEF left
    <2> QED
      BY <1>1, <1>2, <1>3, RoundedUp
  <1>5. ResetSec(c) * Second \in Nat
    BY <1>1, <1>4
  <1> QED
    BY <1>1, <1>4, <1>5

\* withAuth lets a request in.
LEMMA GrantShape ==
  ASSUME KeyTypes, NEW k \in Keys, Grant(k)
  PROVE  \E c \in Counters :
           /\ c = Counter(k) /\ c.count < Limit[k] /\ c.start <= now
           /\ counter' = [counter EXCEPT ![k] = [count |-> c.count + 1, start |-> c.start]]
           /\ \E r \in Requests :
                /\ open' = open \union {r}
                /\ r.key = k /\ r.start = c.start /\ r.remaining = Limit[k] - (c.count + 1)
           /\ granted' = [granted EXCEPT ![k] = Append(granted[k], [at |-> now, start |-> c.start])]
           /\ UNCHANGED <<now, row, refused, restarts>>
  <1>1. PICK c \in Counters : c = Counter(k)
    BY CounterShape
  <1>2. c.count \in Nat /\ c.start \in Nat /\ Limit[k] \in Nat /\ now \in Nat
    BY KeyConstants DEF Counters, KeyTypes
  <1>3. c.count < Limit[k]
    BY <1>1 DEF Grant
  <1>4. c.start <= now
    BY <1>1, <1>2, CounterShape DEF KeyTypes
  <1>5. [c EXCEPT !.count = @ + 1] = [count |-> c.count + 1, start |-> c.start]
    BY DEF Counters
  <1>6. Len(granted[k]) \in Nat
    BY DEF KeyTypes
  <1>7. [key |-> k, start |-> c.start, n |-> Len(granted[k]),
         remaining |-> Limit[k] - (c.count + 1)] \in Requests
    BY <1>2, <1>3, <1>6 DEF Requests
  <1> QED
    BY <1>1, <1>3, <1>4, <1>5, <1>7 DEF Grant

LEMMA KeyInitTypes == ApiInit => KeyTypes
  BY ApiKeysAssumption DEF ApiInit, KeyTypes

LEMMA KeyStepTypes == KeyTypes /\ [ApiNext]_apiVars => KeyTypes'
  <1> SUFFICES ASSUME KeyTypes, [ApiNext]_apiVars PROVE KeyTypes'
    OBVIOUS
  <1>0. now \in Nat /\ restarts \in Nat
    BY DEF KeyTypes
  <1>1. CASE Tick
    <2>1. \A n \in Nat : n <= now => n <= now + 1
      BY <1>0
    <2>2. /\ \A k \in Keys : counter[k] # None => counter[k].start \in Nat
          /\ \A k \in Keys : refused[k] # None => refused[k].at \in Nat
          /\ \A k \in Keys : \A i \in DOMAIN granted[k] : granted[k][i].at \in Nat
      <3>1. \A k \in Keys : \A i \in DOMAIN granted[k] : granted[k][i] \in Grants
        BY DEF KeyTypes
      <3> QED
        BY <3>1 DEF KeyTypes, Counters, Refusals, Grants
    <2> QED
      BY <1>0, <1>1, <2>1, <2>2 DEF Tick, KeyTypes
  <1>2. CASE Return
    BY <1>2 DEF Return, KeyTypes
  <1>3. CASE Restart
    BY <1>0, <1>3 DEF Restart, KeyTypes
  <1>4. ASSUME NEW k \in Keys, Create(k) \/ Revoke(k)
        PROVE  KeyTypes'
    <2>1. /\ UNCHANGED <<now, counter, open, refused, granted, restarts>>
          /\ \E to \in {"active", "revoked"} : row' = [row EXCEPT ![k] = to]
      BY <1>4 DEF Create, Revoke
    <2>2. row' \in [Keys -> {"none", "active", "revoked"}]
      BY <2>1 DEF KeyTypes
    <2> QED
      BY <2>1, <2>2 DEF KeyTypes
  <1>5. ASSUME NEW k \in Keys, Grant(k)
        PROVE  KeyTypes'
    <2>1. PICK c \in Counters :
           /\ c = Counter(k) /\ c.count < Limit[k] /\ c.start <= now
           /\ counter' = [counter EXCEPT ![k] = [count |-> c.count + 1, start |-> c.start]]
           /\ \E r \in Requests :
                /\ open' = open \union {r}
                /\ r.key = k /\ r.start = c.start /\ r.remaining = Limit[k] - (c.count + 1)
           /\ granted' = [granted EXCEPT ![k] = Append(granted[k], [at |-> now, start |-> c.start])]
           /\ UNCHANGED <<now, row, refused, restarts>>
      BY <1>5, GrantShape
    <2>2. c.count \in Nat /\ c.start \in Nat /\ Limit[k] \in Nat /\ c.count + 1 <= Limit[k]
      BY <2>1, KeyConstants DEF Counters
    <2>3. [count |-> c.count + 1, start |-> c.start] \in Counters
      BY <2>2 DEF Counters
    <2>4. /\ counter' \in [Keys -> Counters \union {None}]
          /\ \A j \in Keys : counter'[j] # None => counter'[j].count <= Limit[j] /\ counter'[j].start <= now
      BY <2>1, <2>2, <2>3 DEF KeyTypes
    <2>5. [at |-> now, start |-> c.start] \in Grants /\ granted[k] \in Seq(Grants)
      BY <1>0, <2>2 DEF Grants, KeyTypes
    <2>6. /\ granted' \in [Keys -> Seq(Grants)]
          /\ \A j \in Keys : \A i \in DOMAIN granted'[j] : granted'[j][i].at <= now
      <3>1. \A i \in DOMAIN Append(granted[k], [at |-> now, start |-> c.start]) :
              Append(granted[k], [at |-> now, start |-> c.start])[i].at <= now
        BY <1>0, <2>5 DEF KeyTypes
      <3> QED
        BY <2>1, <2>5, <3>1 DEF KeyTypes
    <2> QED
      BY <2>1, <2>4, <2>6 DEF KeyTypes
  <1>6. ASSUME NEW k \in Keys, Refuse(k)
        PROVE  KeyTypes'
    <2>1. counter' = counter /\ Counter(k) = counter[k] /\ counter[k] \in Counters
      BY <1>6, RefuseLeavesCounter DEF KeyTypes
    <2>2. ResetSec(Counter(k)) \in Nat
      BY <1>6, <2>1, RefuseLeavesCounter, ResetReaches DEF KeyTypes
    <2>3. [at |-> now, reset |-> ResetSec(Counter(k))] \in Refusals
      BY <1>0, <2>2 DEF Refusals
    <2> QED
      BY <1>0, <1>6, <2>1, <2>3 DEF Refuse, KeyTypes
  <1>7. CASE UNCHANGED apiVars
    BY <1>7 DEF apiVars, KeyTypes
  <1> QED
    BY <1>1, <1>2, <1>3, <1>4, <1>5, <1>6, <1>7 DEF ApiNext

\* Types hold in every state, and no counter is above its limit or begins in
\* the future, whoever calls checkAndIncrement and whenever the process is
\* replaced.
THEOREM KeyTypesHold == ApiSpec => []KeyTypes
  BY KeyInitTypes, KeyStepTypes, PTL DEF ApiSpec

-----------------------------------------------------------------------------
(* The numbers of the headers.                                             *)

\* An open request was counted in the counter there is, or in an earlier one,
\* and those of the same window were told more than is left now.
OpenInv ==
  \A r \in open :
    /\ counter[r.key] # None /\ r.start <= counter[r.key].start
    /\ r.start = counter[r.key].start =>
         Limit[r.key] - counter[r.key].count <= r.remaining

NumbersInv == KeyTypes /\ OpenInv /\ RemainingIsDistinct

LEMMA NumbersStep == NumbersInv /\ [ApiNext]_apiVars => NumbersInv'
  <1> SUFFICES ASSUME NumbersInv, [ApiNext]_apiVars PROVE OpenInv' /\ RemainingIsDistinct'
    BY KeyStepTypes DEF NumbersInv
  <1>0. KeyTypes /\ KeyTypes' /\ OpenInv /\ RemainingIsDistinct
    BY KeyStepTypes DEF NumbersInv
  <1>1. ASSUME counter' = counter, open' \subseteq open
        PROVE  OpenInv' /\ RemainingIsDistinct'
    BY <1>0, <1>1 DEF OpenInv, RemainingIsDistinct
  <1>2. CASE Restart
    BY <1>2 DEF Restart, OpenInv, RemainingIsDistinct
  <1>3. ASSUME NEW k \in Keys, Grant(k)
        PROVE  OpenInv' /\ RemainingIsDistinct'
    <2>1. PICK c \in Counters :
           /\ c = Counter(k) /\ c.count < Limit[k] /\ c.start <= now
           /\ counter' = [counter EXCEPT ![k] = [count |-> c.count + 1, start |-> c.start]]
           /\ \E r \in Requests :
                /\ open' = open \union {r}
                /\ r.key = k /\ r.start = c.start /\ r.remaining = Limit[k] - (c.count + 1)
           /\ granted' = [granted EXCEPT ![k] = Append(granted[k], [at |-> now, start |-> c.start])]
           /\ UNCHANGED <<now, row, refused, restarts>>
      BY <1>0, <1>3, GrantShape
    <2>2. PICK r \in Requests :
            /\ open' = open \union {r}
            /\ r.key = k /\ r.start = c.start /\ r.remaining = Limit[k] - (c.count + 1)
      BY <2>1
    <2>3. /\ c.count \in Nat /\ c.start \in Nat /\ Limit[k] \in Nat \ {0} /\ now \in Nat
          /\ counter'[k].count = c.count + 1 /\ counter'[k].start = c.start
          /\ counter'[k] # None
          /\ \A j \in Keys \ {k} : counter'[j] = counter[j]
      <3>1. [count |-> c.count + 1, start |-> c.start] \in Counters
        BY DEF Counters
      <3> QED
        BY <1>0, <2>1, <3>1, KeyConstants DEF Counters, KeyTypes
    \* The other requests of the key.
    <2>4. ASSUME NEW s \in open, s.key = k
          PROVE  /\ s.start <= c.start /\ s.start \in Nat /\ s.remaining \in Nat
                 /\ s.start = c.start => Limit[k] - c.count <= s.remaining
      <3>1. /\ counter[k] # None /\ s.start <= counter[k].start
            /\ s.start = counter[k].start => Limit[k] - counter[k].count <= s.remaining
            /\ s.start \in Nat /\ s.remaining \in Nat
        BY <1>0, <2>4 DEF OpenInv, KeyTypes, Requests
      <3>2. CASE c = counter[k]
        BY <3>1, <3>2
      <3>3. CASE c = [count |-> 0, start |-> now] /\ Over(counter[k])
        <4>1. now - counter[k].start >= Window /\ counter[k].start \in Nat /\ Window \in Nat \ {0}
          BY <1>0, <3>1, <3>3, KeyConstants DEF Over, KeyTypes, Counters
        <4>2. s.start < now
          BY <2>3, <3>1, <4>1
        <4> QED
          BY <2>3, <3>1, <3>3, <4>2
      <3> QED
        BY <1>0, <2>1, <3>2, <3>3, CounterShape
    <2>5. OpenInv'
      <3> SUFFICES ASSUME NEW s \in open'
                   PROVE  /\ counter'[s.key] # None /\ s.start <= counter'[s.key].start
                          /\ s.start = counter'[s.key].start =>
                               Limit[s.key] - counter'[s.key].count <= s.remaining
        BY DEF OpenInv
      <3>1. CASE s = r
        BY <2>2, <2>3, <3>1
      <3>2. CASE s \in open /\ s.key = k
        BY <2>3, <2>4, <3>2
      <3>3. CASE s \in open /\ s.key # k
        <4>1. s.key \in Keys
          BY <1>0, <3>3 DEF KeyTypes, Requests
        <4> QED
          BY <1>0, <2>3, <3>3, <4>1 DEF OpenInv
      <3> QED
        BY <2>2, <3>1, <3>2, <3>3
    <2>6. \A s \in open : s.key = k /\ s.start = c.start => r.remaining < s.remaining
      BY <2>2, <2>3, <2>4
    <2>7. r.remaining >= 0 /\ r.remaining \in Nat
      BY DEF Requests
    <2>8. RemainingIsDistinct'
      <3> SUFFICES ASSUME NEW s \in open', NEW t \in open'
                   PROVE  /\ s.remaining >= 0
                          /\ s # t /\ s.key = t.key /\ s.start = t.start => s.remaining # t.remaining
        BY DEF RemainingIsDistinct
      <3>1. \A u \in open : u.remaining \in Nat
        BY <1>0 DEF KeyTypes, Requests
      <3>2. CASE s \in open /\ t \in open
        BY <1>0, <3>2 DEF RemainingIsDistinct
      <3>3. CASE s = r /\ t \in open
        BY <2>2, <2>6, <2>7, <3>1, <3>3
      <3>4. CASE s \in open /\ t = r
        BY <2>2, <2>6, <2>7, <3>1, <3>4
      <3>5. CASE s = r /\ t = r
        BY <2>7, <3>5
      <3> QED
        BY <2>2, <3>2, <3>3, <3>4, <3>5
    <2> QED
      BY <2>5, <2>8
  <1>4. ASSUME NEW k \in Keys, Refuse(k)
        PROVE  OpenInv' /\ RemainingIsDistinct'
    <2>1. counter' = counter /\ open' \subseteq open
      BY <1>0, <1>4, RefuseLeavesCounter DEF Refuse
    <2> QED
      BY <1>1, <2>1
  <1>5. CASE Tick \/ Return \/ (\E k \in Keys : Create(k) \/ Revoke(k)) \/ UNCHANGED apiVars
    <2>1. counter' = counter /\ open' \subseteq open
      BY <1>5 DEF Tick, Return, Create, Revoke, apiVars
    <2> QED
      BY <1>1, <2>1
  <1> QED
    BY <1>2, <1>3, <1>4, <1>5 DEF ApiNext

\* Requests that are open in one window are told different numbers, none of
\* them negative, however many are served at once: checkAndIncrement counts
\* before the first await (auth.ts, withAuth).
THEOREM RemainingDiffers == ApiSpec => []RemainingIsDistinct
  <1>1. ApiInit => NumbersInv
    BY KeyInitTypes DEF ApiInit, NumbersInv, OpenInv, RemainingIsDistinct
  <1>2. NumbersInv => RemainingIsDistinct
    BY DEF NumbersInv
  <1> QED
    BY <1>1, <1>2, NumbersStep, PTL DEF ApiSpec

-----------------------------------------------------------------------------
(* Retry-After.                                                            *)

\* A refusal names the end of the window it was refused in, or that window
\* is over.
RefusalInv ==
  \A k \in Keys : refused[k] # None =>
    /\ counter[k] # None
    /\ \/ counter[k].start > refused[k].at
       \/ /\ refused[k].at < counter[k].start + Window
          /\ refused[k].at + refused[k].reset * Second >= counter[k].start + Window

ResetInv == KeyTypes /\ RefusalInv

LEMMA ResetStep == ResetInv /\ [ApiNext]_apiVars => ResetInv'
  <1> SUFFICES ASSUME ResetInv, [ApiNext]_apiVars PROVE RefusalInv'
    BY KeyStepTypes DEF ResetInv
  <1>0. KeyTypes /\ RefusalInv
    BY DEF ResetInv
  <1>1. ASSUME UNCHANGED <<counter, refused>>
        PROVE  RefusalInv'
    BY <1>0, <1>1 DEF RefusalInv
  <1>2. CASE Restart
    BY <1>2 DEF Restart, RefusalInv
  <1>3. ASSUME NEW k \in Keys, Grant(k)
        PROVE  RefusalInv'
    <2>1. PICK c \in Counters :
           /\ c = Counter(k) /\ c.count < Limit[k] /\ c.start <= now
           /\ counter' = [counter EXCEPT ![k] = [count |-> c.count + 1, start |-> c.start]]
           /\ \E r \in Requests :
                /\ open' = open \union {r}
                /\ r.key = k /\ r.start = c.start /\ r.remaining = Limit[k] - (c.count + 1)
           /\ granted' = [granted EXCEPT ![k] = Append(granted[k], [at |-> now, start |-> c.start])]
           /\ UNCHANGED <<now, row, refused, restarts>>
      BY <1>0, <1>3, GrantShape
    <2>2. /\ counter'[k].start = c.start /\ counter'[k] # None
          /\ \A j \in Keys \ {k} : counter'[j] = counter[j]
      <3>1. [count |-> c.count + 1, start |-> c.start] \in Counters
        BY DEF Counters
      <3> QED
        BY <1>0, <2>1, <3>1, KeyConstants DEF KeyTypes
    <2>3. ASSUME refused[k] # None
          PROVE  \/ c.start > refused[k].at
                 \/ /\ refused[k].at < c.start + Window
                    /\ refused[k].at + refused[k].reset * Second >= c.start + Window
      <3>1. CASE c = counter[k]
        BY <1>0, <2>3, <3>1 DEF RefusalInv
      <3>2. CASE c = [count |-> 0, start |-> now] /\ Over(counter[k])
        <4>1. /\ now - counter[k].start >= Window /\ counter[k].start \in Nat
              /\ Window \in Nat \ {0} /\ now \in Nat /\ refused[k].at \in Nat
          BY <1>0, <2>3, <3>2, KeyConstants DEF Over, KeyTypes, RefusalInv, Counters, Refusals
        <4>2. counter[k].start > refused[k].at \/ refused[k].at < counter[k].start + Window
          BY <1>0, <2>3 DEF RefusalInv
        <4>3. now > refused[k].at
          BY <4>1, <4>2
        <4> QED
          BY <3>2, <4>3
      <3> QED
        BY <1>0, <2>1, <3>1, <3>2, CounterShape
    <2> QED
      BY <1>0, <2>1, <2>2, <2>3 DEF RefusalInv
  <1>4. ASSUME NEW k \in Keys, Refuse(k)
        PROVE  RefusalInv'
    <2>1. /\ counter' = counter /\ Counter(k) = counter[k] /\ counter[k] # None
          /\ now - counter[k].start < Window /\ counter[k] \in Counters
          /\ counter[k].start <= now
      BY <1>0, <1>4, RefuseLeavesCounter DEF KeyTypes
    <2>2. /\ refused'[k] = [at |-> now, reset |-> ResetSec(counter[k])]
          /\ \A j \in Keys \ {k} : refused'[j] = refused[j]
      BY <1>0, <1>4, <2>1 DEF Refuse, KeyTypes
    <2>3. now < counter[k].start + Window
      <3>1. now \in Nat /\ counter[k].start \in Nat /\ Window \in Nat
        BY <1>0, <2>1, KeyConstants DEF KeyTypes, Counters
      <3> QED
        BY <2>1, <3>1
    <2>4. now + ResetSec(counter[k]) * Second >= counter[k].start + Window
      BY <1>0, <2>1, ResetReaches
    <2> QED
      BY <1>0, <2>1, <2>2, <2>3, <2>4 DEF RefusalInv
  <1>5. CASE Tick \/ Return \/ (\E k \in Keys : Create(k) \/ Revoke(k)) \/ UNCHANGED apiVars
    BY <1>1, <1>5 DEF Tick, Return, Create, Revoke, apiVars
  <1> QED
    BY <1>2, <1>3, <1>4, <1>5 DEF ApiNext

\* Who waits as long as a 429 told it is let in, if nobody else has begun the
\* next window: resetSec is rounded up (auth.ts, checkAndIncrement), and no
\* window is longer than it was when it was refused.
THEOREM WaitingIsEnough == ApiSpec => []ResetIsEnough
  <1>1. ApiInit => ResetInv
    BY KeyInitTypes DEF ApiInit, ResetInv, RefusalInv
  <1>2. ResetInv => ResetIsEnough
    <2> SUFFICES ASSUME ResetInv, NEW k \in Keys, refused[k] # None,
                        now >= refused[k].at + refused[k].reset * Second,
                        ~(counter[k].start > refused[k].at)
                 PROVE  Counter(k).count < Limit[k]
      BY DEF ResetIsEnough
    <2>1. /\ refused[k].at \in Nat /\ refused[k].reset \in Nat /\ counter[k].start \in Nat
          /\ now \in Nat /\ Window \in Nat /\ Second \in Nat /\ Limit[k] \in Nat \ {0}
      BY KeyConstants DEF ResetInv, RefusalInv, KeyTypes, Counters, Refusals
    <2>2. refused[k].at + refused[k].reset * Second >= counter[k].start + Window
      BY DEF ResetInv, RefusalInv
    <2>3. refused[k].reset * Second \in Nat
      BY <2>1
    <2>4. ~(now - counter[k].start < Window)
      BY <2>1, <2>2, <2>3
    <2>5. Counter(k) = [count |-> 0, start |-> now]
      BY <2>4, CounterShape DEF ResetInv
    <2> QED
      BY <2>1, <2>5
  <1> QED
    BY <1>1, <1>2, ResetStep, PTL DEF ApiSpec

-----------------------------------------------------------------------------
(* The quota of any day.                                                   *)

\* The requests of k that were let in at that time or later, and what they
\* can be at most while a day that begins there lasts: before the window there
\* is, each process has had one at the end of which the next began within the
\* day.
Since(k, from) == {i \in DOMAIN granted[k] : granted[k][i].at >= from}
Earlier(k) == Limit[k] * (1 + restarts)
Paid(k, from) ==
  IF counter[k] = None THEN Earlier(k)
  ELSE IF from > counter[k].start THEN counter[k].count
  ELSE counter[k].count + Earlier(k)

PresentDay ==
  \A k \in Keys : \A from \in 0 .. now :
    now < from + Window => Cardinality(Since(k, from)) <= Paid(k, from)

DayInv == KeyTypes /\ PresentDay /\ InAnyDay

\* The requests of the day that begins then.
OfDay(k, from) == {i \in DOMAIN granted[k] : granted[k][i].at \in from .. (from + Window - 1)}

LEMMA DaysAreFinite ==
  ASSUME KeyTypes, NEW k \in Keys, NEW from
  PROVE  /\ IsFiniteSet(Since(k, from)) /\ Cardinality(Since(k, from)) \in Nat
         /\ IsFiniteSet(OfDay(k, from)) /\ Cardinality(OfDay(k, from)) \in Nat
  <1>1. DOMAIN granted[k] = 1..Len(granted[k]) /\ Len(granted[k]) \in Nat
    BY DEF KeyTypes
  <1>2. IsFiniteSet(DOMAIN granted[k])
    BY <1>1, FS_Interval
  <1>3. IsFiniteSet(Since(k, from)) /\ IsFiniteSet(OfDay(k, from))
    BY <1>2, FS_Subset DEF Since, OfDay
  <1> QED
    BY <1>3, FS_CardinalityType

LEMMA BudgetSums ==
  ASSUME NEW L \in Nat, NEW r \in Nat
  PROVE  /\ L * (1 + r) \in Nat /\ L <= L * (1 + r)
         /\ L * (2 + r) = L * (1 + r) + L
         /\ L * (2 + (r + 1)) = L * (2 + r) + L
         /\ L * (1 + (r + 1)) = L * (2 + r)
  <1>1. L * r \in Nat
    OBVIOUS
  <1>2. L * (1 + r) = L + L * r /\ L * (2 + r) = L + L + L * r /\ L * (2 + (r + 1)) = L + L + L + L * r
        /\ L * (1 + (r + 1)) = L + L + L * r
    OBVIOUS
  <1> QED
    BY <1>1, <1>2

LEMMA Budget ==
  ASSUME KeyTypes, NEW k \in Keys
  PROVE  /\ Limit[k] \in Nat \ {0} /\ restarts \in Nat /\ now \in Nat
         /\ Earlier(k) \in Nat /\ Limit[k] <= Earlier(k)
         /\ Limit[k] * (2 + restarts) = Earlier(k) + Limit[k]
         /\ counter[k] # None => /\ counter[k].count \in Nat /\ counter[k].start \in Nat
                                 /\ counter[k].count <= Limit[k] /\ counter[k].start <= now
  <1>1. Limit[k] \in Nat \ {0} /\ restarts \in Nat /\ now \in Nat
    BY KeyConstants DEF KeyTypes
  <1>2. counter[k] # None => /\ counter[k].count \in Nat /\ counter[k].start \in Nat
                             /\ counter[k].count <= Limit[k] /\ counter[k].start <= now
    BY DEF KeyTypes, Counters
  <1> QED
    BY <1>1, <1>2, BudgetSums DEF Earlier

\* While the day lasts, nothing was let in after it.
LEMMA DayIsSince ==
  ASSUME KeyTypes, NEW k \in Keys, NEW from \in Nat, now < from + Window
  PROVE  OfDay(k, from) = Since(k, from)
  <1>1. now \in Nat /\ Window \in Nat
    BY KeyConstants DEF KeyTypes
  <1>2. \A i \in DOMAIN granted[k] : granted[k][i].at \in Nat /\ granted[k][i].at <= now
    <2>1. \A i \in DOMAIN granted[k] : granted[k][i] \in Grants
      BY DEF KeyTypes
    <2> QED
      BY <2>1 DEF KeyTypes, Grants
  <1>3. \A i \in DOMAIN granted[k] :
          granted[k][i].at \in from .. (from + Window - 1) <=> granted[k][i].at >= from
    BY <1>1, <1>2
  <1> QED
    BY <1>3 DEF OfDay, Since

TodayIsPaid ==
  \A k \in Keys : \A from \in 0 .. now :
    now < from + Window => Cardinality(OfDay(k, from)) <= Limit[k] * (2 + restarts)

LEMMA PresentIsPaid == KeyTypes /\ PresentDay => TodayIsPaid
  <1> SUFFICES ASSUME KeyTypes, PresentDay, NEW k \in Keys, NEW from \in 0 .. now, now < from + Window
               PROVE  Cardinality(OfDay(k, from)) <= Limit[k] * (2 + restarts)
    BY DEF TodayIsPaid
  <1>1. Cardinality(OfDay(k, from)) <= Paid(k, from)
    BY DayIsSince DEF PresentDay
  <1>2. Paid(k, from) \in Nat /\ Paid(k, from) <= Limit[k] * (2 + restarts)
    BY Budget DEF Paid
  <1>3. Cardinality(OfDay(k, from)) \in Nat /\ Limit[k] * (2 + restarts) \in Nat
    BY DaysAreFinite, Budget
  <1> QED
    BY <1>1, <1>2, <1>3

\* A request that is let in now.
LEMMA OneMore ==
  ASSUME KeyTypes, KeyTypes', NEW k \in Keys, NEW g, g.at = now,
         granted' = [granted EXCEPT ![k] = Append(granted[k], g)], now' = now,
         NEW from \in 0 .. now
  PROVE  /\ Cardinality(Since(k, from)') = Cardinality(Since(k, from)) + 1
         /\ \A j \in Keys \ {k} : Since(j, from)' = Since(j, from) /\ OfDay(j, from)' = OfDay(j, from)
         /\ now >= from + Window => OfDay(k, from)' = OfDay(k, from)
  <1>1. granted[k] \in Seq(Grants) /\ granted \in [Keys -> Seq(Grants)]
    BY DEF KeyTypes
  <1>2. PICK n \in Nat : n = Len(granted[k])
    BY <1>1
  <1>3. /\ granted'[k] = Append(granted[k], g)
        /\ \A j \in Keys \ {k} : granted'[j] = granted[j]
    BY <1>1
  <1>4. /\ DOMAIN granted[k] = 1..n /\ DOMAIN granted'[k] = 1..(n + 1)
        /\ \A i \in 1..n : granted'[k][i] = granted[k][i]
        /\ granted'[k][n + 1] = g
    <2>1. granted'[k] \in Seq(Grants) /\ Len(granted'[k]) = n + 1
      <3>1. granted'[k] \in Seq(Grants)
        BY DEF KeyTypes
      <3>2. Len(Append(granted[k], g)) = n + 1
        BY <1>1, <1>2
      <3> QED
        BY <1>3, <3>1, <3>2
    <2> QED
      BY <1>1, <1>2, <1>3, <2>1
  <1>5. 1..(n + 1) = 1..n \union {n + 1} /\ n + 1 \notin 1..n
    BY <1>2
  <1>6. from \in Nat /\ now \in Nat /\ Window \in Nat \ {0} /\ now >= from
    BY KeyConstants DEF KeyTypes
  <1>7. Since(k, from)' = Since(k, from) \union {n + 1} /\ n + 1 \notin Since(k, from)
    BY <1>4, <1>5, <1>6 DEF Since
  <1>8. now >= from + Window => OfDay(k, from)' = OfDay(k, from)
    <2>1. now >= from + Window => ~(g.at \in from .. (from + Window - 1))
      BY <1>6
    <2> QED
      BY <1>4, <1>5, <2>1 DEF OfDay
  <1>9. Cardinality(Since(k, from)') = Cardinality(Since(k, from)) + 1
    BY <1>7, DaysAreFinite, FS_AddElement
  <1> QED
    BY <1>3, <1>8, <1>9 DEF Since, OfDay

LEMMA DayStep == DayInv /\ [ApiNext]_apiVars => DayInv'
  <1> SUFFICES ASSUME DayInv, [ApiNext]_apiVars PROVE PresentDay' /\ InAnyDay'
    BY KeyStepTypes DEF DayInv
  <1>0. KeyTypes /\ KeyTypes' /\ PresentDay /\ InAnyDay /\ now \in Nat /\ Window \in Nat \ {0}
    BY KeyStepTypes, KeyConstants DEF DayInv, KeyTypes
  <1>1. ASSUME UNCHANGED <<now, counter, granted, restarts>>
        PROVE  PresentDay' /\ InAnyDay'
    <2>1. PresentDay'
      BY <1>0, <1>1 DEF PresentDay, Since, Paid, Earlier
    <2>2. InAnyDay'
      BY <1>0, <1>1 DEF InAnyDay
    <2> QED
      BY <2>1, <2>2
  <1>2. CASE Tick
    <2>1. now' = now + 1 /\ UNCHANGED <<counter, granted, restarts>>
      BY <1>2 DEF Tick
    <2>2. ASSUME NEW k \in Keys, NEW from \in 0 .. now', from \notin 0 .. now
          PROVE  Since(k, from) = {} /\ OfDay(k, from) = {}
      <3>1. from = now + 1
        BY <1>0, <2>1, <2>2
      <3>2. \A i \in DOMAIN granted[k] : granted[k][i].at \in Nat /\ granted[k][i].at <= now
        <4>1. \A i \in DOMAIN granted[k] : granted[k][i] \in Grants
          BY <1>0 DEF KeyTypes
        <4> QED
          BY <1>0, <4>1 DEF KeyTypes, Grants
      <3>3. \A i \in DOMAIN granted[k] : ~(granted[k][i].at >= from)
        BY <1>0, <3>1, <3>2
      <3> QED
        BY <1>0, <3>1, <3>2, <3>3 DEF Since, OfDay
    <2>3. ASSUME NEW k \in Keys, NEW from \in 0 .. now', now' < from + Window
          PROVE  Cardinality(Since(k, from)) <= Paid(k, from)
      <3>1. CASE from \in 0 .. now
        <4>1. now < from + Window
          BY <1>0, <2>1, <2>3, <3>1
        <4> QED
          BY <1>0, <3>1, <4>1 DEF PresentDay
      <3>2. CASE from \notin 0 .. now
        <4>1. Cardinality(Since(k, from)) = 0
          BY <2>2, <3>2, FS_EmptySet
        <4>2. Paid(k, from) \in Nat
          BY <1>0, Budget DEF Paid
        <4> QED
          BY <4>1, <4>2
      <3> QED
        BY <3>1, <3>2
    <2>4. PresentDay'
      BY <2>1, <2>3 DEF PresentDay, Since, Paid, Earlier
    <2>5. ASSUME NEW k \in Keys, NEW from \in 0 .. now'
          PROVE  Cardinality(OfDay(k, from)) <= Limit[k] * (2 + restarts)
      <3>1. CASE from \in 0 .. now
        BY <1>0, <3>1 DEF InAnyDay, OfDay
      <3>2. CASE from \notin 0 .. now
        <4>1. Cardinality(OfDay(k, from)) = 0
          BY <2>2, <3>2, FS_EmptySet
        <4>2. Limit[k] * (2 + restarts) \in Nat
          BY <1>0, Budget
        <4> QED
          BY <4>1, <4>2
      <3> QED
        BY <3>1, <3>2
    <2>6. InAnyDay'
      BY <2>1, <2>5 DEF InAnyDay, OfDay
    <2> QED
      BY <2>4, <2>6
  <1>3. CASE Restart
    <2>1. /\ UNCHANGED <<now, granted>> /\ restarts' = restarts + 1
          /\ \A k \in Keys : counter'[k] = None
      BY <1>3 DEF Restart
    <2>2. ASSUME NEW k \in Keys
          PROVE  /\ Limit[k] * (1 + restarts') = Limit[k] * (2 + restarts)
                 /\ Limit[k] * (2 + restarts') >= Limit[k] * (2 + restarts)
                 /\ Limit[k] * (2 + restarts') \in Nat
      BY <1>0, <2>1, Budget, BudgetSums
    <2>3. ASSUME NEW k \in Keys, NEW from \in 0 .. now, now < from + Window
          PROVE  Cardinality(Since(k, from)) <= Limit[k] * (2 + restarts)
      <3>1. from \in Nat
        OBVIOUS
      <3>2. OfDay(k, from) = Since(k, from)
        BY <1>0, <2>3, <3>1, DayIsSince
      <3> QED
        BY <1>0, <2>3, <3>2, PresentIsPaid DEF TodayIsPaid
    <2>4. PresentDay'
      BY <2>1, <2>2, <2>3 DEF PresentDay, Since, Paid, Earlier
    <2>5. ASSUME NEW k \in Keys, NEW from \in 0 .. now
          PROVE  Cardinality(OfDay(k, from)) <= Limit[k] * (2 + restarts')
      <3>1. Cardinality(OfDay(k, from)) <= Limit[k] * (2 + restarts)
        BY <1>0 DEF InAnyDay, OfDay
      <3>2. Cardinality(OfDay(k, from)) \in Nat /\ Limit[k] * (2 + restarts) \in Nat
        BY <1>0, DaysAreFinite, Budget
      <3> QED
        BY <2>2, <3>1, <3>2
    <2>6. InAnyDay'
      BY <2>1, <2>5 DEF InAnyDay, OfDay
    <2> QED
      BY <2>4, <2>6
  <1>4. ASSUME NEW k \in Keys, Grant(k)
        PROVE  PresentDay' /\ InAnyDay'
    <2>1. PICK c \in Counters :
           /\ c = Counter(k) /\ c.count < Limit[k] /\ c.start <= now
           /\ counter' = [counter EXCEPT ![k] = [count |-> c.count + 1, start |-> c.start]]
           /\ \E r \in Requests :
                /\ open' = open \union {r}
                /\ r.key = k /\ r.start = c.start /\ r.remaining = Limit[k] - (c.count + 1)
           /\ granted' = [granted EXCEPT ![k] = Append(granted[k], [at |-> now, start |-> c.start])]
           /\ UNCHANGED <<now, row, refused, restarts>>
      BY <1>0, <1>4, GrantShape
    <2>2. PICK g \in Grants :
            g.at = now /\ granted' = [granted EXCEPT ![k] = Append(granted[k], g)]
      <3>1. [at |-> now, start |-> c.start] \in Grants
        BY <1>0 DEF Grants, Counters
      <3> QED
        BY <2>1, <3>1
    <2>3. /\ counter'[k].start = c.start /\ counter'[k].count = c.count + 1 /\ counter'[k] # None
          /\ \A j \in Keys \ {k} : counter'[j] = counter[j]
      <3>1. [count |-> c.count + 1, start |-> c.start] \in Counters
        BY DEF Counters
      <3> QED
        BY <1>0, <2>1, <3>1, KeyConstants DEF KeyTypes
    <2>4. ASSUME NEW from \in 0 .. now, now < from + Window
          PROVE  Cardinality(Since(k, from)) + 1 <= Paid(k, from)'
      <3>0. /\ Cardinality(Since(k, from)) <= Paid(k, from)
            /\ Cardinality(Since(k, from)) \in Nat
            /\ Earlier(k)' = Earlier(k) /\ Earlier(k) \in Nat /\ Limit[k] <= Earlier(k)
            /\ c.count \in Nat /\ c.start \in Nat /\ from \in Nat /\ Limit[k] \in Nat
        BY <1>0, <2>1, <2>4, DaysAreFinite, Budget, SMTT(30) DEF PresentDay, Earlier, Counters
      <3>1. CASE c = counter[k] /\ counter[k] # None
        BY <2>3, <3>0, <3>1 DEF Paid
      <3>2. CASE c = [count |-> 0, start |-> now] /\ Over(counter[k])
        <4>1. Cardinality(Since(k, from)) <= Earlier(k)
          <5>1. CASE counter[k] = None
            BY <3>0, <5>1 DEF Paid
          <5>2. CASE counter[k] # None
            <6>1. /\ now - counter[k].start >= Window
                  /\ counter[k].start \in Nat /\ counter[k].count \in Nat
                  /\ counter[k].count <= Limit[k]
              BY <1>0, <3>2, <5>2, Budget DEF Over
            <6>2. from > counter[k].start
              BY <1>0, <2>4, <3>0, <6>1
            <6> QED
              BY <3>0, <5>2, <6>1, <6>2 DEF Paid
          <5> QED
            BY <5>1, <5>2
        <4>2. ~(from > c.start) /\ c.count = 0
          BY <1>0, <3>2
        <4> QED
          BY <2>3, <3>0, <4>1, <4>2 DEF Paid
      <3> QED
        BY <1>0, <2>1, <3>1, <3>2, CounterShape
    <2>5. ASSUME NEW j \in Keys, NEW from \in 0 .. now, now < from + Window
          PROVE  Cardinality(Since(j, from)') <= Paid(j, from)'
      <3>1. CASE j = k
        BY <1>0, <2>1, <2>2, <2>4, <2>5, <3>1, OneMore
      <3>2. CASE j # k
        <4>1. Since(j, from)' = Since(j, from)
          BY <1>0, <2>1, <2>2, <3>2, OneMore, ZenonT(30)
        <4>2. Paid(j, from)' = Paid(j, from)
          BY <2>1, <2>3, <3>2 DEF Paid, Earlier
        <4> QED
          BY <1>0, <2>5, <4>1, <4>2 DEF PresentDay
      <3> QED
        BY <3>1, <3>2
    <2>6. PresentDay'
      BY <2>1, <2>5 DEF PresentDay
    <2>9. KeyTypes' /\ PresentDay' => TodayIsPaid'
      BY PresentIsPaid, PTL
    <2>7. ASSUME NEW j \in Keys, NEW from \in 0 .. now
          PROVE  Cardinality(OfDay(j, from)') <= Limit[j] * (2 + restarts)
      <3>1. CASE now < from + Window
        <4>1. from \in 0 .. now' /\ now' < from + Window /\ restarts' = restarts
          BY <2>1, <3>1
        <4>2. TodayIsPaid'
          BY <1>0, <2>6, <2>9
        <4> QED
          BY <2>1, <4>1, <4>2 DEF TodayIsPaid, OfDay
      <3>2. CASE ~(now < from + Window)
        <4>1. now >= from + Window
          BY <1>0, <3>2
        <4>2. OfDay(j, from)' = OfDay(j, from)
          <5>1. now' = now
            BY <2>1
          <5>2. CASE j = k
            BY <1>0, <2>2, <4>1, <5>1, <5>2, OneMore
          <5>3. CASE j # k
            BY <1>0, <2>2, <5>1, <5>3, OneMore
          <5> QED
            BY <5>2, <5>3
        <4> QED
          BY <1>0, <4>2 DEF InAnyDay, OfDay
      <3> QED
        BY <3>1, <3>2
    <2>8. InAnyDay'
      BY <2>1, <2>7 DEF InAnyDay, OfDay
    <2> QED
      BY <2>6, <2>8
  <1>5. ASSUME NEW k \in Keys, Refuse(k)
        PROVE  PresentDay' /\ InAnyDay'
    BY <1>0, <1>1, <1>5, RefuseLeavesCounter DEF Refuse
  <1>6. CASE Return \/ (\E k \in Keys : Create(k) \/ Revoke(k)) \/ UNCHANGED apiVars
    BY <1>1, <1>6 DEF Return, Create, Revoke, apiVars
  <1> QED
    BY <1>2, <1>3, <1>4, <1>5, <1>6 DEF ApiNext

\* In no day, wherever it begins, is more let in than two budgets and one for
\* each restart, though the windows are fixed and not rolling: a window that
\* begins in a day ends after it, so that only a restart can begin another.
THEOREM DayHasItsQuota == ApiSpec => []InAnyDay
  <1>1. ApiInit => DayInv
    <2> SUFFICES ASSUME ApiInit PROVE PresentDay /\ InAnyDay
      BY KeyInitTypes DEF DayInv
    <2>1. KeyTypes
      BY KeyInitTypes
    <2>2. \A k \in Keys : DOMAIN granted[k] = {} /\ counter[k] = None
      BY DEF ApiInit
    <2>3. \A k \in Keys : \A from : Since(k, from) = {} /\ OfDay(k, from) = {}
      BY <2>2 DEF Since, OfDay
    <2>4. \A k \in Keys : Earlier(k) \in Nat /\ Limit[k] * (2 + restarts) \in Nat
      BY <2>1, Budget
    <2>5. Cardinality({}) = 0
      BY FS_EmptySet
    <2>6. PresentDay
      <3> SUFFICES ASSUME NEW k \in Keys, NEW from \in 0 .. now
                   PROVE  Cardinality(Since(k, from)) <= Paid(k, from)
        BY DEF PresentDay
      <3>1. Cardinality(Since(k, from)) = 0
        BY <2>3, <2>5
      <3>2. Paid(k, from) \in Nat
        BY <2>2, <2>4 DEF Paid
      <3> QED
        BY <3>1, <3>2
    <2>7. InAnyDay
      BY <2>3, <2>4, <2>5 DEF InAnyDay, OfDay
    <2> QED
      BY <2>6, <2>7
  <1>2. DayInv => InAnyDay
    BY DEF DayInv
  <1> QED
    BY <1>1, <1>2, DayStep, PTL DEF ApiSpec
=============================================================================
