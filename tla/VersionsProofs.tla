--------------------------- MODULE VersionsProofs ---------------------------
(***************************************************************************)
(* Two checks of versions.  One page of releases is enough for the daily    *)
(* one, for every page size, threshold and number of odd entries that fit; *)
(* and what check-version passes is upgraded by the release.               *)
(***************************************************************************)
EXTENDS Versions, Packaging, FiniteSetTheorems, TLAPS

Known == {Version(place, suffix) : place \in Nat \ {0}, suffix \in {"none", "-rc1"}}
Entries == [version : Known, kind : {"release", "prerelease", "draft"}, main : BOOLEAN]

TypeInv ==
  /\ releases \in Seq(Entries)
  /\ installed \in Known \cup {None}
  /\ online \in BOOLEAN

Place(n) == releases[n].version.place
Main(n) == releases[n].main
Odd == {n \in DOMAIN releases : ~Main(n)}

\* t is where the main line stands, and nothing is more than a step ahead of it.
Top(t) ==
  /\ \A n \in DOMAIN releases :
       Place(n) <= t + 1 /\ (Main(n) => Place(n) <= t)
  /\ \/ t = 1 /\ \A n \in DOMAIN releases : ~Main(n)
     \/ \E n \in DOMAIN releases : Main(n) /\ Place(n) = t

\* What follows an entry of the main line on the page is not newer than it, and
\* few entries are not of the main line.
LineInv ==
  /\ \E t \in Nat \ {0} : Top(t)
  /\ \A n \in DOMAIN releases : Main(n) =>
       /\ releases[n].kind = "release"
       /\ \A m \in DOMAIN releases : m > n => Place(m) <= Place(n)
  /\ Cardinality(Odd) <= MaxOdd

-----------------------------------------------------------------------------
(* The order of versions.                                                  *)

LEMMA TupleOf ==
  ASSUME NEW p \in Nat, NEW s
  PROVE  /\ Version(p, s).place = p
         /\ AsTuple(Version(p, s)) = <<2, 9 + p \div 2, p % 2>>
<1> DEFINE a == [num |-> 2, rest |-> "none"]
           b == [num |-> 9 + p \div 2, rest |-> "none"]
           c == [num |-> p % 2, rest |-> s]
<1>1. Version(p, s).place = p /\ Version(p, s).parts = <<a, b, c>>
  BY DEF Version
<1>2. a.num = 2 /\ b.num = 9 + p \div 2 /\ c.num = p % 2
  OBVIOUS
<1> HIDE DEF a, b, c
<1>3. AsTuple(Version(p, s)) = [k \in 1 .. 3 |-> <<a, b, c>>[k].num]
  BY <1>1 DEF AsTuple
<1>4. [k \in 1 .. 3 |-> <<a, b, c>>[k].num] = <<a.num, b.num, c.num>>
  OBVIOUS
<1> QED
  BY <1>1, <1>2, <1>3, <1>4

\* Tuples of the leading digits are in the order of upstream's versions.
LEMMA LessIsNewer ==
  ASSUME NEW v \in Known, NEW w \in Known
  PROVE  Less(AsTuple(v), AsTuple(w)) <=> v.place < w.place
<1>1. PICK p \in Nat \ {0}, s \in {"none", "-rc1"} : v = Version(p, s)
  BY DEF Known
<1>2. PICK q \in Nat \ {0}, u \in {"none", "-rc1"} : w = Version(q, u)
  BY DEF Known
<1> DEFINE x == <<2, 9 + p \div 2, p % 2>>
           y == <<2, 9 + q \div 2, q % 2>>
<1>3. AsTuple(v) = x /\ AsTuple(w) = y /\ v.place = p /\ w.place = q
  BY <1>1, <1>2, TupleOf
<1>4. /\ p \div 2 \in Nat /\ p % 2 \in 0 .. 1 /\ p = 2 * (p \div 2) + (p % 2)
      /\ q \div 2 \in Nat /\ q % 2 \in 0 .. 1 /\ q = 2 * (q \div 2) + (q % 2)
  OBVIOUS
<1> DEFINE a == p \div 2
           b == p % 2
           c == q \div 2
           d == q % 2
<1>5. Less(<<2, 9 + a, b>>, <<2, 9 + c, d>>) <=> a < c \/ (a = c /\ b < d)
  <2> HIDE DEF a, b, c, d
  <2> DEFINE f == <<2, 9 + a, b>>
             g == <<2, 9 + c, d>>
  <2>1. /\ DOMAIN f = 1 .. 3 /\ f[1] = 2 /\ f[2] = 9 + a /\ f[3] = b
        /\ DOMAIN g = 1 .. 3 /\ g[1] = 2 /\ g[2] = 9 + c /\ g[3] = d
    OBVIOUS
  <2>2. a \in Nat /\ b \in Nat /\ c \in Nat /\ d \in Nat
    BY <1>4 DEF a, b, c, d
  <2> HIDE DEF f, g
  <2>3. Less(f, g) <=> \E n \in 1 .. 3 : /\ \A m \in 1 .. n - 1 : f[m] = g[m]
                                        /\ f[n] < g[n]
    BY <2>1 DEF Less
  <2>4. Less(f, g) <=> \/ f[1] < g[1]
                       \/ f[1] = g[1] /\ f[2] < g[2]
                       \/ f[1] = g[1] /\ f[2] = g[2] /\ f[3] < g[3]
    BY <2>3
  <2> QED BY <2>1, <2>2, <2>4 DEF f, g
<1>6. p < q <=> a < c \/ (a = c /\ b < d)
  <2> HIDE DEF a, b, c, d
  <2>1. a \in Nat /\ b \in 0 .. 1 /\ p = 2 * a + b /\ c \in Nat /\ d \in 0 .. 1 /\ q = 2 * c + d
    BY <1>4 DEF a, b, c, d
  <2> QED BY <2>1
<1> QED
  BY <1>3, <1>5, <1>6

LEMMA KnownPlaces ==
  /\ \A v \in Known : v.place \in Nat /\ v.place > 0 /\ v # None
  /\ None.place = 0
<1>1. None.place = 0
  BY DEF None
<1>2. ASSUME NEW v \in Known PROVE v.place \in Nat /\ v.place > 0
  <2>1. PICK p \in Nat \ {0}, s \in {"none", "-rc1"} : v = Version(p, s)
    BY DEF Known
  <2> QED BY <2>1, TupleOf
<1> QED
  BY <1>1, <1>2

LEMMA EntryFields ==
  ASSUME TypeInv, NEW n \in DOMAIN releases
  PROVE  /\ releases[n].version \in Known /\ Place(n) \in Nat /\ Place(n) > 0
         /\ Main(n) \in BOOLEAN /\ n \in Nat /\ n > 0
<1>1. releases[n] \in Entries /\ n \in Nat /\ n > 0
  BY DEF TypeInv
<1> QED
  BY <1>1, KnownPlaces DEF Entries, Place, Main

LEMMA LinesFinite ==
  ASSUME NEW r \in Seq(Entries), NEW S \in SUBSET (DOMAIN r)
  PROVE  IsFiniteSet(S) /\ Cardinality(S) \in Nat
<1>1. IsFiniteSet(DOMAIN r)
  BY FS_Interval
<1> QED
  BY <1>1, FS_Subset, FS_CardinalityType

LEMMA MaxPlaceIsTop ==
  ASSUME TypeInv, NEW t \in Nat \ {0}, Top(t)
  PROVE  MaxPlace = t
<1> DEFINE P == {Place(n) : n \in {k \in DOMAIN releases : Main(k)}}
<1>1. MaxPlace = IF P = {} THEN 1 ELSE CHOOSE p \in P : \A q \in P : q <= p
  BY DEF MaxPlace, Place, Main
<1>2. CASE t = 1 /\ \A n \in DOMAIN releases : ~Main(n)
  BY <1>1, <1>2
<1>3. CASE \E n \in DOMAIN releases : Main(n) /\ Place(n) = t
  <2>1. t \in P /\ \A q \in P : q \in Nat /\ q <= t
    BY <1>3, EntryFields DEF Top
  <2> HIDE DEF P
  <2>2. \A p \in P : (\A q \in P : q <= p) => p = t
    BY <2>1
  <2> QED BY <1>1, <2>1, <2>2
<1> QED
  BY <1>2, <1>3 DEF Top

-----------------------------------------------------------------------------
(* The invariant.                                                          *)

\* A new entry comes first and leaves the others in their order.
LEMMA Newest ==
  ASSUME TypeInv, NEW e \in Entries, releases' = <<e>> \o releases
  PROVE  /\ releases' \in Seq(Entries)
         /\ 1 \in DOMAIN releases' /\ releases'[1] = e
         /\ \A n \in DOMAIN releases :
              n + 1 \in DOMAIN releases' /\ releases'[n + 1] = releases[n]
         /\ \A n \in DOMAIN releases' \ {1} : n - 1 \in DOMAIN releases
BY DEF TypeInv

\* With it, at most one more entry is not of the main line.
LEMMA OddGrows ==
  ASSUME TypeInv, NEW e \in Entries, releases' = <<e>> \o releases
  PROVE  Cardinality(Odd') <= Cardinality(Odd) + (IF e.main THEN 0 ELSE 1)
<1> DEFINE Moved == {n + 1 : n \in Odd}
           shift == [n \in Odd |-> n + 1]
<1>1. IsFiniteSet(Odd) /\ Cardinality(Odd) \in Nat
  BY LinesFinite DEF TypeInv, Odd
<1>2. shift \in Surjection(Odd, Moved)
  BY DEF Surjection
<1>3. IsFiniteSet(Moved) /\ Cardinality(Moved) <= Cardinality(Odd)
  BY <1>1, <1>2, FS_Surjection
<1>4. Cardinality(Moved) \in Nat
  BY <1>3, FS_CardinalityType
<1>5. Odd' \subseteq Moved \cup {1} /\ (e.main => Odd' \subseteq Moved)
  <2> SUFFICES ASSUME NEW n \in Odd' PROVE n \in Moved \/ (n = 1 /\ ~e.main)
    OBVIOUS
  <2>1. n \in DOMAIN releases' /\ ~releases'[n].main
    BY DEF Odd, Main
  <2>2. CASE n = 1
    BY <2>1, <2>2, Newest
  <2>3. CASE n # 1
    <3>1. n - 1 \in DOMAIN releases /\ releases'[(n - 1) + 1] = releases[n - 1]
      BY <2>1, <2>3, Newest
    <3>2. n \in Int /\ (n - 1) + 1 = n
      BY <2>1, Newest
    <3>3. n - 1 \in Odd
      BY <2>1, <3>1, <3>2 DEF Odd, Main
    <3> QED BY <3>2, <3>3
  <2> QED BY <2>2, <2>3
<1> HIDE DEF Moved, shift
<1>6. IsFiniteSet(Moved \cup {1}) /\ Cardinality(Moved \cup {1}) <= Cardinality(Moved) + 1
  <2>1. /\ IsFiniteSet(Moved \cup {1})
        /\ Cardinality(Moved \cup {1}) =
             IF 1 \in Moved THEN Cardinality(Moved) ELSE Cardinality(Moved) + 1
    BY <1>3, FS_AddElement, Zenon
  <2> QED BY <1>4, <2>1
<1>7. Cardinality(Odd') <= Cardinality(Moved \cup {1})
  BY <1>5, <1>6, FS_Subset
<1>8. e.main => Cardinality(Odd') <= Cardinality(Moved)
  BY <1>3, <1>5, FS_Subset
<1>9. Cardinality(Odd') \in Nat
  BY <1>5, <1>6, FS_Subset, FS_CardinalityType
<1>10. Cardinality(Moved \cup {1}) \in Nat
  BY <1>6, FS_CardinalityType
<1> QED
  BY <1>1, <1>3, <1>4, <1>6, <1>7, <1>8, <1>9, <1>10

\* What is published: as the next of the main line, or as an odd entry that is
\* not ahead of it by more than a step.
LEMMA PublishedInv ==
  ASSUME TypeInv, LineInv, NEW t \in Nat \ {0}, Top(t),
         NEW e \in Entries, Publish(e.version, e.kind, e.main),
         \/ e.main /\ e.kind = "release" /\ e.version.place \in {t + 1, t + 2}
         \/ /\ ~e.main /\ e.version.place <= t + 1
            /\ Cardinality(Odd) < MaxOdd
  PROVE  TypeInv' /\ LineInv'
<1> DEFINE u == IF e.main THEN e.version.place ELSE t
<1>1. releases' = <<e>> \o releases /\ UNCHANGED <<installed, online>>
  BY DEF Publish, Entries
<1>2. TypeInv'
  BY <1>1, Newest DEF TypeInv
<1>3. e.version.place \in Nat /\ e.version.place > 0
  BY KnownPlaces DEF Entries
<1>4. u \in Nat \ {0} /\ u >= t /\ e.version.place <= u + 1 /\ (e.main => e.version.place <= u)
  BY <1>3
<1>5. ASSUME NEW n \in DOMAIN releases'
      PROVE  \/ n = 1 /\ releases'[n] = e
             \/ /\ n \in Nat /\ n > 1 /\ n - 1 \in DOMAIN releases
                /\ releases'[n] = releases[n - 1]
  <2>1. CASE n = 1
    BY <1>1, <2>1, Newest
  <2>2. CASE n # 1
    <3>1. n - 1 \in DOMAIN releases /\ releases'[(n - 1) + 1] = releases[n - 1]
      BY <1>1, <1>5, <2>2, Newest
    <3>2. n \in Nat /\ n > 1 /\ (n - 1) + 1 = n
      BY <1>2, <1>5, <2>2 DEF TypeInv
    <3> QED BY <3>1, <3>2
  <2> QED BY <2>1, <2>2
<1>6. ASSUME NEW n \in DOMAIN releases PROVE Place(n) \in Nat /\ Place(n) <= t + 1
  BY <1>6, EntryFields DEF Top
<1>7. Top(u)'
  <2>1. ASSUME NEW n \in DOMAIN releases'
        PROVE  (Place(n) <= u + 1 /\ (Main(n) => Place(n) <= u))'
    <3>1. CASE releases'[n] = e
      BY <1>4, <3>1 DEF Place, Main
    <3>2. CASE n - 1 \in DOMAIN releases /\ releases'[n] = releases[n - 1]
      <4>1. Place(n - 1) <= t + 1 /\ (Main(n - 1) => Place(n - 1) <= t) /\ Place(n - 1) \in Nat
        BY <1>6, <3>2 DEF Top
      <4> QED BY <1>4, <3>2, <4>1 DEF Place, Main
    <3> QED BY <1>5, <2>1, <3>1, <3>2
  <2>2. CASE e.main
    <3>1. 1 \in DOMAIN releases' /\ releases'[1] = e
      BY <1>1, Newest
    <3> QED BY <2>1, <2>2, <3>1 DEF Top, Place, Main
  <2>3. CASE ~e.main /\ t = 1 /\ \A n \in DOMAIN releases : ~Main(n)
    <3>1. \A n \in DOMAIN releases' : ~releases'[n].main
      BY <1>5, <2>3 DEF Main
    <3> QED BY <2>1, <2>3, <3>1 DEF Top, Main
  <2>4. ASSUME ~e.main, NEW n \in DOMAIN releases, Main(n), Place(n) = t
        PROVE  Top(u)'
    <3>1. n + 1 \in DOMAIN releases' /\ releases'[n + 1] = releases[n]
      BY <1>1, Newest
    <3> QED BY <2>1, <2>4, <3>1 DEF Top, Place, Main
  <2>5. e.main \in BOOLEAN
    BY DEF Entries
  <2> QED BY <2>2, <2>3, <2>4, <2>5 DEF Top
<1>8. ASSUME NEW n \in DOMAIN releases', Main(n)'
      PROVE  /\ releases'[n].kind = "release"
             /\ \A m \in DOMAIN releases' : m > n => (Place(m) <= Place(n))'
  <2>1. CASE n = 1 /\ releases'[n] = e
    <3>1. e.main /\ e.kind = "release" /\ e.version.place >= t + 1
      BY <1>3, <1>8, <2>1 DEF Main
    <3>2. ASSUME NEW m \in DOMAIN releases', m > n PROVE (Place(m) <= Place(n))'
      <4>1. m - 1 \in DOMAIN releases /\ releases'[m] = releases[m - 1]
        BY <1>5, <2>1, <3>2
      <4>2. Place(m - 1) \in Nat /\ Place(m - 1) <= t + 1
        BY <1>6, <4>1
      <4> QED BY <1>3, <2>1, <3>1, <4>1, <4>2 DEF Place
    <3> QED BY <2>1, <3>1, <3>2
  <2>2. CASE /\ n \in Nat /\ n > 1 /\ n - 1 \in DOMAIN releases
             /\ releases'[n] = releases[n - 1]
    <3>1. Main(n - 1)
      BY <1>8, <2>2 DEF Main
    <3>2. ASSUME NEW m \in DOMAIN releases', m > n PROVE (Place(m) <= Place(n))'
      <4>1. m - 1 \in DOMAIN releases /\ releases'[m] = releases[m - 1] /\ m \in Nat
        BY <1>5, <2>2, <3>2
      <4>2. Place(m - 1) <= Place(n - 1)
        BY <2>2, <3>1, <3>2, <4>1 DEF LineInv
      <4> QED BY <2>2, <4>1, <4>2 DEF Place
    <3> QED BY <2>2, <3>1, <3>2 DEF LineInv
  <2> QED BY <1>5, <1>8, <2>1, <2>2
<1>9. Cardinality(Odd') <= MaxOdd
  <2>1. Cardinality(Odd') <= Cardinality(Odd) + (IF e.main THEN 0 ELSE 1)
    BY <1>1, OddGrows
  <2>2. Cardinality(Odd) \in Nat /\ Cardinality(Odd') \in Nat
    BY <1>2, LinesFinite DEF TypeInv, Odd
  <2>3. MaxOdd \in Nat /\ Cardinality(Odd) <= MaxOdd
    BY PageAssumption DEF LineInv
  <2> QED BY <2>1, <2>2, <2>3
<1> QED
  BY <1>2, <1>4, <1>7, <1>8, <1>9 DEF LineInv

LEMMA VersionsNextInv ==
  TypeInv /\ LineInv /\ [VersionsNext]_versionVars => TypeInv' /\ LineInv'
<1> SUFFICES ASSUME TypeInv, LineInv, [VersionsNext]_versionVars
             PROVE  TypeInv' /\ LineInv'
  OBVIOUS
<1>0. PICK t \in Nat \ {0} : Top(t)
  BY DEF LineInv
<1>1. MaxPlace = t
  BY <1>0, MaxPlaceIsTop
<1>2. ASSUME NEW place \in Nat \ {0}, NEW suffix \in {"none", "-rc1"},
             NEW kind \in {"release", "prerelease", "draft"}, NEW main \in BOOLEAN,
             Publish(Version(place, suffix), kind, main),
             \/ main /\ kind = "release" /\ place \in {t + 1, t + 2}
             \/ ~main /\ place <= t + 1 /\ Cardinality(Odd) < MaxOdd
      PROVE  TypeInv' /\ LineInv'
  <2> DEFINE v == Version(place, suffix)
             e == [version |-> v, kind |-> kind, main |-> main]
  <2>1. v \in Known
    BY DEF Known
  <2>2. v.place = place
    BY TupleOf
  <2> HIDE DEF v
  <2>3. e \in Entries /\ e.version = v /\ e.kind = kind /\ e.main = main
    BY <2>1 DEF Entries
  <2>4. Publish(v, kind, main)
    BY <1>2 DEF v
  <2> HIDE DEF e
  <2> QED BY <1>0, <1>2, <2>2, <2>3, <2>4, PublishedInv
<1>3. CASE PublishRelease
  <2>1. PICK step \in {1, 2} : Publish(Version(t + step, "none"), "release", TRUE)
    BY <1>1, <1>3 DEF PublishRelease
  <2>2. t + step \in Nat \ {0} /\ t + step \in {t + 1, t + 2}
    BY <1>0, <2>1
  <2> QED BY <1>2, <2>1, <2>2
<1>4. CASE PublishOther
  <2>1. Cardinality(Odd) < MaxOdd
    BY <1>4 DEF PublishOther, Odd, Main
  <2>2. CASE \E place \in 2 .. t : Publish(Version(place, "none"), "release", FALSE)
    <3>1. PICK place \in 2 .. t : Publish(Version(place, "none"), "release", FALSE)
      BY <2>2
    <3>2. place \in Nat \ {0} /\ place <= t + 1
      BY <1>0, <3>1
    <3> QED BY <1>2, <2>1, <3>1, <3>2
  <2>3. CASE \E kind \in {"release", "prerelease"} :
               Publish(Version(t + 1, "-rc1"), kind, FALSE)
    <3>1. t + 1 \in Nat \ {0} /\ t + 1 <= t + 1
      BY <1>0
    <3> QED BY <1>2, <2>1, <2>3, <3>1
  <2>4. CASE Publish(Version(t + 1, "none"), "draft", FALSE)
    <3>1. t + 1 \in Nat \ {0} /\ t + 1 <= t + 1
      BY <1>0
    <3> QED BY <1>2, <2>1, <2>4, <3>1
  <2> QED BY <1>1, <1>4, <2>2, <2>3, <2>4 DEF PublishOther
<1>5. ASSUME UNCHANGED releases PROVE LineInv'
  BY <1>5 DEF LineInv, Top, Place, Main, Odd
<1>6. CASE Install
  <2>1. PICK n \in DOMAIN releases : installed' = releases[n].version
    BY <1>6 DEF Install
  <2> QED BY <1>5, <1>6, <2>1, EntryFields DEF Install, TypeInv
<1>7. CASE Uninstall \/ Network \/ UNCHANGED versionVars
  BY <1>5, <1>7 DEF Uninstall, Network, versionVars, TypeInv
<1> QED
  BY <1>3, <1>4, <1>6, <1>7 DEF VersionsNext

-----------------------------------------------------------------------------
(* The check.                                                              *)

\* A page holds what comes first.
LEMMA PageIsPrefix ==
  ASSUME TypeInv
  PROVE  /\ DOMAIN Page = (DOMAIN releases) \cap 1 .. PageSize
         /\ \A n \in DOMAIN Page : Page[n] = releases[n]
<1>1. PageSize \in Nat /\ Len(releases) \in Nat
  BY PageAssumption DEF TypeInv
<1> DEFINE top == IF Len(releases) < PageSize THEN Len(releases) ELSE PageSize
<1>2. top \in 0 .. Len(releases)
  BY <1>1
<1>3. DOMAIN Page = 1 .. top /\ \A n \in 1 .. top : Page[n] = releases[n]
  <2> HIDE DEF top
  <2>1. Page = SubSeq(releases, 1, top)
    BY DEF Page, top
  <2> QED BY <1>1, <1>2, <2>1 DEF TypeInv
<1> QED
  BY <1>1, <1>3 DEF TypeInv

\* Where a release that would count is off the page, the page is full of those
\* of the main line, which are all newer: as many as are needed to warn.
LEMMA FullPageWarns ==
  ASSUME TypeInv, LineInv, installed # None,
         NEW k \in DOMAIN releases, k > PageSize, Place(k) > installed.place
  PROVE  LET Seen == {n \in 1 .. PageSize :
                        releases[n].kind = "release" /\ Place(n) > installed.place}
         IN  Cardinality(Seen) >= WarnReleases
<1> DEFINE Seen == {n \in 1 .. PageSize :
                      releases[n].kind = "release" /\ Place(n) > installed.place}
           OnPage == 1 .. PageSize
<1>1. /\ PageSize \in Nat /\ MaxOdd \in Nat /\ WarnReleases \in Nat
      /\ WarnReleases + MaxOdd <= PageSize
  BY PageAssumption
<1>2. \A n \in OnPage : n \in DOMAIN releases /\ k > n
  BY <1>1 DEF TypeInv
<1>3. OnPage \ Odd \subseteq Seen
  <2> SUFFICES ASSUME NEW n \in OnPage, n \notin Odd PROVE n \in Seen
    OBVIOUS
  <2>1. n \in DOMAIN releases /\ k > n /\ Main(n)
    BY <1>2 DEF Odd
  <2>2. releases[n].kind = "release" /\ Place(k) <= Place(n)
    BY <2>1 DEF LineInv
  <2>3. Place(n) \in Nat /\ Place(k) \in Nat
    BY <2>1, EntryFields
  <2>4. installed.place \in Nat
    BY KnownPlaces DEF TypeInv
  <2> QED BY <2>2, <2>3, <2>4
<1>4. IsFiniteSet(OnPage) /\ Cardinality(OnPage) = PageSize
  BY <1>1, FS_Interval
<1> DEFINE OddOnPage == OnPage \cap Odd
<1>5. /\ IsFiniteSet(OnPage \ Odd)
      /\ Cardinality(OnPage \ Odd) = Cardinality(OnPage) - Cardinality(OddOnPage)
  BY <1>4, FS_Difference
<1>6. /\ Cardinality(OddOnPage) \in Nat /\ Cardinality(OddOnPage) <= Cardinality(Odd)
      /\ Cardinality(Odd) \in Nat
  <2>1. IsFiniteSet(Odd) /\ Cardinality(Odd) \in Nat
    BY LinesFinite DEF TypeInv, Odd
  <2> QED BY <2>1, FS_Subset, FS_CardinalityType
<1>7. Cardinality(OnPage \ Odd) >= WarnReleases
  BY <1>1, <1>4, <1>5, <1>6 DEF LineInv
<1>8. IsFiniteSet(Seen) /\ Cardinality(Seen) \in Nat
  BY <1>4, FS_Subset, FS_CardinalityType
<1>9. Cardinality(OnPage \ Odd) <= Cardinality(Seen)
  BY <1>3, <1>8, FS_Subset
<1>10. Cardinality(OnPage \ Odd) \in Nat
  BY <1>5, FS_CardinalityType
<1> QED
  BY <1>1, <1>7, <1>8, <1>9, <1>10

LEMMA WarnsInv == TypeInv /\ LineInv => WarnsWhenBehind
<1> SUFFICES ASSUME TypeInv, LineInv PROVE WarnsWhenBehind
  OBVIOUS
<1> DEFINE All == {n \in DOMAIN releases :
                     releases[n].kind = "release" /\ Place(n) > installed.place}
           Seen == {n \in FetchReleases :
                      Less(AsTuple(installed), AsTuple(Page[n].version))}
<1>1. CASE installed = None
  BY <1>1 DEF WarnsWhenBehind, Status
<1>2. CASE installed # None
  <2>1. installed \in Known /\ installed.place \in Nat
    BY <1>2, KnownPlaces DEF TypeInv
  <2>2. WarnReleases \in Nat /\ PageSize \in Nat
    BY PageAssumption
  <2>3. Seen = All \cap 1 .. PageSize
    <3>1. ASSUME NEW n \in DOMAIN releases
          PROVE  Less(AsTuple(installed), AsTuple(releases[n].version))
                   <=> Place(n) > installed.place
      <4>1. releases[n].version \in Known /\ Place(n) \in Nat
        BY <3>1, EntryFields
      <4>2. Less(AsTuple(installed), AsTuple(releases[n].version))
              <=> installed.place < releases[n].version.place
        BY <2>1, <4>1, LessIsNewer
      <4> QED BY <2>1, <4>1, <4>2 DEF Place
    <3> QED BY <3>1, PageIsPrefix DEF FetchReleases
  <2>4. IsFiniteSet(All) /\ Cardinality(All) \in Nat
    BY LinesFinite DEF TypeInv
  <2>5. IsFiniteSet(Seen) /\ Cardinality(Seen) \in Nat /\ Cardinality(Seen) <= Cardinality(All)
    BY <2>3, <2>4, FS_Subset, FS_CardinalityType
  <2>6. Cardinality(All) >= WarnReleases => Cardinality(Seen) >= WarnReleases
    <3>1. CASE All \subseteq 1 .. PageSize
      <4>1. Seen = All
        BY <2>3, <3>1
      <4> QED BY <4>1
    <3>2. CASE \E k \in All : k \notin 1 .. PageSize
      <4>1. PICK k \in All : k \notin 1 .. PageSize
        BY <3>2
      <4>2. k \in DOMAIN releases /\ k > PageSize /\ Place(k) > installed.place
        BY <2>2, <4>1 DEF TypeInv
      <4>3. 1 .. PageSize \subseteq DOMAIN releases
        BY <2>2, <4>2 DEF TypeInv
      <4>4. Seen = {n \in 1 .. PageSize :
                      releases[n].kind = "release" /\ Place(n) > installed.place}
        BY <2>3, <4>3
      <4> QED BY <1>2, <4>2, <4>4, FullPageWarns
    <3> QED BY <3>1, <3>2
  <2>7. ReleasesBehind = Cardinality(Seen)
    BY DEF ReleasesBehind
  <2>8. Status = 1 <=> online /\ Cardinality(Seen) >= WarnReleases
    BY <1>2, <2>7 DEF Status
  <2>9. WarnsWhenBehind <=>
          (Status = 1 <=> /\ installed # None /\ online
                          /\ Cardinality(All) >= WarnReleases)
    BY DEF WarnsWhenBehind, Newer, Place
  <2> HIDE DEF All, Seen
  <2> QED BY <1>2, <2>2, <2>4, <2>5, <2>6, <2>8, <2>9
<1> QED
  BY <1>1, <1>2

\* The daily check warns exactly when as many releases as asked for are newer
\* than the packaged runner, though it counts on one page what it reads from
\* the digits of the versions: for every page that has room for as many
\* releases and the entries that are not of the main line.
THEOREM WarnsWhenBehindHolds == VersionsSpec => []WarnsWhenBehind
<1>1. VersionsInit => TypeInv /\ LineInv
  <2> SUFFICES ASSUME VersionsInit PROVE TypeInv /\ LineInv
    OBVIOUS
  <2>1. TypeInv /\ DOMAIN releases = {}
    BY DEF VersionsInit, TypeInv
  <2>2. Odd = {}
    BY <2>1 DEF Odd
  <2>3. Cardinality(Odd) <= MaxOdd
    BY <2>2, FS_EmptySet, PageAssumption
  <2>4. Top(1)
    BY <2>1 DEF Top
  <2> QED BY <2>1, <2>3, <2>4 DEF LineInv
<1> QED
  BY <1>1, VersionsNextInv, WarnsInv, PTL DEF VersionsSpec

-----------------------------------------------------------------------------
(* Our own package.                                                        *)

\* A version is a number, and there is a qualifier or there is none.
PackagingType ==
  /\ base \in Bases \cup {0} /\ package \in Bases /\ bump \in Bases \cup {0}
  /\ qualifier \in Qualifiers

LEMMA PackagingTypeNext ==
  PackagingType /\ [PackagingNext]_packagingVars => PackagingType'
<1> SUFFICES ASSUME PackagingType, [PackagingNext]_packagingVars PROVE PackagingType'
  OBVIOUS
<1>1. CASE BumpSpec
  BY <1>1 DEF BumpSpec, PackagingType
<1>2. CASE BumpPackage
  BY <1>2 DEF BumpPackage, PackagingType
<1>3. CASE BumpFails
  BY <1>3 DEF BumpFails, PackagingType
<1>4. CASE EditSpec
  BY <1>4 DEF EditSpec, PackagingType
<1>5. CASE UNCHANGED packagingVars
  BY <1>5 DEF packagingVars, PackagingType
<1> QED
  BY <1>1, <1>2, <1>3, <1>4, <1>5 DEF PackagingNext

LEMMA RankOfPassed ==
  ASSUME PackagingType, CheckVersion PROVE Rank <= 3 * package + 1
<1>1. base \in Nat /\ package = base /\ qualifier \in {"none", "~"}
  BY BasesAssumption DEF PackagingType, CheckVersion
<1>2. CASE qualifier = "none"
  BY <1>1, <1>2 DEF Rank
<1>3. CASE qualifier = "~"
  BY <1>1, <1>3 DEF Rank
<1> QED
  BY <1>1, <1>2, <1>3

\* However bump-version was cut short or the spec edited, to any base versions,
\* what check-version passes sorts no higher than the release of the version
\* that the Python package calls itself.
THEOREM UpgradesToReleaseHolds == PackagingSpec => []UpgradesToRelease
<1>1. PackagingInit => PackagingType
  <2>1. \E b : b \in Bases
    BY BasesAssumption
  <2> QED BY <2>1 DEF PackagingInit, PackagingType, Qualifiers
<1>2. PackagingType => UpgradesToRelease
  BY RankOfPassed DEF UpgradesToRelease
<1> QED
  BY <1>1, <1>2, PackagingTypeNext, PTL DEF PackagingSpec
=============================================================================
