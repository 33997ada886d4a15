------------------------------ MODULE Versions ------------------------------
(***************************************************************************)
(* gh-runner-version-check: how far the packaged runner, which never       *)
(* updates itself, is behind the releases of actions/runner.               *)
(*                                                                         *)
(* Releases are listed newest first, one page of them is asked for, and    *)
(* among those that count there are prereleases, drafts, fixes of older    *)
(* lines, and candidates nobody has marked as such.                        *)
(***************************************************************************)
EXTENDS Naturals, Sequences, FiniteSets

CONSTANTS
  PageSize,      \* how many entries one request returns
  WarnReleases,  \* --warn-releases
  MaxOdd,        \* bound on the entries that are not releases of the main line
  MaxEntries     \* bound on all entries

ASSUME PageAssumption ==
  /\ {PageSize, WarnReleases, MaxOdd, MaxEntries} \subseteq Nat
  /\ WarnReleases > 0
  /\ WarnReleases + MaxOdd <= PageSize

VARIABLES
  releases,      \* what upstream has published, newest first
  installed,     \* the version marker of the template, or None
  online         \* GitHub can be reached

versionVars == <<releases, installed, online>>

(***************************************************************************)
(* A version is a sequence of parts, each a number and what follows it,    *)
(* "none" if nothing does.  Its place says where it is in the order of     *)
(* upstream's versions: even ones are new lines, 2.9.0, 2.10.0, 2.11.0 and *)
(* so on, odd ones fixes.                                                  *)
(***************************************************************************)
Version(place, suffix) ==
  [place |-> place,
   parts |-> << [num |-> 2, rest |-> "none"], [num |-> 9 + place \div 2, rest |-> "none"],
                [num |-> place % 2, rest |-> suffix] >>]
None == [place |-> 0, parts |-> <<>>]

VersionsInit ==
  /\ releases = <<>>
  /\ installed = None
  /\ online = TRUE

-----------------------------------------------------------------------------
(* The check.                                                              *)

AsTupleSuffix(version) ==   \* mutant: what follows the digits makes it newer
  [k \in DOMAIN version.parts |->
     2 * version.parts[k].num + (IF version.parts[k].rest = "none" THEN 0 ELSE 1)]

\* The leading digits of each part, and nothing that follows them.
AsTuple(version) == [k \in DOMAIN version.parts |-> version.parts[k].num]

\* Python's order of tuples: the first difference decides, or else the length.
Less(s, t) ==
  \E n \in DOMAIN t :
    /\ \A m \in 1 .. n - 1 : m \in DOMAIN s /\ s[m] = t[m]
    /\ n \in DOMAIN s => s[n] < t[n]

Page == SubSeq(releases, 1, IF Len(releases) < PageSize THEN Len(releases) ELSE PageSize)

\* What is marked as a prerelease or a draft does not count.
FetchReleases == {n \in DOMAIN Page : Page[n].kind = "release"}

ReleasesBehind ==
  Cardinality({n \in FetchReleases : Less(AsTuple(installed), AsTuple(Page[n].version))})

\* The exit status of the daily check.
Status ==
  IF installed = None THEN 2
  ELSE IF online /\ ReleasesBehind >= WarnReleases THEN 1 ELSE 0

-----------------------------------------------------------------------------
(* Upstream, the package and the network.                                  *)

\* Where the main line stands.
MaxPlace ==
  LET P == {releases[n].version.place : n \in {k \in DOMAIN releases : releases[k].main}}
  IN IF P = {} THEN 1 ELSE CHOOSE p \in P : \A q \in P : q <= p

Publish(version, kind, main) ==
  /\ Len(releases) < MaxEntries
  /\ releases' =
       <<[version |-> version, kind |-> kind, main |-> main]>> \o releases
  /\ UNCHANGED <<installed, online>>

\* The next fix of the main line, or its next line.
PublishRelease ==
  \E step \in {1, 2} : Publish(Version(MaxPlace + step, "none"), "release", TRUE)

\* A fix of an older line, or a candidate or draft of what comes next.
PublishOther ==
  /\ Cardinality({n \in DOMAIN releases : ~releases[n].main}) < MaxOdd
  /\ \/ \E place \in 2 .. MaxPlace : Publish(Version(place, "none"), "release", FALSE)
     \/ \E kind \in {"release", "prerelease"} :
          Publish(Version(MaxPlace + 1, "-rc1"), kind, FALSE)
     \/ Publish(Version(MaxPlace + 1, "none"), "draft", FALSE)

\* A package with any published runner, newer or older.
Install ==
  /\ \E n \in DOMAIN releases :
       releases[n].kind # "draft" /\ installed' = releases[n].version
  /\ UNCHANGED <<releases, online>>

Uninstall == installed' = None /\ UNCHANGED <<releases, online>>

Network == online' = ~online /\ UNCHANGED <<releases, installed>>

VersionsNext == PublishRelease \/ PublishOther \/ Install \/ Uninstall \/ Network
VersionsSpec == VersionsInit /\ [][VersionsNext]_versionVars

-----------------------------------------------------------------------------
(* Properties                                                              *)

Newer ==
  {n \in DOMAIN releases :
     /\ releases[n].kind = "release"
     /\ releases[n].version.place > installed.place}

\* The check warns exactly when GitHub answers and as many releases as asked for
\* (--warn-releases: "warn at this many releases behind") are newer than the
\* installed one, by upstream's order and among all there are: 2.10.0 is newer
\* than 2.9.1, a candidate is not newer than its release, and a page that is not
\* filled with other entries is long enough.  The design (:1024-1025) has it warn
\* "when the gap exceeds" their number; the code does when it reaches it.
WarnsWhenBehind ==
  Status = 1 <=> installed # None /\ online /\ Cardinality(Newer) >= WarnReleases

=============================================================================
