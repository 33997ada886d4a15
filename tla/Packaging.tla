------------------------------ MODULE Packaging ------------------------------
(***************************************************************************)
(* The version of our own package: in the spec, as a base version and an   *)
(* optional qualifier, and in the Python package, as the base alone.       *)
(* `make bump-version` sets both, one after the other; `check-version`     *)
(* runs before anything is built.                                          *)
(***************************************************************************)
EXTENDS Naturals

CONSTANT Bases    \* base versions, as numbers: only their order matters

ASSUME BasesAssumption == Bases \subseteq Nat \ {0} /\ Bases # {}

VARIABLES
  base,       \* %global base_version, 0 if the line is gone
  qualifier,  \* %global version_qualifier: its first character, "none" if it
              \* is not there or %{nil}
  package,    \* __version__ of the Python package
  bump        \* the version `make bump-version` is setting, 0 if it is not

packagingVars == <<base, qualifier, package, bump>>

Qualifiers == {"none", "~", "^", "d"}

PackagingInit ==
  /\ base = CHOOSE b \in Bases : TRUE
  /\ qualifier = "none"
  /\ package = base
  /\ bump = 0

-----------------------------------------------------------------------------
(* What people and make do to the two files.                               *)

\* The spec first, where there is a line to replace.
BumpSpec ==
  /\ bump = 0
  /\ bump' \in Bases
  /\ base' = IF base = 0 THEN 0 ELSE bump'
  /\ UNCHANGED <<qualifier, package>>

BumpPackage ==
  /\ bump # 0
  /\ package' = bump
  /\ bump' = 0
  /\ UNCHANGED <<base, qualifier>>

\* Interrupted, or the second `sed` fails.
BumpFails ==
  /\ bump # 0
  /\ bump' = 0
  /\ UNCHANGED <<base, qualifier, package>>

\* The spec is edited by hand.
EditSpec ==
  /\ \/ base' \in Bases \cup {0} /\ UNCHANGED qualifier
     \/ qualifier' \in Qualifiers /\ UNCHANGED base
  /\ UNCHANGED <<package, bump>>

PackagingNext == BumpSpec \/ BumpPackage \/ BumpFails \/ EditSpec
PackagingSpec == PackagingInit /\ [][PackagingNext]_packagingVars

-----------------------------------------------------------------------------
(* The check, and rpm's order.                                             *)

CheckVersionAny ==   \* mutant: any qualifier that is not a snapshot will do
  base # 0 /\ qualifier # "^" /\ package = base

CheckVersion == base # 0 /\ qualifier \in {"none", "~"} /\ package = base

\* rpm: a tilde sorts below the bare version, all else above it.
Rank == 3 * base + (CASE qualifier = "~" -> 0 [] qualifier = "none" -> 1 [] OTHER -> 2)

-----------------------------------------------------------------------------
(* Properties                                                              *)

\* What passes the check is upgraded by the release of the version it calls
\* itself, or is that release: "an installed development build upgrades cleanly
\* to the real thing" (check-version.py), however the two files came about.
UpgradesToRelease == CheckVersion => Rank <= 3 * package + 1

=============================================================================
