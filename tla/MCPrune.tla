------------------------------- MODULE MCPrune -------------------------------
(***************************************************************************)
(* Prune for TLC: jobs, containers and pruners are model values.  The      *)
(* liveness runs do without symmetry.                                      *)
(***************************************************************************)
EXTENDS Prune, TLC

Symmetry ==
  Permutations(Jobs) \cup Permutations(Containers) \cup Permutations(Pruners)
=============================================================================
