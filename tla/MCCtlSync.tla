------------------------------ MODULE MCCtlSync ------------------------------
(***************************************************************************)
(* CtlSync for TLC.  Ids, processes and tokens are model values and no     *)
(* action tells one from another; a shape is "plain" or one that has       *)
(* limits.                                                                 *)
(***************************************************************************)
EXTENDS Reports, TLC

TwoShapes == {"plain", "limits"}
AnyStep == Steps \ {"idle"}

Symmetry ==
  Permutations(Drifted) \cup Permutations(Instances \ Drifted)
    \cup Permutations(Ctls) \cup Permutations(Tokens)
=============================================================================
