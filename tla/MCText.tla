------------------------------- MODULE MCText -------------------------------
(***************************************************************************)
(* Conf, Versions and Packaging for TLC.  They have no state in common, so *)
(* a behaviour is one of the three and the others stay where they start.   *)
(***************************************************************************)
EXTENDS Conf, Versions, Packaging

SomeTexts ==
  [RUNNER_NAME |-> {<<>>, <<"a">>, <<"host-01">>},
   RUNNER_URL |-> {<<>>, <<"h", "o">>, <<"h", "o", "r", "">>, <<"h", "o", "r", "x">>},
   MEMORY_MAX |-> {<<"1G">>, <<"2G">>},
   JOB_MEMORY_MAX |-> {<<"1G">>}]

vars == <<lines, versionVars, packagingVars>>

Init == ConfInit /\ VersionsInit /\ PackagingInit

Next ==
  \/ /\ VersionsInit /\ PackagingInit
     /\ ConfNext /\ UNCHANGED <<versionVars, packagingVars>>
  \/ /\ ConfInit /\ PackagingInit
     /\ VersionsNext /\ UNCHANGED <<lines, packagingVars>>
  \/ /\ ConfInit /\ VersionsInit
     /\ PackagingNext /\ UNCHANGED <<lines, versionVars>>

Spec == Init /\ [][Next]_vars
=============================================================================
