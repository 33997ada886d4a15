-------------------------- MODULE EntrypointProofs --------------------------
(***************************************************************************)
(* Theorems about Entrypoint, for every template, any number of releases,  *)
(* deaths and jobs.                                                        *)
(***************************************************************************)
EXTENDS Entrypoint, TLAPS

USE PartsAssumption, ReleaseAssumption, ShipsAssumption, DiesAssumption, DeathsAssumption

\* The variables keep their types, and a file is yet to be copied only while
\* a container is at it.
THEOREM TypeCorrect == Spec => []TypeOK
<1>1. Init => TypeOK
  <2> SUFFICES ASSUME Init PROVE TypeOK
    OBVIOUS
  <2>1. 1 \in Releases /\ 0 \in 0 .. MaxDeaths
    BY DEF Releases
  <2>2. pc \in Steps /\ work \in SUBSET Entries /\ todo \in SUBSET Files
    BY DEF Init, Steps
  <2>3. package \in [Files -> Releases \cup {0}] /\ tree \in [Files -> Releases \cup {0}]
    BY <2>1 DEF Init, Shipped
  <2> QED
    BY <2>1, <2>2, <2>3 DEF Init, TypeOK
<1>2. TypeOK /\ [Next]_vars => TypeOK'
  <2> SUFFICES ASSUME TypeOK, [Next]_vars PROVE TypeOK'
    OBVIOUS
  <2> USE DEF TypeOK, Releases, template, copy, registration, drain
  <2>1. CASE Boot
    BY <2>1 DEF Boot, Steps
  <2>2. CASE Compare
    <3>1. want' \in Releases \cup {0} /\ pc' \in Steps /\ todo' \in SUBSET Files
      BY <2>2 DEF Compare, Steps, Files
    <3>2. torn' \in BOOLEAN
      BY <2>2, Zenon DEF Compare, Installed
    <3> QED
      BY <2>2, <3>1, <3>2 DEF Compare
  <2>3. CASE CopyFile
    BY <2>3 DEF CopyFile
  <2>4. CASE CopyDone
    BY <2>4 DEF CopyDone, Steps
  <2>5. CASE Stamp
    BY <2>5 DEF Stamp, Steps
  <2>6. CASE Sweep
    BY <2>6 DEF Sweep
  <2>7. CASE SweepDone \/ Preflight \/ Mint
    BY <2>7 DEF SweepDone, Preflight, Mint, Steps
  <2>8. CASE ClearRegistration \/ Configure \/ ConfigureFails \/ SaveRegistration
    BY <2>8 DEF ClearRegistration, Configure, ConfigureFails, SaveRegistration, Steps
  <2>9. CASE TakeJob \/ FinishJob
    BY <2>9 DEF TakeJob, FinishJob, Steps
  <2>10. CASE JobWrites
    BY <2>10 DEF JobWrites
  <2>11. CASE Die
    <3>1. torn' \in BOOLEAN
      BY <2>11, Zenon DEF Die
    <3> QED
      BY <2>11, <3>1 DEF Die, Steps
  <2>12. CASE BeginUpgrade
    <3>1. torn' \in BOOLEAN
      BY <2>12, Zenon DEF BeginUpgrade
    <3> QED
      BY <2>12, <3>1 DEF BeginUpgrade
  <2>13. CASE UpgradeFile
    BY <2>13 DEF UpgradeFile, Shipped
  <2>14. CASE Mark \/ Clear
    <3>1. marker' \in BOOLEAN
      BY <2>14, Zenon DEF Mark, Clear
    <3>2. minted' \in Nat
      BY <2>14 DEF Mark, Clear
    <3>3. UNCHANGED <<pc, template, copy, wipe, work, registration, deaths>>
      BY <2>14 DEF Mark, Clear
    <3> QED
      BY <3>1, <3>2, <3>3
  <2>15. CASE UNCHANGED vars
    BY <2>15 DEF vars
  <2> QED
    BY <2>1, <2>2, <2>3, <2>4, <2>5, <2>6, <2>7, <2>8, <2>9, <2>10, <2>11, <2>12,
       <2>13, <2>14, <2>15 DEF Next, Script, Runner
<1> QED
  BY <1>1, <1>2, PTL DEF Spec

-----------------------------------------------------------------------------

\* However the containers before it ended, and whatever their jobs wrote, a
\* container that gets past the sweep finds no scratch, and no checkout whose
\* name does not begin with a dot.
THEOREM WorkFreshHolds == Spec => []WorkFresh
<1>1. Init => WorkFresh
  BY DEF Init, WorkFresh, Fresh
<1>2. WorkFresh /\ [Next]_vars => WorkFresh'
  <2> SUFFICES ASSUME WorkFresh, [Next]_vars PROVE WorkFresh'
    OBVIOUS
  <2> USE DEF WorkFresh, Fresh, template, copy, registration, drain
  <2>1. CASE Boot \/ Compare \/ CopyFile \/ CopyDone \/ Stamp \/ Sweep
    BY <2>1 DEF Boot, Compare, CopyFile, CopyDone, Stamp, Sweep
  <2>2. CASE SweepDone
    BY <2>2 DEF SweepDone, Swept, Globbed, Entries
  <2>3. CASE Preflight \/ Mint \/ ClearRegistration \/ Configure \/ ConfigureFails
             \/ SaveRegistration
    BY <2>3
       DEF Preflight, Mint, ClearRegistration, Configure, ConfigureFails, SaveRegistration
  <2>4. CASE Runner \/ Mark \/ Clear \/ Die
    BY <2>4 DEF Runner, TakeJob, JobWrites, FinishJob, Mark, Clear, Die
  <2>5. CASE BeginUpgrade \/ UpgradeFile \/ UNCHANGED vars
    BY <2>5 DEF BeginUpgrade, UpgradeFile, vars
  <2> QED
    BY <2>1, <2>2, <2>3, <2>4, <2>5 DEF Next, Script
<1> QED
  BY <1>1, <1>2, PTL DEF Spec

-----------------------------------------------------------------------------
(* Where a marker may be believed.                                         *)

LEMMA FilesOfFiles ==
  ASSUME NEW r \in Releases
  PROVE  FilesOf(r) \subseteq Files
  BY DEF FilesOf, Files, Releases


\* A marker vouches for the copy but while it is being made, or if it was torn; a
\* container that goes on has the release of the marker it wants.
MarkerInv ==
  /\ package[".version"] # 0
  /\ ~torn =>
      /\ pc # "copy" /\ tree[".version"] # 0 => Whole(tree[".version"])
      /\ pc = "copy" =>
           /\ Installed
           /\ want = release
           /\ \A f \in FilesOf(want) \ todo : tree[f] = want
      /\ pc \in {"stamp", "stamped"} => \A f \in FilesOf(want) \ {".version"} : tree[f] = want
      /\ pc \in {"sweep", "preflight", "mint", "clear"} \cup Runs => Whole(want)

\* Nothing but a copy that is cut short, or taken while rpm replaces the template,
\* keeps the runner from being run from one whole release, the one the template's
\* marker named when its container started: wherever containers die, whenever
\* packages are installed, and whichever files the releases have.
THEOREM TreeWholeHolds == Spec => []TreeWhole
<1> DEFINE Inv == TypeOK /\ MarkerInv
<1>1. Init => MarkerInv
  BY DEF Init, MarkerInv, Files, FilesOf, Shipped, Runs
<1>2. Inv /\ [Next]_vars => MarkerInv'
  <2> USE DEF Runs, template, copy, registration, drain
  <2>a. ASSUME TypeOK, MarkerInv, [Next]_vars PROVE package'[".version"] # 0
    <3>1. release + 1 # 0 /\ release # 0 /\ ".version" \in Files
      BY <2>a DEF TypeOK, Releases, Files
    <3>2. CASE UpgradeFile
      BY <2>a, <3>1, <3>2 DEF UpgradeFile, MarkerInv, Shipped, FilesOf, TypeOK
    <3>3. CASE ~UpgradeFile
      BY <2>a, <3>3
         DEF MarkerInv, Next, Script, Runner, Boot, Compare, CopyFile, CopyDone, Stamp,
             Sweep, SweepDone, Preflight, Mint, ClearRegistration, Configure,
             ConfigureFails, SaveRegistration, TakeJob, JobWrites, FinishJob, Mark, Clear,
             Die, BeginUpgrade, vars
    <3> QED
      BY <3>2, <3>3
  <2> SUFFICES ASSUME TypeOK, MarkerInv, [Next]_vars, ~torn', package'[".version"] # 0
               PROVE MarkerInv'
    BY <2>a DEF MarkerInv
  <2> USE DEF MarkerInv
  <2>1. CASE Boot
    BY <2>1 DEF Boot, Whole, Installed
  <2>2. CASE Compare
    <3>1. CASE tree[".version"] = package[".version"]
      BY <2>2, <3>1 DEF Compare, TypeOK, Whole
    <3>2. CASE tree[".version"] # package[".version"]
      <4>1. Installed /\ todo' = Files /\ pc' = "copy" /\ UNCHANGED <<template, tree>>
        BY <2>2, <3>2 DEF Compare
      <4>2. want' = release
        BY <2>2, <4>1 DEF Compare, Installed, Shipped, FilesOf, Files
      <4> QED
        BY <4>1, <4>2, FilesOfFiles DEF TypeOK, Installed
    <3> QED
      BY <3>1, <3>2
  <2>3. CASE CopyFile
    <3>1. PICK f \in todo :
            /\ tree' = IF package[f] = 0 THEN tree ELSE [tree EXCEPT ![f] = package[f]]
            /\ todo' = todo \ {f}
      BY <2>3 DEF CopyFile
    <3>2. Installed /\ want = release /\ ~torn /\ pc' = "copy" /\ UNCHANGED <<template, want>>
      BY <2>3 DEF CopyFile
    <3>3. ASSUME NEW g \in FilesOf(want) \ todo' PROVE tree'[g] = want
      <4>1. CASE g = f
        <5>1. package[f] = want /\ want # 0 /\ f \in Files
          BY <3>2, <4>1, FilesOfFiles DEF Installed, Shipped, TypeOK, Releases
        <5> QED BY <3>1, <4>1, <5>1 DEF TypeOK
      <4>2. CASE g # f
        <5>1. g \in Files /\ tree[g] = want
          BY <3>1, <3>2, <4>2, FilesOfFiles DEF TypeOK
        <5> QED BY <3>1, <4>2, <5>1 DEF TypeOK
      <4> QED BY <4>1, <4>2
    <3> QED
      BY <3>2, <3>3 DEF Installed
  <2>4. CASE CopyDone
    BY <2>4 DEF CopyDone, TypeOK, Files, Whole, FilesOf
  <2>5. CASE Stamp
    BY <2>5, FilesOfFiles DEF Stamp, TypeOK, Files, Whole, FilesOf
  <2>6. CASE Sweep \/ SweepDone \/ Preflight \/ Mint
    BY <2>6 DEF Sweep, SweepDone, Preflight, Mint, Whole
  <2>7. CASE ClearRegistration \/ Configure \/ ConfigureFails \/ SaveRegistration
    BY <2>7 DEF ClearRegistration, Configure, ConfigureFails, SaveRegistration, Whole
  <2>8. CASE Runner
    BY <2>8 DEF Runner, TakeJob, JobWrites, FinishJob, Whole
  <2>9. CASE Mark \/ Clear
    BY <2>9 DEF Mark, Clear, Whole, Installed
  <2>10. CASE Die
    BY <2>10 DEF Die, Whole
  <2>11. CASE BeginUpgrade
    BY <2>11 DEF BeginUpgrade, Whole
  <2>12. CASE UpgradeFile
    BY <2>12 DEF UpgradeFile, Whole, Installed
  <2>13. CASE UNCHANGED vars
    BY <2>13 DEF vars, Whole, Installed
  <2> QED
    BY <2>1, <2>2, <2>3, <2>4, <2>5, <2>6, <2>7, <2>8, <2>9, <2>10, <2>11, <2>12, <2>13
       DEF Next, Script
<1>3. MarkerInv => TreeWhole
  BY DEF MarkerInv, TreeWhole
<1> QED
  BY <1>1, <1>2, <1>3, TypeCorrect, PTL DEF Spec

-----------------------------------------------------------------------------
(* A drain, as the script sees it.                                         *)

\* However the marker gets there and wherever containers die, at most one more
\* token is minted until it is removed (step 1 of the script).
THEOREM MintsOnceHolds == Spec => []MintsOnce
<1>1. Init => MintInv
  BY DEF Init, MintInv
<1>2. TypeOK /\ MintInv /\ [Next]_vars => MintInv'
  <2> SUFFICES ASSUME TypeOK, MintInv, [Next]_vars PROVE MintInv'
    OBVIOUS
  <2> USE DEF MintInv, template, copy, registration, drain
  <2>1. CASE Boot \/ Compare \/ CopyFile \/ CopyDone \/ Stamp \/ Sweep \/ SweepDone
    BY <2>1 DEF Boot, Compare, CopyFile, CopyDone, Stamp, Sweep, SweepDone
  <2>2. CASE Preflight \/ ClearRegistration \/ Configure \/ ConfigureFails
             \/ SaveRegistration
    BY <2>2 DEF Preflight, ClearRegistration, Configure, ConfigureFails, SaveRegistration
  <2>3. CASE Mint
    BY <2>3 DEF Mint, TypeOK
  <2>4. CASE Mark \/ Clear
    BY <2>4 DEF Mark, Clear
  <2>5. CASE Runner \/ Die
    BY <2>5 DEF Runner, TakeJob, JobWrites, FinishJob, Die
  <2>6. CASE BeginUpgrade \/ UpgradeFile \/ UNCHANGED vars
    BY <2>6 DEF BeginUpgrade, UpgradeFile, vars
  <2> QED
    BY <2>1, <2>2, <2>3, <2>4, <2>5, <2>6 DEF Next, Script
<1>3. MintInv => MintsOnce
  BY DEF MintInv, MintsOnce
<1> QED
  BY <1>1, <1>2, <1>3, TypeCorrect, PTL DEF Spec

-----------------------------------------------------------------------------
(* The script implements the contract of a graceful disable.               *)

\* What neither begins nor ends a container, and writes no marker, is no step
\* of the contract.
LEMMA Quiet ==
  ASSUME UNCHANGED marker, pc' = pc \/ {pc, pc'} \cap {"down", "job"} = {}
  PROVE  UNCHANGED <<gate, working>>
  BY DEF gate, working

\* A container that ends has quit its job or its chance of one.
LEMMA Ends ==
  ASSUME UNCHANGED marker, pc' = "down"
  PROVE  Contract!Quit(Here)
<1>1. ASSUME NEW i \in Here
      PROVE  /\ working'[i] = (working[i] /\ i \notin Here)
             /\ gate'[i] = IF i \in Here /\ gate[i] = "last" THEN "shut" ELSE gate[i]
  BY DEF gate, working
<1> QED BY <1>1 DEF Contract!Quit, gate, working

LEMMA StepImplements ==
  ASSUME TypeOK, [Next]_vars
  PROVE  [Contract!ContractNext]_<<gate, working>>
<1> USE DEF template, copy, registration, drain
<1>1. CASE Boot
  BY <1>1 DEF Boot, gate, working
<1>2. CASE Compare \/ CopyFile \/ CopyDone \/ Stamp \/ Sweep \/ SweepDone
           \/ Preflight \/ Mint \/ ClearRegistration \/ Configure
           \/ (SaveRegistration /\ pc' # "down") \/ JobWrites \/ BeginUpgrade
           \/ UpgradeFile \/ UNCHANGED vars
  BY <1>2, Quiet
     DEF Compare, CopyFile, CopyDone, Stamp, Sweep, SweepDone, Preflight, Mint,
         ClearRegistration, SaveRegistration, Configure, JobWrites, BeginUpgrade,
         UpgradeFile, vars
<1>3. CASE ConfigureFails \/ (SaveRegistration /\ pc' = "down") \/ FinishJob \/ Die
  <2>1. Here \in SUBSET Here
    OBVIOUS
  <2> QED BY <1>3, <2>1, Ends
          DEF ConfigureFails, SaveRegistration, FinishJob, Die, Contract!ContractNext
<1>4. CASE TakeJob
  <2>1. Contract!Begin("this runner")
    BY <1>4 DEF TakeJob, Contract!Begin, gate, working, Here
  <2> QED BY <2>1 DEF Contract!ContractNext, Here
<1>5. CASE Mark
  <2>1. Contract!Drain("this runner")
    BY <1>5 DEF Mark, Contract!Drain, gate, working, Here
  <2> QED BY <2>1 DEF Contract!ContractNext, Here
<1>6. CASE Clear
  <2>1. Contract!Resume("this runner")
    BY <1>6 DEF Clear, Contract!Resume, gate, working, Here
  <2> QED BY <2>1 DEF Contract!ContractNext, Here
<1> QED
  BY <1>1, <1>2, <1>3, <1>4, <1>5, <1>6 DEF Next, Script, Runner

\* The script by itself keeps the promise `disable` makes: every step of it is
\* a step of the contract or leaves gate and work alone.
THEOREM ScriptDrainsHolds == Spec => ScriptDrains
<1>1. Init => Contract!ContractInit
  BY DEF Init, Contract!ContractInit, gate, working
<1>2. TypeOK /\ [Next]_vars => [Contract!ContractNext]_<<gate, working>>
  BY StepImplements
<1> QED
  BY <1>1, <1>2, TypeCorrect, PTL
     DEF Spec, ScriptDrains, Contract!ContractSpec, Contract!contractVars

-----------------------------------------------------------------------------
(* The script gets on.                                                     *)

\* What an earlier container has registered is gone when config.sh runs.
Unregistered == pc = "config" => ~local

LEMMA UnregisteredNext == TypeOK /\ Unregistered /\ [Next]_vars => Unregistered'
<1> SUFFICES ASSUME Unregistered, [Next]_vars PROVE Unregistered'
  OBVIOUS
<1> USE DEF Unregistered, template, copy, registration, drain
<1>1. CASE Boot \/ Compare \/ CopyFile \/ CopyDone \/ Stamp \/ Sweep
  BY <1>1 DEF Boot, Compare, CopyFile, CopyDone, Stamp, Sweep
<1>2. CASE SweepDone \/ Preflight \/ Mint
  BY <1>2 DEF SweepDone, Preflight, Mint
<1>3. CASE ClearRegistration \/ Configure \/ ConfigureFails \/ SaveRegistration
  BY <1>3 DEF ClearRegistration, Configure, ConfigureFails, SaveRegistration
<1>4. CASE Runner \/ Mark \/ Clear \/ Die
  BY <1>4 DEF Runner, TakeJob, JobWrites, FinishJob, Mark, Clear, Die
<1>5. CASE BeginUpgrade \/ UpgradeFile \/ UNCHANGED vars
  BY <1>5 DEF BeginUpgrade, UpgradeFile, vars
<1> QED
  BY <1>1, <1>2, <1>3, <1>4, <1>5 DEF Next, Script

\* Whatever earlier containers have left in _work and of a registration, each step of
\* the script gets further, or has one entry less to copy or to sweep; config.sh and
\* run.sh fail over nothing but a torn copy, so otherwise only a death keeps a
\* container from listening.
THEOREM ScriptAdvancesHolds == Spec => ScriptAdvances
<1>1. Init => Unregistered
  BY DEF Init, Unregistered
<1> DEFINE Advance ==
      \/ Stage[pc] < Stage[pc']
      \/ /\ pc' = pc
         /\ \/ todo' \subseteq todo /\ todo' # todo
            \/ work' \subseteq work /\ work' # work
      \/ torn /\ pc' = "down"
<1>2. TypeOK /\ TreeWhole /\ Unregistered /\ [Next]_vars => [Script => Advance]_vars
  <2> SUFFICES ASSUME TypeOK, TreeWhole, Unregistered, Script PROVE Advance
    OBVIOUS
  <2>1. CASE CopyFile
    BY <2>1 DEF CopyFile
  <2>2. CASE Sweep
    BY <2>2 DEF Sweep
  <2>3. CASE Boot \/ Compare \/ CopyDone \/ Stamp
    BY <2>3 DEF Boot, Compare, CopyDone, Stamp, Stage
  <2>4. CASE SweepDone \/ Preflight \/ Mint
    BY <2>4 DEF SweepDone, Preflight, Mint, Stage
  <2>5. CASE ClearRegistration \/ Configure
    BY <2>5 DEF ClearRegistration, Configure, Stage
  <2>6. CASE ConfigureFails
    BY <2>6 DEF ConfigureFails, Unregistered, TreeWhole, Runs
  <2>7. CASE SaveRegistration
    BY <2>7 DEF SaveRegistration, TreeWhole, Runs, Stage
  <2> QED
    BY <2>1, <2>2, <2>3, <2>4, <2>5, <2>6, <2>7 DEF Script
<1> QED
  BY <1>1, <1>2, UnregisteredNext, TreeWholeHolds, TypeCorrect, PTL DEF Spec, ScriptAdvances

=============================================================================
