-------------------------- MODULE RunnerUnitProofs --------------------------
(***************************************************************************)
(* Theorems about RunnerUnit, for every set of instances and ctl           *)
(* processes, every set of events and failing steps, and every bound.      *)
(*                                                                         *)
(* TypeOK and WantsSettled are inductive (the latter with TypeOK).         *)
(* DrainBudget is not: that a listener has begun no job since the marker   *)
(* was written has to come with it, which makes it DrainInv; and neither   *)
(* is OneIntent, which needs what each command has done so far, IntentInv. *)
(* The contract is reached by showing what each kind of step does to gate  *)
(* and working: nothing (Still), an end (Quits, Ends), or one of its named *)
(* actions.  At the end Status, which counts and logs beside RunnerUnit.   *)
(***************************************************************************)
EXTENDS Status, TLAPS

USE DEF unitVars, hostVars, UnitStates, BoxStates, CtlStates, Steps

\* A command moves on: only its own program counter changes, and to a step
\* that has an instance to work on.
LEMMA GotoType ==
  ASSUME TypeOK, NEW p \in Ctls, NEW pc \in Steps, Goto(p, pc),
         pc \notin {"idle", "next"} => ctl[p].inst \in Instances
  PROVE  /\ ctl' \in [Ctls -> CtlStates]
         /\ \A q \in Ctls : ctl'[q].pc \notin {"idle", "next"} =>
                            ctl'[q].inst \in Instances
<1>1. CASE pc = "idle"
  BY <1>1 DEF Goto, IdleCtl, TypeOK
<1>2. CASE pc # "idle"
  <2>1. /\ ctl[p] \in CtlStates
        /\ ctl' = [ctl EXCEPT ![p] = [ctl[p] EXCEPT !.pc = pc]]
    BY <1>2 DEF Goto, TypeOK
  <2>2. [ctl[p] EXCEPT !.pc = pc] \in CtlStates
    BY <2>1
  <2>3. QED
    BY <2>1, <2>2 DEF TypeOK
<1>3. QED
  BY <1>1, <1>2

\* A command begins: its process has a new state, and of the others only the
\* mark of being alone changes.
LEMMA BeginType ==
  ASSUME TypeOK, NEW p \in Ctls, NEW verb \in {"enable", "drain", "disable-now"},
         NEW i \in Instances \cup {NoInstance}, NEW S \in SUBSET Instances,
         NEW pc \in Steps, pc \notin {"idle", "next"} => i \in Instances,
         Begin(p, verb, i, S, pc)
  PROVE  /\ ctl' \in [Ctls -> CtlStates]
         /\ ctl'[p].pc = pc
         /\ \A q \in Ctls \ {p} : ctl'[q].pc = ctl[q].pc /\ ctl'[q].inst = ctl[q].inst
         /\ \A q \in Ctls : ctl'[q].pc \notin {"idle", "next"} =>
                            ctl'[q].inst \in Instances
<1> DEFINE only == \A r \in Ctls \ {p} : At(r, "idle")
           mine == [verb |-> verb, inst |-> i, rest |-> S, pc |-> pc, alone |-> only]
           other(q) == [ctl[q] EXCEPT !.alone = FALSE]
<1>1. only \in BOOLEAN
  OBVIOUS
<1>2. ctl' = [q \in Ctls |-> IF q = p THEN mine ELSE other(q)]
  BY DEF Begin
<1> HIDE DEF only
<1>3. mine \in CtlStates /\ mine.pc = pc /\ mine.inst = i
  BY <1>1
<1>4. \A q \in Ctls : /\ other(q) \in CtlStates
                      /\ other(q).pc = ctl[q].pc /\ other(q).inst = ctl[q].inst
  <2>1. \A q \in Ctls : ctl[q] \in CtlStates
    BY DEF TypeOK
  <2>2. QED
    BY <2>1
<1> HIDE DEF mine, other
<1>5. QED
  BY <1>2, <1>3, <1>4 DEF TypeOK

\* A command that is done with its instance records a truth value.
LEMMA CompletedType ==
  ASSUME TypeOK, NEW p \in Ctls, Completed(p)
  PROVE  clean' \in [Instances -> BOOLEAN]
<1>1. ctl[p].alone \in BOOLEAN
  BY DEF TypeOK
<1>2. \A i \in Instances :
        (IF i = ctl[p].inst THEN ctl[p].alone ELSE clean[i]) \in BOOLEAN
  BY <1>1 DEF TypeOK
<1>3. QED
  BY <1>2 DEF Completed

\* Every step keeps the types.
LEMMA TypeStep == TypeOK /\ [Next]_vars => TypeOK'
<1> SUFFICES ASSUME TypeOK, [Next]_vars PROVE TypeOK'
  OBVIOUS
<1> USE MayFailAssumption, EventsAssumption, NoInstanceAssumption
<1>1. ASSUME NEW i \in Instances, ContainerNext(i) PROVE TypeOK'
  <2>1. CASE CreateContainer(i)
    BY <2>1 DEF CreateContainer, TypeOK
  <2>2. CASE CheckDrain(i)
    BY <2>2 DEF CheckDrain, TypeOK
  <2>3. CASE Prepare(i)
    BY <2>3 DEF Prepare, TypeOK
  <2>4. CASE TakeJob(i)
    BY <2>4 DEF TakeJob, TypeOK
  <2>5. CASE LoseListener(i)
    BY <2>5 DEF LoseListener, TypeOK
  <2>6. CASE FinishJob(i)
    BY <2>6 DEF FinishJob, TypeOK
  <2>7. CASE ContainerExit(i)
    BY <2>7 DEF ContainerExit, TypeOK
  <2>8. CASE AutoRestart(i)
    BY <2>8 DEF AutoRestart, Launch, TypeOK
  <2>9. CASE KillContainer(i)
    BY <2>9 DEF KillContainer, Event, TypeOK
  <2>10. QED
    BY <1>1, <2>1, <2>2, <2>3, <2>4, <2>5, <2>6, <2>7, <2>8, <2>9 DEF ContainerNext
<1>2. ASSUME NEW i \in Instances, OperatorNext(i) PROVE TypeOK'
  <2>1. CASE OperatorStart(i)
    BY <2>1 DEF OperatorStart, Event, StartIfNeeded, Launch, TypeOK
  <2>2. CASE OperatorStop(i)
    BY <2>2 DEF OperatorStop, Event, Halt, TypeOK
  <2>3. CASE OperatorRestart(i)
    BY <2>3 DEF OperatorRestart, Event, Launch, TypeOK
  <2>4. QED
    BY <1>2, <2>1, <2>2, <2>3 DEF OperatorNext
<1>3. ASSUME NEW i \in Instances, EnvironmentNext(i) PROVE TypeOK'
  <2>1. CASE EditUrl(i)
    BY <2>1 DEF EditUrl, Event, TypeOK
  <2>2. CASE SecretChanges(i)
    BY <2>2 DEF SecretChanges, Event, TypeOK
  <2>3. CASE UpstreamChanges(i)
    BY <2>3 DEF UpstreamChanges, TypeOK
  <2>4. QED
    BY <1>3, <2>1, <2>2, <2>3 DEF EnvironmentNext
<1>4. ASSUME TargetNext PROVE TypeOK'
  <2>1. CASE StartTarget
    BY <2>1 DEF StartTarget, Event, StartIfNeeded, Launch, TypeOK
  <2>2. CASE StopTarget
    BY <2>2 DEF StopTarget, Event, Halt, TypeOK
  <2>3. CASE RestartTarget
    BY <2>3 DEF RestartTarget, Event, Launch, TypeOK
  <2>4. CASE Reboot
    BY <2>4 DEF Reboot, Event, DaemonReload, IdleCtl, TypeOK
  <2>5. QED
    BY <1>4, <2>1, <2>2, <2>3, <2>4 DEF TargetNext
<1>5. ASSUME NEW p \in Ctls, Issue(p) PROVE TypeOK'
  <2>1. CASE \E i \in Instances : IssueEnable(p, i)
    <3>1. PICK i \in Instances : IssueEnable(p, i)
      BY <2>1
    <3>2. /\ Begin(p, "enable", i, {}, "check")
          /\ events' \in 0 .. MaxEvents
          /\ UNCHANGED <<unitVars, marker, link, wants, hostVars, since, clean>>
      BY <3>1 DEF IssueEnable, Event, TypeOK
    <3>3. QED
      BY <3>2, BeginType DEF TypeOK
  <2>2. ASSUME NEW S \in SUBSET Instances, NEW v \in {"drain", "disable-now"},
               IssueDisable(p, S, v)
        PROVE TypeOK'
    <3>1. /\ Begin(p, v, NoInstance, S, "next")
          /\ events' \in 0 .. MaxEvents
          /\ UNCHANGED <<unitVars, marker, link, wants, hostVars, since, clean>>
      BY <2>2 DEF IssueDisable, Event, TypeOK
    <3>2. QED
      BY <3>1, BeginType DEF TypeOK
  <2>3. QED
    <3>1. \A i \in Instances : {i} \in SUBSET Instances
      OBVIOUS
    <3>2. QED
      BY <1>5, <2>1, <2>2, <3>1 DEF Issue
<1>6. ASSUME NEW p \in Ctls, CtlStep(p) PROVE TypeOK'
  <2>1. CASE EnableCheck(p)
    BY <2>1, GotoType DEF EnableCheck, At, TypeOK
  <2>2. CASE EnableSecret(p)
    BY <2>2, GotoType DEF EnableSecret, At, TypeOK
  <2>3. CASE EnableClear(p)
    BY <2>3, GotoType DEF EnableClear, At, TypeOK
  <2>4. CASE EnableDropin(p)
    BY <2>4, GotoType DEF EnableDropin, At, DaemonReload, TypeOK
  <2>5. CASE EnableRelink(p)
    BY <2>5, GotoType DEF EnableRelink, At, TypeOK
  <2>6. CASE EnableSymlink(p)
    BY <2>6, GotoType DEF EnableSymlink, At, TypeOK
  <2>7. CASE EnableStart(p)
    BY <2>7, GotoType, CompletedType DEF EnableStart, At, StartIfNeeded, Launch, TypeOK
  <2>8. CASE DisableNext(p)
    <3>1. CASE ctl[p].rest = {}
      BY <2>8, <3>1, GotoType, CompletedType DEF DisableNext, At, TypeOK
    <3>2. CASE ctl[p].rest # {}
      <4>1. PICK i \in ctl[p].rest :
              ctl' = [ctl EXCEPT ![p] =
                [ctl[p] EXCEPT !.inst = i, !.rest = ctl[p].rest \ {i},
                          !.pc = IF ctl[p].verb = "drain" THEN "mark" ELSE "unlink"]]
        BY <2>8, <3>2 DEF DisableNext
      <4>2. i \in Instances /\ ctl[p] \in CtlStates
        BY DEF TypeOK
      <4> DEFINE next == [ctl[p] EXCEPT !.inst = i, !.rest = ctl[p].rest \ {i},
                            !.pc = IF ctl[p].verb = "drain" THEN "mark" ELSE "unlink"]
      <4>4. next \in CtlStates
        BY <4>2
      <4>5. ctl' \in [Ctls -> CtlStates] /\ ctl' = [ctl EXCEPT ![p] = next]
        BY <4>1, <4>4 DEF TypeOK
      <4>6. \A q \in Ctls : ctl'[q].pc \notin {"idle", "next"} =>
                           ctl'[q].inst \in Instances
        BY <4>2, <4>5 DEF TypeOK
      <4>7. /\ clean' \in [Instances -> BOOLEAN]
            /\ UNCHANGED <<unitVars, marker, link, wants, hostVars, since, events>>
        BY <2>8, CompletedType DEF DisableNext
      <4>8. QED
        BY <4>5, <4>6, <4>7 DEF TypeOK
    <3>3. QED
      BY <3>1, <3>2
  <2>9. CASE DrainMark(p)
    BY <2>9, GotoType DEF DrainMark, At, TypeOK
  <2>10. CASE DisableUnlink(p)
    BY <2>10, GotoType DEF DisableUnlink, At, AfterReload, TypeOK
  <2>11. CASE Reload(p)
    BY <2>11, GotoType DEF Reload, At, AfterReload, DaemonReload, TypeOK
  <2>12. CASE DisableStop(p)
    BY <2>12, GotoType DEF DisableStop, At, Halt, TypeOK
  <2>13. QED
    BY <1>6, <2>1, <2>2, <2>3, <2>4, <2>5, <2>6, <2>7, <2>8, <2>9, <2>10, <2>11, <2>12 DEF CtlStep
<1>7. ASSUME NEW p \in Ctls, CtlFail(p) PROVE TypeOK'
  BY <1>7, GotoType DEF CtlFail, At, TypeOK
<1>8. CASE UNCHANGED vars
  BY <1>8 DEF vars, TypeOK
<1>9. QED
  BY <1>1, <1>2, <1>3, <1>4, <1>5, <1>6, <1>7, <1>8 DEF Next

\* The initial states have the types.
LEMMA TypeInit == Init => TypeOK
<1> SUFFICES ASSUME Init PROVE TypeOK
  OBVIOUS
<1>1. ctl \in [Ctls -> CtlStates] /\ \A p \in Ctls : ctl[p].pc = "idle"
  BY DEF Init, IdleCtl
<1>2. secret \in [Instances -> BOOLEAN]
  BY DEF Init
<1>3. events \in 0 .. MaxEvents
  BY EventsAssumption DEF Init
<1>4. QED
  BY <1>1, <1>2, <1>3 DEF Init, TypeOK

\* Every variable keeps its type, a service that is not active has no
\* container, and a command that is at work has an instance of its own.
THEOREM TypeCorrect == Spec => []TypeOK
<1>1. TypeOK /\ [Next]_vars => TypeOK'
  BY TypeStep
<1>2. QED
  BY <1>1, TypeInit, PTL DEF Spec

-----------------------------------------------------------------------------
\* Every step keeps the inductive invariant of the drain.
LEMMA DrainStep == TypeOK /\ DrainInv /\ [Next]_vars => DrainInv'
<1> SUFFICES ASSUME TypeOK, DrainInv, [Next]_vars PROVE DrainInv'
  OBVIOUS
<1>1. ASSUME NEW i \in Instances, ContainerNext(i) PROVE DrainInv'
  <2>1. CASE CreateContainer(i)
    BY <2>1 DEF CreateContainer, DrainInv, TypeOK
  <2>2. CASE CheckDrain(i)
    BY <2>2 DEF CheckDrain, DrainInv, TypeOK
  <2>3. CASE Prepare(i)
    BY <2>3 DEF Prepare, DrainInv, TypeOK
  <2>4. CASE TakeJob(i)
    BY <2>4 DEF TakeJob, DrainInv, TypeOK
  <2>5. CASE LoseListener(i)
    BY <2>5 DEF LoseListener, DrainInv, TypeOK
  <2>6. CASE FinishJob(i)
    BY <2>6 DEF FinishJob, DrainInv, TypeOK
  <2>7. CASE ContainerExit(i)
    BY <2>7 DEF ContainerExit, DrainInv, TypeOK
  <2>8. CASE AutoRestart(i)
    BY <2>8 DEF AutoRestart, Launch, DrainInv, TypeOK
  <2>9. CASE KillContainer(i)
    BY <2>9 DEF KillContainer, Event, DrainInv, TypeOK
  <2>10. QED
    BY <1>1, <2>1, <2>2, <2>3, <2>4, <2>5, <2>6, <2>7, <2>8, <2>9 DEF ContainerNext
<1>2. ASSUME NEW i \in Instances, OperatorNext(i) PROVE DrainInv'
  <2>1. CASE OperatorStart(i)
    BY <2>1 DEF OperatorStart, Event, StartIfNeeded, Launch, DrainInv, TypeOK
  <2>2. CASE OperatorStop(i)
    BY <2>2 DEF OperatorStop, Event, Halt, DrainInv, TypeOK
  <2>3. CASE OperatorRestart(i)
    BY <2>3 DEF OperatorRestart, Event, Launch, DrainInv, TypeOK
  <2>4. QED
    BY <1>2, <2>1, <2>2, <2>3 DEF OperatorNext
<1>3. ASSUME NEW i \in Instances, EnvironmentNext(i) PROVE DrainInv'
  <2>1. CASE EditUrl(i)
    BY <2>1 DEF EditUrl, Event, DrainInv, TypeOK
  <2>2. CASE SecretChanges(i)
    BY <2>2 DEF SecretChanges, Event, DrainInv, TypeOK
  <2>3. CASE UpstreamChanges(i)
    BY <2>3 DEF UpstreamChanges, DrainInv, TypeOK
  <2>4. QED
    BY <1>3, <2>1, <2>2, <2>3 DEF EnvironmentNext
<1>4. ASSUME TargetNext PROVE DrainInv'
  <2>1. CASE StartTarget
    BY <2>1 DEF StartTarget, Event, StartIfNeeded, Launch, DrainInv, TypeOK
  <2>2. CASE StopTarget
    BY <2>2 DEF StopTarget, Event, Halt, DrainInv, TypeOK
  <2>3. CASE RestartTarget
    BY <2>3 DEF RestartTarget, Event, Launch, DrainInv, TypeOK
  <2>4. CASE Reboot
    BY <2>4 DEF Reboot, Event, DaemonReload, IdleCtl, DrainInv, TypeOK
  <2>5. QED
    BY <1>4, <2>1, <2>2, <2>3, <2>4 DEF TargetNext
<1>5. ASSUME NEW p \in Ctls, Issue(p) PROVE DrainInv'
  <2>1. CASE \E i \in Instances : IssueEnable(p, i)
    BY <2>1 DEF IssueEnable, At, Event, DrainInv, TypeOK
  <2>2. ASSUME NEW S \in SUBSET Instances, NEW v \in {"drain", "disable-now"},
               IssueDisable(p, S, v)
        PROVE DrainInv'
    BY <2>2 DEF IssueDisable, At, Event, DrainInv, TypeOK
  <2>3. QED
    <3>1. \A i \in Instances : {i} \in SUBSET Instances
      OBVIOUS
    <3>2. QED
      BY <1>5, <2>1, <2>2, <3>1 DEF Issue
<1>6. ASSUME NEW p \in Ctls, CtlStep(p) PROVE DrainInv'
  <2>1. CASE EnableCheck(p)
    BY <2>1 DEF EnableCheck, At, DrainInv, TypeOK
  <2>2. CASE EnableSecret(p)
    BY <2>2 DEF EnableSecret, At, DrainInv, TypeOK
  <2>3. CASE EnableClear(p)
    BY <2>3 DEF EnableClear, At, DrainInv, TypeOK
  <2>4. CASE EnableDropin(p)
    BY <2>4 DEF EnableDropin, At, DaemonReload, DrainInv, TypeOK
  <2>5. CASE EnableRelink(p)
    BY <2>5 DEF EnableRelink, At, DrainInv, TypeOK
  <2>6. CASE EnableSymlink(p)
    BY <2>6 DEF EnableSymlink, At, DrainInv, TypeOK
  <2>7. CASE EnableStart(p)
    BY <2>7 DEF EnableStart, At, StartIfNeeded, Launch, DrainInv, TypeOK
  <2>8. CASE DisableNext(p)
    BY <2>8 DEF DisableNext, At, DrainInv, TypeOK
  <2>9. CASE DrainMark(p)
    BY <2>9 DEF DrainMark, At, DrainInv, TypeOK
  <2>10. CASE DisableUnlink(p)
    BY <2>10 DEF DisableUnlink, At, AfterReload, DrainInv, TypeOK
  <2>11. CASE Reload(p)
    BY <2>11 DEF Reload, At, AfterReload, DaemonReload, DrainInv, TypeOK
  <2>12. CASE DisableStop(p)
    BY <2>12 DEF DisableStop, At, Halt, DrainInv, TypeOK
  <2>13. QED
    BY <1>6, <2>1, <2>2, <2>3, <2>4, <2>5, <2>6, <2>7, <2>8, <2>9, <2>10, <2>11, <2>12 DEF CtlStep
<1>7. ASSUME NEW p \in Ctls, CtlFail(p) PROVE DrainInv'
  BY <1>7 DEF CtlFail, At, DrainInv, TypeOK
<1>8. CASE UNCHANGED vars
  BY <1>8 DEF vars, DrainInv, TypeOK
<1>9. QED
  BY <1>1, <1>2, <1>3, <1>4, <1>5, <1>6, <1>7, <1>8 DEF Next

\* For any number of instances, ctl processes and events: once the drain marker
\* is there, an instance begins at most one more job until it is removed.
THEOREM DrainBudgetHolds == Spec => []DrainBudget
<1>1. Init => DrainInv
  BY DEF Init, DrainInv
<1>2. TypeOK /\ DrainInv /\ [Next]_vars => DrainInv'
  BY DrainStep
<1>3. DrainInv => DrainBudget
  BY DEF DrainInv, DrainBudget
<1>4. QED
  BY <1>1, <1>2, <1>3, TypeCorrect, PTL DEF Spec

-----------------------------------------------------------------------------
\* A command moves on: the program counters afterwards.
LEMMA GotoOnly ==
  ASSUME TypeOK, NEW p \in Ctls, NEW pc \in Steps, Goto(p, pc)
  PROVE  \A q \in Ctls : ctl'[q].pc = IF q = p THEN pc ELSE ctl[q].pc
BY DEF Goto, IdleCtl, TypeOK

\* A command begins: the program counters of the others.
LEMMA BeginOnly ==
  ASSUME TypeOK, NEW p \in Ctls, NEW verb, NEW i, NEW S, NEW pc, Begin(p, verb, i, S, pc)
  PROVE  \A q \in Ctls \ {p} : ctl'[q].pc = ctl[q].pc
<1>1. \A q \in Ctls \ {p} : ctl'[q] = [ctl[q] EXCEPT !.alone = FALSE]
  BY DEF Begin
<1>2. \A q \in Ctls : ctl[q] \in CtlStates
  BY DEF TypeOK
<1>3. QED
  BY <1>1, <1>2

\* While links and loaded links stay, WantsSettled needs only that no process
\* leaves the two steps between a change and its reload.
LEMMA SettledKept ==
  ASSUME WantsSettled, UNCHANGED <<link, wants>>,
         \A p \in Ctls : ctl[p].pc \in {"symlink", "reload"} =>
                        ctl'[p].pc \in {"symlink", "reload"}
  PROVE  WantsSettled'
BY DEF WantsSettled

\* Every step keeps links and loaded links together.
LEMMA WantsStep ==
  ASSUME MayFail \cap {"symlink", "reload"} = {}
  PROVE  TypeOK /\ WantsSettled /\ [Next]_vars => WantsSettled'
<1> SUFFICES ASSUME TypeOK, WantsSettled, [Next]_vars PROVE WantsSettled'
  OBVIOUS
<1>1. ASSUME NEW i \in Instances, ContainerNext(i) PROVE WantsSettled'
  <2>1. CASE CreateContainer(i)
    BY <2>1, SettledKept DEF CreateContainer
  <2>2. CASE CheckDrain(i)
    BY <2>2, SettledKept DEF CheckDrain
  <2>3. CASE Prepare(i)
    BY <2>3, SettledKept DEF Prepare
  <2>4. CASE TakeJob(i)
    BY <2>4, SettledKept DEF TakeJob
  <2>5. CASE LoseListener(i)
    BY <2>5, SettledKept DEF LoseListener
  <2>6. CASE FinishJob(i)
    BY <2>6, SettledKept DEF FinishJob
  <2>7. CASE ContainerExit(i)
    BY <2>7, SettledKept DEF ContainerExit
  <2>8. CASE AutoRestart(i)
    BY <2>8, SettledKept DEF AutoRestart
  <2>9. CASE KillContainer(i)
    BY <2>9, SettledKept DEF KillContainer
  <2>10. QED
    BY <1>1, <2>1, <2>2, <2>3, <2>4, <2>5, <2>6, <2>7, <2>8, <2>9 DEF ContainerNext
<1>2. ASSUME NEW i \in Instances, OperatorNext(i) PROVE WantsSettled'
  <2>1. CASE OperatorStart(i)
    BY <2>1, SettledKept DEF OperatorStart
  <2>2. CASE OperatorStop(i)
    BY <2>2, SettledKept DEF OperatorStop
  <2>3. CASE OperatorRestart(i)
    BY <2>3, SettledKept DEF OperatorRestart
  <2>4. QED
    BY <1>2, <2>1, <2>2, <2>3 DEF OperatorNext
<1>3. ASSUME NEW i \in Instances, EnvironmentNext(i) PROVE WantsSettled'
  <2>1. CASE EditUrl(i)
    BY <2>1, SettledKept DEF EditUrl
  <2>2. CASE SecretChanges(i)
    BY <2>2, SettledKept DEF SecretChanges
  <2>3. CASE UpstreamChanges(i)
    BY <2>3, SettledKept DEF UpstreamChanges
  <2>4. QED
    BY <1>3, <2>1, <2>2, <2>3 DEF EnvironmentNext
<1>4. ASSUME TargetNext PROVE WantsSettled'
  <2>1. CASE StartTarget
    BY <2>1, SettledKept DEF StartTarget
  <2>2. CASE StopTarget
    BY <2>2, SettledKept DEF StopTarget
  <2>3. CASE RestartTarget
    BY <2>3, SettledKept DEF RestartTarget
  <2>4. CASE Reboot
    BY <2>4 DEF Reboot, DaemonReload, WantsSettled
  <2>5. QED
    BY <1>4, <2>1, <2>2, <2>3, <2>4 DEF TargetNext
<1>5. ASSUME NEW p \in Ctls, Issue(p) PROVE WantsSettled'
  <2>1. CASE \E i \in Instances : IssueEnable(p, i)
    BY <2>1, SettledKept, BeginOnly DEF IssueEnable, At
  <2>2. ASSUME NEW S \in SUBSET Instances, NEW v \in {"drain", "disable-now"},
               IssueDisable(p, S, v)
        PROVE WantsSettled'
    BY <2>2, SettledKept, BeginOnly DEF IssueDisable, At
  <2>3. QED
    <3>1. \A i \in Instances : {i} \in SUBSET Instances
      OBVIOUS
    <3>2. QED
      BY <1>5, <2>1, <2>2, <3>1 DEF Issue
<1>6. ASSUME NEW p \in Ctls, CtlStep(p) PROVE WantsSettled'
  <2>1. CASE EnableCheck(p)
    BY <2>1, GotoOnly, SettledKept DEF EnableCheck, At, Steps
  <2>2. CASE EnableSecret(p)
    BY <2>2, GotoOnly, SettledKept DEF EnableSecret, At, Steps
  <2>3. CASE EnableClear(p)
    BY <2>3, GotoOnly, SettledKept DEF EnableClear, At, Steps
  <2>4. CASE EnableDropin(p)
    BY <2>4 DEF EnableDropin, DaemonReload, WantsSettled
  <2>5. CASE EnableRelink(p)
    BY <2>5, GotoOnly DEF EnableRelink, At, Steps, WantsSettled, TypeOK
  <2>6. CASE EnableSymlink(p)
    BY <2>6, GotoOnly DEF EnableSymlink, At, Steps, WantsSettled, TypeOK
  <2>7. CASE EnableStart(p)
    BY <2>7, GotoOnly, SettledKept DEF EnableStart, At, Steps
  <2>8. CASE DisableNext(p)
    <3>1. CASE ctl[p].rest = {}
      BY <2>8, <3>1, GotoOnly, SettledKept DEF DisableNext, At, Steps
    <3>2. CASE ctl[p].rest # {}
      <4>1. \A q \in Ctls \ {p} : ctl'[q] = ctl[q]
        <5>1. \E c : ctl' = [ctl EXCEPT ![p] = c]
          BY <2>8, <3>2, Zenon DEF DisableNext
        <5>2. QED
          BY <5>1 DEF TypeOK
      <4>2. QED
        BY <2>8, <4>1, SettledKept DEF DisableNext, At
    <3>3. QED
      BY <3>1, <3>2
  <2>9. CASE DrainMark(p)
    BY <2>9, GotoOnly, SettledKept DEF DrainMark, At, Steps
  <2>10. CASE DisableUnlink(p)
    <3>1. CASE link[ctl[p].inst]
      <4>1. Goto(p, "reload")
        BY <2>10, <3>1 DEF DisableUnlink
      <4>2. ctl'[p].pc = "reload"
        BY <4>1, GotoOnly DEF Steps
      <4>3. QED
        BY <4>2 DEF WantsSettled
    <3>2. CASE ~link[ctl[p].inst]
      <4>1. UNCHANGED <<link, wants>>
        BY <2>10, <3>2 DEF DisableUnlink, At, TypeOK
      <4>2. PICK pc \in Steps : Goto(p, pc)
        BY <2>10, <3>2 DEF DisableUnlink, AfterReload, Steps
      <4>3. QED
        BY <2>10, <4>1, <4>2, GotoOnly, SettledKept DEF DisableUnlink, At
    <3>3. QED
      BY <3>1, <3>2
  <2>11. CASE Reload(p)
    BY <2>11 DEF Reload, DaemonReload, WantsSettled
  <2>12. CASE DisableStop(p)
    BY <2>12, GotoOnly, SettledKept DEF DisableStop, At, Steps
  <2>13. QED
    BY <1>6, <2>1, <2>2, <2>3, <2>4, <2>5, <2>6, <2>7, <2>8, <2>9, <2>10, <2>11, <2>12 DEF CtlStep
<1>7. ASSUME NEW p \in Ctls, CtlFail(p) PROVE WantsSettled'
  BY <1>7, GotoOnly, SettledKept DEF CtlFail, At, Steps
<1>8. CASE UNCHANGED vars
  BY <1>8 DEF vars, WantsSettled, TypeOK
<1>9. QED
  BY <1>1, <1>2, <1>3, <1>4, <1>5, <1>6, <1>7, <1>8 DEF Next

\* When no command is cut short between changing a link and reloading, what
\* systemd has loaded differs from the disk only while one of them is there,
\* whatever else interleaves.
THEOREM WantsSettledHolds ==
  ASSUME MayFail \cap {"symlink", "reload"} = {}
  PROVE  Spec => []WantsSettled
<1>1. Init => WantsSettled
  BY DEF Init, WantsSettled
<1>2. TypeOK /\ WantsSettled /\ [Next]_vars => WantsSettled'
  BY WantsStep
<1>3. QED
  BY <1>1, <1>2, TypeCorrect, PTL DEF Spec

-----------------------------------------------------------------------------
\* The contract sees only the markers and the containers.
LEMMA Still ==
  ASSUME UNCHANGED <<marker, box>>
  PROVE  [Contract!ContractNext]_<<gate, working>>
BY DEF gate, working

\* The containers of S going away is a Quit of the contract.
LEMMA Quits ==
  ASSUME TypeOK, NEW S \in SUBSET Instances, UNCHANGED marker,
         box' = [j \in Instances |-> IF j \in S THEN "none" ELSE box[j]]
  PROVE  [Contract!ContractNext]_<<gate, working>>
<1>1. Contract!Quit(S)
  BY DEF Contract!Quit, gate, working, TypeOK
<1>2. QED
  BY <1>1 DEF Contract!ContractNext

\* So is one container leaving for a position without prospect of a job.
LEMMA Ends ==
  ASSUME TypeOK, NEW i \in Instances, UNCHANGED marker,
         NEW b \in BoxStates \ {"ready", "listening", "job"},
         box' = [box EXCEPT ![i] = b]
  PROVE  [Contract!ContractNext]_<<gate, working>>
<1>1. Contract!Quit({i})
  BY DEF Contract!Quit, gate, working, TypeOK
<1>2. QED
  BY <1>1 DEF Contract!ContractNext

\* Every step is a step of the contract or leaves its state alone.
LEMMA ContractStep == TypeOK /\ [Next]_vars => [Contract!ContractNext]_<<gate, working>>
<1> SUFFICES ASSUME TypeOK, [Next]_vars PROVE [Contract!ContractNext]_<<gate, working>>
  OBVIOUS
<1>1. ASSUME NEW i \in Instances, ContainerNext(i) PROVE [Contract!ContractNext]_<<gate, working>>
  <2>1. CASE CreateContainer(i)
    BY <2>1, Ends, Still DEF CreateContainer, TypeOK
  <2>2. CASE CheckDrain(i)
    <3>1. UNCHANGED <<gate, working>>
      BY <2>2 DEF CheckDrain, gate, working, TypeOK
    <3>2. QED
      BY <3>1
  <2>3. CASE Prepare(i)
    <3>1. CASE upstream[i]
      BY <2>3, <3>1 DEF Prepare, gate, working, TypeOK
    <3>2. CASE ~upstream[i]
      BY <2>3, <3>2, Ends DEF Prepare, TypeOK
    <3>3. QED
      BY <3>1, <3>2
  <2>4. CASE TakeJob(i)
    <3> DEFINE g == IF marker[i] THEN "shut" ELSE "open"
    <3>1. box[i] = "listening" /\ box' = [box EXCEPT ![i] = "job"] /\ UNCHANGED marker
      BY <2>4 DEF TakeJob
    <3>2. gate[i] = (IF marker[i] THEN "last" ELSE "open") /\ ~working[i]
      BY <3>1 DEF gate, working
    <3>3. gate' = [gate EXCEPT ![i] = g]
      <4>1. /\ box'[i] = "job"
            /\ \A j \in Instances \ {i} : box'[j] = box[j]
        BY <3>1 DEF TypeOK
      <4>2. gate'[i] = g /\ \A j \in Instances \ {i} : gate'[j] = gate[j]
        BY <3>1, <4>1 DEF gate
      <4>3. QED
        BY <4>2 DEF gate
    <3>4. working' = [working EXCEPT ![i] = TRUE]
      BY <3>1 DEF working, TypeOK
    <3>5. Contract!Begin(i)
      BY <3>2, <3>3, <3>4 DEF Contract!Begin
    <3>6. QED
      BY <3>5 DEF Contract!ContractNext
  <2>5. CASE LoseListener(i)
    BY <2>5, Ends DEF LoseListener, TypeOK
  <2>6. CASE FinishJob(i)
    BY <2>6, Ends DEF FinishJob, TypeOK
  <2>7. CASE ContainerExit(i)
    BY <2>7, Ends DEF ContainerExit, TypeOK
  <2>8. CASE AutoRestart(i)
    <3>1. {i} \in SUBSET Instances
      OBVIOUS
    <3>2. QED
      BY <2>8, <3>1, Quits DEF AutoRestart, Launch, TypeOK
  <2>9. CASE KillContainer(i)
    BY <2>9, Ends DEF KillContainer, TypeOK
  <2>10. QED
    BY <1>1, <2>1, <2>2, <2>3, <2>4, <2>5, <2>6, <2>7, <2>8, <2>9 DEF ContainerNext
<1>2. ASSUME NEW i \in Instances, OperatorNext(i) PROVE [Contract!ContractNext]_<<gate, working>>
  <2>1. CASE OperatorStart(i)
    <3>1. {j \in {i} : unit[j] # "active"} \in SUBSET Instances
      BY <2>1 DEF OperatorStart, TypeOK
    <3>2. QED
      BY <2>1, <3>1, Quits DEF OperatorStart, StartIfNeeded, Launch
  <2>2. CASE OperatorStop(i)
    <3>1. {i} \in SUBSET Instances
      BY <2>2 DEF OperatorStop, TypeOK
    <3>2. QED
      BY <2>2, <3>1, Quits DEF OperatorStop, Halt
  <2>3. CASE OperatorRestart(i)
    <3>1. {i} \in SUBSET Instances
      BY <2>3 DEF OperatorRestart, TypeOK
    <3>2. QED
      BY <2>3, <3>1, Quits DEF OperatorRestart, Launch
  <2>4. QED
    BY <1>2, <2>1, <2>2, <2>3 DEF OperatorNext
<1>3. ASSUME NEW i \in Instances, EnvironmentNext(i) PROVE [Contract!ContractNext]_<<gate, working>>
  <2>1. CASE EditUrl(i)
    BY <2>1, Still DEF EditUrl
  <2>2. CASE SecretChanges(i)
    BY <2>2, Still DEF SecretChanges
  <2>3. CASE UpstreamChanges(i)
    BY <2>3, Still DEF UpstreamChanges
  <2>4. QED
    BY <1>3, <2>1, <2>2, <2>3 DEF EnvironmentNext
<1>4. ASSUME TargetNext PROVE [Contract!ContractNext]_<<gate, working>>
  <2>1. CASE StartTarget
    <3>1. {j \in {k \in Instances : wants[k]} : unit[j] # "active"} \in SUBSET Instances
      BY <2>1 DEF StartTarget, TypeOK
    <3>2. QED
      BY <2>1, <3>1, Quits DEF StartTarget, StartIfNeeded, Launch
  <2>2. CASE StopTarget
    <3>1. Instances \in SUBSET Instances
      BY <2>2 DEF StopTarget, TypeOK
    <3>2. QED
      BY <2>2, <3>1, Quits DEF StopTarget, Halt
  <2>3. CASE RestartTarget
    <3>1. {j \in Instances : unit[j] # "dead" \/ wants[j]} \in SUBSET Instances
      BY <2>3 DEF RestartTarget, TypeOK
    <3>2. QED
      BY <2>3, <3>1, Quits DEF RestartTarget, Launch
  <2>4. CASE Reboot
    <3>1. Instances \in SUBSET Instances
      BY <2>4 DEF Reboot, TypeOK
    <3>2. QED
      BY <2>4, <3>1, Quits DEF Reboot
  <2>5. QED
    BY <1>4, <2>1, <2>2, <2>3, <2>4 DEF TargetNext
<1>5. ASSUME NEW p \in Ctls, Issue(p) PROVE [Contract!ContractNext]_<<gate, working>>
  <2>1. CASE \E i \in Instances : IssueEnable(p, i)
    BY <2>1, Still DEF IssueEnable
  <2>2. ASSUME NEW S \in SUBSET Instances, NEW v \in {"drain", "disable-now"},
               IssueDisable(p, S, v)
        PROVE [Contract!ContractNext]_<<gate, working>>
    BY <2>2, Still DEF IssueDisable
  <2>3. QED
    <3>1. \A i \in Instances : {i} \in SUBSET Instances
      OBVIOUS
    <3>2. QED
      BY <1>5, <2>1, <2>2, <3>1 DEF Issue
<1>6. ASSUME NEW p \in Ctls, CtlStep(p) PROVE [Contract!ContractNext]_<<gate, working>>
  <2>1. CASE EnableCheck(p)
    BY <2>1, Still DEF EnableCheck
  <2>2. CASE EnableSecret(p)
    BY <2>2, Still DEF EnableSecret
  <2>3. CASE EnableClear(p)
    <3> DEFINE i == ctl[p].inst
    <3>1. i \in Instances /\ marker' = [marker EXCEPT ![i] = FALSE] /\ UNCHANGED box
      BY <2>3 DEF EnableClear, At, TypeOK
    <3> HIDE DEF i
    <3>2. CASE marker[i]
      <4>1. Contract!Resume(i)
        BY <3>1, <3>2 DEF Contract!Resume, gate, working, TypeOK
      <4>2. QED
        BY <3>1, <4>1 DEF Contract!ContractNext
    <3>3. CASE ~marker[i]
      BY <3>1, <3>3, Still DEF TypeOK
    <3>4. QED
      BY <3>2, <3>3
  <2>4. CASE EnableDropin(p)
    BY <2>4, Still DEF EnableDropin
  <2>5. CASE EnableRelink(p)
    BY <2>5, Still DEF EnableRelink
  <2>6. CASE EnableSymlink(p)
    BY <2>6, Still DEF EnableSymlink
  <2>7. CASE EnableStart(p)
    <3>1. {j \in {ctl[p].inst} : unit[j] # "active"} \in SUBSET Instances
      BY <2>7 DEF EnableStart, At, TypeOK
    <3>2. QED
      BY <2>7, <3>1, Quits DEF EnableStart, StartIfNeeded, Launch
  <2>8. CASE DisableNext(p)
    BY <2>8, Still DEF DisableNext
  <2>9. CASE DrainMark(p)
    <3> DEFINE i == ctl[p].inst
    <3>1. i \in Instances /\ marker' = [marker EXCEPT ![i] = TRUE] /\ UNCHANGED box
      BY <2>9 DEF DrainMark, At, TypeOK
    <3> HIDE DEF i
    <3>2. CASE ~marker[i]
      <4> DEFINE g == IF box[i] \in {"ready", "listening"} THEN "last" ELSE "shut"
      <4>1. gate[i] = "open" /\ gate' = [gate EXCEPT ![i] = g] /\ UNCHANGED working
        <5>1. marker'[i] /\ \A j \in Instances \ {i} : marker'[j] = marker[j]
          BY <3>1 DEF TypeOK
        <5>2. gate'[i] = g /\ \A j \in Instances \ {i} : gate'[j] = gate[j]
          BY <3>1, <5>1 DEF gate
        <5>3. QED
          BY <3>1, <3>2, <5>2 DEF gate, working
      <4>2. g \in (IF working[i] THEN {"shut"} ELSE {"last", "shut"})
        BY <3>1 DEF working
      <4>3. Contract!Drain(i)
        BY <4>1, <4>2 DEF Contract!Drain
      <4>4. QED
        BY <3>1, <4>3 DEF Contract!ContractNext
    <3>3. CASE marker[i]
      BY <3>1, <3>3, Still DEF TypeOK
    <3>4. QED
      BY <3>2, <3>3
  <2>10. CASE DisableUnlink(p)
    BY <2>10, Still DEF DisableUnlink
  <2>11. CASE Reload(p)
    BY <2>11, Still DEF Reload
  <2>12. CASE DisableStop(p)
    <3>1. {ctl[p].inst} \in SUBSET Instances
      BY <2>12 DEF DisableStop, At, TypeOK
    <3>2. QED
      BY <2>12, <3>1, Quits DEF DisableStop, Halt
  <2>13. QED
    BY <1>6, <2>1, <2>2, <2>3, <2>4, <2>5, <2>6, <2>7, <2>8, <2>9, <2>10, <2>11, <2>12 DEF CtlStep
<1>7. ASSUME NEW p \in Ctls, CtlFail(p) PROVE [Contract!ContractNext]_<<gate, working>>
  BY <1>7, Still DEF CtlFail
<1>8. CASE UNCHANGED vars
  BY <1>8, Still DEF vars
<1>9. QED
  BY <1>1, <1>2, <1>3, <1>4, <1>5, <1>6, <1>7, <1>8 DEF Next

\* The services, containers and commands implement the contract of a graceful
\* disable, for every value of the constants.
THEOREM DrainIsHonoured == Spec => DrainHonoured
<1>1. Init => Contract!ContractInit
  BY DEF Init, Contract!ContractInit, gate, working
<1>2. TypeOK /\ [Next]_vars => [Contract!ContractNext]_<<gate, working>>
  BY ContractStep
<1>3. QED
  BY <1>1, <1>2, TypeCorrect, PTL
     DEF Spec, DrainHonoured, Contract!ContractSpec, Contract!contractVars

-----------------------------------------------------------------------------
\* Steps of services, containers, operators and the environment leave alone
\* what the intents are about.
LEMMA IntentKept ==
  ASSUME IntentInv, UNCHANGED <<marker, link, clean, ctl>>
  PROVE  IntentInv'
BY DEF IntentInv, Purposeful, Undisturbed

\* The process of a command that moves on, and the others.
LEMMA GotoShape ==
  ASSUME TypeOK, NEW p \in Ctls, NEW pc \in Steps, Goto(p, pc)
  PROVE  /\ \A q \in Ctls \ {p} : ctl'[q] = ctl[q]
         /\ ctl'[p].pc = pc
         /\ pc = "idle" => ctl'[p].inst = NoInstance /\ ~ctl'[p].alone
         /\ pc # "idle" => /\ ctl'[p].inst = ctl[p].inst
                          /\ ctl'[p].verb = ctl[p].verb
                          /\ ctl'[p].alone = ctl[p].alone
<1>1. CASE pc = "idle"
  BY <1>1 DEF Goto, IdleCtl, TypeOK
<1>2. CASE pc # "idle"
  <2>1. ctl \in [Ctls -> CtlStates] /\ ctl' = [ctl EXCEPT ![p] = [ctl[p] EXCEPT !.pc = pc]]
    BY <1>2 DEF Goto, TypeOK
  <2>2. QED
    BY <1>2, <2>1
<1>3. QED
  BY <1>1, <1>2

\* The process of a command that begins, and the others.
LEMMA BeginShape ==
  ASSUME TypeOK, NEW p \in Ctls, NEW verb, NEW i, NEW S, NEW pc, Begin(p, verb, i, S, pc)
  PROVE  /\ ctl'[p].pc = pc /\ ctl'[p].inst = i /\ ctl'[p].verb = verb
         /\ ctl'[p].alone => \A q \in Ctls \ {p} : ctl[q].pc = "idle"
         /\ \A q \in Ctls \ {p} : /\ ctl'[q].pc = ctl[q].pc
                                 /\ ctl'[q].inst = ctl[q].inst
                                 /\ ctl'[q].verb = ctl[q].verb
                                 /\ ~ctl'[q].alone
<1>1. \A q \in Ctls \ {p} : ctl'[q] = [ctl[q] EXCEPT !.alone = FALSE]
  BY DEF Begin
<1>2. \A q \in Ctls : ctl[q] \in CtlStates
  BY DEF TypeOK
<1>3. \A q \in Ctls \ {p} : /\ ctl'[q].pc = ctl[q].pc
                           /\ ctl'[q].inst = ctl[q].inst
                           /\ ctl'[q].verb = ctl[q].verb
                           /\ ~ctl'[q].alone
  BY <1>1, <1>2
<1>4. ctl'[p].pc = pc /\ ctl'[p].inst = i /\ ctl'[p].verb = verb
  BY DEF Begin
<1>5. ctl'[p].alone => \A q \in Ctls \ {p} : ctl[q].pc = "idle"
  BY DEF Begin, At
<1>6. QED
  BY <1>3, <1>4, <1>5

\* Every step keeps the inductive invariant of the intents.
LEMMA IntentStep == TypeOK /\ IntentInv /\ [Next]_vars => IntentInv'
<1> SUFFICES ASSUME TypeOK, IntentInv, [Next]_vars PROVE IntentInv'
  OBVIOUS
<1> USE NoInstanceAssumption DEF EnableSteps, DisableSteps
<1>1. ASSUME NEW i \in Instances, ContainerNext(i) PROVE IntentInv'
  BY <1>1, IntentKept DEF ContainerNext, CreateContainer, CheckDrain, Prepare, TakeJob,
     LoseListener, FinishJob, ContainerExit, AutoRestart, KillContainer
<1>2. ASSUME NEW i \in Instances, OperatorNext(i) PROVE IntentInv'
  BY <1>2, IntentKept DEF OperatorNext, OperatorStart, OperatorStop, OperatorRestart
<1>3. ASSUME NEW i \in Instances, EnvironmentNext(i) PROVE IntentInv'
  BY <1>3, IntentKept DEF EnvironmentNext, EditUrl, SecretChanges, UpstreamChanges
<1>4. ASSUME TargetNext PROVE IntentInv'
  <2>1. CASE StartTarget \/ StopTarget \/ RestartTarget
    BY <2>1, IntentKept DEF StartTarget, StopTarget, RestartTarget
  <2>2. CASE Reboot
    <3>1. /\ \A i \in Instances : clean'[i] => clean[i] /\ \A p \in Ctls : ctl[p].inst # i
          /\ UNCHANGED <<marker, link>>
      BY <2>2 DEF Reboot
    <3>2. \A p \in Ctls : ctl'[p] = IdleCtl
      BY <2>2 DEF Reboot
    <3>3. QED
      BY <3>1, <3>2 DEF IntentInv, Purposeful, Undisturbed, IdleCtl
  <2>3. QED
    BY <1>4, <2>1, <2>2 DEF TargetNext
<1>5. ASSUME NEW p \in Ctls, Issue(p) PROVE IntentInv'
  <2>1. CASE \E i \in Instances : IssueEnable(p, i)
    BY <2>1, BeginShape DEF IssueEnable, At, IntentInv, Purposeful, Undisturbed
  <2>2. ASSUME NEW S \in SUBSET Instances, NEW v \in {"drain", "disable-now"},
               IssueDisable(p, S, v)
        PROVE IntentInv'
    BY <2>2, BeginShape DEF IssueDisable, At, IntentInv, Purposeful, Undisturbed
  <2>3. QED
    <3>1. \A i \in Instances : {i} \in SUBSET Instances
      OBVIOUS
    <3>2. QED
      BY <1>5, <2>1, <2>2, <3>1 DEF Issue
<1>6. ASSUME NEW p \in Ctls, CtlStep(p) PROVE IntentInv'
  <2> USE DEF At, IntentInv, Purposeful, Undisturbed
  <2>1. CASE EnableCheck(p)
    BY <2>1, GotoShape DEF EnableCheck
  <2>2. CASE EnableSecret(p)
    BY <2>2, GotoShape DEF EnableSecret
  <2>3. CASE EnableClear(p)
    BY <2>3, GotoShape DEF EnableClear, TypeOK
  <2>4. CASE EnableDropin(p)
    BY <2>4, GotoShape DEF EnableDropin
  <2>5. CASE EnableRelink(p)
    BY <2>5, GotoShape DEF EnableRelink, TypeOK
  <2>6. CASE EnableSymlink(p)
    BY <2>6, GotoShape DEF EnableSymlink, TypeOK
  <2>7. CASE EnableStart(p)
    BY <2>7, GotoShape DEF EnableStart, Completed, TypeOK
  <2>8. CASE DisableNext(p)
    <3>1. CASE ctl[p].rest = {}
      BY <2>8, <3>1, GotoShape DEF DisableNext, Completed, TypeOK
    <3>2. CASE ctl[p].rest # {}
      <4>1. PICK i \in ctl[p].rest :
              ctl' = [ctl EXCEPT ![p] =
                [ctl[p] EXCEPT !.inst = i, !.rest = ctl[p].rest \ {i},
                               !.pc = IF ctl[p].verb = "drain" THEN "mark" ELSE "unlink"]]
        BY <2>8, <3>2 DEF DisableNext
      <4>2. ctl[p] \in CtlStates /\ ctl \in [Ctls -> CtlStates]
        BY DEF TypeOK
      <4>3. /\ \A q \in Ctls \ {p} : ctl'[q] = ctl[q]
            /\ ctl'[p].inst = i /\ ctl'[p].pc \in {"mark", "unlink"}
            /\ ctl'[p].verb = ctl[p].verb /\ ctl'[p].alone = ctl[p].alone
        BY <4>1, <4>2
      <4>4. /\ ctl[p].pc = "next" /\ UNCHANGED <<marker, link>>
            /\ \A j \in Instances :
                 clean'[j] = IF j = ctl[p].inst THEN ctl[p].alone ELSE clean[j]
        BY <2>8 DEF DisableNext, Completed
      <4>5. QED
        BY <4>3, <4>4
    <3>3. QED
      BY <3>1, <3>2
  <2>9. CASE DrainMark(p)
    BY <2>9, GotoShape DEF DrainMark, TypeOK
  <2>10. CASE DisableUnlink(p)
    BY <2>10, GotoShape DEF DisableUnlink, AfterReload, TypeOK
  <2>11. CASE Reload(p)
    BY <2>11, GotoShape DEF Reload, AfterReload, TypeOK
  <2>12. CASE DisableStop(p)
    BY <2>12, GotoShape DEF DisableStop
  <2>13. QED
    BY <1>6, <2>1, <2>2, <2>3, <2>4, <2>5, <2>6, <2>7, <2>8, <2>9, <2>10, <2>11, <2>12 DEF CtlStep
<1>7. ASSUME NEW p \in Ctls, CtlFail(p) PROVE IntentInv'
  <2>1. \A i \in Instances : clean'[i] => clean[i] /\ i # ctl[p].inst
    BY <1>7 DEF CtlFail
  <2>2. ctl[p].pc # "idle" /\ Goto(p, "idle") /\ UNCHANGED <<marker, link>>
    BY <1>7, MayFailAssumption DEF CtlFail
  <2>3. QED
    BY <2>1, <2>2, GotoShape DEF IntentInv, Purposeful, Undisturbed
<1>8. CASE UNCHANGED vars
  BY <1>8, IntentKept DEF vars
<1>9. QED
  BY <1>1, <1>2, <1>3, <1>4, <1>5, <1>6, <1>7, <1>8 DEF Next

\* Whatever commands overlap, fail or are cut off by a reboot, an instance whose
\* last command ran to its end alone is enabled or draining, never both.
THEOREM OneIntentHolds == Spec => []OneIntent
<1>1. Init => IntentInv
  BY DEF Init, IntentInv, Purposeful, Undisturbed, IdleCtl, EnableSteps, DisableSteps
<1>2. TypeOK /\ IntentInv /\ [Next]_vars => IntentInv'
  BY IntentStep
<1>3. IntentInv => OneIntent
  BY NoInstanceAssumption DEF IntentInv, Purposeful, OneIntent
<1>4. QED
  BY <1>1, <1>2, <1>3, TypeCorrect, PTL DEF Spec

-----------------------------------------------------------------------------
(* A drain gets on.                                                        *)

LEMMA Spent == ASSUME TypeOK, NEW v, Event(v) PROVE events' # events
BY EventsAssumption DEF TypeOK, Event

\* What the service and the container of an instance do by themselves, and the
\* calls of commands, shorten its way to rest or leave it as it is.
LEMMA Nearer ==
  ASSUME TypeOK, [Next]_vars, NEW i \in Instances, marker[i], secret[i], url[i],
         events' = events, ~\E p \in Ctls : EnableStart(p)
  PROVE  UNCHANGED <<unit[i], box[i]>> \/ Ahead(i)' < Ahead(i)
<1> DEFINE Goal == UNCHANGED <<unit[i], box[i]>> \/ Ahead(i)' < Ahead(i)
<1>1. ASSUME NEW j \in Instances, ContainerNext(j), j # i PROVE Goal
  <2>1. UNCHANGED <<unit[i], box[i]>>
    BY <1>1 DEF ContainerNext, CreateContainer, CheckDrain, Prepare, TakeJob,
                LoseListener, FinishJob, ContainerExit, AutoRestart, Launch, KillContainer,
                TypeOK
  <2> QED BY <2>1
<1>2. ASSUME ContainerNext(i) PROVE Goal
  <2> USE DEF TypeOK, Ahead
  <2>1. CASE CreateContainer(i)
    BY <2>1 DEF CreateContainer
  <2>2. CASE CheckDrain(i)
    BY <2>2 DEF CheckDrain
  <2>3. CASE Prepare(i)
    BY <2>3 DEF Prepare
  <2>4. CASE TakeJob(i) \/ LoseListener(i)
    BY <2>4 DEF TakeJob, LoseListener
  <2>5. CASE FinishJob(i)
    BY <2>5 DEF FinishJob
  <2>6. CASE ContainerExit(i)
    BY <2>6 DEF ContainerExit
  <2>7. CASE AutoRestart(i)
    BY <2>7 DEF AutoRestart, Launch
  <2>8. CASE KillContainer(i)
    BY <2>8, Spent DEF KillContainer
  <2> QED
    BY <1>2, <2>1, <2>2, <2>3, <2>4, <2>5, <2>6, <2>7, <2>8 DEF ContainerNext
<1>3. ASSUME NEW j \in Instances, OperatorNext(j) \/ EnvironmentNext(j) PROVE Goal
  <2>1. CASE UpstreamChanges(j)
    BY <2>1 DEF UpstreamChanges
  <2>2. CASE OperatorNext(j) \/ EditUrl(j) \/ SecretChanges(j)
    BY <2>2, Spent DEF OperatorNext, OperatorStart, OperatorStop, OperatorRestart,
                       EditUrl, SecretChanges
  <2> QED BY <1>3, <2>1, <2>2 DEF EnvironmentNext
<1>4. ~TargetNext
  BY Spent DEF TargetNext, StartTarget, StopTarget, RestartTarget, Reboot
<1>5. ASSUME NEW p \in Ctls, Issue(p) PROVE FALSE
  BY <1>5, Spent DEF Issue, IssueEnable, IssueDisable
<1>6. ASSUME NEW p \in Ctls, CtlStep(p) \/ CtlFail(p) PROVE Goal
  <2>1. CASE DisableStop(p)
    BY <2>1 DEF DisableStop, Halt, TypeOK, Ahead
  <2>2. CASE ~DisableStop(p)
    <3>1. UNCHANGED unitVars
      BY <1>6, <2>2 DEF CtlStep, EnableCheck, EnableSecret, EnableClear, EnableDropin,
                        EnableRelink, EnableSymlink, DisableNext, DrainMark,
                        DisableUnlink, Reload, CtlFail
    <3> QED BY <3>1
  <2> QED BY <2>1, <2>2
<1>7. CASE UNCHANGED vars
  BY <1>7 DEF vars
<1> QED
  BY <1>1, <1>2, <1>3, <1>4, <1>5, <1>6, <1>7 DEF Next

\* From wherever it is, a draining instance with its secret and its RUNNER_URL is
\* at most eight steps of its own from rest, and only an operator, a kill, a
\* reboot or an `enable` adds to them.
THEOREM DrainAdvancesHolds == Spec => DrainAdvances
<1>1. TypeOK /\ [Next]_vars
        => [\A i \in Instances :
              /\ marker[i] /\ secret[i] /\ url[i]
              /\ events' = events /\ ~\E p \in Ctls : EnableStart(p)
              => UNCHANGED <<unit[i], box[i]>> \/ Ahead(i)' < Ahead(i)]_vars
  BY Nearer
<1> QED
  BY <1>1, TypeCorrect, PTL DEF Spec, DrainAdvances

-----------------------------------------------------------------------------
(* What `status` adds: counters and logs beside the same services.         *)

everything == <<vars, statusVars>>

\* Counting and logging change nothing of the services, so what is proved of them
\* holds beside `status`, too.
THEOREM StatusOnlyCounts == StatusSpec => Spec
<1>1. StatusInit => Init
  BY DEF StatusInit
<1>2. [StatusNext]_everything => [Next]_vars
  <2> SUFFICES ASSUME [StatusNext]_everything PROVE [Next]_vars
    OBVIOUS
  <2>1. CASE \E i \in Instances : CountRestart(i) \/ LogJob(i)
    BY <2>1 DEF CountRestart, LogJob, ContainerNext, Next
  <2>2. CASE \E i \in Instances : Quietly(i)
    BY <2>2 DEF Quietly, ContainerNext, Next
  <2>3. CASE ByHand
    BY <2>3 DEF ByHand, OperatorNext, Next
  <2>4. CASE Age \/ PruneDiag \/ UNCHANGED everything
    BY <2>4 DEF Age, PruneDiag, everything
  <2> QED BY <2>1, <2>2, <2>3, <2>4 DEF StatusNext
<1> QED
  BY <1>1, <1>2, PTL DEF Spec, StatusSpec, everything

One(b) == IF b THEN 1 ELSE 0

\* Each counted restart came after a job, which has left a log, or after none.
Tally ==
  /\ restarts \in [Instances -> Nat] /\ jobless \in [Instances -> Nat]
  /\ fresh \in [Instances -> Nat] /\ stale \in [Instances -> Nat]
  /\ worked \in [Instances -> BOOLEAN]
  /\ \A i \in Instances :
       restarts[i] + One(worked[i]) <= fresh[i] + stale[i] + jobless[i]

LEMMA TallyNext ==
  ASSUME Tally, [StatusNext]_everything, [~PruneDiag]_everything
  PROVE  Tally'
<1> USE DEF Tally, One, counterVars, logVars, statusVars
<1>1. ASSUME NEW i \in Instances, CountRestart(i) PROVE Tally'
  BY <1>1 DEF CountRestart
<1>2. ASSUME NEW i \in Instances, LogJob(i) PROVE Tally'
  BY <1>2 DEF LogJob
<1>3. CASE Recount
  <2>1. /\ worked' \in [Instances -> BOOLEAN]
        /\ \A i \in Instances : worked'[i] => worked[i]
    BY <1>3, Zenon DEF Recount
  <2>2. /\ UNCHANGED <<fresh, stale>>
        /\ restarts' \in [Instances -> Nat] /\ jobless' \in [Instances -> Nat]
    BY <1>3 DEF Recount
  <2>3. ASSUME NEW i \in Instances
        PROVE  \/ restarts'[i] = 0 /\ jobless'[i] = 0 /\ ~worked'[i]
               \/ restarts'[i] = restarts[i] /\ jobless'[i] = jobless[i]
    BY <1>3, <2>3, Zenon DEF Recount
  <2>4. ASSUME NEW i \in Instances
        PROVE  restarts'[i] + One(worked'[i]) <= fresh'[i] + stale'[i] + jobless'[i]
    <3>1. One(worked'[i]) <= One(worked[i])
      BY <2>1
    <3>2. /\ restarts[i] \in Nat /\ jobless[i] \in Nat /\ fresh[i] \in Nat
          /\ stale[i] \in Nat
      BY DEF Tally
    <3> QED
      BY <2>2, <2>3, <3>1, <3>2
  <2> QED
    BY <2>1, <2>2, <2>4
<1>4. CASE Age
  BY <1>4 DEF Age
<1>5. CASE UNCHANGED everything
  BY <1>5 DEF everything
<1> QED
  BY <1>1, <1>2, <1>3, <1>4, <1>5 DEF StatusNext

\* As long as no Worker log is removed, `status` is right: there have been at least
\* as many restarts without a job as it reports, whatever was killed, started or
\* stopped by hand, and whenever the counter began anew (cmd_status).
THEOREM StatusRightUntilPruned ==
  StatusSpec /\ [][~PruneDiag]_everything
    => [](UnexplainedMeansJobless /\ \A i \in Instances : Unexplained(i) <= jobless[i])
<1>1. StatusInit => Tally
  BY DEF StatusInit, Tally, One
<1>2. Tally => /\ UnexplainedMeansJobless
               /\ \A i \in Instances : Unexplained(i) <= jobless[i]
  BY DEF Tally, One, UnexplainedMeansJobless, Unexplained, JobsRun
<1> QED
  BY <1>1, <1>2, TallyNext, PTL DEF StatusSpec, everything
=============================================================================
