---------------------------- MODULE ReportsProofs ----------------------------
(***************************************************************************)
(* Proofs about Reports: what the read-only commands say after a command   *)
(* that ran alone, for any number of instances and whatever state the host *)
(* was in before.  All of it follows from what CtlSyncProofs shows to be   *)
(* in place at each step of such a command.                                *)
(***************************************************************************)
EXTENDS Reports, CtlSyncProofs

\* One with a secret beside it is "ok", or read by nobody.
LEMMA LoadedIsOk ==
  ASSUME NEW i \in Instances, file[i] \in Files, Has(i), SecretExists(i)
  PROVE  CheckCredential(i) \in {"ok", "unreadable"}
<1>1. CASE file[i] \in Tokens
  <2>1. file[i] # "loose"
    BY <1>1, TokensAssumption
  <2> QED BY <1>1, <2>1 DEF CheckCredential
<1>2. CASE file[i] = "loose"
  <2>1. file[i] \notin Tokens
    BY <1>2, TokensAssumption
  <2> QED BY <1>2, <2>1 DEF CheckCredential
<1> QED
  BY <1>1, <1>2 DEF Has, Files

\* Where a step leads.
LEMMA GoPc ==
  ASSUME NEW p \in Ctls, NEW c, Go(p, c)
  PROVE  ctl'[p].pc = c.pc
BY DEF Go, IdleCtl

LEMMA GoToPc ==
  ASSUME TypeInv, NEW p \in Ctls, NEW pc, GoTo(p, pc)
  PROVE  ctl'[p].pc = pc
BY GoPc, Carries DEF GoTo, CtlStates

\* An instance that is configured and has no credential, or no secret, or a
\* conf file without RUNNER_URL or one nobody can read, is a problem to doctor.
LEMMA DoctorSees ==
  ASSUME NEW i \in Instances, conf[i] # "absent",
         conf[i] \in {"malformed", "no-url"} \/ ~Has(i) \/ store[i] = "absent"
  PROVE  ~Doctor
<1>1. i \in Configured
  BY DEF Configured
<1>2. CASE Unreadable
  BY <1>2 DEF Doctor, CredentialProblems
<1>3. CASE ~Unreadable
  <2>1. conf[i] # "malformed"
    BY <1>3 DEF Unreadable
  <2> QED
    BY <1>1, <1>3, <2>1 DEF Doctor, CredentialProblems, CheckInstances, SecretExists
<1> QED
  BY <1>2, <1>3

-----------------------------------------------------------------------------
\* An `enable` that ran alone and gives up does so for a reason doctor reports.
THEOREM EnableExplainedHolds == Spec => EnableExplained
<1>1. ASSUME TypeInv, DoneInv, NEW p \in Ctls, ctl[p].verb = "enable", ctl[p].quiet,
             conf[ctl[p].inst] # "absent", CtlStep(p), ~Again(p), ~CreateRefused(p),
             ctl'[p].pc = "idle"
      PROVE  ~Doctor
  <2> DEFINE c == ctl[p]
             i == c.inst
  <2>1. /\ c \in CtlStates /\ c.pc \in StepsOf("enable") /\ i \in Instances
        /\ c.todo \subseteq {i} /\ EnableDone(c)
    BY <1>1, Carries DEF DoneInv, OfOne
  <2>2. \A d : Go(p, d) => d.pc = "idle"
    BY <1>1, GoPc
  <2>3. \A pc : GoTo(p, pc) => pc = "idle"
    BY <1>1, GoToPc
  <2>4. CASE LoadOne(p)
    <3>1. After(c.verb, "conf") = "has"
      BY <1>1, AfterEnable
    <3>2. conf[i] \in {"absent", "malformed", "no-url"}
      <4>1. SUFFICES ASSUME conf[i] \notin {"absent", "malformed", "no-url"} PROVE FALSE
        OBVIOUS
      <4>2. Go(p, [c EXCEPT !.pc = "has", !.known = {i}, !.snap[i] = Wanted(i)])
        BY <2>4, <3>1, <4>1 DEF LoadOne
      <4>3. [c EXCEPT !.pc = "has", !.known = {i}, !.snap[i] = Wanted(i)].pc = "has"
        BY <2>1 DEF CtlStates
      <4> QED BY <2>2, <4>2, <4>3
    <3> QED BY <1>1, <2>1, <3>2, DoctorSees
  <2>5. CASE HasCredential(p)
    <3>1. ~Has(i)
      BY <2>3, <2>5 DEF HasCredential
    <3> QED BY <1>1, <2>1, <3>1, DoctorSees
  <2>6. CASE Read(p)
    <3>1. c.pc = "read" /\ After(c.verb, "read") = "socket"
      BY <1>1, <2>6, AfterEnable DEF Read, At
    <3>2. c.todo # {}
      BY <2>3, <2>6, <3>1 DEF Read
    <3>3. store[i] = "absent"
      BY <2>1, <3>1, <3>2 DEF EnableDone
    <3> QED BY <1>1, <2>1, <3>3, DoctorSees
  <2>7. CASE Link(p)
    <3>1. c.pc = "link" /\ ~loaded.quadlet
      BY <2>3, <2>7 DEF Link, At
    <3>2. loaded = disk
      BY <2>1, <3>1 DEF EnableDone
    <3> QED BY <3>1, <3>2 DEF Doctor, CheckUnitLinks
  <2>8. CASE Inspect(p)
    <3>1. [c EXCEPT !.pc = "read", !.val = "none"].pc = "read"
      BY <2>1 DEF CtlStates
    <3> QED BY <2>2, <2>3, <2>8, <3>1 DEF Inspect
  <2>9. CASE Drop(p)
    BY <2>3, <2>9 DEF Drop
  <2>10. CASE Create(p)
    <3>1. [c EXCEPT !.pc = "read", !.val = "none", !.changed = TRUE].pc = "read"
      BY <2>1 DEF CtlStates
    <3> QED BY <2>2, <2>10, <3>1 DEF Create
  <2>11. CASE Socket(p)
    <3>0. CASE socket = "stuck"
      BY <3>0 DEF Doctor, CheckPodmanSocket
    <3> SUFFICES ASSUME socket # "stuck" PROVE FALSE
      BY <3>0
    <3> DEFINE more == c.changed \/ socket # "on"
    <3>1. After(c.verb, "socket") = "ensure"
      BY <1>1, AfterEnable
    <3>2. Go(p, [c EXCEPT !.pc = "ensure", !.changed = more, !.todo = c.known])
      BY <2>11, <3>1 DEF Socket
    <3> HIDE DEF more
    <3>3. [c EXCEPT !.pc = "ensure", !.changed = more, !.todo = c.known].pc = "ensure"
      BY <2>1 DEF CtlStates
    <3> QED BY <2>2, <3>2, <3>3
  <2>12. CASE Ensure(p)
    <3>1. After(c.verb, "ensure") = "reload"
      BY <1>1, AfterEnable
    <3>2. \E j, more : Go(p, [c EXCEPT !.pc = "dropin", !.inst = j, !.todo = @ \ {j},
                                       !.changed = more])
      BY <2>3, <2>12, <3>1 DEF Ensure
    <3>3. \A j, more : [c EXCEPT !.pc = "dropin", !.inst = j, !.todo = @ \ {j},
                                 !.changed = more].pc = "dropin"
      BY <2>1 DEF CtlStates
    <3> QED BY <2>2, <3>2, <3>3
  <2>13. CASE Dropin(p)
    <3> DEFINE more == c.changed \/ disk.dropin[c.inst] # c.snap[c.inst]
    <3>1. Go(p, [c EXCEPT !.pc = "ensure", !.changed = more])
      BY <2>13 DEF Dropin
    <3> HIDE DEF more
    <3>2. [c EXCEPT !.pc = "ensure", !.changed = more].pc = "ensure"
      BY <2>1 DEF CtlStates
    <3> QED BY <2>2, <3>1, <3>2
  <2>14. CASE Reload(p)
    BY <1>1, <2>3, <2>14, AfterEnable DEF Reload
  <2>15. \/ LoadOne(p) \/ HasCredential(p) \/ Read(p) \/ Inspect(p) \/ Drop(p) \/ Create(p)
         \/ Socket(p) \/ Ensure(p) \/ Dropin(p) \/ Reload(p) \/ Link(p)
    BY <1>1, <2>1, StepsOfVerbs
       DEF CtlStep, SecretStep, SyncStep, OtherStep, Links, Migrate, Moved, Timers, Load,
           Orphans, ListSecrets, PruneSecret, FinishPrune, Truncate, Write, Scaffold,
           Unlink, Unlinked, Forget, Unfile, Unconf, Purge, At
  <2> QED
    BY <2>4, <2>5, <2>6, <2>7, <2>8, <2>9, <2>10, <2>11, <2>12, <2>13, <2>14, <2>15
<1>2. TypeInv /\ DoneInv /\ [Next]_vars
        => [\A p \in Ctls :
              /\ ctl[p].verb = "enable" /\ ctl[p].quiet /\ conf[ctl[p].inst] # "absent"
              /\ CtlStep(p) /\ ~Again(p) /\ ~CreateRefused(p)
              /\ ctl'[p].pc = "idle"
              => ~Doctor]_vars
  BY <1>1, Zenon
<1> QED
  BY <1>2, Invariant, PTL DEF Spec, EnableExplained

\* An `enable` that ran alone to its end leaves the instance with all it needs.
THEOREM EnableReadyHolds == Spec => EnableReady
<1>1. ASSUME TypeInv, DoneInv, NEW p \in Ctls, NEW i \in Instances,
             Again(p), ctl[p].quiet, ctl[p].inst = i
      PROVE  /\ Enabled(i)' /\ i \in loaded'.on
             /\ conf'[i] \in Shapes
             /\ ~Drift(i)' /\ loaded'.dropin[i] = conf'[i]
             /\ CheckCredential(i)' \in {"ok", "unreadable"} /\ SecretExists(i)'
             /\ dir'[i] /\ CheckPodmanSocket'
  <2>1. /\ ctl[p].pc = "again" /\ loaded' = disk
        /\ UNCHANGED <<conf, file, store, dir, socket, timers, disk>>
    BY <1>1 DEF Again, At, sources, services
  <2>2. ctl[p].verb = "enable" /\ TypeOK
    BY <1>1, <2>1, Carries, StepsOfVerbs DEF AllVerbs, TypeInv
  <2>3. /\ i \in disk.on /\ dir[i] /\ socket = "on" /\ Has(i) /\ SecretExists(i)
        /\ disk.dropin[i] = Wanted(i) /\ conf[i] \in Shapes
    BY <1>1, <2>1, <2>2 DEF DoneInv, EnableDone, Made, SecretExists
  <2>6. Wanted(i) = conf[i] /\ Wanted(i)' = Wanted(i)
    BY <2>1, <2>3, ShapesAssumption DEF Wanted
  <2>4. CheckCredential(i) \in {"ok", "unreadable"}
    BY <2>2, <2>3, LoadedIsOk DEF TypeOK
  <2>5. CheckCredential(i)' = CheckCredential(i) /\ SecretExists(i)'
    BY <2>1, <2>3 DEF CheckCredential, Has, SecretExists
  <2> QED
    BY <2>1, <2>3, <2>4, <2>5, <2>6 DEF Enabled, Drift, CheckPodmanSocket
<1>2. TypeInv /\ DoneInv /\ [Next]_vars
        => [\A p \in Ctls, i \in Instances :
              Again(p) /\ ctl[p].quiet /\ ctl[p].inst = i =>
                /\ Enabled(i)' /\ i \in loaded'.on
                /\ conf'[i] \in Shapes
                /\ ~Drift(i)' /\ loaded'.dropin[i] = conf'[i]
                /\ CheckCredential(i)' \in {"ok", "unreadable"} /\ SecretExists(i)'
                /\ dir'[i] /\ CheckPodmanSocket']_vars
  BY <1>1, Zenon
<1> QED
  BY <1>2, Invariant, PTL DEF Spec, EnableReady
=============================================================================
