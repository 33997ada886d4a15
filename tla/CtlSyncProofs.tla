---------------------------- MODULE CtlSyncProofs ----------------------------
(***************************************************************************)
(* Proofs about CtlSync, for any number of instances, processes, commands  *)
(* and edits.                                                              *)
(*                                                                         *)
(* A command is a sequence of calls, and what it promises at its end is    *)
(* the sum of what each call leaves in place.  The argument is the same    *)
(* for each of them: Carried says which steps belong to a command and what *)
(* it has in its hands at each; an invariant per command says what is      *)
(* already in place at each step, as long as nobody else has acted.        *)
(* Commands that overlap come last: of them only what the others leave     *)
(* alone is in place.                                                      *)
(***************************************************************************)
EXTENDS CtlSync, TLAPS

\* What a conf file asks for is a function of what it holds, and no more.
USE DEF Wanted

-----------------------------------------------------------------------------
(* What a command carries.                                                 *)

StepsOf(verb) ==
  CASE verb = "sync" ->
         {"links", "migrate", "moved", "socket", "timers", "load", "ensure",
          "dropin", "orphans", "read", "inspect", "drop", "create", "list",
          "prune", "reload"}
    [] verb = "enable" ->
         {"conf", "has", "read", "inspect", "drop", "create", "socket",
          "ensure", "dropin", "reload", "link", "again"}
    [] verb = "add" ->
         {"truncate", "write", "scaffold", "read", "inspect", "drop", "create"}
    [] verb = "add-no-token" -> {"scaffold"}
    [] verb = "set-credential" ->
         {"truncate", "write", "read", "inspect", "drop", "create"}
    [] verb = "rm" ->
         {"conf", "unlink", "unlinked", "forget", "unfile", "unconf", "load",
          "orphans", "reload", "purge"}
    [] verb = "none" -> {"idle"}

OfOne == {"enable", "add", "add-no-token", "set-credential"}
Holding == {"inspect", "drop", "create", "truncate", "write"}
OnInstance == {"moved", "dropin", "inspect", "drop", "create"}

\* The steps of a command are its own, it knows its instance and its credential
\* where it uses them, and a `sync` that moves a link has counted the change.
Carried ==
  {c \in CtlStates :
     /\ c.pc \in StepsOf(c.verb)
     /\ c.verb \notin {"none", "sync"} => c.inst \in Instances
     /\ c.verb \in OfOne => c.todo \subseteq {c.inst} /\ c.known \subseteq {c.inst}
     /\ c.pc \in OnInstance => c.inst \in Instances
     /\ c.pc \in Holding => c.val \in Tokens
     /\ c.pc = "links" => ~c.changed
     /\ c.pc = "moved" => c.changed}

TypeInv == TypeOK /\ ctl \in [Ctls -> Carried]

LEMMA AfterSync ==
  /\ After("sync", "links") = "migrate" /\ After("sync", "migrate") = "socket"
  /\ After("sync", "socket") = "timers" /\ After("sync", "timers") = "load"
  /\ After("sync", "load") = "ensure" /\ After("sync", "ensure") = "orphans"
  /\ After("sync", "orphans") = "read" /\ After("sync", "read") = "list"
  /\ After("sync", "reload") = "idle"
  BY DEF After

LEMMA AfterEnable ==
  /\ After("enable", "conf") = "has" /\ After("enable", "read") = "socket"
  /\ After("enable", "socket") = "ensure" /\ After("enable", "ensure") = "reload"
  /\ After("enable", "reload") = "link"
  BY DEF After

LEMMA AfterRm ==
  /\ After("rm", "conf") = "unlink" /\ After("rm", "load") = "orphans"
  /\ After("rm", "orphans") = "reload" /\ After("rm", "reload") = "purge"
  BY DEF After

LEMMA AfterWrite ==
  /\ After("add", "write") = "scaffold" /\ After("add", "scaffold") = "read"
  /\ After("add", "read") = "idle" /\ After("add-no-token", "scaffold") = "idle"
  /\ After("set-credential", "write") = "read" /\ After("set-credential", "read") = "idle"
  BY DEF After

LEMMA StepsOfVerbs ==
  /\ StepsOf("none") = {"idle"}
  /\ StepsOf("sync") =
       {"links", "migrate", "moved", "socket", "timers", "load", "ensure",
        "dropin", "orphans", "read", "inspect", "drop", "create", "list",
        "prune", "reload"}
  /\ StepsOf("enable") =
       {"conf", "has", "read", "inspect", "drop", "create", "socket",
        "ensure", "dropin", "reload", "link", "again"}
  /\ StepsOf("add") =
       {"truncate", "write", "scaffold", "read", "inspect", "drop", "create"}
  /\ StepsOf("add-no-token") = {"scaffold"}
  /\ StepsOf("set-credential") =
       {"truncate", "write", "read", "inspect", "drop", "create"}
  /\ StepsOf("rm") =
       {"conf", "unlink", "unlinked", "forget", "unfile", "unconf", "load",
        "orphans", "reload", "purge"}
  BY DEF StepsOf

LEMMA IdleCarried == IdleCtl \in Carried
  BY StepsOfVerbs, NoInstanceAssumption, ShapesAssumption
     DEF IdleCtl, Carried, CtlStates, AllVerbs, Steps, OfOne, OnInstance, Holding

\* Only the process that takes a step goes on; the others keep what they carry.
LEMMA GoType ==
  ASSUME ctl \in [Ctls -> Carried], NEW p \in Ctls, NEW c, Go(p, c),
         c \in Carried \/ c.pc = "idle"
  PROVE  ctl' \in [Ctls -> Carried]
<1>1. \A q \in Ctls : [ctl[q] EXCEPT !.quiet = FALSE] \in Carried
  BY DEF Carried, CtlStates
<1> QED
  BY <1>1, IdleCarried DEF Go

\* What is unchanged when only ctl and some of the rest changes is that.
others == <<sources, store, dir, services, units>>

\* A command begins at its first step, with its instance still to be done.
LEMMA Begins ==
  ASSUME NEW p \in Ctls, IssueAny(p)
  PROVE  \E c \in Carried :
           /\ Go(p, c)
           /\ c.verb \in AllVerbs \cap Verbs /\ c.quiet = Alone(p)
           /\ c.verb = "sync" => c.pc = "links"
           /\ c.verb \in {"enable", "rm"} => c.pc = "conf"
           /\ c.verb \in {"add", "set-credential"} => c.pc = "truncate"
           /\ c.verb = "add-no-token" => c.pc = "scaffold"
           /\ c.verb # "sync" => c.todo = {c.inst}
           /\ ctl[p].pc = "idle" /\ events < MaxEvents /\ events' = events + 1
           /\ UNCHANGED others
<1>1. PICK verb, i, t :
        /\ Issue(p, verb, i, t)
        /\ \/ verb = "sync" /\ i = NoInstance /\ t = "none"
           \/ verb \in {"enable", "rm", "add-no-token"} /\ i \in Instances /\ t = "none"
           \/ verb \in {"add", "set-credential"} /\ i \in Instances /\ t \in Tokens
  BY Zenon DEF IssueAny, IssueSync, IssueOn, IssueAdd, IssueSetCredential
<1> DEFINE c == [IdleCtl EXCEPT !.verb = verb, !.inst = i, !.pc = Start(verb),
                                !.todo = {i} \ {NoInstance}, !.val = t,
                                !.quiet = Alone(p)]
<1>2. /\ verb = "sync" => Start(verb) = "links"
      /\ verb \in {"enable", "rm"} => Start(verb) = "conf"
      /\ verb \in {"add", "set-credential"} => Start(verb) = "truncate"
      /\ verb = "add-no-token" => Start(verb) = "scaffold"
  BY <1>1 DEF Start
<1>3. /\ c.verb = verb /\ c.inst = i /\ c.pc = Start(verb) /\ c.known = {}
      /\ c.snap = IdleCtl.snap /\ c.todo = {i} \ {NoInstance} /\ c.val = t
      /\ c.changed = FALSE /\ c.quiet = Alone(p)
  BY DEF IdleCtl
<1>4. Alone(p) \in BOOLEAN
  BY DEF Alone
<1>5. c \in CtlStates
  BY <1>1, <1>2, <1>4, ShapesAssumption DEF IdleCtl, CtlStates, AllVerbs, Steps
<1> HIDE DEF c
<1>6. c \in Carried
  BY <1>1, <1>2, <1>3, <1>5, StepsOfVerbs DEF Carried, OfOne, OnInstance, Holding
<1>7. /\ Go(p, c) /\ UNCHANGED others /\ ctl[p].pc = "idle" /\ verb \in Verbs
      /\ events < MaxEvents /\ events' = events + 1
  BY <1>1 DEF Issue, At, others, c
<1> QED
  BY <1>1, <1>2, <1>3, <1>6, <1>7, NoInstanceAssumption DEF AllVerbs

LEMMA IssueType ==
  ASSUME TypeInv, NEW p \in Ctls, IssueAny(p) PROVE TypeInv'
<1>1. PICK c \in Carried :
        Go(p, c) /\ events < MaxEvents /\ events' = events + 1 /\ UNCHANGED others
  BY Begins
<1>2. ctl' \in [Ctls -> Carried]
  BY <1>1, GoType DEF TypeInv
<1> QED
  BY <1>1, <1>2, EventsAssumption
     DEF TypeInv, TypeOK, Carried, others, sources, services, units

LEMMA GoToType ==
  ASSUME TypeInv, NEW p \in Ctls, NEW pc, GoTo(p, pc),
         \/ pc = "idle"
         \/ /\ pc \in (StepsOf(ctl[p].verb) \cap Steps) \ {"links", "moved"}
            /\ pc \in OnInstance => ctl[p].inst \in Instances
            /\ pc \in Holding => ctl[p].val \in Tokens
  PROVE  ctl' \in [Ctls -> Carried]
<1>1. ctl[p] \in Carried
  BY DEF TypeInv
<1>2. CASE pc = "idle"
  BY <1>1, <1>2, GoType DEF TypeInv, GoTo, Carried, CtlStates
<1>3. CASE pc # "idle"
  <2>1. [ctl[p] EXCEPT !.pc = pc] \in Carried
    BY <1>1, <1>3 DEF Carried, CtlStates
  <2> QED BY <2>1, GoType DEF TypeInv, GoTo
<1> QED BY <1>2, <1>3

\* What process p is known to carry, before its step.
LEMMA Carries ==
  ASSUME TypeInv, NEW p \in Ctls
  PROVE  LET c == ctl[p] IN
         /\ c \in Carried /\ c \in CtlStates
         /\ c.pc \in StepsOf(c.verb) /\ c.pc \in Steps
         /\ c.verb \in AllVerbs \cup {"none"}
         /\ c.inst \in Instances \cup {NoInstance}
         /\ c.known \subseteq Instances /\ c.todo \subseteq Instances
         /\ c.snap \in [Instances -> Shapes] /\ c.val \in Tokens \cup {"none"}
         /\ c.changed \in BOOLEAN /\ c.quiet \in BOOLEAN
         /\ c.verb \notin {"none", "sync"} => c.inst \in Instances
         /\ c.verb \in OfOne => c.todo \subseteq {c.inst} /\ c.known \subseteq {c.inst}
         /\ c.pc \in OnInstance => c.inst \in Instances
         /\ c.pc \in Holding => c.val \in Tokens
         /\ c.pc = "links" => ~c.changed
         /\ c.pc = "moved" => c.changed
  BY DEF TypeInv, Carried, CtlStates

LEMMA SecretCtl ==
  ASSUME TypeInv, NEW p \in Ctls, SecretStep(p) PROVE ctl' \in [Ctls -> Carried]
<1> DEFINE c == ctl[p]
<1>0. c \in Carried /\ ctl \in [Ctls -> Carried] /\ file \in [Instances -> Files]
  BY DEF TypeInv, TypeOK
<1>1. CASE Read(p)
  <2>1. c.pc = "read" /\ c.verb \in {"sync", "enable", "add", "set-credential"}
    BY <1>1, Carries, StepsOfVerbs DEF Read, At, AllVerbs
  <2>2. CASE c.todo = {} /\ GoTo(p, After(c.verb, "read"))
    BY <2>1, <2>2, GoToType, AfterSync, AfterEnable, AfterWrite, StepsOfVerbs
       DEF Steps, OnInstance, Holding
  <2>3. ASSUME NEW i \in c.todo, file[i] \in Tokens,
               Go(p, [c EXCEPT !.pc = "inspect", !.inst = i, !.todo = @ \ {i}, !.val = file[i]])
        PROVE  ctl' \in [Ctls -> Carried]
    <3>1. i \in Instances /\ (c.verb \in OfOne => i = c.inst)
      BY Carries
    <3>2. [c EXCEPT !.pc = "inspect", !.inst = i, !.todo = @ \ {i}, !.val = file[i]] \in Carried
      BY <1>0, <2>1, <2>3, <3>1, StepsOfVerbs
         DEF Carried, CtlStates, OfOne, OnInstance, Holding, Steps
    <3> QED BY <1>0, <2>3, <3>2, GoType
  <2>4. ASSUME NEW i \in c.todo, Go(p, [c EXCEPT !.todo = @ \ {i}])
        PROVE  ctl' \in [Ctls -> Carried]
    <3>1. [c EXCEPT !.todo = @ \ {i}] \in Carried
      BY <1>0, <2>1 DEF Carried, CtlStates
    <3> QED BY <1>0, <2>4, <3>1, GoType
  <2>5. ASSUME GoTo(p, "idle") PROVE ctl' \in [Ctls -> Carried]
    BY <2>5, GoToType
  <2> QED BY <1>1, <2>2, <2>3, <2>4, <2>5 DEF Read
<1>2. ASSUME c.pc \in {"inspect", "drop", "create"}
      PROVE  /\ [c EXCEPT !.pc = "read", !.val = "none"] \in Carried
             /\ [c EXCEPT !.pc = "read", !.val = "none", !.changed = TRUE] \in Carried
             /\ [c EXCEPT !.pc = "read", !.val = "none", !.quiet = FALSE] \in Carried
  <2>1. c.verb \in {"sync", "enable", "add", "set-credential"}
    BY <1>2, Carries, StepsOfVerbs DEF AllVerbs
  <2>2. "read" \in StepsOf(c.verb)
    BY <2>1, StepsOfVerbs
  <2>3. [c EXCEPT !.pc = "read", !.val = "none"] \in Carried
    BY <1>0, <1>2, <2>1, <2>2 DEF Carried, CtlStates, OnInstance, Holding, Steps
  <2>4. [c EXCEPT !.pc = "read", !.val = "none", !.changed = TRUE] \in Carried
    BY <1>0, <1>2, <2>1, <2>2 DEF Carried, CtlStates, OnInstance, Holding, Steps
  <2>5. [c EXCEPT !.pc = "read", !.val = "none", !.quiet = FALSE] \in Carried
    BY <1>0, <1>2, <2>1, <2>2 DEF Carried, CtlStates, OnInstance, Holding, Steps
  <2> QED BY <2>3, <2>4, <2>5
<1>3. ASSUME c.pc \in {"inspect", "drop"}, NEW pc \in {"drop", "create"}, GoTo(p, pc)
      PROVE  ctl' \in [Ctls -> Carried]
  BY <1>3, GoToType, Carries, StepsOfVerbs DEF OnInstance, Holding, Steps, AllVerbs
<1>4. CASE Inspect(p)
  BY <1>0, <1>2, <1>3, <1>4, GoType DEF Inspect, At
<1>5. CASE Drop(p)
  BY <1>3, <1>5 DEF Drop, At
<1>6. CASE Create(p)
  BY <1>0, <1>2, <1>6, GoType DEF Create, At
<1>7. CASE CreateRefused(p)
  BY <1>0, <1>2, <1>7, GoType, GoToType DEF CreateRefused, At
<1> QED
  BY <1>1, <1>4, <1>5, <1>6, <1>7 DEF SecretStep

LEMMA SyncCtl ==
  ASSUME TypeInv, NEW p \in Ctls, SyncStep(p) PROVE ctl' \in [Ctls -> Carried]
<1> DEFINE c == ctl[p]
<1>0. /\ c \in Carried /\ ctl \in [Ctls -> Carried]
      /\ disk \in UnitFiles /\ dir \in [Instances -> BOOLEAN] /\ timers \in BOOLEAN
      /\ conf \in [Instances -> Confs] /\ store \in [Instances -> Stores]
  BY DEF TypeInv, TypeOK
<1>1. CASE Links(p)
  <2>1. c.pc = "links" /\ c.verb = "sync"
    BY <1>1, Carries, StepsOfVerbs DEF Links, At, AllVerbs
  <2>2. [c EXCEPT !.pc = After("sync", "links"), !.changed = ~disk.quadlet] \in Carried
    BY <1>0, <2>1, AfterSync, StepsOfVerbs
       DEF Carried, CtlStates, UnitFiles, OnInstance, Holding, Steps
  <2> QED BY <1>0, <1>1, <2>2, GoType DEF Links
<1>2. CASE Migrate(p)
  <2>1. c.pc = "migrate" /\ c.verb = "sync"
    BY <1>2, Carries, StepsOfVerbs DEF Migrate, At, AllVerbs
  <2>2. CASE GoTo(p, After(c.verb, "migrate"))
    BY <2>1, <2>2, GoToType, AfterSync, StepsOfVerbs DEF OnInstance, Holding, Steps
  <2>3. ASSUME NEW i \in disk.old,
               Go(p, [c EXCEPT !.pc = "moved", !.inst = i, !.changed = TRUE])
        PROVE  ctl' \in [Ctls -> Carried]
    <3>1. i \in Instances
      BY <1>0 DEF UnitFiles
    <3>2. [c EXCEPT !.pc = "moved", !.inst = i, !.changed = TRUE] \in Carried
      BY <1>0, <2>1, <3>1, StepsOfVerbs
         DEF Carried, CtlStates, OfOne, OnInstance, Holding, Steps
    <3> QED BY <1>0, <2>3, <3>2, GoType
  <2> QED BY <1>2, <2>2, <2>3 DEF Migrate
<1>3. CASE Moved(p)
  BY <1>3, GoToType, Carries, StepsOfVerbs
     DEF Moved, At, OnInstance, Holding, Steps, AllVerbs
<1>4. CASE Socket(p)
  <2>1. c.pc = "socket" /\ c.verb \in {"sync", "enable"}
    BY <1>4, Carries, StepsOfVerbs DEF Socket, At, AllVerbs
  <2>2. After(c.verb, "socket") \in StepsOf(c.verb) \cap {"timers", "ensure"}
    BY <2>1, AfterSync, AfterEnable, StepsOfVerbs
  <2>3. [c EXCEPT !.pc = After(c.verb, "socket"), !.changed = @ \/ socket # "on",
                  !.todo = c.known] \in Carried
    BY <1>0, <2>1, <2>2 DEF Carried, CtlStates, OfOne, OnInstance, Holding, Steps
  <2> QED BY <1>0, <1>4, <2>3, GoType, GoToType DEF Socket
<1>5. CASE Timers(p)
  <2>1. c.pc = "timers" /\ c.verb = "sync"
    BY <1>5, Carries, StepsOfVerbs DEF Timers, At, AllVerbs
  <2>2. After(c.verb, "timers") = "load" /\ "load" \in StepsOf(c.verb)
    BY <2>1, AfterSync, StepsOfVerbs
  <2> DEFINE more == c.changed \/ ~timers
  <2>3. [c EXCEPT !.pc = After(c.verb, "timers"), !.changed = more] \in Carried
    <3>1. more \in BOOLEAN
      OBVIOUS
    <3> HIDE DEF more
    <3> QED
      BY <1>0, <2>1, <2>2, <3>1 DEF Carried, CtlStates, OfOne, OnInstance, Holding, Steps
  <2> QED BY <1>0, <1>5, <2>3, GoType DEF Timers
<1>6. CASE Load(p)
  <2>1. c.pc = "load" /\ c.verb \in {"sync", "rm"}
    BY <1>6, Carries, StepsOfVerbs DEF Load, At, AllVerbs
  <2>2. After(c.verb, "load") \in StepsOf(c.verb) \cap {"ensure", "orphans"}
    BY <2>1, AfterSync, AfterRm, StepsOfVerbs
  <2> DEFINE said == [i \in Instances |-> Wanted(i)]
             d == [c EXCEPT !.pc = After(c.verb, "load"),
                     !.known = Configured, !.todo = Configured, !.snap = said]
  <2>3. CASE GoTo(p, "idle")
    BY <2>3, GoToType
  <2>4. ASSUME \A i \in Instances : conf[i] # "malformed", Go(p, d)
        PROVE  ctl' \in [Ctls -> Carried]
    <3>1. said \in [Instances -> Shapes] /\ Configured \subseteq Instances
      BY <1>0, <2>4, ShapesAssumption DEF Confs, Configured
    <3> HIDE DEF said
    <3>2. d \in Carried
      BY <1>0, <2>1, <2>2, <3>1
         DEF Carried, CtlStates, OfOne, OnInstance, Holding, Steps
    <3> QED BY <1>0, <2>4, <3>2, GoType
  <2> QED BY <1>6, <2>3, <2>4 DEF Load
<1>7. CASE Ensure(p)
  <2>1. c.pc = "ensure" /\ c.verb \in {"sync", "enable"}
    BY <1>7, Carries, StepsOfVerbs DEF Ensure, At, AllVerbs
  <2>2. CASE GoTo(p, After(c.verb, "ensure"))
    BY <2>1, <2>2, GoToType, AfterSync, AfterEnable, StepsOfVerbs
       DEF OnInstance, Holding, Steps
  <2>3. ASSUME NEW i \in c.todo,
               Go(p, [c EXCEPT !.pc = "dropin", !.inst = i, !.todo = @ \ {i},
                               !.changed = @ \/ ~dir[i]])
        PROVE  ctl' \in [Ctls -> Carried]
    <3>1. i \in Instances /\ (c.verb \in OfOne => i = c.inst)
      BY Carries
    <3>2. [c EXCEPT !.pc = "dropin", !.inst = i, !.todo = @ \ {i},
                    !.changed = @ \/ ~dir[i]] \in Carried
      BY <1>0, <2>1, <3>1, StepsOfVerbs
         DEF Carried, CtlStates, OfOne, OnInstance, Holding, Steps
    <3> QED BY <1>0, <2>3, <3>2, GoType
  <2> QED BY <1>7, <2>2, <2>3 DEF Ensure
<1>8. CASE Dropin(p)
  <2>1. c.pc = "dropin" /\ c.verb \in {"sync", "enable"}
    BY <1>8, Carries, StepsOfVerbs DEF Dropin, At, AllVerbs
  <2>2. [c EXCEPT !.pc = "ensure",
                  !.changed = @ \/ disk.dropin[c.inst] # c.snap[c.inst]] \in Carried
    BY <1>0, <2>1, StepsOfVerbs
       DEF Carried, CtlStates, OfOne, OnInstance, Holding, Steps
  <2> QED BY <1>0, <1>8, <2>2, GoType DEF Dropin
<1>9. CASE Orphans(p)
  <2>1. c.pc = "orphans" /\ c.verb \in {"sync", "rm"}
    BY <1>9, Carries, StepsOfVerbs DEF Orphans, At, AllVerbs
  <2>2. After(c.verb, "orphans") \in StepsOf(c.verb) \cap {"read", "reload"}
    BY <2>1, AfterSync, AfterRm, StepsOfVerbs
  <2> DEFINE more == c.changed \/ \E i \in Instances :
                                     i \notin c.known /\ disk.dropin[i] # "plain"
  <2>3. [c EXCEPT !.pc = After(c.verb, "orphans"), !.todo = c.known,
                  !.changed = more] \in Carried
    <3>1. more \in BOOLEAN
      OBVIOUS
    <3> HIDE DEF more
    <3> QED
      BY <1>0, <2>1, <2>2, <3>1 DEF Carried, CtlStates, OfOne, OnInstance, Holding, Steps
  <2> QED BY <1>0, <1>9, <2>3, GoType DEF Orphans
<1>10. CASE ListSecrets(p)
  <2>1. c.pc = "list" /\ c.verb = "sync"
    BY <1>10, Carries, StepsOfVerbs DEF ListSecrets, At, AllVerbs
  <2>2. ASSUME NEW T \in SUBSET Instances
        PROVE  /\ [c EXCEPT !.pc = "prune", !.todo = T] \in Carried
               /\ [c EXCEPT !.pc = "prune", !.todo = T, !.quiet = FALSE] \in Carried
    BY <1>0, <2>1, StepsOfVerbs DEF Carried, CtlStates, OfOne, OnInstance, Holding, Steps
  <2> QED BY <1>0, <1>10, <2>2, GoType DEF ListSecrets
<1>11. CASE PruneSecret(p)
  <2>1. c.pc = "prune" /\ c.verb = "sync"
    BY <1>11, Carries, StepsOfVerbs DEF PruneSecret, At, AllVerbs
  <2>2. ASSUME NEW i
        PROVE  /\ [c EXCEPT !.todo = @ \ {i}, !.changed = TRUE] \in Carried
               /\ [c EXCEPT !.todo = @ \ {i}, !.changed = TRUE, !.quiet = FALSE] \in Carried
    BY <1>0, <2>1 DEF Carried, CtlStates, OfOne, OnInstance, Holding
  <2> QED BY <1>0, <1>11, <2>2, GoType DEF PruneSecret
<1>12. CASE FinishPrune(p)
  BY <1>12, GoToType, Carries, StepsOfVerbs
     DEF FinishPrune, At, OnInstance, Holding, Steps, AllVerbs
<1>13. CASE Reload(p)
  BY <1>13, GoToType, Carries, StepsOfVerbs, AfterSync, AfterEnable, AfterRm
     DEF Reload, At, OnInstance, Holding, Steps, AllVerbs
<1> QED
  BY <1>1, <1>2, <1>3, <1>4, <1>5, <1>6, <1>7, <1>8, <1>9, <1>10, <1>11, <1>12, <1>13
     DEF SyncStep

LEMMA OtherCtl ==
  ASSUME TypeInv, NEW p \in Ctls, OtherStep(p) PROVE ctl' \in [Ctls -> Carried]
<1> DEFINE c == ctl[p]
<1> USE DEF At
<1>0. /\ c \in Carried /\ ctl \in [Ctls -> Carried]
      /\ conf \in [Instances -> Confs] /\ store \in [Instances -> Stores]
  BY DEF TypeInv, TypeOK
<1>1. CASE Truncate(p)
  <2>1. c.verb \in {"add", "set-credential"} /\ c.pc = "truncate"
    BY <1>1, Carries, StepsOfVerbs DEF Truncate, AllVerbs
  <2> QED
    BY <1>1, <2>1, GoToType, Carries, StepsOfVerbs DEF Truncate, OnInstance, Holding, Steps
<1>2. CASE Write(p)
  <2>1. c.verb \in {"add", "set-credential"} /\ c.pc = "write"
    BY <1>2, Carries, StepsOfVerbs DEF Write, AllVerbs
  <2>2. After(c.verb, "write") \in StepsOf(c.verb) \cap {"scaffold", "read"}
    BY <2>1, AfterWrite, StepsOfVerbs
  <2>3. [c EXCEPT !.pc = After(c.verb, "write"), !.val = "none"] \in Carried
    BY <1>0, <2>1, <2>2 DEF Carried, CtlStates, OnInstance, Holding, Steps
  <2> QED BY <1>0, <1>2, <2>3, GoType DEF Write
<1>3. CASE Scaffold(p)
  <2>1. c.verb \in {"add", "add-no-token"} /\ c.pc = "scaffold"
    BY <1>3, Carries, StepsOfVerbs DEF Scaffold, AllVerbs
  <2> QED
    BY <1>3, <2>1, GoToType, AfterWrite, StepsOfVerbs
       DEF Scaffold, OnInstance, Holding, Steps
<1>4. CASE LoadOne(p)
  <2>1. c.verb \in {"enable", "rm"} /\ c.pc = "conf" /\ c.inst \in Instances
    BY <1>4, Carries, StepsOfVerbs DEF LoadOne, AllVerbs
  <2>2. After(c.verb, "conf") \in StepsOf(c.verb) \cap {"has", "unlink"}
    BY <2>1, AfterEnable, AfterRm, StepsOfVerbs
  <2>3. ASSUME conf[c.inst] \notin {"absent", "malformed"}
        PROVE  [c EXCEPT !.pc = After(c.verb, "conf"), !.known = {c.inst},
                         !.snap[c.inst] = Wanted(c.inst)] \in Carried
    <3>1. Wanted(c.inst) \in Shapes
      BY <1>0, <2>1, <2>3, ShapesAssumption DEF Confs
    <3>2. [c.snap EXCEPT ![c.inst] = Wanted(c.inst)] \in [Instances -> Shapes]
      BY <3>1, Carries
    <3> QED
      BY <1>0, <2>1, <2>2, <3>2 DEF Carried, CtlStates, OfOne, OnInstance, Holding, Steps
  <2> QED BY <1>0, <1>4, <2>3, GoType, GoToType DEF LoadOne
<1>5. CASE HasCredential(p)
  <2>1. c.verb = "enable"
    BY <1>5, Carries, StepsOfVerbs DEF HasCredential, AllVerbs
  <2> QED
    BY <1>5, <2>1, GoToType, StepsOfVerbs DEF HasCredential, OnInstance, Holding, Steps
<1>6. CASE Link(p)
  <2>1. c.verb = "enable"
    BY <1>6, Carries, StepsOfVerbs DEF Link, AllVerbs
  <2> QED
    BY <1>6, <2>1, GoToType, StepsOfVerbs DEF Link, OnInstance, Holding, Steps
<1>7. CASE Again(p) \/ Purge(p)
  BY <1>7, GoToType DEF Again, Purge
<1>8. CASE Unlink(p) \/ Unlinked(p) \/ Unfile(p) \/ Unconf(p)
  <2>1. c.verb = "rm"
    BY <1>8, Carries, StepsOfVerbs DEF Unlink, Unlinked, Unfile, Unconf, AllVerbs
  <2> QED
    BY <1>8, <2>1, GoToType, StepsOfVerbs
       DEF Unlink, Unlinked, Unfile, Unconf, OnInstance, Holding, Steps
<1>9. CASE Forget(p)
  <2>1. c.verb = "rm" /\ c.pc = "forget"
    BY <1>9, Carries, StepsOfVerbs DEF Forget, AllVerbs
  <2>2. [c EXCEPT !.pc = "unfile", !.quiet = FALSE] \in Carried
    BY <1>0, <2>1, StepsOfVerbs DEF Carried, CtlStates, OfOne, OnInstance, Holding, Steps
  <2>3. CASE GoTo(p, "unfile")
    BY <2>1, <2>3, GoToType, StepsOfVerbs DEF OnInstance, Holding, Steps
  <2> QED BY <1>0, <1>9, <2>2, <2>3, GoType DEF Forget
<1> QED
  BY <1>1, <1>2, <1>3, <1>4, <1>5, <1>6, <1>7, <1>8, <1>9 DEF OtherStep

\* The rest of the state keeps its types.
LEMMA StepType ==
  ASSUME TypeInv, NEW p \in Ctls, CtlStep(p) PROVE TypeInv'
<1> DEFINE c == ctl[p]
<1> USE DEF TypeOK, sources, services, units, Files, Stores, At
<1>0. TypeOK
  BY DEF TypeInv
<1>1. ctl' \in [Ctls -> Carried]
  BY SecretCtl, SyncCtl, OtherCtl DEF CtlStep
<1>2. ctl' \in [Ctls -> CtlStates]
  BY <1>1 DEF Carried
<1>3. CASE SecretStep(p)
  <2>1. CASE Read(p) \/ Inspect(p) \/ CreateRefused(p)
    BY <1>0, <1>1, <1>2, <2>1 DEF TypeInv, Read, Inspect, CreateRefused
  <2>2. CASE Drop(p)
    BY <1>0, <1>1, <1>2, <2>2 DEF TypeInv, Drop
  <2>3. CASE Create(p)
    BY <1>0, <1>1, <1>2, <2>3, Carries DEF TypeInv, Create, Holding
  <2> QED BY <1>3, <2>1, <2>2, <2>3 DEF SecretStep
<1>4. CASE Links(p) \/ Migrate(p) \/ Moved(p) \/ Dropin(p) \/ Orphans(p)
  <2>1. disk' \in UnitFiles
    <3>1. CASE Links(p)
      BY <1>0, <3>1 DEF Links, UnitFiles
    <3>2. CASE Migrate(p)
      <4>1. disk' = disk \/ \E i : disk' = [disk EXCEPT !.old = @ \ {i}]
        BY <3>2, Zenon DEF Migrate
      <4> QED BY <1>0, <4>1 DEF UnitFiles
    <3>3. CASE Moved(p)
      BY <1>0, <3>3, Carries DEF Moved, UnitFiles, OnInstance
    <3>4. CASE Dropin(p)
      BY <1>0, <3>4, Carries DEF Dropin, UnitFiles, OnInstance
    <3>5. CASE Orphans(p)
      BY <1>0, <3>5, ShapesAssumption DEF Orphans, UnitFiles
    <3> QED BY <1>4, <3>1, <3>2, <3>3, <3>4, <3>5
  <2> QED
    BY <1>0, <1>1, <1>2, <1>4, <2>1 DEF TypeInv, Links, Migrate, Moved, Dropin, Orphans
<1>5. CASE Socket(p) \/ Timers(p) \/ Load(p) \/ Ensure(p) \/ ListSecrets(p)
           \/ PruneSecret(p) \/ FinishPrune(p) \/ Reload(p)
  BY <1>0, <1>1, <1>2, <1>5
     DEF TypeInv, Sockets, Socket, Timers, Load, Ensure, ListSecrets, PruneSecret,
         FinishPrune, Reload
<1>6. CASE Truncate(p) \/ Write(p) \/ Scaffold(p) \/ LoadOne(p) \/ HasCredential(p)
  BY <1>0, <1>1, <1>2, <1>6, Carries, ShapesAssumption
     DEF TypeInv, Truncate, Write, Scaffold, LoadOne, HasCredential, Confs, Holding
<1>7. CASE Link(p) \/ Unlink(p)
  <2>1. disk' \in UnitFiles
    <3>1. c.inst \in Instances
      BY <1>7, Carries, StepsOfVerbs DEF Link, Unlink, AllVerbs
    <3> QED BY <1>0, <1>7, <3>1 DEF Link, Unlink, UnitFiles
  <2> QED BY <1>0, <1>1, <1>2, <1>7, <2>1 DEF TypeInv, Link, Unlink
<1>8. CASE Again(p) \/ Unlinked(p) \/ Forget(p) \/ Unfile(p) \/ Unconf(p) \/ Purge(p)
  BY <1>0, <1>1, <1>2, <1>8
     DEF TypeInv, Again, Unlinked, Forget, Unfile, Unconf, Purge, Confs
<1> QED
  BY <1>3, <1>4, <1>5, <1>6, <1>7, <1>8 DEF CtlStep, SyncStep, OtherStep

LEMMA EditType == TypeInv /\ EditAny => TypeInv'
<1> SUFFICES ASSUME TypeInv, EditAny PROVE TypeInv'
  OBVIOUS
<1> USE DEF TypeOK, sources, services, units
<1>0. TypeOK /\ ctl \in [Ctls -> Carried]
  BY DEF TypeInv
<1>1. ASSUME NEW kind, Edit(kind)
      PROVE  ctl' \in [Ctls -> Carried] /\ ctl' \in [Ctls -> CtlStates]
             /\ events' \in 0 .. MaxEvents
  <2>1. ASSUME NEW q \in Ctls PROVE [ctl[q] EXCEPT !.quiet = FALSE] \in Carried
    <3>1. ctl[q] \in Carried
      BY <1>0
    <3> QED BY <3>1 DEF Carried, CtlStates
  <2>2. ctl' \in [Ctls -> Carried]
    BY <1>1, <2>1 DEF Edit
  <2>3. events' \in 0 .. MaxEvents
    BY <1>0, <1>1, EventsAssumption DEF Edit
  <2> QED BY <2>2, <2>3 DEF Carried
<1>2. ASSUME NEW i \in Instances, EditConf(i) \/ EditFile(i) \/ EditStore(i)
      PROVE  TypeInv'
  BY <1>0, <1>1, <1>2 DEF TypeInv, EditConf, EditFile, EditStore, Confs, Stores
<1>3. CASE UpgradePackage
  BY <1>0, <1>1, <1>3 DEF TypeInv, UpgradePackage, UnitFiles
<1> QED BY <1>2, <1>3 DEF EditAny

LEMMA FailType ==
  ASSUME TypeInv, NEW p \in Ctls, CtlFail(p) PROVE TypeInv'
  BY GoToType DEF CtlFail, TypeInv, TypeOK, Carried, sources, services, units

LEMMA TypeInit == Init => TypeInv
<1> SUFFICES ASSUME Init PROVE TypeInv
  OBVIOUS
<1>1. /\ conf \in [Instances -> Confs] /\ file \in [Instances -> Files]
      /\ store \in [Instances -> Stores] /\ dir \in [Instances -> BOOLEAN]
      /\ socket \in Sockets /\ timers \in BOOLEAN /\ disk \in UnitFiles
  <2>1. /\ conf \in [Instances -> Confs] /\ file \in [Instances -> Files]
        /\ store \in [Instances -> Stores] /\ dir \in [Instances -> BOOLEAN]
    BY DEF Init, Left, Confs
  <2>2. socket \in Sockets /\ timers \in BOOLEAN
    BY DEF Init, Sockets
  <2>3. disk \in UnitFiles
    <3>1. Drifted \subseteq Instances /\ Left(Shapes, "plain") \subseteq [Instances -> Shapes]
      BY ScopeAssumption DEF Left
    <3>2. disk \in [quadlet : BOOLEAN, old : SUBSET Instances, on : SUBSET Instances,
                    dropin : [Instances -> Shapes]]
      BY <3>1 DEF Init
    <3> QED BY <3>2 DEF UnitFiles
  <2> QED BY <2>1, <2>2, <2>3
<1>2. ctl \in [Ctls -> Carried]
  BY IdleCarried DEF Init
<1> QED
  BY <1>1, <1>2, EventsAssumption DEF Init, TypeInv, TypeOK, Carried

LEMMA TypeNext == TypeInv /\ [Next]_vars => TypeInv'
<1>1. TypeInv /\ UNCHANGED vars => TypeInv'
  BY DEF vars, sources, services, units, TypeInv, TypeOK
<1> QED
  BY <1>1, IssueType, StepType, FailType, EditType DEF Next

\* No command, edit, failure or overlap leaves a file, a secret, a unit or a
\* command's own data in a state the code does not know.
THEOREM TypeCorrect == Spec => []TypeOK
<1>1. TypeInv => TypeOK
  BY DEF TypeInv
<1> QED
  BY <1>1, TypeInit, TypeNext, PTL DEF Spec

-----------------------------------------------------------------------------
(* What is already in place at each step of a command nobody has disturbed. *)

Secrets == {"inspect", "drop", "create"}
PastSecrets == {"list", "prune", "reload"}
PastOrphans == {"read"} \cup Secrets \cup PastSecrets
PastLoad == {"ensure", "dropin", "orphans"} \cup PastOrphans
PastTimers == {"load"} \cup PastLoad
PastSocket == {"timers"} \cup PastTimers
PastMigrate == {"socket"} \cup PastSocket

\* The present loop has not come to the end of instance i.
Undone(c, i) == i \in c.todo \/ (i = c.inst /\ c.pc \in {"dropin"} \cup Secrets)

Made(c, i) == dir[i] /\ disk.dropin[i] = c.snap[i]
Right(i) == file[i] \in Tokens => store[i] = file[i]

SyncHost(c) ==
  /\ c.pc # "links" => disk.quadlet
  /\ c.pc \in PastMigrate => disk.old = {}
  /\ c.pc \in PastSocket => socket = "on"
  /\ c.pc \in PastTimers => timers

SyncConf(c) ==
  /\ c.pc \in PastLoad => c.known = Configured /\ \A i \in c.known : c.snap[i] = Wanted(i)
  /\ c.pc \in {"ensure", "dropin", "read"} \cup Secrets => c.todo \subseteq c.known
  /\ c.pc \in {"dropin"} \cup Secrets => c.inst \in c.known
  /\ c.pc = "dropin" => dir[c.inst]
  /\ c.pc \in {"ensure", "dropin"} => \A i \in c.known : Made(c, i) \/ Undone(c, i)
  /\ c.pc \in {"orphans"} \cup PastOrphans => \A i \in c.known : Made(c, i)
  /\ c.pc \in PastOrphans => \A i \in Instances \ c.known : disk.dropin[i] = "plain"

SyncSecrets(c) ==
  /\ c.pc \in {"read"} \cup Secrets => \A i \in c.known : Right(i) \/ Undone(c, i)
  /\ c.pc \in Secrets => c.val = file[c.inst]
  /\ c.pc \in {"drop", "create"} => store[c.inst] # c.val
  /\ c.pc \in PastSecrets => \A i \in c.known : Right(i)
  /\ c.pc = "prune" =>
       /\ c.todo \cap c.known = {}
       /\ \A i \in Instances \ c.known : store[i] = "absent" \/ i \in c.todo

SyncDone(c) == SyncHost(c) /\ SyncConf(c) /\ SyncSecrets(c)

EnableDone(c) ==
  LET i == c.inst IN
  /\ c.pc \in {"conf", "has"} => c.todo = {i}
  /\ c.pc # "conf" => c.known = {i} /\ c.snap[i] = Wanted(i) /\ conf[i] \in Shapes
  /\ c.pc \notin {"conf", "has"} => Has(i)
  /\ c.pc = "read" => (store[i] = "absent" <=> c.todo # {})
  /\ c.pc \in Secrets => c.todo = {}
  /\ c.pc \in {"socket", "ensure", "dropin", "reload", "link", "again"} =>
       store[i] # "absent"
  /\ c.pc \in {"ensure", "dropin", "reload", "link", "again"} => socket = "on"
  /\ c.pc = "ensure" => c.todo = {i} \/ Made(c, i)
  /\ c.pc = "dropin" => c.todo = {} /\ dir[i]
  /\ c.pc \in {"reload", "link", "again"} => Made(c, i)
  /\ c.pc = "link" => loaded = disk
  /\ c.pc = "again" => i \in disk.on

RmDone(c) ==
  LET i == c.inst IN
  /\ c.pc \notin {"conf", "unlink"} => i \notin disk.on
  /\ c.pc \in {"unfile", "unconf", "load", "orphans", "reload", "purge"} =>
       store[i] = "absent"
  /\ c.pc \in {"unconf", "load", "orphans", "reload", "purge"} => file[i] = "absent"
  /\ c.pc \in {"load", "orphans", "reload", "purge"} => conf[i] = "absent"
  /\ c.pc = "orphans" => i \notin c.known
  /\ c.pc \in {"reload", "purge"} => disk.dropin[i] = "plain"
  /\ c.pc = "purge" => loaded = disk

SetDone(c) ==
  LET i == c.inst IN
  /\ c.pc \in {"truncate", "write", "scaffold"} => c.todo = {i}
  /\ c.pc \in {"scaffold", "read"} \cup Secrets => file[i] \in Tokens
  /\ c.pc \in Secrets => c.todo = {} /\ c.val = file[i]
  /\ c.pc \in {"scaffold", "read"} => c.val = "none"
  /\ c.pc = "read" => c.todo = {i} \/ store[i] = file[i]

\* For every command that has been alone since it was issued.
DoneInv ==
  \A p \in Ctls :
    LET c == ctl[p] IN
    c.quiet =>
      /\ c.verb = "sync" => SyncDone(c)
      /\ c.verb = "enable" => EnableDone(c)
      /\ c.verb = "rm" => RmDone(c)
      /\ c.verb \in {"add", "set-credential"} => SetDone(c)

\* Whoever else takes a step disturbs p; p itself goes on as its step says.
LEMMA GoOn ==
  ASSUME NEW p \in Ctls, NEW c, Go(p, c), ctl'[p].quiet
  PROVE  ctl'[p] = c /\ c.pc # "idle"
  BY DEF Go, IdleCtl

LEMMA GoToOn ==
  ASSUME NEW p \in Ctls, NEW pc, TypeInv, GoTo(p, pc), ctl'[p].quiet
  PROVE  ctl'[p] = [ctl[p] EXCEPT !.pc = pc] /\ pc # "idle"
  BY GoOn, Carries DEF GoTo, CtlStates

LEMMA SomeStep ==
  ASSUME NEW q \in Ctls, IssueAny(q) \/ CtlStep(q) \/ CtlFail(q)
  PROVE  \E c : Go(q, c)
<1>1. CASE IssueAny(q)
  BY <1>1, Begins
<1>2. CASE SecretStep(q)
  BY <1>2, Zenon DEF SecretStep, Read, Inspect, Drop, Create, CreateRefused, GoTo
<1>3. CASE SyncStep(q)
  BY <1>3, Zenon
     DEF SyncStep, Links, Migrate, Moved, Socket, Timers, Load, Ensure, Dropin,
         Orphans, ListSecrets, PruneSecret, FinishPrune, Reload, GoTo
<1>4. CASE OtherStep(q)
  BY <1>4, Zenon
     DEF OtherStep, Truncate, Write, Scaffold, LoadOne, HasCredential, Link, Again,
         Unlink, Unlinked, Forget, Unfile, Unconf, Purge, GoTo
<1>5. CASE CtlFail(q)
  BY <1>5 DEF CtlFail, GoTo
<1> QED BY <1>1, <1>2, <1>3, <1>4, <1>5 DEF CtlStep

LEMMA Disturbed ==
  ASSUME TypeInv, NEW p \in Ctls, NEW q \in Ctls, p # q,
         IssueAny(q) \/ CtlStep(q) \/ CtlFail(q)
  PROVE  ~ctl'[p].quiet
<1>1. ctl[p] \in CtlStates
  BY Carries
<1> QED BY <1>1, SomeStep DEF Go, CtlStates

\* A command that goes on undisturbed is the one it was.
LEMMA SameCommand ==
  ASSUME TypeInv, NEW p \in Ctls, CtlStep(p), ctl'[p].quiet
  PROVE  ctl'[p].verb = ctl[p].verb /\ ctl[p].quiet
<1> DEFINE c == ctl[p]
           Same(d) == Go(p, d) /\ d.verb = c.verb /\ (d.quiet => c.quiet)
<1>0. c \in CtlStates
  BY Carries
<1>1. \A d : Same(d) => ctl'[p].verb = c.verb /\ c.quiet
  BY GoOn
<1>2. \A pc : GoTo(p, pc) => Same([c EXCEPT !.pc = pc])
  BY <1>0 DEF GoTo, CtlStates
<1>3. CASE \E pc : GoTo(p, pc)
  BY <1>1, <1>2, <1>3
<1> HIDE DEF Same
<1>4. CASE Read(p)
  <2>1. \/ \E pc : GoTo(p, pc)
        \/ \E i, t : Go(p, [c EXCEPT !.pc = "inspect", !.inst = i, !.todo = @ \ {i}, !.val = t])
        \/ \E i : Go(p, [c EXCEPT !.todo = @ \ {i}])
    BY <1>4, Zenon DEF Read
  <2>2. ASSUME NEW i, Go(p, [c EXCEPT !.todo = @ \ {i}]) PROVE \E d : Same(d)
    BY <1>0, <2>2 DEF Same, CtlStates
  <2>3. ASSUME NEW i, NEW t,
               Go(p, [c EXCEPT !.pc = "inspect", !.inst = i, !.todo = @ \ {i}, !.val = t])
        PROVE  \E d : Same(d)
    <3> DEFINE d == [c EXCEPT !.pc = "inspect", !.inst = i, !.todo = @ \ {i}, !.val = t]
    <3>1. d.verb = c.verb /\ d.quiet = c.quiet
      BY <1>0 DEF CtlStates
    <3> HIDE DEF d
    <3>2. Same(d)
      BY <2>3, <3>1 DEF Same, d
    <3> QED BY <3>2
  <2> QED BY <1>1, <1>3, <2>1, <2>2, <2>3
<1>5. CASE Inspect(p) \/ Create(p) \/ CreateRefused(p)
  <2>1. \/ \E pc : GoTo(p, pc)
        \/ Go(p, [c EXCEPT !.pc = "read", !.val = "none"])
        \/ Go(p, [c EXCEPT !.pc = "read", !.val = "none", !.changed = TRUE])
        \/ Go(p, [c EXCEPT !.pc = "read", !.val = "none", !.quiet = FALSE])
    BY <1>5, Zenon DEF Inspect, Create, CreateRefused
  <2> QED BY <1>0, <1>1, <1>3, <2>1 DEF Same, CtlStates
<1>6. CASE Links(p) \/ Socket(p) \/ Timers(p) \/ Dropin(p)
  <2>1. \E pc, b, s : \/ GoTo(p, pc)
                     \/ Go(p, [c EXCEPT !.pc = pc, !.changed = b])
                     \/ Go(p, [c EXCEPT !.pc = pc, !.changed = b, !.todo = s])
    BY <1>6, Zenon DEF Links, Socket, Timers, Dropin
  <2> QED BY <1>0, <1>1, <1>3, <2>1 DEF Same, CtlStates
<1>7. CASE Migrate(p)
  <2>1. \/ \E pc : GoTo(p, pc)
        \/ \E i : Go(p, [c EXCEPT !.pc = "moved", !.inst = i, !.changed = TRUE])
    BY <1>7, Zenon DEF Migrate
  <2> QED BY <1>0, <1>1, <1>3, <2>1 DEF Same, CtlStates
<1>8. CASE Load(p)
  <2>1. \/ \E pc : GoTo(p, pc)
        \/ \E pc, k, s : Go(p, [c EXCEPT !.pc = pc, !.known = k, !.todo = k, !.snap = s])
    BY <1>8, Zenon DEF Load
  <2> QED BY <1>0, <1>1, <1>3, <2>1 DEF Same, CtlStates
<1>9. CASE Ensure(p)
  <2>1. \/ \E pc : GoTo(p, pc)
        \/ \E i, b : Go(p, [c EXCEPT !.pc = "dropin", !.inst = i, !.todo = @ \ {i}, !.changed = b])
    BY <1>9, Zenon DEF Ensure
  <2> QED BY <1>0, <1>1, <1>3, <2>1 DEF Same, CtlStates
<1>10. CASE Orphans(p)
  <2>1. \E pc, s, b : Go(p, [c EXCEPT !.pc = pc, !.todo = s, !.changed = b])
    BY <1>10, Zenon DEF Orphans
  <2> QED BY <1>0, <1>1, <2>1 DEF Same, CtlStates
<1>11. CASE ListSecrets(p) \/ PruneSecret(p)
  <2>1. \E s, b, i : \/ Go(p, [c EXCEPT !.pc = "prune", !.todo = s])
                     \/ Go(p, [c EXCEPT !.pc = "prune", !.todo = s, !.quiet = FALSE])
                     \/ Go(p, [c EXCEPT !.todo = @ \ {i}, !.changed = TRUE])
                     \/ Go(p, [c EXCEPT !.todo = @ \ {i}, !.changed = TRUE, !.quiet = FALSE])
    BY <1>11, Zenon DEF ListSecrets, PruneSecret
  <2> QED BY <1>0, <1>1, <2>1 DEF Same, CtlStates
<1>12. CASE Write(p) \/ LoadOne(p) \/ Forget(p)
  <2>1. \/ \E pc : GoTo(p, pc)
        \/ \E pc : Go(p, [c EXCEPT !.pc = pc, !.val = "none"])
        \/ \E pc, k, i, x : Go(p, [c EXCEPT !.pc = pc, !.known = k, !.snap[i] = x])
        \/ Go(p, [c EXCEPT !.pc = "unfile", !.quiet = FALSE])
    BY <1>12, Zenon DEF Write, LoadOne, Forget
  <2> QED BY <1>0, <1>1, <1>3, <2>1 DEF Same, CtlStates
<1>13. CASE Drop(p) \/ Moved(p) \/ FinishPrune(p) \/ Reload(p) \/ Truncate(p) \/ Scaffold(p)
            \/ HasCredential(p) \/ Link(p) \/ Again(p) \/ Unlink(p) \/ Unlinked(p)
            \/ Unfile(p) \/ Unconf(p) \/ Purge(p)
  <2>1. \E pc : GoTo(p, pc)
    BY <1>13, Zenon
       DEF Drop, Moved, FinishPrune, Reload, Truncate, Scaffold, HasCredential, Link,
           Again, Unlink, Unlinked, Unfile, Unconf, Purge
  <2> QED BY <1>3, <2>1
<1> QED
  BY <1>4, <1>5, <1>6, <1>7, <1>8, <1>9, <1>10, <1>11, <1>12, <1>13
     DEF CtlStep, SecretStep, SyncStep, OtherStep

LEMMA SyncStepDone ==
  ASSUME TypeInv, NEW p \in Ctls, CtlStep(p), ctl'[p].quiet,
         ctl[p].verb = "sync", SyncDone(ctl[p])
  PROVE  SyncDone(ctl[p])'
<1> DEFINE c == ctl[p]
           d == ctl'[p]
<1> USE DEF At, sources, services, units
<1>0. TypeOK /\ c \in CtlStates /\ c.verb = "sync" /\ SyncDone(c)
  BY Carries DEF TypeInv
<1>1. CASE Links(p)
  <2>1. c.pc = "links" /\ d = [c EXCEPT !.pc = "migrate", !.changed = ~disk.quadlet]
    BY <1>1, GoOn, AfterSync DEF Links
  <2> QED
    BY <1>0, <1>1, <2>1
       DEF Links, SyncDone, SyncHost, SyncConf, SyncSecrets, CtlStates, TypeOK, UnitFiles,
           PastMigrate, PastSocket, PastTimers, PastLoad, PastOrphans, PastSecrets, Secrets
<1>2. CASE Migrate(p)
  <2>1. c.pc = "migrate"
    BY <1>2 DEF Migrate
  <2>2. CASE disk.old = {} /\ GoTo(p, After(c.verb, "migrate")) /\ UNCHANGED disk
    <3>1. d = [c EXCEPT !.pc = "socket"]
      BY <1>0, <2>2, GoToOn, AfterSync
    <3> QED
      BY <1>0, <1>2, <2>1, <2>2, <3>1
         DEF Migrate, SyncDone, SyncHost, SyncConf, SyncSecrets, CtlStates, TypeOK, UnitFiles,
             PastMigrate, PastSocket, PastTimers, PastLoad, PastOrphans, PastSecrets, Secrets
  <2>3. ASSUME NEW i \in disk.old, disk' = [disk EXCEPT !.old = @ \ {i}],
               Go(p, [c EXCEPT !.pc = "moved", !.inst = i, !.changed = TRUE])
        PROVE  SyncDone(ctl[p])'
    <3>1. d = [c EXCEPT !.pc = "moved", !.inst = i, !.changed = TRUE]
      BY <2>3, GoOn
    <3> QED
      BY <1>0, <2>1, <2>3, <3>1
         DEF SyncDone, SyncHost, SyncConf, SyncSecrets, CtlStates, TypeOK, UnitFiles,
             PastMigrate, PastSocket, PastTimers, PastLoad, PastOrphans, PastSecrets, Secrets
  <2> QED BY <1>2, <2>2, <2>3 DEF Migrate
<1>3. CASE Moved(p)
  <2>1. c.pc = "moved" /\ d = [c EXCEPT !.pc = "migrate"]
    BY <1>3, GoToOn DEF Moved
  <2> QED
    BY <1>0, <1>3, <2>1
       DEF Moved, SyncDone, SyncHost, SyncConf, SyncSecrets, CtlStates, TypeOK, UnitFiles,
           PastMigrate, PastSocket, PastTimers, PastLoad, PastOrphans, PastSecrets, Secrets
<1>4. CASE Socket(p)
  <2>1. After(c.verb, "socket") = "timers"
    BY <1>0, AfterSync
  <2>2. c.pc = "socket" /\ d.pc = "timers"
    <3> DEFINE more == c.changed \/ socket # "on"
    <3>1. c.pc = "socket" /\ d = [c EXCEPT !.pc = "timers", !.changed = more, !.todo = c.known]
      BY <1>4, <2>1, GoOn, GoToOn DEF Socket
    <3> HIDE DEF more
    <3> QED BY <1>0, <3>1 DEF CtlStates
  <2> QED
    BY <1>0, <1>4, <2>2, GoToOn
       DEF Socket, SyncDone, SyncHost, SyncConf, SyncSecrets, CtlStates, TypeOK, UnitFiles,
           PastMigrate, PastSocket, PastTimers, PastLoad, PastOrphans, PastSecrets, Secrets
<1>5. CASE Timers(p)
  <2>1. After(c.verb, "timers") = "load"
    BY <1>0, AfterSync
  <2>2. c.pc = "timers" /\ d.pc = "load"
    <3> DEFINE more == c.changed \/ ~timers
    <3>1. c.pc = "timers" /\ d = [c EXCEPT !.pc = "load", !.changed = more]
      BY <1>5, <2>1, GoOn DEF Timers
    <3> HIDE DEF more
    <3> QED BY <1>0, <3>1 DEF CtlStates
  <2> QED
    BY <1>0, <1>5, <2>2
       DEF Timers, SyncDone, SyncHost, SyncConf, SyncSecrets, CtlStates, TypeOK, UnitFiles,
           PastMigrate, PastSocket, PastTimers, PastLoad, PastOrphans, PastSecrets, Secrets
<1>6. CASE Load(p)
  <2> DEFINE read == [i \in Instances |-> Wanted(i)]
  <2>0. After(c.verb, "load") = "ensure"
    BY <1>0, AfterSync
  <2>1. /\ c.pc = "load" /\ UNCHANGED <<conf, file, store, dir, socket, timers, disk>>
        /\ d = [c EXCEPT !.pc = "ensure", !.known = Configured, !.todo = Configured,
                         !.snap = read]
    BY <1>6, <2>0, GoOn, GoToOn DEF Load
  <2>2. /\ d.pc = "ensure" /\ d.known = Configured /\ d.todo = Configured
        /\ \A i \in Configured : d.snap[i] = Wanted(i)
    BY <1>0, <2>1 DEF CtlStates, Configured
  <2>3. Configured' = Configured
    BY <2>1 DEF Configured
  <2>4. SyncHost(c)'
    BY <1>0, <2>1, <2>2
       DEF SyncDone, SyncHost, PastMigrate, PastSocket, PastTimers, PastLoad, PastOrphans
  <2>5. SyncConf(c)'
    BY <2>1, <2>2, <2>3
       DEF SyncConf, Undone, PastLoad, PastOrphans, PastSecrets, Secrets
  <2>6. SyncSecrets(c)'
    BY <2>2 DEF SyncSecrets, PastSecrets, Secrets
  <2> QED BY <2>4, <2>5, <2>6 DEF SyncDone
<1>7. CASE Ensure(p)
  <2>1. c.pc = "ensure"
    BY <1>7 DEF Ensure
  <2>2. CASE c.todo = {} /\ GoTo(p, After(c.verb, "ensure")) /\ UNCHANGED dir
    <3>1. d = [c EXCEPT !.pc = "orphans"]
      BY <1>0, <2>2, GoToOn, AfterSync
    <3> QED
      BY <1>0, <1>7, <2>1, <2>2, <3>1
         DEF Ensure, SyncDone, SyncHost, SyncConf, SyncSecrets, CtlStates, Undone, Made,
             PastMigrate, PastSocket, PastTimers, PastLoad, PastOrphans, PastSecrets,
             Secrets, Configured
  <2>3. ASSUME NEW i \in c.todo, dir' = [dir EXCEPT ![i] = TRUE],
               Go(p, [c EXCEPT !.pc = "dropin", !.inst = i, !.todo = @ \ {i},
                               !.changed = @ \/ ~dir[i]])
        PROVE  SyncDone(ctl[p])'
    <3>1. d.pc = "dropin" /\ d.inst = i /\ d.todo = c.todo \ {i} /\ d.known = c.known
          /\ d.snap = c.snap
      <4> DEFINE more == c.changed \/ ~dir[i]
      <4>1. d = [c EXCEPT !.pc = "dropin", !.inst = i, !.todo = @ \ {i}, !.changed = more]
        BY <2>3, GoOn
      <4> HIDE DEF more
      <4> QED BY <1>0, <4>1 DEF CtlStates
    <3>2. UNCHANGED <<conf, file, store, socket, timers, disk>> /\ i \in Instances
      BY <1>0, <1>7, <2>3 DEF Ensure, CtlStates
    <3>3. Configured' = Configured
      BY <3>2 DEF Configured
    <3>4. SyncHost(c)'
      BY <1>0, <2>1, <3>1, <3>2
         DEF SyncDone, SyncHost, PastMigrate, PastSocket, PastTimers, PastLoad, PastOrphans
    <3>5. SyncConf(c)'
      <4>1. \A j \in c.known : Made(c, j)' \/ Undone(c, j)'
        BY <1>0, <2>1, <2>3, <3>1, <3>2
           DEF SyncDone, SyncConf, Made, Undone, Secrets, TypeOK
      <4> QED
        BY <1>0, <2>1, <2>3, <3>1, <3>2, <3>3, <4>1
           DEF SyncDone, SyncConf, Undone, PastLoad, PastOrphans, PastSecrets, Secrets, TypeOK
    <3>6. SyncSecrets(c)'
      BY <3>1 DEF SyncSecrets, PastSecrets, Secrets
    <3> QED BY <3>4, <3>5, <3>6 DEF SyncDone
  <2> QED BY <1>7, <2>2, <2>3 DEF Ensure
<1>8. CASE Dropin(p)
  <2>1. /\ c.pc = "dropin" /\ UNCHANGED <<conf, file, store, dir, socket, timers>>
        /\ disk' = [disk EXCEPT !.dropin[c.inst] = c.snap[c.inst]]
    BY <1>8 DEF Dropin
  <2>2. d.pc = "ensure" /\ d.inst = c.inst /\ d.todo = c.todo /\ d.known = c.known
        /\ d.snap = c.snap
    <3> DEFINE more == c.changed \/ disk.dropin[c.inst] # c.snap[c.inst]
    <3>1. d = [c EXCEPT !.pc = "ensure", !.changed = more]
      BY <1>8, GoOn DEF Dropin
    <3> HIDE DEF more
    <3> QED BY <1>0, <3>1 DEF CtlStates
  <2>3. Configured' = Configured
    BY <2>1 DEF Configured
  <2>4. /\ disk'.quadlet = disk.quadlet /\ disk'.old = disk.old
        /\ \A i \in Instances : disk'.dropin[i] =
             IF i = c.inst THEN c.snap[i] ELSE disk.dropin[i]
    BY <1>0, <2>1 DEF TypeOK, UnitFiles
  <2>5. SyncHost(c)'
    BY <1>0, <2>1, <2>2, <2>4
       DEF SyncDone, SyncHost, PastMigrate, PastSocket, PastTimers, PastLoad, PastOrphans
  <2>6. SyncConf(c)'
    <3>1. \A j \in c.known : Made(c, j)' \/ Undone(c, j)'
      BY <1>0, <2>1, <2>2, <2>4
         DEF SyncDone, SyncConf, Made, Undone, Secrets, CtlStates
    <3> QED
      BY <1>0, <2>1, <2>2, <2>3, <3>1
         DEF SyncDone, SyncConf, PastLoad, PastOrphans, PastSecrets, Secrets
  <2>7. SyncSecrets(c)'
    BY <2>2 DEF SyncSecrets, PastSecrets, Secrets
  <2> QED BY <2>5, <2>6, <2>7 DEF SyncDone
<1>9. CASE Orphans(p)
  <2>1. c.pc = "orphans" /\ UNCHANGED <<conf, file, store, dir, socket, timers>>
    BY <1>9 DEF Orphans
  <2>2. d.pc = "read" /\ d.todo = c.known /\ d.known = c.known /\ d.snap = c.snap
    <3> DEFINE more == c.changed \/ \E i \in Instances :
                                      i \notin c.known /\ disk.dropin[i] # "plain"
    <3>1. After(c.verb, "orphans") = "read"
      BY <1>0, AfterSync
    <3>2. d = [c EXCEPT !.pc = "read", !.todo = c.known, !.changed = more]
      BY <1>9, <3>1, GoOn DEF Orphans
    <3> HIDE DEF more
    <3> QED BY <1>0, <3>2 DEF CtlStates
  <2>3. Configured' = Configured
    BY <2>1 DEF Configured
  <2>4. /\ disk'.quadlet = disk.quadlet /\ disk'.old = disk.old
        /\ \A i \in Instances : disk'.dropin[i] =
             IF i \in c.known THEN disk.dropin[i] ELSE "plain"
    BY <1>0, <1>9 DEF Orphans, TypeOK, UnitFiles
  <2>5. SyncHost(c)'
    BY <1>0, <2>1, <2>2, <2>4
       DEF SyncDone, SyncHost, PastMigrate, PastSocket, PastTimers, PastLoad, PastOrphans
  <2>6. SyncConf(c)'
    <3>1. c.known \subseteq Instances
      BY <1>0 DEF CtlStates
    <3>2. \A i \in c.known : Made(c, i)'
      BY <1>0, <2>1, <2>2, <2>4, <3>1 DEF SyncDone, SyncConf, Made
    <3> QED
      BY <1>0, <2>1, <2>2, <2>3, <2>4, <3>2
         DEF SyncDone, SyncConf, PastLoad, PastOrphans, PastSecrets, Secrets
  <2>7. SyncSecrets(c)'
    BY <2>2 DEF SyncSecrets, Undone, PastSecrets, Secrets
  <2> QED BY <2>5, <2>6, <2>7 DEF SyncDone
<1>10. CASE Read(p)
  <2>1. c.pc = "read" /\ UNCHANGED <<conf, file, store, dir, socket, timers, disk>>
    BY <1>10 DEF Read
  <2>2. Configured' = Configured
    BY <2>1 DEF Configured
  <2>3. ASSUME d.pc \in {"read", "list"} \cup Secrets, d.known = c.known, d.snap = c.snap,
               d.pc # "list" => d.todo \subseteq c.known,
               d.pc \in Secrets => d.inst \in c.known
        PROVE  SyncHost(c)' /\ SyncConf(c)'
    BY <1>0, <2>1, <2>2, <2>3
       DEF SyncDone, SyncHost, SyncConf, Made, PastMigrate, PastSocket, PastTimers, PastLoad,
           PastOrphans, PastSecrets, Secrets
  <2>4. c.todo \subseteq c.known /\ \A i \in c.known : Right(i) \/ i \in c.todo
    BY <1>0, <2>1 DEF SyncDone, SyncConf, SyncSecrets, Undone, Secrets
  <2>5. CASE c.todo = {} /\ GoTo(p, After(c.verb, "read"))
    <3>1. d = [c EXCEPT !.pc = "list"]
      BY <1>0, <2>5, GoToOn, AfterSync
    <3>2. d.pc = "list" /\ d.known = c.known /\ d.snap = c.snap
      BY <1>0, <3>1 DEF CtlStates
    <3>3. SyncHost(c)' /\ SyncConf(c)'
      BY <2>3, <3>2 DEF Secrets
    <3>4. SyncSecrets(c)'
      BY <2>1, <2>4, <2>5, <3>2 DEF SyncSecrets, Right, PastSecrets, Secrets
    <3> QED BY <3>3, <3>4 DEF SyncDone
  <2>6. ASSUME NEW i \in c.todo, file[i] \in Tokens,
               Go(p, [c EXCEPT !.pc = "inspect", !.inst = i, !.todo = @ \ {i}, !.val = file[i]])
        PROVE  SyncDone(c)'
    <3>1. d = [c EXCEPT !.pc = "inspect", !.inst = i, !.todo = @ \ {i}, !.val = file[i]]
      BY <2>6, GoOn
    <3>2. /\ d.pc = "inspect" /\ d.inst = i /\ d.todo = c.todo \ {i} /\ d.val = file[i]
          /\ d.known = c.known /\ d.snap = c.snap
      BY <1>0, <3>1 DEF CtlStates
    <3>3. SyncHost(c)' /\ SyncConf(c)'
      BY <2>3, <2>4, <3>2 DEF Secrets
    <3>4. SyncSecrets(c)'
      BY <2>1, <2>4, <3>2 DEF SyncSecrets, Right, Undone, PastSecrets, Secrets
    <3> QED BY <3>3, <3>4 DEF SyncDone
  <2>7. ASSUME NEW i \in c.todo, file[i] \notin Tokens, Go(p, [c EXCEPT !.todo = @ \ {i}])
        PROVE  SyncDone(c)'
    <3>1. d = [c EXCEPT !.todo = @ \ {i}]
      BY <2>7, GoOn
    <3>2. d.pc = "read" /\ d.todo = c.todo \ {i} /\ d.known = c.known /\ d.snap = c.snap
      BY <1>0, <2>1, <3>1 DEF CtlStates
    <3>3. SyncHost(c)' /\ SyncConf(c)'
      BY <2>3, <2>4, <3>2 DEF Secrets
    <3>4. SyncSecrets(c)'
      BY <2>1, <2>4, <2>7, <3>2 DEF SyncSecrets, Right, Undone, PastSecrets, Secrets
    <3> QED BY <3>3, <3>4 DEF SyncDone
  <2> QED BY <1>0, <1>10, <2>5, <2>6, <2>7 DEF Read
<1>11. ASSUME c.pc \in Secrets, UNCHANGED <<conf, file, dir, socket, timers, disk>>,
              d.pc \in {"read", "drop", "create"}, d.inst = c.inst, d.todo = c.todo,
              d.known = c.known, d.snap = c.snap,
              d.pc # "read" => d.val = c.val /\ store'[c.inst] # c.val,
              d.pc = "read" => store'[c.inst] = c.val,
              \A i \in Instances \ {c.inst} : store'[i] = store[i]
       PROVE  SyncDone(c)'
  <2>1. Configured' = Configured
    BY <1>11 DEF Configured
  <2>2. SyncHost(c)' /\ SyncConf(c)'
    BY <1>0, <1>11, <2>1
       DEF SyncDone, SyncHost, SyncConf, Made, PastMigrate, PastSocket, PastTimers, PastLoad,
           PastOrphans, PastSecrets, Secrets
  <2>3. c.known \subseteq Instances
    BY <1>0 DEF CtlStates
  <2>4. SyncSecrets(c)'
    BY <1>0, <1>11, <2>3 DEF SyncDone, SyncSecrets, Right, Undone, PastSecrets, Secrets
  <2> QED BY <2>2, <2>4 DEF SyncDone
<1>12. CASE Inspect(p)
  <2>1. d = [c EXCEPT !.pc = "read", !.val = "none"] \/ d = [c EXCEPT !.pc = "create"]
        \/ d = [c EXCEPT !.pc = "drop"]
    BY <1>12, GoOn, GoToOn DEF Inspect
  <2>2. d.pc = "read" => store[c.inst] = c.val
    BY <1>0, <1>12, <2>1, GoToOn DEF Inspect, CtlStates
  <2>3. d.pc # "read" => store[c.inst] # c.val
    <3>1. SUFFICES ASSUME store[c.inst] = c.val PROVE d.pc = "read"
      OBVIOUS
    <3>2. d = [c EXCEPT !.pc = "read", !.val = "none"]
      BY <1>12, <3>1, GoOn DEF Inspect
    <3> QED BY <1>0, <3>2 DEF CtlStates
  <2> QED BY <1>0, <1>11, <1>12, <2>1, <2>2, <2>3 DEF Inspect, CtlStates, Secrets
<1>13. CASE Drop(p)
  <2>1. d = [c EXCEPT !.pc = "create"] /\ c.inst \in Instances /\ c.val \in Tokens
    BY <1>13, GoToOn, Carries DEF Drop, OnInstance, Holding
  <2>2. store'[c.inst] # c.val
    BY <1>0, <1>13, <2>1, TokensAssumption
       DEF Drop, TypeOK, SyncDone, SyncSecrets
  <2> QED BY <1>0, <1>11, <1>13, <2>1, <2>2 DEF Drop, CtlStates, Secrets, TypeOK
<1>14. CASE Create(p)
  <2>1. /\ d = [c EXCEPT !.pc = "read", !.val = "none", !.changed = TRUE]
        /\ c.inst \in Instances
    BY <1>14, GoOn, Carries DEF Create, OnInstance
  <2> QED BY <1>0, <1>11, <1>14, <2>1 DEF Create, CtlStates, Secrets, TypeOK
<1>15. ~CreateRefused(p)
  <2>1. SUFFICES ASSUME CreateRefused(p) PROVE FALSE
    OBVIOUS
  <2>2. d = [c EXCEPT !.pc = "read", !.val = "none", !.quiet = FALSE]
    BY <1>0, <2>1, GoOn DEF CreateRefused
  <2> QED BY <1>0, <2>2 DEF CtlStates
<1>16. CASE ListSecrets(p)
  <2> DEFINE left == {i \in Instances \ c.known : store[i] # "absent"}
  <2>1. d = [c EXCEPT !.pc = "prune", !.todo = left]
    <3>1. d = [c EXCEPT !.pc = "prune", !.todo = left]
          \/ d = [c EXCEPT !.pc = "prune", !.todo = {}, !.quiet = FALSE]
      BY <1>16, GoOn DEF ListSecrets
    <3>2. [c EXCEPT !.pc = "prune", !.todo = {}, !.quiet = FALSE].quiet = FALSE
      BY <1>0 DEF CtlStates
    <3> QED BY <3>1, <3>2
  <2>2. c.pc = "list" /\ UNCHANGED <<conf, file, store, dir, socket, timers, disk>>
    BY <1>16 DEF ListSecrets
  <2>3. d.pc = "prune" /\ d.todo = left /\ d.known = c.known /\ d.snap = c.snap
    BY <1>0, <2>1 DEF CtlStates
  <2>4. Configured' = Configured
    BY <2>2 DEF Configured
  <2>5. SyncHost(c)' /\ SyncConf(c)'
    BY <1>0, <2>2, <2>3, <2>4
       DEF SyncDone, SyncHost, SyncConf, Made, PastMigrate, PastSocket, PastTimers, PastLoad,
           PastOrphans, PastSecrets, Secrets
  <2>6. SyncSecrets(c)'
    BY <1>0, <2>2, <2>3 DEF SyncDone, SyncSecrets, Right, PastSecrets, Secrets
  <2> QED BY <2>5, <2>6 DEF SyncDone
<1>17. CASE PruneSecret(p)
  <2>0. ASSUME NEW i, Go(p, [c EXCEPT !.todo = @ \ {i}, !.changed = TRUE, !.quiet = FALSE])
        PROVE  FALSE
    <3>1. d = [c EXCEPT !.todo = @ \ {i}, !.changed = TRUE, !.quiet = FALSE]
      BY <2>0, GoOn
    <3> QED BY <1>0, <3>1 DEF CtlStates
  <2>1. PICK i \in c.todo : /\ store' = [store EXCEPT ![i] = "absent"]
                            /\ d = [c EXCEPT !.todo = @ \ {i}, !.changed = TRUE]
    BY <1>17, <2>0, GoOn DEF PruneSecret
  <2>2. c.pc = "prune" /\ UNCHANGED <<conf, file, dir, socket, timers, disk>>
    BY <1>17 DEF PruneSecret
  <2>3. /\ d.pc = "prune" /\ d.todo = c.todo \ {i} /\ d.known = c.known /\ d.snap = c.snap
        /\ c.known \subseteq Instances
    BY <1>0, <2>1, <2>2 DEF CtlStates
  <2>4. Configured' = Configured
    BY <2>2 DEF Configured
  <2>5. SyncHost(c)' /\ SyncConf(c)'
    BY <1>0, <2>2, <2>3, <2>4
       DEF SyncDone, SyncHost, SyncConf, Made, PastMigrate, PastSocket, PastTimers, PastLoad,
           PastOrphans, PastSecrets, Secrets
  <2>6. SyncSecrets(c)'
    BY <1>0, <2>1, <2>2, <2>3
       DEF SyncDone, SyncSecrets, Right, PastSecrets, Secrets, TypeOK
  <2> QED BY <2>5, <2>6 DEF SyncDone
<1>18. CASE FinishPrune(p)
  <2>1. d = [c EXCEPT !.pc = "reload"]
    BY <1>18, GoToOn DEF FinishPrune
  <2>2. c.pc = "prune" /\ UNCHANGED <<conf, file, store, dir, socket, timers, disk>>
    BY <1>18 DEF FinishPrune
  <2>3. d.pc = "reload" /\ d.known = c.known /\ d.snap = c.snap
    BY <1>0, <2>1 DEF CtlStates
  <2>4. Configured' = Configured
    BY <2>2 DEF Configured
  <2> QED
    BY <1>0, <2>2, <2>3, <2>4
       DEF SyncDone, SyncHost, SyncConf, SyncSecrets, Made, Right, PastMigrate, PastSocket,
           PastTimers, PastLoad, PastOrphans, PastSecrets, Secrets
<1>19. ~Reload(p)
  BY <1>0, GoToOn, AfterSync DEF Reload
<1>20. ~OtherStep(p)
  <2>1. c.pc \in StepsOf("sync")
    BY <1>0, Carries
  <2> QED
    BY <2>1, StepsOfVerbs
       DEF OtherStep, Truncate, Write, Scaffold, LoadOne, HasCredential, Link, Again,
           Unlink, Unlinked, Forget, Unfile, Unconf, Purge
<1> QED
  BY <1>1, <1>2, <1>3, <1>4, <1>5, <1>6, <1>7, <1>8, <1>9, <1>10, <1>12, <1>13, <1>14,
     <1>15, <1>16, <1>17, <1>18, <1>19, <1>20
     DEF CtlStep, SecretStep, SyncStep

LEMMA EnableStepDone ==
  ASSUME TypeInv, NEW p \in Ctls, CtlStep(p), ctl'[p].quiet,
         ctl[p].verb = "enable", EnableDone(ctl[p])
  PROVE  EnableDone(ctl[p])'
<1> DEFINE c == ctl[p]
           d == ctl'[p]
<1> USE DEF At, sources, services, units
<1>0. /\ TypeOK /\ c \in CtlStates /\ c.verb = "enable" /\ EnableDone(c)
      /\ c.inst \in Instances /\ c.pc \in StepsOf("enable") /\ c.todo \subseteq {c.inst}
      /\ c.pc \in Secrets => c.val \in Tokens
  BY Carries DEF TypeInv, OfOne, Secrets, Holding
<1>1. CASE LoadOne(p)
  <2>1. c.pc = "conf" /\ UNCHANGED <<conf, file, store, dir, socket, timers, disk>>
    BY <1>1 DEF LoadOne
  <2>2. After(c.verb, "conf") = "has"
    BY <1>0, AfterEnable
  <2>3. /\ d = [c EXCEPT !.pc = "has", !.known = {c.inst}, !.snap[c.inst] = Wanted(c.inst)]
        /\ conf[c.inst] \notin {"absent", "malformed", "no-url"}
    BY <1>0, <1>1, <2>2, GoOn, GoToOn DEF LoadOne
  <2>4. /\ d.pc = "has" /\ d.inst = c.inst /\ d.todo = c.todo /\ d.known = {c.inst}
        /\ d.snap[c.inst] = Wanted(c.inst)
    BY <1>0, <2>3 DEF CtlStates
  <2>5. conf[c.inst] \in Shapes
    BY <1>0, <2>3 DEF TypeOK, Confs
  <2> QED BY <1>0, <2>1, <2>4, <2>5 DEF EnableDone, Secrets
<1>2. CASE HasCredential(p)
  <2>1. c.pc = "has" /\ UNCHANGED <<conf, file, store, dir, socket, timers, disk>>
    BY <1>2 DEF HasCredential
  <2>2. Has(c.inst) /\ d = [c EXCEPT !.pc = IF store[c.inst] = "absent" THEN "read" ELSE "socket"]
    BY <1>2, GoToOn DEF HasCredential
  <2>3. /\ d.pc = (IF store[c.inst] = "absent" THEN "read" ELSE "socket")
        /\ d.inst = c.inst /\ d.todo = c.todo /\ d.known = c.known /\ d.snap = c.snap
    BY <1>0, <2>2 DEF CtlStates
  <2> QED BY <1>0, <2>1, <2>2, <2>3 DEF EnableDone, Secrets, Has
<1>3. CASE Read(p)
  <2>1. c.pc = "read" /\ UNCHANGED <<conf, file, store, dir, socket, timers, disk>>
    BY <1>3 DEF Read
  <2>2. CASE c.todo = {} /\ GoTo(p, After(c.verb, "read"))
    <3>1. d = [c EXCEPT !.pc = "socket"]
      BY <1>0, <2>2, GoToOn, AfterEnable
    <3>2. d.pc = "socket" /\ d.inst = c.inst /\ d.todo = c.todo /\ d.known = c.known
          /\ d.snap = c.snap
      BY <1>0, <3>1 DEF CtlStates
    <3> QED BY <1>0, <2>1, <2>2, <3>2 DEF EnableDone, Secrets, Has
  <2>3. ASSUME NEW i \in c.todo,
               Go(p, [c EXCEPT !.pc = "inspect", !.inst = i, !.todo = @ \ {i}, !.val = file[i]])
        PROVE  EnableDone(c)'
    <3>1. d = [c EXCEPT !.pc = "inspect", !.inst = i, !.todo = @ \ {i}, !.val = file[i]]
          /\ i = c.inst
      BY <1>0, <2>3, GoOn
    <3>2. d.pc = "inspect" /\ d.inst = c.inst /\ d.todo = {} /\ d.known = c.known
          /\ d.snap = c.snap
      BY <1>0, <3>1 DEF CtlStates
    <3> QED BY <1>0, <2>1, <3>2 DEF EnableDone, Secrets, Has
  <2>4. ~GoTo(p, "idle")
    BY GoToOn
  <2> QED BY <1>0, <1>3, <2>2, <2>3, <2>4 DEF Read
<1>4. ASSUME c.pc \in Secrets, UNCHANGED <<conf, file, dir, socket, timers, disk>>,
             d.pc \in {"read", "drop", "create"}, d.inst = c.inst, d.todo = c.todo,
             d.known = c.known, d.snap = c.snap,
             d.pc = "read" => store'[c.inst] # "absent"
      PROVE  EnableDone(c)'
  BY <1>0, <1>4 DEF EnableDone, Secrets, Has
<1>5. CASE Inspect(p)
  <2>1. d = [c EXCEPT !.pc = "read", !.val = "none"] \/ d = [c EXCEPT !.pc = "create"]
        \/ d = [c EXCEPT !.pc = "drop"]
    BY <1>5, GoOn, GoToOn DEF Inspect
  <2>2. d.pc = "read" => store[c.inst] = c.val
    BY <1>0, <1>5, <2>1, GoToOn DEF Inspect, CtlStates
  <2> QED BY <1>0, <1>4, <1>5, <2>1, <2>2, TokensAssumption DEF Inspect, CtlStates, Secrets
<1>6. CASE Drop(p)
  <2>1. d = [c EXCEPT !.pc = "create"]
    BY <1>6, GoToOn DEF Drop
  <2> QED BY <1>0, <1>4, <1>6, <2>1 DEF Drop, CtlStates, Secrets
<1>7. CASE Create(p)
  <2>1. d = [c EXCEPT !.pc = "read", !.val = "none", !.changed = TRUE]
    BY <1>7, GoOn DEF Create
  <2>2. store'[c.inst] # "absent"
    BY <1>0, <1>7, TokensAssumption DEF Create, TypeOK, Secrets
  <2> QED BY <1>0, <1>4, <1>7, <2>1, <2>2 DEF Create, CtlStates, Secrets
<1>8. ~CreateRefused(p)
  BY <1>0, GoToOn DEF CreateRefused
<1>9. CASE Socket(p)
  <2>1. After(c.verb, "socket") = "ensure"
    BY <1>0, AfterEnable
  <2>2. /\ c.pc = "socket" /\ d.pc = "ensure" /\ d.inst = c.inst /\ d.todo = c.known
        /\ d.known = c.known /\ d.snap = c.snap
    <3> DEFINE more == c.changed \/ socket # "on"
    <3>1. c.pc = "socket" /\ d = [c EXCEPT !.pc = "ensure", !.changed = more, !.todo = c.known]
      BY <1>9, <2>1, GoOn, GoToOn DEF Socket
    <3> HIDE DEF more
    <3> QED BY <1>0, <3>1 DEF CtlStates
  <2> QED BY <1>0, <1>9, <2>2, GoToOn DEF Socket, EnableDone, Secrets, Has
<1>10. CASE Ensure(p)
  <2>1. c.pc = "ensure" /\ UNCHANGED <<conf, file, store, socket, timers, disk>>
    BY <1>10 DEF Ensure
  <2>2. CASE c.todo = {} /\ GoTo(p, After(c.verb, "ensure")) /\ UNCHANGED dir
    <3>1. d = [c EXCEPT !.pc = "reload"]
      BY <1>0, <2>2, GoToOn, AfterEnable
    <3>2. d.pc = "reload" /\ d.inst = c.inst /\ d.known = c.known /\ d.snap = c.snap
      BY <1>0, <3>1 DEF CtlStates
    <3> QED BY <1>0, <2>1, <2>2, <3>2 DEF EnableDone, Made, Secrets, Has
  <2>3. ASSUME NEW i \in c.todo, dir' = [dir EXCEPT ![i] = TRUE],
               Go(p, [c EXCEPT !.pc = "dropin", !.inst = i, !.todo = @ \ {i},
                               !.changed = @ \/ ~dir[i]])
        PROVE  EnableDone(c)'
    <3>1. /\ d.pc = "dropin" /\ d.inst = c.inst /\ d.todo = {} /\ d.known = c.known
          /\ d.snap = c.snap /\ i = c.inst
      <4> DEFINE more == c.changed \/ ~dir[i]
      <4>1. d = [c EXCEPT !.pc = "dropin", !.inst = i, !.todo = @ \ {i}, !.changed = more]
        BY <2>3, GoOn
      <4> HIDE DEF more
      <4> QED BY <1>0, <4>1 DEF CtlStates
    <3>2. dir'[c.inst]
      BY <1>0, <2>3, <3>1 DEF TypeOK
    <3> QED BY <1>0, <2>1, <3>1, <3>2 DEF EnableDone, Secrets, Has
  <2> QED BY <1>10, <2>2, <2>3 DEF Ensure
<1>11. CASE Dropin(p)
  <2>1. /\ c.pc = "dropin" /\ UNCHANGED <<conf, file, store, dir, socket, timers>>
        /\ disk'.dropin[c.inst] = c.snap[c.inst]
    BY <1>0, <1>11 DEF Dropin, TypeOK, UnitFiles
  <2>2. /\ d.pc = "ensure" /\ d.inst = c.inst /\ d.todo = c.todo /\ d.known = c.known
        /\ d.snap = c.snap
    <3> DEFINE more == c.changed \/ disk.dropin[c.inst] # c.snap[c.inst]
    <3>1. d = [c EXCEPT !.pc = "ensure", !.changed = more]
      BY <1>11, GoOn DEF Dropin
    <3> HIDE DEF more
    <3> QED BY <1>0, <3>1 DEF CtlStates
  <2> QED BY <1>0, <2>1, <2>2 DEF EnableDone, Made, Secrets, Has
<1>12. CASE Reload(p)
  <2>1. d = [c EXCEPT !.pc = "link"]
    BY <1>0, <1>12, GoToOn, AfterEnable DEF Reload
  <2>2. d.pc = "link" /\ d.inst = c.inst /\ d.known = c.known /\ d.snap = c.snap
    BY <1>0, <2>1 DEF CtlStates
  <2> QED BY <1>0, <1>12, <2>2 DEF Reload, EnableDone, Made, Secrets, Has
<1>13. CASE Link(p)
  <2>1. d = [c EXCEPT !.pc = "again"] /\ disk' = [disk EXCEPT !.on = @ \cup {c.inst}]
    BY <1>13, GoToOn DEF Link
  <2>2. c.pc = "link" /\ UNCHANGED <<conf, file, store, dir, socket, timers>>
    BY <1>13 DEF Link
  <2>3. d.pc = "again" /\ d.inst = c.inst /\ d.known = c.known /\ d.snap = c.snap
    BY <1>0, <2>1 DEF CtlStates
  <2>4. c.inst \in disk'.on /\ disk'.dropin = disk.dropin
    BY <1>0, <2>1 DEF TypeOK, UnitFiles
  <2> QED BY <1>0, <2>2, <2>3, <2>4 DEF EnableDone, Made, Secrets, Has
<1>14. ~Again(p)
  BY GoToOn DEF Again
<1> QED
  <2>1. \/ LoadOne(p) \/ HasCredential(p) \/ Read(p) \/ Inspect(p) \/ Drop(p) \/ Create(p)
        \/ CreateRefused(p) \/ Socket(p) \/ Ensure(p) \/ Dropin(p) \/ Reload(p) \/ Link(p)
        \/ Again(p)
    BY <1>0, StepsOfVerbs
       DEF CtlStep, SecretStep, SyncStep, OtherStep, Links, Migrate, Moved, Timers, Load,
           Orphans, ListSecrets, PruneSecret, FinishPrune, Truncate, Write, Scaffold,
           Unlink, Unlinked, Forget, Unfile, Unconf, Purge
  <2> QED
    BY <1>1, <1>2, <1>3, <1>5, <1>6, <1>7, <1>8, <1>9, <1>10, <1>11, <1>12, <1>13, <1>14, <2>1

LEMMA RmStepDone ==
  ASSUME TypeInv, NEW p \in Ctls, CtlStep(p), ctl'[p].quiet,
         ctl[p].verb = "rm", RmDone(ctl[p])
  PROVE  RmDone(ctl[p])'
<1> DEFINE c == ctl[p]
           d == ctl'[p]
<1> USE DEF At, sources, services, units
<1>0. /\ TypeOK /\ c \in CtlStates /\ c.verb = "rm" /\ RmDone(c)
      /\ c.inst \in Instances /\ c.pc \in StepsOf("rm")
  BY Carries DEF TypeInv
<1>1. CASE LoadOne(p)
  <2>1. After(c.verb, "conf") = "unlink"
    BY <1>0, AfterRm
  <2>2. d = [c EXCEPT !.pc = "unlink", !.known = {c.inst}, !.snap[c.inst] = Wanted(c.inst)]
    BY <1>1, <2>1, GoOn, GoToOn DEF LoadOne
  <2>3. d.pc = "unlink"
    BY <1>0, <2>2 DEF CtlStates
  <2> QED BY <2>3 DEF RmDone
<1>2. ASSUME NEW pc \in Steps, GoTo(p, pc)
      PROVE  d.pc = pc /\ d.inst = c.inst /\ d.known = c.known
  BY <1>0, <1>2, GoToOn DEF CtlStates
<1>3. CASE Unlink(p) \/ Unlinked(p)
  <2>1. c.pc \in {"unlink", "unlinked"} /\ d.pc \in {"unlinked", "forget"} /\ d.inst = c.inst
    BY <1>2, <1>3 DEF Unlink, Unlinked, Steps
  <2>2. c.inst \notin disk'.on
    BY <1>0, <1>3 DEF Unlink, Unlinked, RmDone, TypeOK, UnitFiles
  <2> QED BY <2>1, <2>2 DEF RmDone
<1>4. CASE Forget(p)
  <2>1. store' = [store EXCEPT ![c.inst] = "absent"] /\ GoTo(p, "unfile")
    <3>1. ASSUME Go(p, [c EXCEPT !.pc = "unfile", !.quiet = FALSE]) PROVE FALSE
      <4>1. d = [c EXCEPT !.pc = "unfile", !.quiet = FALSE]
        BY <3>1, GoOn
      <4> QED BY <1>0, <4>1 DEF CtlStates
    <3> QED BY <1>4, <3>1 DEF Forget
  <2>2. c.pc = "forget" /\ d.pc = "unfile" /\ d.inst = c.inst
    BY <1>2, <1>4, <2>1 DEF Forget, Steps
  <2> QED BY <1>0, <1>4, <2>1, <2>2 DEF Forget, RmDone, TypeOK
<1>5. CASE Unfile(p) \/ Unconf(p)
  <2>1. CASE Unfile(p)
    <3>1. c.pc = "unfile" /\ d.pc = "unconf" /\ d.inst = c.inst
      BY <1>2, <2>1 DEF Unfile, Steps
    <3> QED BY <1>0, <2>1, <3>1 DEF Unfile, RmDone, TypeOK
  <2>2. CASE Unconf(p)
    <3>1. c.pc = "unconf" /\ d.pc = "load" /\ d.inst = c.inst
      BY <1>2, <2>2 DEF Unconf, Steps
    <3> QED BY <1>0, <2>2, <3>1 DEF Unconf, RmDone, TypeOK
  <2> QED BY <1>5, <2>1, <2>2
<1>6. CASE Load(p)
  <2> DEFINE read == [i \in Instances |-> Wanted(i)]
  <2>1. After(c.verb, "load") = "orphans"
    BY <1>0, AfterRm
  <2>2. d = [c EXCEPT !.pc = "orphans", !.known = Configured, !.todo = Configured,
                      !.snap = read]
    BY <1>6, <2>1, GoOn, GoToOn DEF Load
  <2>3. d.pc = "orphans" /\ d.inst = c.inst /\ d.known = Configured
    BY <1>0, <2>2 DEF CtlStates
  <2> QED BY <1>0, <1>6, <2>3 DEF Load, RmDone, Configured
<1>7. CASE Orphans(p)
  <2>1. c.pc = "orphans" /\ UNCHANGED <<conf, file, store>>
    BY <1>7 DEF Orphans
  <2>2. d.pc = "reload" /\ d.inst = c.inst
    <3> DEFINE more == c.changed \/ \E i \in Instances :
                                      i \notin c.known /\ disk.dropin[i] # "plain"
    <3>1. After(c.verb, "orphans") = "reload"
      BY <1>0, AfterRm
    <3>2. d = [c EXCEPT !.pc = "reload", !.todo = c.known, !.changed = more]
      BY <1>7, <3>1, GoOn DEF Orphans
    <3> HIDE DEF more
    <3> QED BY <1>0, <3>2 DEF CtlStates
  <2>3. disk'.on = disk.on /\ disk'.dropin[c.inst] = "plain"
    BY <1>0, <1>7 DEF Orphans, RmDone, TypeOK, UnitFiles
  <2> QED BY <1>0, <2>1, <2>2, <2>3 DEF RmDone
<1>8. CASE Reload(p)
  <2>1. c.pc = "reload" /\ d.pc = "purge" /\ d.inst = c.inst
    BY <1>0, <1>2, <1>8, AfterRm DEF Reload, Steps
  <2> QED BY <1>0, <1>8, <2>1 DEF Reload, RmDone
<1>9. ~Purge(p)
  BY GoToOn DEF Purge
<1> QED
  <2>1. \/ LoadOne(p) \/ Unlink(p) \/ Unlinked(p) \/ Forget(p) \/ Unfile(p) \/ Unconf(p)
        \/ Load(p) \/ Orphans(p) \/ Reload(p) \/ Purge(p)
    BY <1>0, StepsOfVerbs
       DEF CtlStep, SecretStep, SyncStep, OtherStep, Links, Migrate, Moved, Socket, Timers,
           Ensure, Dropin, ListSecrets, PruneSecret, FinishPrune, Truncate, Write, Scaffold,
           Read, Inspect, Drop, Create, CreateRefused, HasCredential, Link, Again
  <2> QED
    BY <1>1, <1>3, <1>4, <1>5, <1>6, <1>7, <1>8, <1>9, <2>1

LEMMA SetStepDone ==
  ASSUME TypeInv, NEW p \in Ctls, CtlStep(p), ctl'[p].quiet,
         ctl[p].verb \in {"add", "set-credential"}, SetDone(ctl[p])
  PROVE  SetDone(ctl[p])'
<1> DEFINE c == ctl[p]
           d == ctl'[p]
<1> USE DEF At, sources, services, units
<1>0. /\ TypeOK /\ c \in CtlStates /\ c.verb \in {"add", "set-credential"} /\ SetDone(c)
      /\ c.inst \in Instances /\ c.pc \in StepsOf(c.verb) /\ c.todo \subseteq {c.inst}
      /\ c.pc \in Holding => c.val \in Tokens
  BY Carries DEF TypeInv, OfOne
<1>1. ASSUME NEW pc \in Steps, GoTo(p, pc)
      PROVE  d.pc = pc /\ d.inst = c.inst /\ d.todo = c.todo /\ d.val = c.val /\ pc # "idle"
  BY <1>0, <1>1, GoToOn DEF CtlStates
<1>2. CASE Truncate(p)
  <2>1. /\ c.pc = "truncate" /\ d.pc = "write" /\ d.inst = c.inst /\ d.todo = c.todo
    BY <1>1, <1>2 DEF Truncate, Steps
  <2> QED BY <1>0, <2>1 DEF SetDone, Secrets
<1>3. CASE Write(p)
  <2>1. After(c.verb, "write") \in {"scaffold", "read"}
    BY <1>0, AfterWrite
  <2>2. c.pc = "write" /\ d = [c EXCEPT !.pc = After(c.verb, "write"), !.val = "none"]
    BY <1>3, GoOn DEF Write
  <2>3. /\ d.pc \in {"scaffold", "read"} /\ d.inst = c.inst /\ d.todo = c.todo /\ d.val = "none"
    BY <1>0, <2>1, <2>2 DEF CtlStates
  <2>4. file'[c.inst] \in Tokens
    BY <1>0, <1>3, <2>2 DEF Write, Holding, TypeOK
  <2> QED BY <1>0, <2>2, <2>3, <2>4 DEF SetDone, Secrets
<1>4. CASE Scaffold(p)
  <2>1. After(c.verb, "scaffold") = "read"
    BY <1>0, <1>4, StepsOfVerbs, AfterWrite DEF Scaffold
  <2>2. /\ c.pc = "scaffold" /\ d.pc = "read" /\ d.inst = c.inst /\ d.todo = c.todo
        /\ d.val = c.val
    BY <1>1, <1>4, <2>1 DEF Scaffold, Steps
  <2> QED BY <1>0, <1>4, <2>2 DEF Scaffold, SetDone, Secrets
<1>5. CASE Read(p)
  <2>1. c.pc = "read" /\ UNCHANGED <<file, store>> /\ After(c.verb, "read") = "idle"
    BY <1>0, <1>5, AfterWrite DEF Read
  <2>2. PICK i \in c.todo :
          Go(p, [c EXCEPT !.pc = "inspect", !.inst = i, !.todo = @ \ {i}, !.val = file[i]])
    BY <1>0, <1>5, <2>1, GoToOn DEF Read
  <2>3. /\ d = [c EXCEPT !.pc = "inspect", !.inst = i, !.todo = @ \ {i}, !.val = file[i]]
        /\ i = c.inst
    BY <1>0, <2>2, GoOn
  <2>4. d.pc = "inspect" /\ d.inst = c.inst /\ d.todo = {} /\ d.val = file[c.inst]
    BY <1>0, <2>3 DEF CtlStates
  <2> QED BY <1>0, <2>1, <2>4 DEF SetDone, Secrets
<1>6. ASSUME c.pc \in Secrets, UNCHANGED file, d.pc \in {"read", "drop", "create"},
             d.inst = c.inst, d.todo = c.todo, d.pc # "read" => d.val = c.val,
             d.pc = "read" => d.val = "none" /\ store'[c.inst] = c.val
      PROVE  SetDone(c)'
  BY <1>0, <1>6 DEF SetDone, Secrets
<1>7. CASE Inspect(p)
  <2>1. d = [c EXCEPT !.pc = "read", !.val = "none"] \/ d = [c EXCEPT !.pc = "create"]
        \/ d = [c EXCEPT !.pc = "drop"]
    BY <1>7, GoOn, GoToOn DEF Inspect
  <2>2. d.pc = "read" => store[c.inst] = c.val
    BY <1>0, <1>7, <2>1, GoToOn DEF Inspect, CtlStates
  <2> QED BY <1>0, <1>6, <1>7, <2>1, <2>2 DEF Inspect, CtlStates, Secrets
<1>8. CASE Drop(p)
  <2>1. d = [c EXCEPT !.pc = "create"]
    BY <1>8, GoToOn DEF Drop
  <2> QED BY <1>0, <1>6, <1>8, <2>1 DEF Drop, CtlStates, Secrets
<1>9. CASE Create(p)
  <2>1. d = [c EXCEPT !.pc = "read", !.val = "none", !.changed = TRUE]
    BY <1>9, GoOn DEF Create
  <2>2. store'[c.inst] = c.val
    BY <1>0, <1>9 DEF Create, TypeOK
  <2> QED BY <1>0, <1>6, <1>9, <2>1, <2>2 DEF Create, CtlStates, Secrets
<1>10. ~CreateRefused(p)
  BY <1>0, GoToOn DEF CreateRefused
<1> QED
  <2>1. c.pc \in {"truncate", "write", "scaffold", "read"} \cup Secrets
    BY <1>0, StepsOfVerbs DEF Secrets
  <2>2. \/ Truncate(p) \/ Write(p) \/ Scaffold(p) \/ Read(p) \/ Inspect(p) \/ Drop(p)
        \/ Create(p) \/ CreateRefused(p)
    BY <2>1
       DEF CtlStep, SecretStep, SyncStep, OtherStep, Links, Migrate, Moved, Socket, Timers,
           Load, Ensure, Dropin, Orphans, ListSecrets, PruneSecret, FinishPrune, Reload,
           LoadOne, HasCredential, Link, Again, Unlink, Unlinked, Forget, Unfile, Unconf,
           Purge, Secrets
  <2> QED
    BY <1>2, <1>3, <1>4, <1>5, <1>7, <1>8, <1>9, <1>10, <2>2

\* What a command has done stays done until it ends, or somebody else acts.
LEMMA DoneNext == TypeInv /\ DoneInv /\ [Next]_vars => DoneInv'
<1> SUFFICES ASSUME TypeInv, DoneInv, [Next]_vars, NEW p \in Ctls, ctl'[p].quiet
             PROVE  /\ ctl'[p].verb = "sync" => SyncDone(ctl[p])'
                    /\ ctl'[p].verb = "enable" => EnableDone(ctl[p])'
                    /\ ctl'[p].verb = "rm" => RmDone(ctl[p])'
                    /\ ctl'[p].verb \in {"add", "set-credential"} => SetDone(ctl[p])'
  BY DEF DoneInv
<1>1. CASE UNCHANGED vars
  BY <1>1
     DEF DoneInv, vars, sources, services, units, SyncDone, SyncHost, SyncConf, SyncSecrets,
         EnableDone, RmDone, SetDone, Made, Right, Undone, Configured, Has
<1>2. ASSUME NEW q \in Ctls, IssueAny(q) \/ CtlStep(q) \/ CtlFail(q), q # p
      PROVE  FALSE
  BY <1>2, Disturbed
<1>3. CASE IssueAny(p)
  <2>1. PICK c \in Carried :
          /\ Go(p, c)
          /\ c.verb = "sync" => c.pc = "links"
          /\ c.verb \in {"enable", "rm"} => c.pc = "conf"
          /\ c.verb \in {"add", "set-credential"} => c.pc = "truncate"
          /\ c.verb # "sync" => c.todo = {c.inst}
    BY <1>3, Begins
  <2>2. ctl'[p] = c
    BY <2>1, GoOn
  <2>3. c.verb = "sync" => SyncDone(ctl[p])'
    BY <2>1, <2>2
       DEF SyncDone, SyncHost, SyncConf, SyncSecrets, PastMigrate, PastSocket, PastTimers,
           PastLoad, PastOrphans, PastSecrets, Secrets
  <2>4. c.verb = "enable" => EnableDone(ctl[p])'
    BY <2>1, <2>2 DEF EnableDone, Secrets
  <2>5. c.verb = "rm" => RmDone(ctl[p])'
    BY <2>1, <2>2 DEF RmDone
  <2>6. c.verb \in {"add", "set-credential"} => SetDone(ctl[p])'
    BY <2>1, <2>2 DEF SetDone, Secrets
  <2> QED BY <2>2, <2>3, <2>4, <2>5, <2>6
<1>4. CASE CtlStep(p)
  <2>1. ctl'[p].verb = ctl[p].verb /\ ctl[p].quiet
    BY <1>4, SameCommand
  <2> QED
    BY <1>4, <2>1, SyncStepDone, EnableStepDone, RmStepDone, SetStepDone DEF DoneInv
<1>5. ~CtlFail(p)
  BY GoToOn DEF CtlFail
<1>6. ~EditAny
  <2>1. ASSUME NEW kind, Edit(kind) PROVE FALSE
    BY <2>1, Carries DEF Edit, CtlStates
  <2> QED BY <2>1, Zenon DEF EditAny, EditConf, EditFile, EditStore, UpgradePackage
<1> QED
  BY <1>1, <1>2, <1>3, <1>4, <1>5, <1>6 DEF Next

\* Who carries what, and what is done: what every later proof starts from.
LEMMA Invariant == Spec => [](TypeInv /\ DoneInv)
<1>1. Init => DoneInv
  BY DEF Init, DoneInv, IdleCtl
<1>2. TypeInv /\ DoneInv /\ [Next]_vars => (TypeInv /\ DoneInv)'
  BY TypeNext, DoneNext
<1> QED
  BY <1>1, <1>2, TypeInit, PTL DEF Spec

-----------------------------------------------------------------------------
(* What a command that was alone has achieved.                             *)

\* When a `sync` that ran alone finds no more secrets to remove, all is done.
LEMMA SyncEnds ==
  ASSUME TypeInv, DoneInv, NEW p \in Ctls, FinishPrune(p), ctl[p].quiet
  PROVE  InSync'
<1> DEFINE c == ctl[p]
<1>1. c.pc = "prune" /\ c.todo = {} /\ UNCHANGED others
  BY DEF FinishPrune, At, others
<1>2. c.verb = "sync"
  BY <1>1, Carries, StepsOfVerbs DEF AllVerbs
<1>3. SyncHost(c) /\ SyncConf(c) /\ SyncSecrets(c)
  BY <1>2 DEF DoneInv, SyncDone
<1>4. disk.quadlet /\ disk.old = {} /\ socket = "on" /\ timers
  BY <1>1, <1>3
     DEF SyncHost, PastMigrate, PastSocket, PastTimers, PastLoad, PastOrphans, PastSecrets
<1>5. /\ c.known = Configured /\ \A i \in Configured : c.snap[i] = Wanted(i) /\ Made(c, i)
      /\ \A i \in Instances \ Configured : disk.dropin[i] = "plain"
  BY <1>1, <1>3 DEF SyncConf, PastLoad, PastOrphans, PastSecrets
<1>6. /\ \A i \in Configured : Right(i)
      /\ \A i \in Instances \ Configured : store[i] = "absent"
  BY <1>1, <1>3, <1>5 DEF SyncSecrets, PastSecrets
<1>7. InSync
  BY <1>4, <1>5, <1>6 DEF InSync, Configured, Made, Right
<1> QED
  BY <1>1, <1>7 DEF InSync, others, sources, services, units

\* A `sync` that ran alone, from whatever state it found, ends with all of the
\* derived state as the conf and credential files say.
THEOREM SyncConvergesHolds == Spec => SyncConverges
<1>1. TypeInv /\ DoneInv /\ [Next]_vars
        => [\A p \in Ctls : FinishPrune(p) /\ ctl[p].quiet => InSync']_vars
  BY SyncEnds
<1> QED
  BY <1>1, Invariant, PTL DEF Spec, SyncConverges

\* Nor does it touch anything that is in sync already.
THEOREM SyncSettlesHolds == Spec => SyncSettles
<1>1. ASSUME TypeInv, DoneInv, NEW p \in Ctls, ctl[p].verb = "sync", ctl[p].quiet,
             ctl[p].pc # "moved", InSync, CtlStep(p)
      PROVE  UNCHANGED <<sources, store, dir, services, disk>>
  <2> DEFINE c == ctl[p]
  <2> USE DEF At, sources, services, units
  <2>1. /\ TypeOK /\ c.pc \in StepsOf("sync") /\ c \in CtlStates
        /\ SyncHost(c) /\ SyncConf(c) /\ SyncSecrets(c)
        /\ c.pc \in OnInstance => c.inst \in Instances
    BY <1>1, Carries DEF TypeInv, DoneInv, SyncDone
  <2>2. \A i \in Instances : conf[i] # "absent" => disk.dropin[i] = Wanted(i) /\ dir[i]
    BY <1>1 DEF InSync
  <2>3. CASE Links(p) \/ Socket(p) \/ Timers(p)
    <3>1. [disk EXCEPT !.quadlet = TRUE] = disk
      BY <1>1, <2>1 DEF InSync, TypeOK, UnitFiles
    <3> QED BY <1>1, <2>3, <3>1 DEF Links, Socket, Timers, InSync
  <2>4. CASE Migrate(p)
    BY <1>1, <2>4 DEF Migrate, InSync
  <2>5. CASE Ensure(p)
    <3>1. c.pc = "ensure"
      BY <2>5 DEF Ensure
    <3>2. c.todo \subseteq Configured
      BY <2>1, <3>1 DEF SyncConf, PastLoad
    <3>3. ASSUME NEW i \in c.todo, dir' = [dir EXCEPT ![i] = TRUE] PROVE UNCHANGED dir
      BY <2>1, <2>2, <3>2, <3>3 DEF Configured, TypeOK
    <3> QED BY <2>5, <3>3 DEF Ensure
  <2>6. CASE Dropin(p)
    <3>1. c.pc = "dropin"
      BY <2>6 DEF Dropin
    <3>2. c.inst \in Configured /\ c.snap[c.inst] = Wanted(c.inst)
      BY <2>1, <3>1 DEF SyncConf, PastLoad
    <3> QED BY <2>1, <2>2, <2>6, <3>2 DEF Dropin, Configured, TypeOK, UnitFiles
  <2>7. CASE Orphans(p)
    <3>1. c.pc = "orphans"
      BY <2>7 DEF Orphans
    <3>2. c.known = Configured
      BY <2>1, <3>1 DEF SyncConf, PastLoad
    <3>3. \A i \in Instances \ Configured : disk.dropin[i] = "plain"
      BY <1>1 DEF InSync, Configured
    <3>4. disk.dropin = [i \in Instances |->
              IF i \notin c.known /\ disk.dropin[i] # "plain" THEN "plain" ELSE disk.dropin[i]]
      BY <2>1, <3>2, <3>3 DEF TypeOK, UnitFiles
    <3>5. disk' = disk
      BY <2>1, <2>7, <3>4 DEF Orphans, TypeOK, UnitFiles
    <3> QED BY <2>7, <3>5 DEF Orphans
  <2>8. CASE SecretStep(p)
    <3>1. CASE Read(p) \/ Inspect(p) \/ CreateRefused(p)
      BY <3>1 DEF Read, Inspect, CreateRefused
    <3>2. CASE Drop(p) \/ Create(p)
      <4>1. c.pc \in {"drop", "create"}
        BY <3>2 DEF Drop, Create
      <4>2. c.inst \in Configured /\ c.val = file[c.inst] /\ store[c.inst] # c.val
            /\ c.val \in Tokens
        BY <1>1, <2>1, <4>1, Carries
           DEF SyncConf, SyncSecrets, Secrets, PastLoad, PastOrphans, Holding
      <4>3. FALSE
        BY <1>1, <4>2 DEF InSync, Configured
      <4> QED BY <4>3
    <3> QED BY <2>8, <3>1, <3>2 DEF SecretStep
  <2>9. CASE PruneSecret(p)
    <3>1. CASE UNCHANGED store
      BY <2>9, <3>1 DEF PruneSecret
    <3>2. c.pc = "prune" /\ c.todo \subseteq Instances
      BY <2>1, <2>9 DEF PruneSecret, CtlStates
    <3>3. ASSUME NEW i \in c.todo, store' = [store EXCEPT ![i] = "absent"]
          PROVE  UNCHANGED store
      <4>1. i \in Instances \ Configured
        BY <2>1, <3>2, <3>3 DEF SyncConf, SyncSecrets, PastLoad, PastOrphans, PastSecrets
      <4>2. store[i] = "absent"
        BY <1>1, <4>1 DEF InSync, Configured
      <4> QED BY <2>1, <3>3, <4>2 DEF TypeOK
    <3> QED BY <2>9, <3>1, <3>3 DEF PruneSecret
  <2>10. CASE Load(p) \/ ListSecrets(p) \/ FinishPrune(p) \/ Reload(p)
    BY <2>10 DEF Load, ListSecrets, FinishPrune, Reload
  <2>11. ~Moved(p)
    BY <1>1 DEF Moved
  <2>12. ~OtherStep(p)
    BY <2>1, StepsOfVerbs
       DEF OtherStep, Truncate, Write, Scaffold, LoadOne, HasCredential, Link, Again,
           Unlink, Unlinked, Forget, Unfile, Unconf, Purge
  <2> QED
    BY <1>1, <2>3, <2>4, <2>5, <2>6, <2>7, <2>8, <2>9, <2>10, <2>11, <2>12
       DEF CtlStep, SyncStep
<1>2. TypeInv /\ DoneInv /\ [Next]_vars
        => [\A p \in Ctls :
              /\ ctl[p].verb = "sync" /\ ctl[p].quiet /\ ctl[p].pc # "moved"
              /\ InSync /\ CtlStep(p)
              => UNCHANGED <<sources, store, dir, services, disk>>]_vars
  BY <1>1, Zenon
<1> QED
  BY <1>2, Invariant, PTL DEF Spec, SyncSettles

\* An `rm` that ran alone leaves nothing of its instance but the state
\* directory, and, where a malformed conf file of another stops it, the drop-in.
THEOREM RmLeavesNothingHolds == Spec => RmLeavesNothing
<1>1. ASSUME TypeInv, DoneInv, NEW p \in Ctls, NEW i \in Instances,
             ctl[p].verb = "rm", ctl[p].inst = i, ctl[p].quiet
      PROVE  (Load(p) => Removed(i)') /\ (Purge(p) => Gone(i)')
  <2>1. RmDone(ctl[p])
    BY <1>1 DEF DoneInv
  <2>2. Load(p) => Removed(i)'
    BY <1>1, <2>1 DEF Load, At, RmDone, Removed, sources, units
  <2>3. Purge(p) => Gone(i)'
    BY <1>1, <2>1 DEF Purge, At, RmDone, Gone, Removed, sources, units
  <2> QED BY <2>2, <2>3
<1>2. TypeInv /\ DoneInv /\ [Next]_vars
        => [\A p \in Ctls, i \in Instances :
              ctl[p].verb = "rm" /\ ctl[p].inst = i /\ ctl[p].quiet =>
                /\ Load(p) => Removed(i)'
                /\ Purge(p) => Gone(i)']_vars
  BY <1>1, Zenon
<1> QED
  BY <1>2, Invariant, PTL DEF Spec, RmLeavesNothing

\* A `set-credential` or `add` that ran alone ends with a credential that can be
\* used and the secret made from it, from whatever state it found; nothing it
\* was told is left in its hands.
THEOREM CredentialLoadsHolds == Spec => CredentialLoads
<1>1. ASSUME TypeInv, DoneInv, NEW p \in Ctls,
             ctl[p].verb \in {"add", "set-credential"}, ctl[p].quiet,
             Read(p), ctl[p].todo = {}
      PROVE  /\ file[ctl[p].inst] \in Tokens
             /\ store[ctl[p].inst] = file[ctl[p].inst]
             /\ ctl[p].val = "none"
  BY <1>1 DEF Read, At, DoneInv, SetDone
<1>2. TypeInv /\ DoneInv /\ [Next]_vars
        => [\A p \in Ctls :
              /\ ctl[p].verb \in {"add", "set-credential"} /\ ctl[p].quiet
              /\ Read(p) /\ ctl[p].todo = {}
              => /\ file[ctl[p].inst] \in Tokens
                 /\ store[ctl[p].inst] = file[ctl[p].inst]
                 /\ ctl[p].val = "none"]_vars
  BY <1>1, Zenon
<1> QED
  BY <1>2, Invariant, PTL DEF Spec, CredentialLoads

-----------------------------------------------------------------------------
(* What systemd has loaded.                                                *)

\* A command that may have changed a unit, and will have systemd load it.
Pending(c) ==
  \/ c.verb = "sync" /\ c.changed
  \/ c.verb = "enable" /\ c.pc \in {"ensure", "dropin", "reload", "again"}
  \/ c.verb = "rm" /\ c.pc \in {"unlinked", "reload"}

AloneInv == \A p \in Ctls : ctl[p].quiet => Alone(p)

\* A directory in the way of podman.socket that can not be removed stops every
\* `sync` and `enable`, those that have changed a unit before among them.
LoadedInv ==
  socket # "stuck" =>
    /\ \A i \in Instances : conf[i] # "malformed"
    /\ UpToDate \/ \E p \in Ctls : Pending(ctl[p])

\* The steps before a command's first change to a unit, or after its reload.
NothingPending ==
  {"links", "conf", "has", "link", "truncate", "write", "scaffold", "unlink",
   "forget", "unfile", "unconf", "purge"}

\* A process that goes on is where its step says; one that ends is idle.
LEMMA GoesOn ==
  ASSUME NEW p \in Ctls, NEW c, Go(p, c)
  PROVE  ctl'[p] = IF c.pc = "idle" THEN IdleCtl ELSE c
BY DEF Go

LEMMA GoesTo ==
  ASSUME TypeInv, NEW p \in Ctls, NEW pc, GoTo(p, pc)
  PROVE  ctl'[p] = IF pc = "idle" THEN IdleCtl ELSE [ctl[p] EXCEPT !.pc = pc]
BY GoesOn, Carries DEF GoTo, CtlStates

\* The step of another is no more than a disturbance.
LEMMA OthersStay ==
  ASSUME TypeInv, NEW p \in Ctls, IssueAny(p) \/ CtlStep(p) \/ CtlFail(p)
  PROVE  \A q \in Ctls \ {p} : ctl'[q] = [ctl[q] EXCEPT !.quiet = FALSE]
<1>1. \E c : Go(p, c)
  BY SomeStep
<1> QED BY <1>1 DEF Go

LEMMA SyncLoadStep ==
  ASSUME TypeInv, \A i \in Instances : conf[i] # "malformed", socket # "stuck",
         NEW p \in Ctls, ctl[p].verb = "sync", CtlStep(p)
  PROVE  \/ Pending(ctl[p])'
         \/ UNCHANGED units /\ ~Pending(ctl[p])
         \/ loaded' = disk'
<1> DEFINE c == ctl[p]
           d == ctl'[p]
<1> USE DEF At, units
<1>0. /\ TypeOK /\ c \in CtlStates /\ c.verb = "sync" /\ c.pc \in StepsOf("sync")
      /\ c.pc = "links" => ~c.changed
      /\ c.pc = "moved" => c.changed
      /\ c.pc \in OnInstance => c.inst \in Instances
      /\ Pending(c) <=> c.changed
  BY Carries DEF TypeInv, Pending
<1>1. ASSUME UNCHANGED units, d.verb = "sync", c.changed => d.changed
      PROVE  Pending(c)' \/ (UNCHANGED units /\ ~Pending(c))
  BY <1>0, <1>1 DEF Pending
<1>2. ASSUME NEW pc \in Steps \ {"idle"}, GoTo(p, pc)
      PROVE  d.verb = "sync" /\ d.changed = c.changed
  BY <1>0, <1>2, GoesTo DEF CtlStates
<1>3. CASE Links(p)
  <2> DEFINE x == [c EXCEPT !.pc = "migrate", !.changed = ~disk.quadlet]
  <2>0. Go(p, x) /\ x.verb = "sync" /\ x.changed = ~disk.quadlet /\ x.pc = "migrate"
    BY <1>0, <1>3, AfterSync DEF Links, CtlStates
  <2> HIDE DEF x
  <2>1. d.verb = "sync" /\ d.changed = ~disk.quadlet
    BY <2>0, GoesOn
  <2>2. disk.quadlet => disk' = disk
    BY <1>0, <1>3 DEF Links, TypeOK, UnitFiles
  <2>3. ~c.changed /\ loaded' = loaded /\ disk.quadlet \in BOOLEAN
    BY <1>0, <1>3 DEF Links, TypeOK, UnitFiles
  <2> QED BY <1>0, <2>1, <2>2, <2>3 DEF Pending
<1>4. CASE Migrate(p)
  <2>1. CASE GoTo(p, After(c.verb, "migrate")) /\ UNCHANGED disk
    BY <1>0, <1>1, <1>2, <1>4, <2>1, AfterSync DEF Migrate, Steps
  <2>2. ASSUME NEW i, Go(p, [c EXCEPT !.pc = "moved", !.inst = i, !.changed = TRUE])
        PROVE  Pending(c)'
    <3> DEFINE x == [c EXCEPT !.pc = "moved", !.inst = i, !.changed = TRUE]
    <3>1. x.verb = "sync" /\ x.changed /\ x.pc = "moved"
      BY <1>0 DEF CtlStates
    <3> HIDE DEF x
    <3> QED BY <2>2, <3>1, GoesOn DEF Pending, x
  <2> QED BY <1>4, <2>1, <2>2 DEF Migrate
<1>5. CASE Moved(p)
  BY <1>0, <1>2, <1>5 DEF Moved, Pending, Steps
<1>6. CASE Socket(p) \/ Timers(p)
  <2>1. After(c.verb, "socket") = "timers" /\ After(c.verb, "timers") = "load"
    BY <1>0, AfterSync
  <2>2. ASSUME Socket(p) PROVE d.verb = "sync" /\ (c.changed => d.changed)
    <3> DEFINE more == c.changed \/ socket # "on"
               x == [c EXCEPT !.pc = "timers", !.changed = more, !.todo = c.known]
    <3>1. Go(p, x)
      BY <2>1, <2>2 DEF Socket
    <3>2. c.changed => more
      OBVIOUS
    <3> HIDE DEF more
    <3>3. x.verb = "sync" /\ (c.changed => x.changed) /\ x.pc = "timers"
      BY <1>0, <3>2 DEF CtlStates
    <3> HIDE DEF x
    <3> QED BY <3>1, <3>3, GoesOn
  <2>3. ASSUME Timers(p) PROVE d.verb = "sync" /\ (c.changed => d.changed)
    <3> DEFINE more == c.changed \/ ~timers
               x == [c EXCEPT !.pc = "load", !.changed = more]
    <3>1. Go(p, x)
      BY <2>1, <2>3 DEF Timers
    <3>2. c.changed => more
      OBVIOUS
    <3> HIDE DEF more
    <3>3. x.verb = "sync" /\ (c.changed => x.changed) /\ x.pc = "load"
      BY <1>0, <3>2 DEF CtlStates
    <3> HIDE DEF x
    <3> QED BY <3>1, <3>3, GoesOn
  <2>4. d.verb = "sync" /\ (c.changed => d.changed)
    BY <1>6, <2>2, <2>3
  <2> QED BY <1>1, <1>6, <2>4 DEF Socket, Timers
<1>7. CASE Load(p)
  <2>1. After(c.verb, "load") = "ensure"
    BY <1>0, AfterSync
  <2>2. PICK known, todo, snap :
          Go(p, [c EXCEPT !.pc = "ensure", !.known = known, !.todo = todo, !.snap = snap])
    BY <1>7, <2>1 DEF Load
  <2> DEFINE x == [c EXCEPT !.pc = "ensure", !.known = known, !.todo = todo, !.snap = snap]
  <2>3. d.verb = "sync" /\ d.changed = c.changed
    <3>1. x.verb = "sync" /\ x.changed = c.changed /\ x.pc = "ensure"
      BY <1>0 DEF CtlStates
    <3> HIDE DEF x
    <3> QED BY <2>2, <3>1, GoesOn DEF x
  <2> QED BY <1>1, <1>7, <2>3 DEF Load
<1>8. CASE Ensure(p)
  <2>1. CASE GoTo(p, After(c.verb, "ensure"))
    BY <1>0, <1>1, <1>2, <1>8, <2>1, AfterSync DEF Ensure, Steps
  <2>2. CASE \E i, more : /\ c.changed => more
                         /\ Go(p, [c EXCEPT !.pc = "dropin", !.inst = i, !.todo = @ \ {i},
                                            !.changed = more])
    <3>1. PICK i, more :
            /\ c.changed => more
            /\ Go(p, [c EXCEPT !.pc = "dropin", !.inst = i, !.todo = @ \ {i}, !.changed = more])
      BY <2>2
    <3> DEFINE x == [c EXCEPT !.pc = "dropin", !.inst = i, !.todo = @ \ {i}, !.changed = more]
    <3>2. d.verb = "sync" /\ d.changed = more
      <4>1. x.verb = "sync" /\ x.changed = more /\ x.pc = "dropin"
        BY <1>0 DEF CtlStates
      <4> HIDE DEF x
      <4> QED BY <3>1, <4>1, GoesOn DEF x
    <3> QED BY <1>1, <1>8, <3>1, <3>2 DEF Ensure
  <2> QED BY <1>8, <2>1, <2>2 DEF Ensure
<1>9. CASE Dropin(p)
  <2> DEFINE more == c.changed \/ disk.dropin[c.inst] # c.snap[c.inst]
  <2>1. Go(p, [c EXCEPT !.pc = "ensure", !.changed = more])
    BY <1>9 DEF Dropin
  <2>2. ~more => ~c.changed /\ disk' = disk /\ loaded' = loaded
    BY <1>0, <1>9 DEF Dropin, TypeOK, UnitFiles
  <2>3. more \in BOOLEAN
    OBVIOUS
  <2> HIDE DEF more
  <2>4. d.verb = "sync" /\ d.changed = more
    <3> DEFINE x == [c EXCEPT !.pc = "ensure", !.changed = more]
    <3>1. x.verb = "sync" /\ x.changed = more /\ x.pc = "ensure"
      BY <1>0 DEF CtlStates
    <3> HIDE DEF x
    <3> QED BY <2>1, <3>1, GoesOn DEF x
  <2> QED BY <1>0, <2>2, <2>3, <2>4 DEF Pending
<1>10. CASE Orphans(p)
  <2> DEFINE orphan(i) == i \notin c.known /\ disk.dropin[i] # "plain"
             more == c.changed \/ \E i \in Instances : orphan(i)
  <2>1. After(c.verb, "orphans") = "read"
    BY <1>0, AfterSync
  <2>2. Go(p, [c EXCEPT !.pc = "read", !.todo = c.known, !.changed = more])
    BY <1>10, <2>1 DEF Orphans
  <2>3. ~more => ~c.changed /\ disk' = disk /\ loaded' = loaded
    <3>1. SUFFICES ASSUME ~more PROVE disk' = disk /\ loaded' = loaded
      OBVIOUS
    <3>2. disk.dropin = [i \in Instances |-> IF orphan(i) THEN "plain" ELSE disk.dropin[i]]
      BY <1>0, <3>1 DEF TypeOK, UnitFiles
    <3> HIDE DEF orphan
    <3> QED BY <1>0, <1>10, <3>2 DEF Orphans, orphan, TypeOK, UnitFiles
  <2>4. more \in BOOLEAN
    OBVIOUS
  <2> HIDE DEF more
  <2>5. d.verb = "sync" /\ d.changed = more
    <3> DEFINE x == [c EXCEPT !.pc = "read", !.todo = c.known, !.changed = more]
    <3>1. x.verb = "sync" /\ x.changed = more /\ x.pc = "read"
      BY <1>0 DEF CtlStates
    <3> HIDE DEF x
    <3> QED BY <2>2, <3>1, GoesOn DEF x
  <2> QED BY <1>0, <2>3, <2>4, <2>5 DEF Pending
<1>11. CASE Read(p)
  <2>1. PICK x : /\ Go(p, x)
                 /\ \/ x = [c EXCEPT !.pc = "list"]
                    \/ \E i : \/ x = [c EXCEPT !.pc = "inspect", !.inst = i,
                                              !.todo = @ \ {i}, !.val = file[i]]
                             \/ x = [c EXCEPT !.todo = @ \ {i}]
    <3>1. After(c.verb, "read") = "list"
      BY <1>0, AfterSync
    <3> QED BY <1>0, <1>11, <3>1 DEF Read, GoTo
  <2>2. c.pc = "read" /\ x.verb = "sync" /\ x.changed = c.changed /\ x.pc # "idle"
    BY <1>0, <1>11, <2>1 DEF Read, CtlStates
  <2> QED BY <1>1, <1>11, <2>1, <2>2, GoesOn DEF Read
<1>12. CASE Inspect(p) \/ Drop(p) \/ Create(p) \/ CreateRefused(p)
  <2>1. PICK x : /\ Go(p, x)
                 /\ \/ x = [c EXCEPT !.pc = "drop"] \/ x = [c EXCEPT !.pc = "create"]
                    \/ x = [c EXCEPT !.pc = "read", !.val = "none"]
                    \/ x = [c EXCEPT !.pc = "read", !.val = "none", !.changed = TRUE]
                    \/ x = [c EXCEPT !.pc = "read", !.val = "none", !.quiet = FALSE]
    BY <1>0, <1>12 DEF Inspect, Drop, Create, CreateRefused, GoTo
  <2>2. x.verb = "sync" /\ (c.changed => x.changed) /\ x.pc # "idle"
    BY <1>0, <2>1 DEF CtlStates
  <2> QED BY <1>1, <1>12, <2>1, <2>2, GoesOn DEF Inspect, Drop, Create, CreateRefused
<1>13. CASE ListSecrets(p) \/ PruneSecret(p)
  <2>1. PICK x : /\ Go(p, x)
                 /\ \E s, i : \/ x = [c EXCEPT !.pc = "prune", !.todo = s]
                             \/ x = [c EXCEPT !.pc = "prune", !.todo = s, !.quiet = FALSE]
                             \/ x = [c EXCEPT !.todo = @ \ {i}, !.changed = TRUE]
                             \/ x = [c EXCEPT !.todo = @ \ {i}, !.changed = TRUE,
                                              !.quiet = FALSE]
    BY <1>13 DEF ListSecrets, PruneSecret
  <2>2. x.verb = "sync" /\ (c.changed => x.changed) /\ x.pc # "idle"
    BY <1>0, <1>13, <2>1 DEF CtlStates, ListSecrets, PruneSecret
  <2> QED BY <1>1, <1>13, <2>1, <2>2, GoesOn DEF ListSecrets, PruneSecret
<1>14. CASE FinishPrune(p)
  <2>1. CASE c.changed
    BY <1>0, <1>1, <1>2, <1>14, <2>1 DEF FinishPrune, Steps
  <2>2. CASE ~c.changed
    BY <1>0, <1>14, <2>2 DEF FinishPrune
  <2> QED BY <2>1, <2>2
<1>15. CASE Reload(p)
  BY <1>15 DEF Reload
<1>16. ~OtherStep(p)
  BY <1>0, StepsOfVerbs
     DEF OtherStep, Truncate, Write, Scaffold, LoadOne, HasCredential, Link, Again,
         Unlink, Unlinked, Forget, Unfile, Unconf, Purge
<1> QED
  BY <1>3, <1>4, <1>5, <1>6, <1>7, <1>8, <1>9, <1>10, <1>11, <1>12, <1>13, <1>14, <1>15,
     <1>16
     DEF CtlStep, SecretStep, SyncStep

LEMMA OtherLoadStep ==
  ASSUME TypeInv, socket # "stuck", NEW p \in Ctls, ctl[p].verb # "sync", CtlStep(p)
  PROVE  \/ Pending(ctl[p])'
         \/ UNCHANGED units /\ ~Pending(ctl[p])
         \/ loaded' = disk'
<1> DEFINE c == ctl[p]
           d == ctl'[p]
<1> USE DEF At, units
<1>0. TypeOK /\ c \in CtlStates /\ c.verb # "sync" /\ c.pc \in StepsOf(c.verb)
  BY Carries DEF TypeInv
<1>1. ASSUME c.pc \notin {"ensure", "dropin", "reload", "again", "unlinked"}
      PROVE  ~Pending(c)
  BY <1>0, <1>1 DEF Pending
<1>2. ASSUME NEW pc \in Steps \ {"idle"}, GoTo(p, pc)
      PROVE  d.verb = c.verb /\ d.pc = pc
  <2>1. d = [c EXCEPT !.pc = pc]
    BY <1>2, GoesTo
  <2> QED BY <1>0, <2>1 DEF CtlStates
<1>3. CASE SecretStep(p)
  BY <1>1, <1>3 DEF SecretStep, Read, Inspect, Drop, Create, CreateRefused
<1>4. CASE Load(p)
  BY <1>1, <1>4 DEF Load
<1>5. CASE Truncate(p) \/ Write(p) \/ Scaffold(p) \/ LoadOne(p) \/ HasCredential(p)
           \/ Forget(p) \/ Unfile(p) \/ Unconf(p) \/ Purge(p)
  BY <1>1, <1>5
     DEF Truncate, Write, Scaffold, LoadOne, HasCredential, Forget, Unfile, Unconf, Purge
<1>6. CASE Again(p) \/ Unlinked(p) \/ Reload(p)
  BY <1>6 DEF Again, Unlinked, Reload
<1>7. CASE Link(p)
  <2>1. c.pc = "link" /\ c.verb = "enable"
    BY <1>0, <1>7, Carries, StepsOfVerbs DEF Link, AllVerbs
  <2> QED BY <1>1, <1>2, <1>7, <2>1 DEF Link, Pending, Steps
<1>8. CASE Unlink(p)
  <2>1. c.pc = "unlink" /\ c.verb = "rm"
    BY <1>0, <1>8, Carries, StepsOfVerbs DEF Unlink, AllVerbs
  <2>2. CASE c.inst \in disk.on
    BY <1>2, <1>8, <2>1, <2>2 DEF Unlink, Pending, Steps
  <2>3. CASE c.inst \notin disk.on
    <3>1. disk' = disk
      BY <1>0, <1>8, <2>3 DEF Unlink, TypeOK, UnitFiles
    <3> QED BY <1>1, <1>8, <2>1, <3>1 DEF Unlink
  <2> QED BY <2>2, <2>3
<1>9. CASE Socket(p)
  <2> DEFINE more == c.changed \/ socket # "on"
             x == [c EXCEPT !.pc = "ensure", !.changed = more, !.todo = c.known]
  <2>1. c.verb = "enable"
    BY <1>0, <1>9, Carries, StepsOfVerbs DEF Socket, AllVerbs
  <2>2. Go(p, x)
    BY <1>9, <2>1, AfterEnable DEF Socket
  <2> HIDE DEF more
  <2>3. x.verb = "enable" /\ x.pc = "ensure"
    BY <1>0, <2>1 DEF CtlStates
  <2> HIDE DEF x
  <2> QED BY <2>2, <2>3, GoesOn DEF Pending
<1>10. CASE Ensure(p)
  <2>1. c.verb = "enable"
    BY <1>0, <1>10, Carries, StepsOfVerbs DEF Ensure, AllVerbs
  <2>2. CASE GoTo(p, After(c.verb, "ensure"))
    BY <1>2, <2>1, <2>2, AfterEnable DEF Pending, Steps
  <2>3. ASSUME NEW i, NEW more,
               Go(p, [c EXCEPT !.pc = "dropin", !.inst = i, !.todo = @ \ {i}, !.changed = more])
        PROVE  Pending(c)'
    <3> DEFINE x == [c EXCEPT !.pc = "dropin", !.inst = i, !.todo = @ \ {i}, !.changed = more]
    <3>1. x.verb = "enable" /\ x.pc = "dropin"
      BY <1>0, <2>1 DEF CtlStates
    <3> HIDE DEF x
    <3> QED BY <2>3, <3>1, GoesOn DEF Pending, x
  <2> QED BY <1>10, <2>2, <2>3 DEF Ensure
<1>11. CASE Dropin(p)
  <2> DEFINE more == c.changed \/ disk.dropin[c.inst] # c.snap[c.inst]
             x == [c EXCEPT !.pc = "ensure", !.changed = more]
  <2>1. c.verb = "enable"
    BY <1>0, <1>11, Carries, StepsOfVerbs DEF Dropin, AllVerbs
  <2>2. Go(p, x)
    BY <1>11 DEF Dropin
  <2> HIDE DEF more
  <2>3. x.verb = "enable" /\ x.pc = "ensure"
    BY <1>0, <2>1 DEF CtlStates
  <2> HIDE DEF x
  <2> QED BY <2>2, <2>3, GoesOn DEF Pending
<1>12. CASE Orphans(p)
  <2> DEFINE more == c.changed \/ \E i \in Instances :
                                    i \notin c.known /\ disk.dropin[i] # "plain"
             x == [c EXCEPT !.pc = "reload", !.todo = c.known, !.changed = more]
  <2>1. c.verb = "rm"
    BY <1>0, <1>12, Carries, StepsOfVerbs DEF Orphans, AllVerbs
  <2>2. Go(p, x)
    BY <1>12, <2>1, AfterRm DEF Orphans
  <2> HIDE DEF more
  <2>3. x.verb = "rm" /\ x.pc = "reload"
    BY <1>0, <2>1 DEF CtlStates
  <2> HIDE DEF x
  <2> QED BY <2>2, <2>3, GoesOn DEF Pending
<1>13. ~Links(p) /\ ~Migrate(p) /\ ~Moved(p) /\ ~Timers(p) /\ ~ListSecrets(p)
       /\ ~PruneSecret(p) /\ ~FinishPrune(p)
  <2>1. c.pc \notin {"links", "migrate", "moved", "timers", "list", "prune"}
    <3>1. c.verb \in {"none", "enable", "add", "add-no-token", "set-credential", "rm"}
      BY <1>0, Carries DEF AllVerbs
    <3> QED BY <1>0, <3>1, StepsOfVerbs
  <2> QED
    BY <2>1 DEF Links, Migrate, Moved, Timers, ListSecrets, PruneSecret, FinishPrune
<1> QED
  BY <1>3, <1>4, <1>5, <1>6, <1>7, <1>8, <1>9, <1>10, <1>11, <1>12, <1>13
     DEF CtlStep, SyncStep, OtherStep

LEMMA AloneNext == TypeInv /\ AloneInv /\ [Next]_vars => AloneInv'
<1> SUFFICES ASSUME TypeInv, AloneInv, [Next]_vars, NEW p \in Ctls, ctl'[p].quiet,
                    NEW q \in Ctls \ {p}
             PROVE  ctl'[q].pc = "idle"
  BY DEF AloneInv, Alone
<1>1. CASE UNCHANGED vars
  BY <1>1 DEF vars, AloneInv, Alone
<1>2. ASSUME NEW r \in Ctls, IssueAny(r) \/ CtlStep(r) \/ CtlFail(r)
      PROVE  ctl'[q].pc = "idle"
  <2>1. r = p
    BY <1>2, Disturbed
  <2>2. ctl'[q] = [ctl[q] EXCEPT !.quiet = FALSE] /\ ctl[q] \in CtlStates
    BY <1>2, <2>1, OthersStay, Carries
  <2>3. ctl'[q].pc = ctl[q].pc
    BY <2>2 DEF CtlStates
  <2>4. Alone(p)
    <3>1. CASE IssueAny(p)
      <4>1. PICK c \in Carried : Go(p, c) /\ c.quiet = Alone(p)
        BY <3>1, Begins
      <4> QED BY <4>1, GoOn
    <3>2. CASE CtlStep(p)
      BY <3>2, SameCommand DEF AloneInv
    <3>3. ~CtlFail(p)
      BY GoToOn DEF CtlFail
    <3> QED BY <1>2, <2>1, <3>1, <3>2, <3>3
  <2> QED BY <2>3, <2>4 DEF Alone
<1>3. ~EditAny
  <2>1. ASSUME NEW kind, Edit(kind) PROVE FALSE
    BY <2>1, Carries DEF Edit, CtlStates
  <2> QED BY <2>1, Zenon DEF EditAny, EditConf, EditFile, EditStore, UpgradePackage
<1> QED
  BY <1>1, <1>2, <1>3, Zenon DEF Next

\* No step puts a directory that can not be removed in the place of
\* podman.socket, or removes it.
LEMMA SocketStays ==
  ASSUME [Next]_vars
  PROVE  socket' = "stuck" <=> socket = "stuck"
<1>1. CASE UNCHANGED vars
  BY <1>1 DEF vars, services
<1>2. CASE EditAny
  BY <1>2, Zenon DEF EditAny, EditConf, EditFile, EditStore, UpgradePackage, services
<1>3. ASSUME NEW p \in Ctls, IssueAny(p) \/ CtlFail(p) PROVE UNCHANGED socket
  BY <1>3, Begins DEF CtlFail, others, services
<1>4. ASSUME NEW p \in Ctls, CtlStep(p) PROVE socket' = "stuck" <=> socket = "stuck"
  <2>1. CASE Socket(p)
    BY <2>1 DEF Socket
  <2>2. CASE ~Socket(p)
    BY <1>4, <2>2
       DEF CtlStep, SecretStep, SyncStep, OtherStep, services, Read, Inspect, Drop, Create,
           CreateRefused, Links, Migrate, Moved, Timers, Load, Ensure, Dropin, Orphans,
           ListSecrets, PruneSecret, FinishPrune, Reload, Truncate, Write, Scaffold, LoadOne,
           HasCredential, Link, Again, Unlink, Unlinked, Forget, Unfile, Unconf, Purge
  <2> QED BY <2>1, <2>2
<1> QED
  BY <1>1, <1>2, <1>3, <1>4, Zenon DEF Next

LEMMA LoadedNext ==
  ASSUME TypeInv, LoadedInv, [Next]_vars,
         MayFail \subseteq NothingPending, "malformed" \notin Edits
  PROVE  LoadedInv'
<1> SUFFICES ASSUME socket # "stuck" PROVE LoadedInv'
  BY SocketStays DEF LoadedInv
<1>0. /\ conf \in [Instances -> Confs] /\ disk \in UnitFiles
      /\ \A i \in Instances : conf[i] # "malformed"
      /\ UpToDate \/ \E p \in Ctls : Pending(ctl[p])
  BY DEF TypeInv, TypeOK, LoadedInv
<1>1. CASE UNCHANGED vars
  BY <1>1 DEF vars, sources, units, LoadedInv, UpToDate, Pending
<1>2. ASSUME UNCHANGED ctl \/ (\E kind : Edit(kind))
      PROVE  \A p \in Ctls : Pending(ctl[p])' <=> Pending(ctl[p])
  <2>1. \A p \in Ctls : ctl'[p] = ctl[p] \/ ctl'[p] = [ctl[p] EXCEPT !.quiet = FALSE]
    BY <1>2 DEF Edit
  <2>2. \A p \in Ctls : ctl'[p].verb = ctl[p].verb /\ ctl'[p].pc = ctl[p].pc
                        /\ ctl'[p].changed = ctl[p].changed
    BY <2>1, Carries DEF CtlStates
  <2> QED BY <2>2 DEF Pending
<1>3. CASE EditAny
  <2>1. \E kind : Edit(kind)
    BY <1>3, Zenon DEF EditAny, EditConf, EditFile, EditStore, UpgradePackage
  <2>2. \A i \in Instances : conf'[i] # "malformed"
    BY <1>0, <1>3, ShapesAssumption
       DEF EditAny, EditConf, EditFile, EditStore, UpgradePackage, Edit, sources
  <2>3. UpToDate => UpToDate'
    <3>1. CASE UNCHANGED units
      BY <3>1 DEF units, UpToDate
    <3>2. CASE UpgradePackage
      BY <1>0, <3>2 DEF UpgradePackage, UpToDate, UnitFiles
    <3> QED
      BY <1>3, <3>1, <3>2 DEF EditAny, EditConf, EditFile, EditStore
  <2> QED BY <1>0, <1>2, <2>1, <2>2, <2>3 DEF LoadedInv
<1>4. ASSUME NEW p \in Ctls, IssueAny(p) \/ CtlStep(p) \/ CtlFail(p),
             \A i \in Instances : conf'[i] # "malformed",
             \/ Pending(ctl[p])'
             \/ UNCHANGED units /\ ~Pending(ctl[p])
             \/ loaded' = disk'
      PROVE  LoadedInv'
  <2>1. \A q \in Ctls \ {p} : ctl'[q] = [ctl[q] EXCEPT !.quiet = FALSE]
    BY <1>4, OthersStay
  <2>2. \A q \in Ctls \ {p} : ctl'[q].verb = ctl[q].verb /\ ctl'[q].pc = ctl[q].pc
                              /\ ctl'[q].changed = ctl[q].changed
    BY <2>1, Carries DEF CtlStates
  <2>3. \A q \in Ctls \ {p} : Pending(ctl[q]) => Pending(ctl[q])'
    BY <2>2 DEF Pending
  <2>4. CASE UNCHANGED units /\ ~Pending(ctl[p])
    BY <1>0, <1>4, <2>3, <2>4 DEF LoadedInv, UpToDate, units
  <2> QED BY <1>4, <2>4 DEF LoadedInv, UpToDate
<1>5. ASSUME NEW p \in Ctls, IssueAny(p) PROVE LoadedInv'
  <2>1. ctl[p].pc = "idle" /\ UNCHANGED others
    BY <1>5, Begins
  <2>2. ~Pending(ctl[p])
    BY <2>1, Carries, StepsOfVerbs DEF Pending, AllVerbs
  <2> QED BY <1>0, <1>4, <1>5, <2>1, <2>2 DEF others, sources, units
<1>6. ASSUME NEW p \in Ctls, CtlStep(p) PROVE LoadedInv'
  <2>1. \A i \in Instances : conf'[i] # "malformed"
    <3>1. CASE Scaffold(p) \/ Unconf(p)
      BY <1>0, <3>1, ShapesAssumption DEF Scaffold, Unconf
    <3>2. CASE ~Scaffold(p) /\ ~Unconf(p)
      <4>1. UNCHANGED conf
        BY <1>6, <3>2
           DEF CtlStep, SecretStep, SyncStep, OtherStep, sources, Read, Inspect, Drop,
               Create, CreateRefused, Links, Migrate, Moved, Socket, Timers, Load, Ensure,
               Dropin, Orphans, ListSecrets, PruneSecret, FinishPrune, Reload, Truncate,
               Write, LoadOne, HasCredential, Link, Again, Unlink, Unlinked, Forget,
               Unfile, Purge
      <4> QED BY <1>0, <4>1
    <3> QED BY <3>1, <3>2
  <2> QED BY <1>0, <1>4, <1>6, <2>1, SyncLoadStep, OtherLoadStep
<1>7. ASSUME NEW p \in Ctls, CtlFail(p) PROVE LoadedInv'
  <2>1. ctl[p].pc \in NothingPending /\ UNCHANGED <<sources, units>>
    BY <1>7 DEF CtlFail
  <2>2. ~Pending(ctl[p])
    BY <2>1, Carries, StepsOfVerbs DEF NothingPending, Pending
  <2> QED BY <1>0, <1>4, <1>7, <2>1, <2>2 DEF sources, units
<1> QED
  BY <1>1, <1>3, <1>5, <1>6, <1>7, Zenon DEF Next

\* When a `sync` that ran alone ends, systemd has loaded what is on disk, as
\* long as no command has been cut short between a change and its reload.
THEOREM SyncLoadsHolds ==
  ASSUME MayFail \subseteq NothingPending, "malformed" \notin Edits
  PROVE  Spec => SyncLoads
<1>1. Init => AloneInv /\ LoadedInv
  BY ShapesAssumption DEF Init, AloneInv, LoadedInv, UpToDate, IdleCtl, Confs, Left
<1>2. ASSUME TypeInv, DoneInv, AloneInv, LoadedInv, NEW p \in Ctls,
             ctl[p].verb = "sync", ctl[p].quiet,
             Reload(p) \/ (FinishPrune(p) /\ ~ctl[p].changed)
      PROVE  loaded' = disk'
  <2>1. CASE Reload(p)
    BY <2>1 DEF Reload
  <2>2. CASE FinishPrune(p) /\ ~ctl[p].changed
    <3>1. \A q \in Ctls : ~Pending(ctl[q])
      <4>1. \A q \in Ctls \ {p} : ctl[q].pc = "idle"
        BY <1>2 DEF AloneInv, Alone
      <4>2. \A q \in Ctls \ {p} : ctl[q].verb = "none"
        BY <1>2, <4>1, Carries, StepsOfVerbs DEF AllVerbs
      <4> QED BY <1>2, <2>2, <4>2 DEF Pending
    <3>2. ctl[p].pc = "prune" /\ UNCHANGED units
      BY <2>2 DEF FinishPrune, At
    <3>3. disk.quadlet /\ socket = "on"
      BY <1>2, <3>2
         DEF DoneInv, SyncDone, SyncHost, PastSocket, PastTimers, PastLoad, PastOrphans,
             PastSecrets
    <3>4. UpToDate /\ disk \in UnitFiles
      BY <1>2, <3>1, <3>3 DEF LoadedInv, TypeInv, TypeOK
    <3> QED BY <3>2, <3>3, <3>4 DEF UpToDate, UnitFiles, units
  <2> QED BY <1>2, <2>1, <2>2
<1>3. TypeInv /\ DoneInv /\ AloneInv /\ LoadedInv /\ [Next]_vars
        => [\A p \in Ctls :
              /\ ctl[p].verb = "sync" /\ ctl[p].quiet
              /\ Reload(p) \/ (FinishPrune(p) /\ ~ctl[p].changed)
              => loaded' = disk']_vars
  BY <1>2, Zenon
<1>4. TypeInv /\ AloneInv /\ LoadedInv /\ [Next]_vars => AloneInv' /\ LoadedInv'
  BY AloneNext, LoadedNext
<1> QED
  BY <1>1, <1>3, <1>4, Invariant, PTL DEF Spec, SyncLoads

\* When no command is under way systemd has loaded what is on disk, whatever
\* commands have overlapped, if none was cut short between a change and its
\* reload, be it by a directory in the place of podman.socket: a command that
\* reloads early leaves nothing of another's unloaded.
THEOREM LoadedBetweenHolds ==
  ASSUME MayFail \subseteq NothingPending, "malformed" \notin Edits
  PROVE  Spec /\ socket # "stuck" => []LoadedBetween
<1>1. Init => LoadedInv
  BY ShapesAssumption DEF Init, LoadedInv, UpToDate, Confs, Left
<1>2. TypeInv /\ LoadedInv /\ [Next]_vars => LoadedInv'
  BY LoadedNext
<1>3. TypeInv /\ LoadedInv /\ socket # "stuck" => LoadedBetween
  <2> SUFFICES ASSUME TypeInv, LoadedInv, socket # "stuck", \A p \in Ctls : At(p, "idle")
               PROVE  UpToDate
    BY DEF LoadedBetween
  <2>1. \A p \in Ctls : ctl[p].verb = "none"
    BY Carries, StepsOfVerbs DEF AllVerbs, At
  <2> QED BY <2>1 DEF LoadedInv, Pending
<1>4. socket # "stuck" /\ [Next]_vars => (socket # "stuck")'
  BY SocketStays
<1> QED
  BY <1>1, <1>2, <1>3, <1>4, Invariant, PTL DEF Spec

-----------------------------------------------------------------------------
(* Commands that overlap.                                                  *)
(*                                                                         *)
(* While the conf and credential files stay as they are, every `sync` and  *)
(* `enable` works from the same ones, so a step of one never undoes what   *)
(* another has reached.  Informed says that a command works from the files *)
(* as they are, Reached what a `sync` relies on being in place although    *)
(* others act beside it, and Helps and Spares what every step of each of   *)
(* them leaves to the others: the first two are inductive because of the   *)
(* last two.                                                               *)

\* A secret that some command is about to create.
Coming(i) == \E q \in Ctls : At(q, "create") /\ ctl[q].inst = i

\* Replacing a secret takes two calls, and between them there is none.
Fine(i) == Right(i) \/ (store[i] = "absent" /\ Coming(i))

\* In sync, but for a secret that a command under way has yet to put back.
Settled ==
  /\ disk.quadlet /\ disk.old = {} /\ socket = "on" /\ timers
  /\ \A i \in Instances :
       IF conf[i] = "absent"
       THEN disk.dropin[i] = "plain" /\ store[i] = "absent"
       ELSE disk.dropin[i] = Wanted(i) /\ dir[i] /\ Fine(i)

AllIdle == \A p \in Ctls : At(p, "idle")

\* The commands that derive and change no source.  Podman refuses them nothing,
\* and none is killed between the two calls that replace a secret.
Deriving ==
  /\ Verbs \subseteq {"sync", "enable"} /\ Edits = {}
  /\ MayFail \cap {"drop", "create", "list", "prune"} = {}

\* What a command has read is what the files say.
Informed(c) ==
  /\ c.verb \in {"none", "sync", "enable"}
  /\ c.verb = "sync" /\ c.pc \in PastLoad =>
       c.known = Configured /\ \A i \in c.known : c.snap[i] = Wanted(i)
  /\ c.verb = "enable" /\ c.pc # "conf" =>
       c.known = {c.inst} /\ c.known \subseteq Configured /\ c.snap[c.inst] = Wanted(c.inst)
  /\ c.pc \in {"ensure", "dropin", "read"} \cup Secrets => c.todo \subseteq c.known
  /\ c.pc \in {"dropin"} \cup Secrets => c.inst \in c.known
  /\ c.pc \in Secrets => c.val = file[c.inst]
  /\ c.pc = "create" => store[c.inst] \in {"absent", c.val}
  /\ c.pc = "prune" => c.todo \cap c.known = {}

\* What a `sync` has reached, by its own calls or others'.
Reached(c) ==
  /\ SyncHost(c)
  /\ c.pc = "dropin" => dir[c.inst]
  /\ c.pc \in {"ensure", "dropin"} => \A i \in c.known : Made(c, i) \/ Undone(c, i)
  /\ c.pc \in {"orphans"} \cup PastOrphans => \A i \in c.known : Made(c, i)
  /\ c.pc \in PastOrphans => \A i \in Instances \ c.known : disk.dropin[i] = "plain"
  /\ c.pc \in {"read"} \cup Secrets => \A i \in c.known : Fine(i) \/ Undone(c, i)
  /\ c.pc \in PastSecrets => \A i \in c.known : Fine(i)
  /\ c.pc = "prune" => \A i \in Instances \ c.known : store[i] = "absent" \/ i \in c.todo

OverlapInv ==
  \A p \in Ctls : Informed(ctl[p]) /\ (ctl[p].verb = "sync" => Reached(ctl[p]))

\* No step takes a unit, a directory or a service back.
Helps ==
  /\ UNCHANGED sources
  /\ disk.quadlet => disk'.quadlet
  /\ disk'.old \subseteq disk.old
  /\ socket = "on" => socket' = "on"
  /\ timers => timers'
  /\ \A i \in Instances :
       /\ dir[i] => dir'[i]
       /\ disk'.dropin[i] \in {disk.dropin[i], Wanted(i)}

\* Nor a secret, but to replace it.
Spares ==
  \A i \in Instances :
    /\ conf[i] = "absent" => store'[i] \in {store[i], "absent"}
    /\ conf[i] # "absent" =>
         /\ \/ store'[i] = store[i]
            \/ file[i] \in Tokens /\ store'[i] \in {"absent", file[i]}
         /\ Fine(i) => Fine(i)'

\* A step of p as the others, and its own next step, rely on it.
Onward(p) ==
  /\ Helps /\ Spares
  /\ Informed(ctl[p])'
  /\ ctl'[p].verb = "sync" => Reached(ctl[p])'

LEMMA FineStays ==
  ASSUME TypeInv, NEW p \in Ctls, IssueAny(p) \/ CtlStep(p) \/ CtlFail(p),
         NEW i \in Instances, Fine(i), UNCHANGED sources, store'[i] = store[i],
         At(p, "create") /\ ctl[p].inst = i => Right(i)
  PROVE  Fine(i)'
<1>1. CASE Right(i)
  BY <1>1 DEF Fine, Right, sources
<1>2. CASE ~Right(i)
  <2>1. PICK q \in Ctls : At(q, "create") /\ ctl[q].inst = i /\ store[i] = "absent"
    BY <1>2 DEF Fine, Coming
  <2>2. q # p
    BY <1>2, <2>1
  <2>3. ctl'[q] = [ctl[q] EXCEPT !.quiet = FALSE] /\ ctl[q] \in CtlStates
    BY <2>2, OthersStay, Carries
  <2>4. ctl'[q].pc = "create" /\ ctl'[q].inst = i
    BY <2>1, <2>3 DEF At, CtlStates
  <2>5. Coming(i)'
    BY <2>4 DEF Coming, At
  <2> QED BY <2>1, <2>5 DEF Fine
<1> QED
  BY <1>1, <1>2

\* A step that touches no secret takes none away.
LEMMA SparesAll ==
  ASSUME TypeInv, NEW p \in Ctls, IssueAny(p) \/ CtlStep(p) \/ CtlFail(p),
         UNCHANGED <<conf, file, store>>, At(p, "create") => Right(ctl[p].inst)
  PROVE  Spares
<1>1. ASSUME NEW i \in Instances, Fine(i) PROVE Fine(i)'
  BY <1>1, FineStays DEF sources
<1> QED
  BY <1>1 DEF Spares

LEMMA HelpsAll ==
  ASSUME UNCHANGED <<conf, file, dir, socket, timers, disk>>
  PROVE  Helps
BY DEF Helps, sources

\* A command that ends, or is cut short, relies on nothing.
LEMMA EndsWell ==
  ASSUME NEW p \in Ctls, ctl'[p] = IdleCtl, Helps, Spares
  PROVE  Onward(p)
<1>1. ctl'[p].verb = "none" /\ ctl'[p].pc = "idle"
  BY DEF IdleCtl
<1> QED
  BY <1>1 DEF Onward, Informed, PastLoad, PastOrphans, PastSecrets, Secrets

\* What another step leaves, a command that waits can still rely on.
LEMMA OthersRely ==
  ASSUME TypeInv, TypeInv', Helps, Spares, NEW c \in CtlStates, c.pc \in StepsOf(c.verb),
         Informed(c), c.verb = "sync" => Reached(c)
  PROVE  Informed(c)' /\ (c.verb = "sync" => Reached(c)')
<1>0. /\ c.known \subseteq Instances /\ UNCHANGED sources
      /\ c.verb = "sync" /\ c.pc \in PastLoad => c.known = Configured
      /\ \A i \in Configured : i \in Instances /\ conf[i] # "absent"
  BY DEF CtlStates, Informed, Helps, Configured
<1>1. Configured' = Configured
  BY <1>0 DEF Configured, sources
<1>2. Informed(c)'
  <2>1. ASSUME c.pc = "create" PROVE store'[c.inst] \in {"absent", c.val}
    <3>1. /\ c.inst \in c.known /\ c.val = file[c.inst] /\ store[c.inst] \in {"absent", c.val}
      BY <2>1 DEF Informed, Secrets
    <3>2. c.inst \in Configured
      <4>1. c.verb \in {"sync", "enable"}
        BY <2>1, StepsOfVerbs DEF Informed
      <4> QED
        BY <1>0, <2>1, <3>1, <4>1 DEF Informed, PastLoad, PastOrphans, Secrets
    <3> QED BY <1>0, <3>1, <3>2 DEF Spares
  <2> QED
    BY <1>0, <1>1, <2>1 DEF Informed, sources
<1>3. ASSUME c.verb = "sync" PROVE Reached(c)'
  <2>0. Reached(c)
    BY <1>3
  <2>1. SyncHost(c)'
    BY <2>0 DEF Reached, SyncHost, Helps
  <2>2. ASSUME c.pc \in PastLoad, NEW i \in c.known PROVE Made(c, i) => Made(c, i)'
    <3>1. i \in Instances /\ Wanted(i) = c.snap[i]
      BY <1>0, <1>3, <2>2 DEF Informed
    <3> QED BY <3>1 DEF Made, Helps
  <2>3. ASSUME c.pc \in PastLoad, NEW i \in c.known, Fine(i) PROVE Fine(i)'
    BY <1>0, <1>3, <2>3 DEF Spares
  <2>4. ASSUME c.pc \in PastLoad, NEW i \in Instances \ c.known
        PROVE  /\ disk.dropin[i] = "plain" => disk'.dropin[i] = "plain"
               /\ store[i] = "absent" => store'[i] = "absent"
    <3>1. conf[i] = "absent" /\ Wanted(i) = "plain"
      BY <1>0, <1>3, <2>4 DEF Configured
    <3> QED BY <3>1 DEF Helps, Spares
  <2>5. c.pc = "dropin" => dir'[c.inst]
    <3>1. ASSUME c.pc = "dropin" PROVE dir'[c.inst]
      <4>1. c.inst \in Instances /\ dir[c.inst]
        BY <1>0, <2>0, <3>1 DEF Informed, Reached
      <4> QED BY <4>1 DEF Helps
    <3> QED BY <3>1
  <2> QED
    BY <2>0, <2>1, <2>2, <2>3, <2>4, <2>5
       DEF Reached, Undone, PastLoad, PastOrphans, PastSecrets, Secrets
<1> QED
  BY <1>2, <1>3

\* What a command relies on, before its step.
LEMMA Relying ==
  ASSUME TypeInv, OverlapInv, NEW p \in Ctls
  PROVE  LET c == ctl[p] IN
         /\ TypeOK /\ c \in CtlStates /\ c.pc \in StepsOf(c.verb)
         /\ c.verb \in {"none", "sync", "enable"}
         /\ c.verb = "enable" => c.inst \in Instances /\ c.todo \subseteq {c.inst}
         /\ c.pc \in OnInstance => c.inst \in Instances
         /\ c.pc \in Holding => c.val \in Tokens
         /\ Informed(c) /\ (c.verb = "sync" => Reached(c))
<1>1. Informed(ctl[p]) /\ (ctl[p].verb = "sync" => Reached(ctl[p]))
  BY DEF OverlapInv
<1> QED
  BY <1>1, Carries DEF TypeInv, Informed, OfOne

\* The links, podman.socket and the timers.
LEMMA HostOnward ==
  ASSUME TypeInv, OverlapInv, NEW p \in Ctls,
         Links(p) \/ Migrate(p) \/ Moved(p) \/ Socket(p) \/ Timers(p)
  PROVE  Onward(p)
<1> DEFINE c == ctl[p]
           d == ctl'[p]
<1> USE DEF At, sources, services, units
<1>0. /\ TypeOK /\ c \in CtlStates /\ c.pc \in StepsOf(c.verb)
      /\ c.verb \in {"none", "sync", "enable"}
      /\ c.verb = "enable" => c.inst \in Instances /\ c.todo \subseteq {c.inst}
      /\ Informed(c) /\ (c.verb = "sync" => Reached(c))
  BY Relying
<1>1. Spares
  <2>1. ~At(p, "create") /\ UNCHANGED <<conf, file, store>>
    BY DEF Links, Migrate, Moved, Socket, Timers
  <2>2. CtlStep(p)
    BY DEF CtlStep, SyncStep
  <2> QED BY <2>1, <2>2, SparesAll
<1>2. Helps
  <2>1. CASE Links(p)
    BY <1>0, <2>1 DEF Links, Helps, TypeOK, UnitFiles
  <2>2. CASE Migrate(p)
    <3>1. disk' = disk \/ \E i : disk' = [disk EXCEPT !.old = @ \ {i}]
      BY <2>2, Zenon DEF Migrate
    <3> QED BY <1>0, <2>2, <3>1 DEF Migrate, Helps, TypeOK, UnitFiles
  <2>3. CASE Moved(p)
    BY <1>0, <2>3 DEF Moved, Helps, TypeOK, UnitFiles
  <2>4. CASE Socket(p) \/ Timers(p)
    BY <2>4 DEF Socket, Timers, Helps
  <2> QED BY <2>1, <2>2, <2>3, <2>4
<1>3. ASSUME d.verb = "sync", d.pc \in {"migrate", "moved", "socket", "timers", "load"}, SyncHost(c)'
      PROVE  Onward(p)
  BY <1>1, <1>2, <1>3
     DEF Onward, Informed, Reached, PastLoad, PastOrphans, PastSecrets, Secrets
<1>4. CASE Links(p)
  <2> DEFINE x == [c EXCEPT !.pc = "migrate", !.changed = ~disk.quadlet]
  <2>1. c.pc = "links" /\ c.verb = "sync"
    BY <1>0, <1>4, StepsOfVerbs DEF Links
  <2>2. Go(p, x) /\ x.verb = "sync" /\ x.pc = "migrate"
    BY <1>0, <1>4, <2>1, AfterSync DEF Links, CtlStates
  <2> HIDE DEF x
  <2>3. d.verb = "sync" /\ d.pc = "migrate"
    BY <2>2, GoesOn
  <2>4. disk'.quadlet
    BY <1>0, <1>4 DEF Links, TypeOK, UnitFiles
  <2>5. SyncHost(c)'
    BY <2>3, <2>4
       DEF SyncHost, PastMigrate, PastSocket, PastTimers, PastLoad, PastOrphans, PastSecrets, Secrets
  <2> QED BY <1>3, <2>3, <2>5
<1>5. CASE Migrate(p)
  <2>1. c.pc = "migrate" /\ c.verb = "sync"
    BY <1>0, <1>5, StepsOfVerbs DEF Migrate
  <2>2. disk.quadlet
    BY <1>0, <2>1 DEF Reached, SyncHost
  <2>3. CASE disk.old = {} /\ GoTo(p, After(c.verb, "migrate")) /\ UNCHANGED disk
    <3>1. d = [c EXCEPT !.pc = "socket"]
      BY <2>1, <2>3, GoesTo, AfterSync
    <3>2. d.verb = "sync" /\ d.pc = "socket"
      BY <1>0, <2>1, <3>1 DEF CtlStates
    <3>3. SyncHost(c)'
      BY <2>2, <2>3, <3>2
         DEF SyncHost, PastMigrate, PastSocket, PastTimers, PastLoad, PastOrphans,
             PastSecrets, Secrets
    <3> QED BY <1>3, <3>2, <3>3
  <2>4. ASSUME NEW i \in disk.old, disk' = [disk EXCEPT !.old = @ \ {i}],
               Go(p, [c EXCEPT !.pc = "moved", !.inst = i, !.changed = TRUE])
        PROVE  Onward(p)
    <3> DEFINE x == [c EXCEPT !.pc = "moved", !.inst = i, !.changed = TRUE]
    <3>1. x.verb = "sync" /\ x.pc = "moved"
      BY <1>0, <2>1 DEF CtlStates
    <3> HIDE DEF x
    <3>2. d.verb = "sync" /\ d.pc = "moved"
      BY <2>4, <3>1, GoesOn DEF x
    <3>3. disk'.quadlet
      BY <1>0, <2>2, <2>4 DEF TypeOK, UnitFiles
    <3>4. SyncHost(c)'
      BY <3>2, <3>3
         DEF SyncHost, PastMigrate, PastSocket, PastTimers, PastLoad, PastOrphans,
             PastSecrets, Secrets
    <3> QED BY <1>3, <3>2, <3>4
  <2> QED BY <1>5, <2>3, <2>4 DEF Migrate
<1>6. CASE Moved(p)
  <2>1. c.pc = "moved" /\ c.verb = "sync" /\ d = [c EXCEPT !.pc = "migrate"]
    BY <1>0, <1>6, StepsOfVerbs, GoesTo DEF Moved
  <2>2. d.verb = "sync" /\ d.pc = "migrate"
    BY <1>0, <2>1 DEF CtlStates
  <2>3. disk.quadlet
    BY <1>0, <2>1 DEF Reached, SyncHost
  <2>4. SyncHost(c)'
    BY <1>2, <2>2, <2>3
       DEF Helps, SyncHost, PastMigrate, PastSocket, PastTimers, PastLoad, PastOrphans,
           PastSecrets, Secrets
  <2> QED BY <1>3, <2>2, <2>4
<1>7. CASE Socket(p) /\ socket # "stuck"
  <2> DEFINE more == c.changed \/ socket # "on"
             x == [c EXCEPT !.pc = After(c.verb, "socket"), !.changed = more, !.todo = c.known]
  <2>1. c.pc = "socket" /\ c.verb \in {"sync", "enable"} /\ socket' = "on"
        /\ UNCHANGED <<conf, file, store, dir, timers, disk>>
    BY <1>0, <1>7, StepsOfVerbs DEF Socket
  <2>2. Go(p, x)
    BY <1>7 DEF Socket
  <2>3. After("sync", "socket") = "timers" /\ After("enable", "socket") = "ensure"
    BY AfterSync, AfterEnable
  <2> HIDE DEF more
  <2>4. /\ x.verb = c.verb /\ x.pc = After(c.verb, "socket") /\ x.inst = c.inst
        /\ x.known = c.known /\ x.todo = c.known /\ x.snap = c.snap
    BY <1>0 DEF CtlStates
  <2> HIDE DEF x
  <2>5. d = x
    BY <2>1, <2>2, <2>3, <2>4, GoesOn
  <2>6. CASE c.verb = "sync"
    <3>1. d.verb = "sync" /\ d.pc = "timers"
      BY <2>3, <2>4, <2>5, <2>6
    <3>2. SyncHost(c)'
      BY <1>0, <2>1, <2>6, <3>1
         DEF Reached, SyncHost, PastMigrate, PastSocket, PastTimers, PastLoad, PastOrphans,
             PastSecrets, Secrets
    <3> QED BY <1>3, <3>1, <3>2
  <2>7. CASE c.verb = "enable"
    <3>1. /\ d.verb = "enable" /\ d.pc = "ensure" /\ d.inst = c.inst /\ d.known = c.known
          /\ d.todo = c.known /\ d.snap = c.snap
      BY <2>3, <2>4, <2>5, <2>7
    <3>2. Configured' = Configured
      BY <2>1 DEF Configured
    <3>3. Informed(c)'
      BY <1>0, <2>1, <2>7, <3>1, <3>2 DEF Informed, Secrets
    <3> QED BY <1>1, <1>2, <3>1, <3>3 DEF Onward
  <2> QED BY <2>1, <2>6, <2>7
<1>8. CASE Timers(p)
  <2> DEFINE more == c.changed \/ ~timers
             x == [c EXCEPT !.pc = "load", !.changed = more]
  <2>1. c.pc = "timers" /\ c.verb = "sync" /\ timers' = TRUE
        /\ UNCHANGED <<conf, file, store, dir, socket, disk>>
    BY <1>0, <1>8, StepsOfVerbs DEF Timers
  <2>2. Go(p, x)
    BY <1>8, <2>1, AfterSync DEF Timers
  <2> HIDE DEF more
  <2>3. x.verb = "sync" /\ x.pc = "load"
    BY <1>0, <2>1 DEF CtlStates
  <2> HIDE DEF x
  <2>4. d.verb = "sync" /\ d.pc = "load"
    BY <2>2, <2>3, GoesOn
  <2>5. SyncHost(c)'
    BY <1>0, <2>1, <2>4
       DEF Reached, SyncHost, PastMigrate, PastSocket, PastTimers, PastLoad, PastOrphans,
           PastSecrets, Secrets
  <2> QED BY <1>3, <2>4, <2>5
<1>9. CASE Socket(p) /\ socket = "stuck"
  <2>1. GoTo(p, "idle")
    BY <1>9 DEF Socket
  <2> QED BY <1>1, <1>2, <2>1, GoesTo, EndsWell
<1> QED
  BY <1>4, <1>5, <1>6, <1>7, <1>8, <1>9

\* The conf files, state directories and drop-ins.
LEMMA ConfOnward ==
  ASSUME TypeInv, OverlapInv, NEW p \in Ctls,
         Load(p) \/ LoadOne(p) \/ Ensure(p) \/ Dropin(p) \/ Orphans(p)
  PROVE  Onward(p)
<1> DEFINE c == ctl[p]
           d == ctl'[p]
<1> USE DEF At, sources, services, units
<1>0. /\ TypeOK /\ c \in CtlStates /\ c.pc \in StepsOf(c.verb)
      /\ c.verb \in {"none", "sync", "enable"}
      /\ c.verb = "enable" => c.inst \in Instances /\ c.todo \subseteq {c.inst}
      /\ c.pc \in OnInstance => c.inst \in Instances
      /\ Informed(c) /\ (c.verb = "sync" => Reached(c))
  BY Relying
<1>1. Spares
  <2>1. ~At(p, "create") /\ UNCHANGED <<conf, file, store>>
    BY DEF Load, LoadOne, Ensure, Dropin, Orphans
  <2>2. CtlStep(p)
    BY DEF CtlStep, SyncStep, OtherStep
  <2> QED BY <2>1, <2>2, SparesAll
<1>2. Configured' = Configured /\ UNCHANGED <<conf, file, store, socket, timers>>
  BY DEF Configured, Load, LoadOne, Ensure, Dropin, Orphans
<1>3. CASE Load(p)
  <2> DEFINE read == [i \in Instances |-> Wanted(i)]
  <2>1. c.pc = "load" /\ c.verb = "sync" /\ Helps
    BY <1>0, <1>3, StepsOfVerbs, HelpsAll DEF Load
  <2>2. CASE GoTo(p, "idle")
    BY <1>1, <2>1, <2>2, GoesTo, EndsWell
  <2>3. CASE Go(p, [c EXCEPT !.pc = After(c.verb, "load"), !.known = Configured,
                             !.todo = Configured, !.snap = read])
    <3>1. d = [c EXCEPT !.pc = "ensure", !.known = Configured, !.todo = Configured,
                        !.snap = read]
      <4>1. After(c.verb, "load") = "ensure"
        BY <2>1, AfterSync
      <4>2. [c EXCEPT !.pc = "ensure", !.known = Configured, !.todo = Configured,
                      !.snap = read].pc = "ensure"
        BY <1>0 DEF CtlStates
      <4> QED BY <2>3, <4>1, <4>2, GoesOn
    <3>2. /\ d.verb = "sync" /\ d.pc = "ensure" /\ d.known = Configured /\ d.todo = Configured
          /\ \A i \in Configured : d.snap[i] = Wanted(i)
      BY <1>0, <2>1, <3>1 DEF CtlStates, Configured
    <3>3. Informed(c)'
      BY <1>2, <3>2 DEF Informed, Secrets
    <3>4. SyncHost(c)'
      BY <1>0, <1>3, <2>1, <3>2
         DEF Load, Reached, SyncHost, PastMigrate, PastSocket, PastTimers, PastLoad,
             PastOrphans, PastSecrets, Secrets
    <3>5. Reached(c)'
      BY <3>2, <3>4 DEF Reached, Undone, PastOrphans, PastSecrets, Secrets
    <3> QED BY <1>1, <2>1, <3>3, <3>5 DEF Onward
  <2> QED BY <1>3, <2>2, <2>3 DEF Load
<1>4. CASE LoadOne(p)
  <2>1. c.pc = "conf" /\ c.verb = "enable" /\ c.inst \in Instances /\ Helps
    BY <1>0, <1>4, StepsOfVerbs, HelpsAll DEF LoadOne
  <2>2. CASE GoTo(p, "idle")
    BY <1>1, <2>1, <2>2, GoesTo, EndsWell
  <2>3. CASE conf[c.inst] \notin {"absent", "malformed", "no-url"}
    <3> DEFINE x == [c EXCEPT !.pc = "has", !.known = {c.inst}, !.snap[c.inst] = Wanted(c.inst)]
    <3>1. Go(p, x)
      BY <1>4, <2>1, <2>3, AfterEnable DEF LoadOne
    <3>2. /\ x.verb = "enable" /\ x.pc = "has" /\ x.inst = c.inst /\ x.known = {c.inst}
          /\ x.snap[c.inst] = Wanted(c.inst)
      BY <1>0, <2>1 DEF CtlStates
    <3> HIDE DEF x
    <3>3. d = x
      BY <3>1, <3>2, GoesOn
    <3>4. c.inst \in Configured
      BY <2>1, <2>3 DEF Configured
    <3>5. Informed(c)'
      BY <1>2, <3>2, <3>3, <3>4 DEF Informed, Secrets
    <3> QED BY <1>1, <2>1, <3>2, <3>3, <3>5 DEF Onward
  <2> QED BY <1>0, <1>4, <2>1, <2>2, <2>3 DEF LoadOne
<1>5. CASE Ensure(p)
  <2>1. /\ c.pc = "ensure" /\ c.verb \in {"sync", "enable"} /\ UNCHANGED disk
        /\ c.todo \subseteq c.known /\ c.known \subseteq Instances
    BY <1>0, <1>5, StepsOfVerbs DEF Ensure, Informed, CtlStates
  <2>2. CASE c.todo = {} /\ GoTo(p, After(c.verb, "ensure")) /\ UNCHANGED dir
    <3>1. Helps
      BY <1>2, <2>1, <2>2, HelpsAll
    <3>2. After("sync", "ensure") = "orphans" /\ After("enable", "ensure") = "reload"
      BY AfterSync, AfterEnable
    <3>3. d = [c EXCEPT !.pc = After(c.verb, "ensure")]
      BY <2>1, <2>2, <3>2, GoesTo
    <3>4. /\ d.verb = c.verb /\ d.pc = After(c.verb, "ensure") /\ d.inst = c.inst
          /\ d.known = c.known /\ d.snap = c.snap
      BY <1>0, <3>3 DEF CtlStates
    <3>5. Informed(c)'
      BY <1>0, <1>2, <2>1, <3>2, <3>4
         DEF Informed, PastLoad, PastOrphans, PastSecrets, Secrets
    <3>6. ASSUME c.verb = "sync" PROVE Reached(c)'
      <4>1. d.pc = "orphans"
        BY <3>2, <3>4, <3>6
      <4>2. \A i \in c.known : Made(c, i)'
        BY <1>0, <2>1, <2>2, <3>4, <3>6 DEF Reached, Made, Undone, Secrets
      <4>3. SyncHost(c)'
        BY <1>0, <1>2, <2>1, <3>6, <4>1
           DEF Reached, SyncHost, PastMigrate, PastSocket, PastTimers, PastLoad,
               PastOrphans, PastSecrets, Secrets
      <4> QED
        BY <3>4, <4>1, <4>2, <4>3 DEF Reached, PastOrphans, PastSecrets, Secrets
    <3> QED BY <1>1, <3>1, <3>4, <3>5, <3>6 DEF Onward
  <2>3. ASSUME NEW i \in c.todo, dir' = [dir EXCEPT ![i] = TRUE],
               Go(p, [c EXCEPT !.pc = "dropin", !.inst = i, !.todo = @ \ {i},
                               !.changed = @ \/ ~dir[i]])
        PROVE  Onward(p)
    <3>1. /\ d.verb = c.verb /\ d.pc = "dropin" /\ d.inst = i /\ d.todo = c.todo \ {i}
          /\ d.known = c.known /\ d.snap = c.snap
      <4> DEFINE more == c.changed \/ ~dir[i]
                 x == [c EXCEPT !.pc = "dropin", !.inst = i, !.todo = @ \ {i},
                                !.changed = more]
      <4>1. Go(p, x)
        BY <2>3
      <4> HIDE DEF more
      <4>2. /\ x.verb = c.verb /\ x.pc = "dropin" /\ x.inst = i /\ x.todo = c.todo \ {i}
            /\ x.known = c.known /\ x.snap = c.snap
        BY <1>0 DEF CtlStates
      <4> HIDE DEF x
      <4> QED BY <4>1, <4>2, GoesOn
    <3>2. i \in c.known /\ i \in Instances /\ (c.verb = "enable" => i = c.inst)
      BY <1>0, <2>1
    <3>3. dir'[i] /\ \A j \in Instances : dir[j] => dir'[j]
      BY <1>0, <2>3, <3>2 DEF TypeOK
    <3>4. Helps
      BY <1>2, <2>1, <3>3 DEF Helps
    <3>5. Informed(c)'
      BY <1>0, <1>2, <2>1, <3>1, <3>2
         DEF Informed, PastLoad, PastOrphans, PastSecrets, Secrets
    <3>6. ASSUME c.verb = "sync" PROVE Reached(c)'
      <4>1. \A j \in c.known : Made(c, j)' \/ Undone(c, j)'
        BY <1>0, <2>1, <3>1, <3>3, <3>6 DEF Reached, Made, Undone, Secrets
      <4>2. SyncHost(c)'
        BY <1>0, <1>2, <2>1, <3>1, <3>6
           DEF Reached, SyncHost, PastMigrate, PastSocket, PastTimers, PastLoad,
               PastOrphans, PastSecrets, Secrets
      <4> QED
        BY <3>1, <3>3, <4>1, <4>2 DEF Reached, PastOrphans, PastSecrets, Secrets
    <3> QED BY <1>1, <3>1, <3>4, <3>5, <3>6 DEF Onward
  <2> QED BY <1>5, <2>2, <2>3 DEF Ensure
<1>6. CASE Dropin(p)
  <2>1. /\ c.pc = "dropin" /\ c.verb \in {"sync", "enable"} /\ UNCHANGED dir
        /\ c.inst \in c.known /\ c.known \subseteq Instances /\ c.todo \subseteq c.known
        /\ c.inst \in Instances
    BY <1>0, <1>6, StepsOfVerbs DEF Dropin, Informed, CtlStates
  <2>2. /\ d.verb = c.verb /\ d.pc = "ensure" /\ d.inst = c.inst /\ d.todo = c.todo
        /\ d.known = c.known /\ d.snap = c.snap
    <3> DEFINE more == c.changed \/ disk.dropin[c.inst] # c.snap[c.inst]
               x == [c EXCEPT !.pc = "ensure", !.changed = more]
    <3>1. Go(p, x)
      BY <1>6 DEF Dropin
    <3> HIDE DEF more
    <3>2. /\ x.verb = c.verb /\ x.pc = "ensure" /\ x.inst = c.inst /\ x.todo = c.todo
          /\ x.known = c.known /\ x.snap = c.snap
      BY <1>0 DEF CtlStates
    <3> HIDE DEF x
    <3> QED BY <3>1, <3>2, GoesOn
  <2>3. /\ disk'.quadlet = disk.quadlet /\ disk'.old = disk.old
        /\ \A i \in Instances : disk'.dropin[i] =
             IF i = c.inst THEN c.snap[i] ELSE disk.dropin[i]
    BY <1>0, <1>6 DEF Dropin, TypeOK, UnitFiles
  <2>4. c.known \subseteq Configured /\ \A i \in c.known : c.snap[i] = Wanted(i)
    BY <1>0, <2>1 DEF Informed, PastLoad
  <2>5. Helps
    <3>1. Wanted(c.inst) = c.snap[c.inst]
      BY <2>1, <2>4 DEF Wanted, Configured
    <3> QED BY <1>2, <2>1, <2>3, <3>1 DEF Helps
  <2>6. Informed(c)'
    BY <1>0, <1>2, <2>1, <2>2
       DEF Informed, PastLoad, PastOrphans, PastSecrets, Secrets
  <2>7. ASSUME c.verb = "sync" PROVE Reached(c)'
    <3>1. \A j \in c.known : Made(c, j)' \/ Undone(c, j)'
      BY <1>0, <2>1, <2>2, <2>3, <2>7 DEF Reached, Made, Undone, Secrets
    <3>2. SyncHost(c)'
      BY <1>0, <1>2, <2>1, <2>2, <2>3, <2>7
         DEF Reached, SyncHost, PastMigrate, PastSocket, PastTimers, PastLoad,
             PastOrphans, PastSecrets, Secrets
    <3> QED
      BY <2>2, <3>1, <3>2 DEF Reached, PastOrphans, PastSecrets, Secrets
  <2> QED BY <1>1, <2>2, <2>5, <2>6, <2>7 DEF Onward
<1>7. CASE Orphans(p)
  <2>1. /\ c.pc = "orphans" /\ c.verb = "sync" /\ UNCHANGED dir
        /\ c.known = Configured /\ c.known \subseteq Instances
    BY <1>0, <1>7, StepsOfVerbs DEF Orphans, Informed, CtlStates, PastLoad
  <2>2. /\ d.verb = "sync" /\ d.pc = "read" /\ d.todo = c.known
        /\ d.known = c.known /\ d.snap = c.snap
    <3> DEFINE more == c.changed \/ \E i \in Instances :
                                      i \notin c.known /\ disk.dropin[i] # "plain"
               x == [c EXCEPT !.pc = "read", !.todo = c.known, !.changed = more]
    <3>1. Go(p, x)
      BY <1>7, <2>1, AfterSync DEF Orphans
    <3> HIDE DEF more
    <3>2. /\ x.verb = "sync" /\ x.pc = "read" /\ x.todo = c.known
          /\ x.known = c.known /\ x.snap = c.snap
      BY <1>0, <2>1 DEF CtlStates
    <3> HIDE DEF x
    <3> QED BY <3>1, <3>2, GoesOn
  <2>3. /\ disk'.quadlet = disk.quadlet /\ disk'.old = disk.old
        /\ \A i \in Instances : disk'.dropin[i] =
             IF i \in c.known THEN disk.dropin[i] ELSE "plain"
    BY <1>0, <1>7 DEF Orphans, TypeOK, UnitFiles
  <2>4. Helps
    <3>1. \A i \in Instances \ c.known : Wanted(i) = "plain"
      BY <2>1 DEF Wanted, Configured
    <3> QED BY <1>2, <2>1, <2>3, <3>1 DEF Helps
  <2>5. Informed(c)'
    BY <1>0, <1>2, <2>1, <2>2
       DEF Informed, PastLoad, PastOrphans, PastSecrets, Secrets
  <2>6. Reached(c)'
    <3>1. \A i \in c.known : Made(c, i)'
      BY <1>0, <2>1, <2>2, <2>3 DEF Reached, Made
    <3>2. SyncHost(c)'
      BY <1>0, <1>2, <2>1, <2>2, <2>3
         DEF Reached, SyncHost, PastMigrate, PastSocket, PastTimers, PastLoad,
             PastOrphans, PastSecrets, Secrets
    <3> QED
      BY <2>2, <2>3, <3>1, <3>2 DEF Reached, Undone, PastOrphans, PastSecrets, Secrets
  <2> QED BY <1>1, <2>2, <2>4, <2>5, <2>6 DEF Onward
<1> QED
  BY <1>3, <1>4, <1>5, <1>6, <1>7

\* A `sync` that goes on in its loop over the secrets.
LEMMA SecretsReach ==
  ASSUME TypeInv, OverlapInv, NEW p \in Ctls, ctl[p].verb = "sync",
         ctl[p].pc \in {"read"} \cup Secrets, ctl'[p].pc \in {"read", "list"} \cup Secrets,
         ctl'[p].known = ctl[p].known, ctl'[p].snap = ctl[p].snap,
         UNCHANGED <<conf, file, dir, socket, timers, disk>>, Spares,
         \A i \in ctl[p].known :
           Undone(ctl[p], i) => Fine(i)' \/ (ctl'[p].pc # "list" /\ Undone(ctl[p], i)')
  PROVE  Reached(ctl[p])'
<1> DEFINE c == ctl[p]
           d == ctl'[p]
<1>1. Reached(c) /\ Informed(c) /\ c \in CtlStates
  BY Relying
<1>2. c.known = Configured
  BY <1>1 DEF Informed, PastLoad, PastOrphans
<1>3. \A i \in c.known : Fine(i) => Fine(i)'
  BY <1>2 DEF Spares, Configured
<1>4. \A i \in c.known : Fine(i)' \/ (d.pc # "list" /\ Undone(c, i)')
  <2>1. \A i \in c.known : Fine(i) \/ Undone(c, i)
    BY <1>1 DEF Reached
  <2> QED BY <1>3, <2>1
<1>5. SyncHost(c)'
  BY <1>1
     DEF Reached, SyncHost, PastMigrate, PastSocket, PastTimers, PastLoad,
         PastOrphans, PastSecrets, Secrets
<1>6. \A i \in c.known : Made(c, i)'
  BY <1>1 DEF Reached, Made, PastOrphans
<1>7. \A i \in Instances \ c.known : disk'.dropin[i] = "plain"
  BY <1>1 DEF Reached, PastOrphans
<1> QED
  BY <1>4, <1>5, <1>6, <1>7 DEF Reached, PastOrphans, PastSecrets, Secrets

\* The secrets, one instance after the other.
LEMMA SecretOnward ==
  ASSUME TypeInv, OverlapInv, Deriving, NEW p \in Ctls, SecretStep(p)
  PROVE  Onward(p)
<1> DEFINE c == ctl[p]
           d == ctl'[p]
           i == c.inst
<1> USE DEF At, sources, services, units
<1>0. /\ TypeOK /\ c \in CtlStates /\ c.pc \in StepsOf(c.verb)
      /\ c.verb \in {"none", "sync", "enable"}
      /\ c.verb = "enable" => i \in Instances /\ c.todo \subseteq {i}
      /\ c.pc \in OnInstance => i \in Instances
      /\ c.pc \in Holding => c.val \in Tokens
      /\ Informed(c) /\ (c.verb = "sync" => Reached(c))
  BY Relying
<1>1. /\ c.pc \in {"read"} \cup Secrets /\ c.verb \in {"sync", "enable"}
      /\ UNCHANGED <<conf, file, dir, socket, timers, disk>> /\ CtlStep(p)
  BY <1>0, StepsOfVerbs
     DEF SecretStep, Read, Inspect, Drop, Create, CreateRefused, Secrets, CtlStep
<1>2. Configured' = Configured /\ Helps
  BY <1>1, HelpsAll DEF Configured
<1>3. /\ c.known \subseteq Configured /\ c.known \subseteq Instances /\ c.todo \subseteq c.known
      /\ c.pc \in Secrets =>
           /\ i \in c.known /\ i \in Instances /\ i \in Configured
           /\ c.val = file[i] /\ c.val \in Tokens
  BY <1>0, <1>1
     DEF Informed, PastLoad, PastOrphans, Secrets, CtlStates, OnInstance, Holding
\* Where it goes on it has read what it had.
<1>4. ASSUME d.verb = c.verb, d.known = c.known, d.snap = c.snap,
             d.pc \in {"read"} \cup Secrets, d.todo \subseteq c.known, d.inst \in Instances \cup {NoInstance},
             c.verb = "enable" => d.inst = i,
             d.pc \in Secrets => d.inst \in c.known /\ d.val = file[d.inst],
             d.pc = "create" => store'[d.inst] = "absent"
      PROVE  Informed(c)'
  BY <1>0, <1>1, <1>2, <1>4 DEF Informed, PastLoad, PastOrphans, PastSecrets, Secrets
<1>5. CASE Read(p)
  <2>1. c.pc = "read" /\ UNCHANGED store
    BY <1>5 DEF Read
  <2>2. Spares
    BY <1>1, <2>1, SparesAll
  <2>3. ASSUME NEW j \in c.todo, file[j] \in Tokens,
               Go(p, [c EXCEPT !.pc = "inspect", !.inst = j, !.todo = @ \ {j}, !.val = file[j]])
        PROVE  Onward(p)
    <3> DEFINE x == [c EXCEPT !.pc = "inspect", !.inst = j, !.todo = @ \ {j}, !.val = file[j]]
    <3>1. /\ x.verb = c.verb /\ x.pc = "inspect" /\ x.inst = j /\ x.todo = c.todo \ {j}
          /\ x.known = c.known /\ x.snap = c.snap /\ x.val = file[j]
      BY <1>0 DEF CtlStates
    <3> HIDE DEF x
    <3>2. d = x
      BY <2>3, <3>1, GoesOn DEF x
    <3>3. j \in c.known /\ j \in Instances /\ (c.verb = "enable" => j = i)
      BY <1>0, <1>3
    <3>4. Informed(c)'
      BY <1>3, <1>4, <3>1, <3>2, <3>3 DEF Secrets
    <3>5. ASSUME c.verb = "sync" PROVE Reached(c)'
      <4>1. \A k \in c.known : Undone(c, k) => Undone(c, k)'
        BY <2>1, <3>1, <3>2 DEF Undone, Secrets
      <4> QED
        BY <1>1, <2>2, <3>1, <3>2, <3>5, <4>1, SecretsReach DEF Secrets
    <3> QED BY <1>2, <2>2, <3>1, <3>2, <3>4, <3>5 DEF Onward
  <2>4. ASSUME NEW j \in c.todo, file[j] \notin Tokens, c.verb = "sync",
               Go(p, [c EXCEPT !.todo = @ \ {j}])
        PROVE  Onward(p)
    <3> DEFINE x == [c EXCEPT !.todo = @ \ {j}]
    <3>1. /\ x.verb = c.verb /\ x.pc = "read" /\ x.inst = i /\ x.todo = c.todo \ {j}
          /\ x.known = c.known /\ x.snap = c.snap
      BY <1>0, <2>1 DEF CtlStates
    <3> HIDE DEF x
    <3>2. d = x
      BY <2>4, <3>1, GoesOn DEF x
    <3>3. Informed(c)'
      BY <1>0, <1>3, <1>4, <2>4, <3>1, <3>2 DEF Secrets, CtlStates
    <3>4. \A k \in c.known : Undone(c, k) => Fine(k)' \/ Undone(c, k)'
      BY <1>1, <2>1, <2>4, <3>1, <3>2 DEF Undone, Fine, Right, Secrets
    <3>5. Reached(c)'
      BY <1>1, <2>2, <2>4, <3>1, <3>2, <3>4, SecretsReach
    <3> QED BY <1>2, <2>2, <3>3, <3>5 DEF Onward
  <2>5. CASE GoTo(p, "idle")
    BY <1>2, <2>2, <2>5, GoesTo, EndsWell
  <2>6. CASE c.todo = {} /\ GoTo(p, After(c.verb, "read"))
    <3>1. After("sync", "read") = "list" /\ After("enable", "read") = "socket"
      BY AfterSync, AfterEnable
    <3>2. d = [c EXCEPT !.pc = After(c.verb, "read")]
      BY <1>1, <2>6, <3>1, GoesTo
    <3>3. /\ d.verb = c.verb /\ d.pc = After(c.verb, "read") /\ d.inst = i
          /\ d.known = c.known /\ d.snap = c.snap
      BY <1>0, <3>2 DEF CtlStates
    <3>4. Informed(c)'
      BY <1>0, <1>1, <1>2, <2>1, <3>1, <3>3
         DEF Informed, PastLoad, PastOrphans, PastSecrets, Secrets
    <3>5. ASSUME c.verb = "sync" PROVE Reached(c)'
      <4>1. \A k \in c.known : ~Undone(c, k)
        BY <2>1, <2>6 DEF Undone, Secrets
      <4> QED
        BY <1>1, <2>2, <3>1, <3>3, <3>5, <4>1, SecretsReach
    <3> QED BY <1>2, <2>2, <3>3, <3>4, <3>5 DEF Onward
  <2> QED BY <1>5, <2>3, <2>4, <2>5, <2>6 DEF Read
\* It goes on with the same instance, or is done with it.
<1>6. ASSUME Spares, c.pc \in Secrets, d.pc \in {"read", "drop", "create"}, d.verb = c.verb,
             d.inst = i, d.todo = c.todo, d.known = c.known, d.snap = c.snap,
             d.pc # "read" => d.val = c.val,
             d.pc = "create" => store'[i] = "absent",
             d.pc = "read" => store'[i] = file[i]
      PROVE  Onward(p)
  <2>1. Informed(c)'
    BY <1>0, <1>3, <1>4, <1>6 DEF Secrets
  <2>2. ASSUME c.verb = "sync" PROVE Reached(c)'
    <3>1. d.pc = "read" => Fine(i)'
      BY <1>1, <1>6 DEF Fine, Right
    <3>2. \A k \in c.known : Undone(c, k) => Fine(k)' \/ (d.pc # "list" /\ Undone(c, k)')
      BY <1>6, <3>1 DEF Undone, Secrets
    <3> QED
      BY <1>1, <1>6, <2>2, <3>2, SecretsReach DEF Secrets
  <2> QED BY <1>2, <1>6, <2>1, <2>2 DEF Onward
<1>7. CASE Inspect(p)
  <2>1. c.pc = "inspect" /\ UNCHANGED store
    BY <1>7 DEF Inspect
  <2>2. Spares
    BY <1>1, <2>1, SparesAll
  <2>3. CASE store[i] = c.val
    <3>1. [c EXCEPT !.pc = "read", !.val = "none"].pc = "read"
      BY <1>0 DEF CtlStates
    <3>2. d = [c EXCEPT !.pc = "read", !.val = "none"]
      BY <1>7, <2>3, <3>1, GoesOn DEF Inspect
    <3>3. /\ d.verb = c.verb /\ d.pc = "read" /\ d.inst = i /\ d.todo = c.todo
          /\ d.known = c.known /\ d.snap = c.snap
      BY <1>0, <3>2 DEF CtlStates
    <3> QED BY <1>3, <1>6, <2>1, <2>2, <2>3, <3>3 DEF Secrets
  <2>4. CASE store[i] # c.val
    <3> DEFINE next == IF store[i] = "absent" THEN "create" ELSE "drop"
    <3>1. d = [c EXCEPT !.pc = next]
      BY <1>7, <2>4, GoesTo DEF Inspect
    <3>2. /\ d.verb = c.verb /\ d.pc = next /\ d.inst = i /\ d.todo = c.todo
          /\ d.known = c.known /\ d.snap = c.snap /\ d.val = c.val
      BY <1>0, <3>1 DEF CtlStates
    <3> QED BY <1>6, <2>1, <2>2, <3>2 DEF Secrets
  <2> QED BY <2>3, <2>4
<1>8. CASE Drop(p)
  <2>1. c.pc = "drop" /\ store' = [store EXCEPT ![i] = "absent"] /\ d = [c EXCEPT !.pc = "create"]
    BY <1>8, GoesTo DEF Drop, Deriving
  <2>2. /\ d.verb = c.verb /\ d.pc = "create" /\ d.inst = i /\ d.todo = c.todo
        /\ d.known = c.known /\ d.snap = c.snap /\ d.val = c.val
    BY <1>0, <2>1 DEF CtlStates
  <2>3. i \in Instances /\ i \in Configured /\ file[i] \in Tokens
    BY <1>3, <2>1 DEF Secrets
  <2>4. store'[i] = "absent" /\ \A j \in Instances \ {i} : store'[j] = store[j]
    BY <1>0, <2>1, <2>3 DEF TypeOK
  <2>5. \A j \in {i} : Fine(j)'
    BY <2>2, <2>4 DEF Fine, Coming
  <2>6. \A j \in Instances \ {i} : Fine(j) => Fine(j)'
    BY <1>1, <2>1, <2>4, FineStays
  <2>7. Spares
    BY <2>3, <2>4, <2>5, <2>6 DEF Spares, Configured
  <2> QED BY <1>6, <2>1, <2>2, <2>4, <2>7 DEF Secrets
<1>9. CASE Create(p)
  <2>1. c.pc = "create" /\ store[i] = "absent" /\ store' = [store EXCEPT ![i] = c.val]
    BY <1>9 DEF Create
  <2> DEFINE x == [c EXCEPT !.pc = "read", !.val = "none", !.changed = TRUE]
  <2>2. /\ x.verb = c.verb /\ x.pc = "read" /\ x.inst = i /\ x.todo = c.todo
        /\ x.known = c.known /\ x.snap = c.snap
    BY <1>0 DEF CtlStates
  <2> HIDE DEF x
  <2>3. d = x
    BY <1>9, <2>2, GoesOn DEF Create, x
  <2>4. i \in Instances /\ i \in Configured /\ c.val = file[i] /\ file[i] \in Tokens
    BY <1>3, <2>1 DEF Secrets
  <2>5. store'[i] = file[i] /\ \A j \in Instances \ {i} : store'[j] = store[j]
    BY <1>0, <2>1, <2>4 DEF TypeOK
  <2>6. \A j \in {i} : Fine(j)'
    BY <1>1, <2>5 DEF Fine, Right
  <2>7. \A j \in Instances \ {i} : Fine(j) => Fine(j)'
    BY <1>1, <2>1, <2>5, FineStays
  <2>8. Spares
    BY <2>4, <2>5, <2>6, <2>7 DEF Spares, Configured
  <2> QED BY <1>6, <2>1, <2>2, <2>3, <2>5, <2>8 DEF Secrets
<1>10. CASE CreateRefused(p)
  <2>1. c.pc = "create" /\ UNCHANGED store /\ store[i] # "absent"
    BY <1>10 DEF CreateRefused, Deriving
  <2>2. store[i] = file[i]
    BY <1>0, <1>3, <2>1 DEF Informed, Secrets
  <2>3. Spares
    BY <1>1, <2>1, <2>2, SparesAll DEF Right
  <2>4. CASE GoTo(p, "idle")
    BY <1>2, <2>3, <2>4, GoesTo, EndsWell
  <2>5. CASE Go(p, [c EXCEPT !.pc = "read", !.val = "none", !.quiet = FALSE])
    <3> DEFINE x == [c EXCEPT !.pc = "read", !.val = "none", !.quiet = FALSE]
    <3>1. /\ x.verb = c.verb /\ x.pc = "read" /\ x.inst = i /\ x.todo = c.todo
          /\ x.known = c.known /\ x.snap = c.snap
      BY <1>0 DEF CtlStates
    <3> HIDE DEF x
    <3>2. d = x
      BY <2>5, <3>1, GoesOn DEF x
    <3> QED BY <1>6, <2>1, <2>2, <2>3, <3>1, <3>2 DEF Secrets
  <2> QED BY <1>10, <2>4, <2>5 DEF CreateRefused
<1> QED
  BY <1>5, <1>7, <1>8, <1>9, <1>10 DEF SecretStep

\* The orphan secrets, and systemd.
LEMMA LastOnward ==
  ASSUME TypeInv, OverlapInv, Deriving, NEW p \in Ctls,
         \/ ListSecrets(p) \/ PruneSecret(p) \/ FinishPrune(p) \/ Reload(p)
         \/ HasCredential(p) \/ Link(p) \/ Again(p)
  PROVE  Onward(p)
<1> DEFINE c == ctl[p]
           d == ctl'[p]
<1> USE DEF At, sources, services, units
<1>0. /\ TypeOK /\ c \in CtlStates /\ c.pc \in StepsOf(c.verb)
      /\ c.verb \in {"none", "sync", "enable"} /\ c.known \subseteq Instances
      /\ c.verb = "enable" => c.inst \in Instances /\ c.todo \subseteq {c.inst}
      /\ Informed(c) /\ (c.verb = "sync" => Reached(c))
  BY Relying DEF CtlStates
<1>1. /\ CtlStep(p) /\ UNCHANGED <<conf, file, dir, socket, timers>>
      /\ Configured' = Configured /\ ~At(p, "create")
  BY DEF CtlStep, SyncStep, OtherStep, Configured, ListSecrets, PruneSecret, FinishPrune,
         Reload, HasCredential, Link, Again
<1>2. ~PruneSecret(p) => Spares
  <2>1. ~PruneSecret(p) => UNCHANGED store
    BY DEF ListSecrets, FinishPrune, Reload, HasCredential, Link, Again
  <2> QED BY <1>1, <2>1, SparesAll
<1>3. ~Link(p) => Helps
  <2>1. ~Link(p) => UNCHANGED disk
    BY DEF ListSecrets, PruneSecret, FinishPrune, Reload, HasCredential, Again
  <2> QED BY <1>1, <2>1, HelpsAll
\* What a `sync` past its loop over the secrets keeps.
<1>4. ASSUME c.verb = "sync", c.pc \in {"list", "prune"}, d.verb = "sync",
             d.pc \in {"prune", "reload"}, d.known = c.known, d.snap = c.snap, Spares,
             UNCHANGED disk,
             d.pc = "prune" =>
               /\ d.todo \subseteq Instances \ c.known
               /\ \A i \in Instances \ c.known : store'[i] = "absent" \/ i \in d.todo
      PROVE  Onward(p)
  <2>1. Helps
    BY <1>1, <1>4, HelpsAll
  <2>2. c.known = Configured /\ \A i \in c.known : c.snap[i] = Wanted(i)
    BY <1>0, <1>4 DEF Informed, PastLoad, PastOrphans, PastSecrets
  <2>3. Informed(c)'
    BY <1>1, <1>4, <2>2 DEF Informed, Secrets
  <2>4. \A i \in c.known : Fine(i)'
    <3>1. \A i \in c.known : Fine(i)
      BY <1>0, <1>4 DEF Reached, PastSecrets
    <3> QED BY <1>4, <2>2, <3>1 DEF Spares, Configured
  <2>5. SyncHost(c)'
    BY <1>0, <1>1, <1>4
       DEF Reached, SyncHost, PastMigrate, PastSocket, PastTimers, PastLoad,
           PastOrphans, PastSecrets, Secrets
  <2>6. (\A i \in c.known : Made(c, i)') /\ \A i \in Instances \ c.known : disk'.dropin[i] = "plain"
    BY <1>0, <1>1, <1>4 DEF Reached, Made, PastOrphans, PastSecrets
  <2>7. Reached(c)'
    BY <1>4, <2>4, <2>5, <2>6 DEF Reached, PastOrphans, PastSecrets, Secrets
  <2> QED BY <1>4, <2>1, <2>3, <2>7 DEF Onward
<1>5. CASE ListSecrets(p)
  <2> DEFINE left == {i \in Instances \ c.known : store[i] # "absent"}
             x == [c EXCEPT !.pc = "prune", !.todo = left]
  <2>1. c.pc = "list" /\ c.verb = "sync" /\ UNCHANGED <<store, disk>> /\ Go(p, x)
    BY <1>0, <1>5, StepsOfVerbs DEF ListSecrets, Deriving
  <2>2. /\ x.verb = "sync" /\ x.pc = "prune" /\ x.todo = left /\ x.known = c.known
        /\ x.snap = c.snap
    BY <1>0, <2>1 DEF CtlStates
  <2> HIDE DEF x
  <2>3. d = x
    BY <2>1, <2>2, GoesOn
  <2>4. Spares
    BY <1>2, <2>1 DEF PruneSecret
  <2> QED BY <1>4, <2>1, <2>2, <2>3, <2>4
<1>6. CASE PruneSecret(p)
  <2>1. c.pc = "prune" /\ c.verb = "sync" /\ UNCHANGED disk
    BY <1>0, <1>6, StepsOfVerbs DEF PruneSecret
  <2>2. PICK i \in c.todo : /\ store' = [store EXCEPT ![i] = "absent"]
                            /\ Go(p, [c EXCEPT !.todo = @ \ {i}, !.changed = TRUE])
    BY <1>6 DEF PruneSecret, Deriving
  <2> DEFINE x == [c EXCEPT !.todo = @ \ {i}, !.changed = TRUE]
  <2>3. /\ x.verb = "sync" /\ x.pc = "prune" /\ x.todo = c.todo \ {i} /\ x.known = c.known
        /\ x.snap = c.snap
    BY <1>0, <2>1 DEF CtlStates
  <2> HIDE DEF x
  <2>4. d = x
    BY <2>2, <2>3, GoesOn DEF x
  <2>5. /\ c.known = Configured /\ c.todo \cap c.known = {} /\ c.todo \subseteq Instances
        /\ \A j \in Instances \ c.known : store[j] = "absent" \/ j \in c.todo
    BY <1>0, <2>1
       DEF Informed, Reached, CtlStates, PastLoad, PastOrphans, PastSecrets
  <2>6. /\ conf[i] = "absent" /\ i \in Instances
        /\ \A j \in Instances : store'[j] = IF j = i THEN "absent" ELSE store[j]
    BY <1>0, <2>2, <2>5 DEF TypeOK, Configured
  <2>7. Spares
    <3>1. ASSUME NEW j \in Instances, conf[j] # "absent", Fine(j) PROVE Fine(j)'
      BY <1>1, <2>6, <3>1, FineStays
    <3> QED BY <2>6, <3>1 DEF Spares
  <2> QED BY <1>4, <2>1, <2>3, <2>4, <2>5, <2>6, <2>7
<1>7. CASE FinishPrune(p)
  <2>1. c.pc = "prune" /\ c.verb = "sync" /\ UNCHANGED disk
    BY <1>0, <1>7, StepsOfVerbs DEF FinishPrune
  <2>2. Helps /\ Spares
    BY <1>2, <1>3, <2>1, <1>7 DEF FinishPrune, PruneSecret, Link
  <2>3. CASE GoTo(p, "idle")
    BY <2>2, <2>3, GoesTo, EndsWell
  <2>4. CASE GoTo(p, "reload")
    <3>1. d = [c EXCEPT !.pc = "reload"]
      BY <2>4, GoesTo
    <3>2. d.verb = "sync" /\ d.pc = "reload" /\ d.known = c.known /\ d.snap = c.snap
      BY <1>0, <2>1, <3>1 DEF CtlStates
    <3> QED BY <1>4, <2>1, <2>2, <3>2
  <2> QED BY <1>7, <2>3, <2>4 DEF FinishPrune
\* What an `enable` keeps that does not load its secret.
<1>8. ASSUME c.verb = "enable", c.pc # "conf", Helps, Spares,
             NEW pc \in {"read", "socket", "link", "again"}, GoTo(p, pc)
      PROVE  Onward(p)
  <2>1. d = [c EXCEPT !.pc = pc]
    BY <1>8, GoesTo
  <2>2. /\ d.verb = "enable" /\ d.pc = pc /\ d.inst = c.inst /\ d.known = c.known
        /\ d.todo = c.todo /\ d.snap = c.snap
    BY <1>0, <1>8, <2>1 DEF CtlStates
  <2>3. Informed(c)'
    BY <1>0, <1>1, <1>8, <2>2 DEF Informed, Secrets
  <2> QED BY <1>8, <2>2, <2>3 DEF Onward
<1>9. CASE Reload(p)
  <2>1. c.pc = "reload" /\ c.verb \in {"sync", "enable"} /\ Helps /\ Spares
    BY <1>0, <1>2, <1>3, <1>9, StepsOfVerbs DEF Reload, PruneSecret, Link
  <2>2. CASE c.verb = "sync"
    BY <1>9, <2>1, <2>2, GoesTo, EndsWell, AfterSync DEF Reload
  <2>3. CASE c.verb = "enable"
    BY <1>8, <1>9, <2>1, <2>3, AfterEnable DEF Reload
  <2> QED BY <2>1, <2>2, <2>3
<1>10. CASE HasCredential(p)
  <2>1. c.pc = "has" /\ c.verb = "enable" /\ Helps /\ Spares
    BY <1>0, <1>2, <1>3, <1>10, StepsOfVerbs DEF HasCredential, PruneSecret, Link
  <2>2. CASE GoTo(p, "idle")
    BY <2>1, <2>2, GoesTo, EndsWell
  <2> QED BY <1>8, <1>10, <2>1, <2>2 DEF HasCredential
<1>11. CASE Link(p)
  <2>1. c.pc = "link" /\ c.verb = "enable" /\ Spares
    BY <1>0, <1>2, <1>11, StepsOfVerbs DEF Link, PruneSecret
  <2>2. disk' = disk \/ disk' = [disk EXCEPT !.on = @ \cup {c.inst}]
    BY <1>11 DEF Link
  <2>3. Helps
    BY <1>0, <1>1, <2>2 DEF Helps, TypeOK, UnitFiles
  <2>4. CASE GoTo(p, "idle")
    BY <2>1, <2>3, <2>4, GoesTo, EndsWell
  <2> QED BY <1>8, <1>11, <2>1, <2>3, <2>4 DEF Link
<1>12. CASE Again(p)
  <2>1. Helps /\ Spares
    BY <1>2, <1>3, <1>12 DEF Again, PruneSecret, Link
  <2> QED BY <1>12, <2>1, GoesTo, EndsWell DEF Again
<1> QED
  BY <1>5, <1>6, <1>7, <1>9, <1>10, <1>11, <1>12

\* Every step of these commands leaves to the others what they rely on.
LEMMA AllOnward ==
  ASSUME TypeInv, OverlapInv, Deriving, NEW p \in Ctls,
         IssueAny(p) \/ CtlStep(p) \/ CtlFail(p)
  PROVE  Onward(p)
<1> DEFINE c == ctl[p]
<1>1. CASE IssueAny(p)
  <2>1. PICK x \in Carried :
          /\ Go(p, x) /\ x.verb \in Verbs
          /\ x.verb = "sync" => x.pc = "links"
          /\ x.verb = "enable" => x.pc = "conf"
          /\ ctl[p].pc = "idle" /\ UNCHANGED others
    BY <1>1, Begins
  <2>2. x.verb \in {"sync", "enable"} /\ ctl'[p] = x
    BY <2>1, GoesOn DEF Deriving
  <2>3. Helps /\ Spares
    BY <1>1, <2>1, HelpsAll, SparesAll DEF others, sources, services, units, At
  <2>4. Informed(c)' /\ (x.verb = "sync" => Reached(c)')
    BY <2>1, <2>2
       DEF Informed, Reached, SyncHost, PastMigrate, PastSocket, PastTimers, PastLoad,
           PastOrphans, PastSecrets, Secrets
  <2> QED BY <2>2, <2>3, <2>4 DEF Onward
<1>2. CASE CtlFail(p)
  <2>1. ctl'[p] = IdleCtl /\ ~At(p, "create")
        /\ UNCHANGED <<conf, file, store, dir, socket, timers, disk>>
    BY <1>2, GoesTo DEF CtlFail, Deriving, At, sources, services, units
  <2> QED BY <1>2, <2>1, HelpsAll, SparesAll, EndsWell
<1>3. CASE CtlStep(p)
  <2>1. c.verb \in {"none", "sync", "enable"} /\ c.pc \in StepsOf(c.verb)
    BY Relying
  <2>2. \/ SecretStep(p)
        \/ Links(p) \/ Migrate(p) \/ Moved(p) \/ Socket(p) \/ Timers(p)
        \/ Load(p) \/ LoadOne(p) \/ Ensure(p) \/ Dropin(p) \/ Orphans(p)
        \/ ListSecrets(p) \/ PruneSecret(p) \/ FinishPrune(p) \/ Reload(p)
        \/ HasCredential(p) \/ Link(p) \/ Again(p)
    <3>1. ~(\/ Truncate(p) \/ Write(p) \/ Scaffold(p) \/ Unlink(p) \/ Unlinked(p)
            \/ Forget(p) \/ Unfile(p) \/ Unconf(p) \/ Purge(p))
      BY <2>1, StepsOfVerbs
         DEF Truncate, Write, Scaffold, Unlink, Unlinked, Forget, Unfile, Unconf, Purge, At
    <3> QED BY <1>3, <3>1, Zenon DEF CtlStep, SyncStep, OtherStep
  <2> QED BY <2>2, HostOnward, ConfOnward, SecretOnward, LastOnward
<1> QED
  BY <1>1, <1>2, <1>3

LEMMA OverlapNext ==
  ASSUME TypeInv, OverlapInv, Deriving, [Next]_vars
  PROVE  OverlapInv'
<1>1. CASE UNCHANGED vars
  <2>1. Helps /\ Spares /\ \A p \in Ctls : ctl'[p] = ctl[p]
    BY <1>1
       DEF vars, sources, services, units, Helps, Spares, Fine, Right, Coming, At
  <2> QED BY <1>1, <2>1 DEF OverlapInv, vars, sources, services, units, Informed, Reached,
             SyncHost, Made, Undone, Fine, Right, Coming, At, Configured
<1>2. ASSUME NEW p \in Ctls, IssueAny(p) \/ CtlStep(p) \/ CtlFail(p) PROVE OverlapInv'
  <2>1. Onward(p) /\ TypeInv'
    BY <1>2, AllOnward, TypeNext DEF Next
  <2>2. ASSUME NEW q \in Ctls \ {p}
        PROVE  Informed(ctl[q])' /\ (ctl'[q].verb = "sync" => Reached(ctl[q])')
    <3>1. PICK c : c = ctl[q]
      OBVIOUS
    <3>2. /\ c \in CtlStates /\ c.pc \in StepsOf(c.verb)
          /\ Informed(c) /\ (c.verb = "sync" => Reached(c))
      BY <3>1, Relying
    <3>3. Informed(c)' /\ (c.verb = "sync" => Reached(c)')
      BY <2>1, <3>2, OthersRely DEF Onward
    <3>4. ctl'[q] = [c EXCEPT !.quiet = FALSE]
      BY <1>2, <3>1, OthersStay
    <3>5. /\ ctl'[q].verb = c.verb /\ ctl'[q].pc = c.pc /\ ctl'[q].inst = c.inst
          /\ ctl'[q].known = c.known /\ ctl'[q].snap = c.snap /\ ctl'[q].todo = c.todo
          /\ ctl'[q].val = c.val
      BY <3>2, <3>4 DEF CtlStates
    <3> QED
      BY <3>3, <3>5 DEF Informed, Reached, SyncHost, Made, Undone
  <2> QED BY <2>1, <2>2 DEF Onward, OverlapInv
<1>3. ~EditAny
  <2>1. ASSUME NEW kind, Edit(kind) PROVE FALSE
    BY <2>1 DEF Edit, Deriving
  <2> QED BY <2>1, Zenon DEF EditAny, EditConf, EditFile, EditStore, UpgradePackage
<1> QED
  BY <1>1, <1>2, <1>3, Zenon DEF Next

-----------------------------------------------------------------------------
\* A `sync` that finds no more secrets to remove leaves everything settled, with
\* others beside it; and what is settled, no command unsettles.
SyncsAgree ==
  [][(\E p \in Ctls : FinishPrune(p)) \/ Settled => Settled']_vars

LEMMA SettledStays ==
  ASSUME Helps, Spares, Settled PROVE Settled'
<1>1. ASSUME NEW i \in Instances, conf[i] = "absent"
      PROVE  disk'.dropin[i] = "plain" /\ store'[i] = "absent"
  BY <1>1 DEF Settled, Helps, Spares, Wanted
<1>2. ASSUME NEW i \in Instances, conf[i] # "absent"
      PROVE  disk'.dropin[i] = Wanted(i) /\ dir'[i] /\ Fine(i)'
  BY <1>2 DEF Settled, Helps, Spares, Wanted
<1>3. disk'.quadlet /\ disk'.old = {} /\ socket' = "on" /\ timers' /\ conf' = conf
  BY DEF Settled, Helps, sources
<1> QED
  BY <1>1, <1>2, <1>3 DEF Settled

LEMMA EndSettles ==
  ASSUME TypeInv, OverlapInv, NEW p \in Ctls, FinishPrune(p) PROVE Settled
<1> DEFINE c == ctl[p]
<1>1. c.pc = "prune" /\ c.todo = {}
  BY DEF FinishPrune, At
<1>2. c.verb = "sync" /\ Informed(c) /\ Reached(c)
  BY <1>1, Relying, StepsOfVerbs
<1>3. disk.quadlet /\ disk.old = {} /\ socket = "on" /\ timers
  BY <1>1, <1>2
     DEF Reached, SyncHost, PastMigrate, PastSocket, PastTimers, PastLoad, PastOrphans,
         PastSecrets
<1>4. /\ c.known = Configured
      /\ \A i \in Configured : c.snap[i] = Wanted(i) /\ Made(c, i) /\ Fine(i)
      /\ \A i \in Instances \ Configured : disk.dropin[i] = "plain" /\ store[i] = "absent"
  BY <1>1, <1>2 DEF Informed, Reached, PastLoad, PastOrphans, PastSecrets
<1> QED
  BY <1>3, <1>4 DEF Settled, Configured, Made

LEMMA OverlapInvariant == ASSUME Deriving PROVE Spec => []OverlapInv
<1>1. Init => OverlapInv
  BY DEF Init, OverlapInv, IdleCtl, Informed, Secrets
<1>2. TypeInv /\ OverlapInv /\ [Next]_vars => OverlapInv'
  BY OverlapNext
<1> QED
  BY <1>1, <1>2, Invariant, PTL DEF Spec

LEMMA SettledNext ==
  ASSUME Deriving, TypeInv, OverlapInv, Settled, [Next]_vars PROVE Settled'
<1>1. CASE UNCHANGED vars
  BY <1>1 DEF vars, sources, services, units, Settled, Fine, Right, Coming, At
<1>2. ASSUME NEW p \in Ctls, IssueAny(p) \/ CtlStep(p) \/ CtlFail(p) PROVE Settled'
  BY <1>2, AllOnward, SettledStays DEF Onward
<1>3. ~EditAny
  <2>1. ASSUME NEW kind, Edit(kind) PROVE FALSE
    BY <2>1 DEF Edit, Deriving
  <2> QED BY <2>1, Zenon DEF EditAny, EditConf, EditFile, EditStore, UpgradePackage
<1> QED
  BY <1>1, <1>2, <1>3, Zenon DEF Next

\* However many `sync` and `enable` overlap, in whatever order they make their
\* calls, and also if some are cut short: from the end of the first `sync` on,
\* all derived state is what the conf and credential files say, but for a secret
\* that is just being replaced.
THEOREM SyncsAgreeHolds == ASSUME Deriving PROVE Spec => SyncsAgree
<1>1. TypeInv /\ OverlapInv /\ [Next]_vars
        => [(\E p \in Ctls : FinishPrune(p)) \/ Settled => Settled']_vars
  BY EndSettles, SettledNext
<1> QED
  BY <1>1, OverlapInvariant, Invariant, PTL DEF Spec, SyncsAgree

\* From then on, whenever no command is under way all of it is in sync.
THEOREM SettledIsInSync ==
  ASSUME Deriving PROVE Spec => [](Settled => [](AllIdle => InSync))
<1>1. TypeInv /\ OverlapInv /\ Settled /\ [Next]_vars => Settled'
  BY SettledNext
<1>2. Settled /\ AllIdle => InSync
  BY DEF Settled, AllIdle, InSync, Fine, Right, Coming, At
<1> QED
  BY <1>1, <1>2, OverlapInvariant, Invariant, PTL DEF Spec
=============================================================================
