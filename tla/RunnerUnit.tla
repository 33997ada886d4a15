----------------------------- MODULE RunnerUnit -----------------------------
(***************************************************************************)
(* One gh-runner@<id>.service per instance, the container it runs once per *)
(* job, and the gh-runner-ctl processes that enable, drain and disable it. *)
(*                                                                         *)
(* The service is `Restart=always` with `RestartPreventExitStatus=78`, and *)
(* the container's entrypoint looks for the drain marker before anything   *)
(* that costs something.  A ctl command is a sequence of calls, and other  *)
(* ctl processes, the service manager, the entrypoint, a reboot and an     *)
(* operator editing files act between any two of them.                     *)
(***************************************************************************)
EXTENDS Naturals

CONSTANTS
  Instances,     \* configured runners (one conf file each)
  Ctls,          \* gh-runner-ctl processes that may be running at once
  NoInstance,    \* the instance of an idle ctl process
  Verbs,         \* the events that occur in a run, of AllVerbs
  MayFail,       \* steps of a ctl command that may raise or be interrupted
  Outages,       \* "upstream": engine and GitHub come and go; "no-token":
                 \* `add --no-token` has left the secret unloaded
  TargetAtBoot,  \* has somebody enabled gh-runner.target itself?
  MaxEvents      \* bound on those events: commands, edits, kills, reboots

AllVerbs == {"enable", "drain", "disable-now", "start", "stop", "restart",
             "target", "kill", "reboot", "edit", "secret"}

Steps == {"idle", "next", "check", "secret", "clear", "dropin", "relink",
          "symlink", "mark", "unlink", "reload", "start", "stop"}

ASSUME NoInstanceAssumption == NoInstance \notin Instances
ASSUME VerbsAssumption == Verbs \subseteq AllVerbs
ASSUME MayFailAssumption == MayFail \subseteq Steps \ {"idle"}
ASSUME OutagesAssumption == Outages \subseteq {"upstream", "no-token"}
ASSUME BootAssumption == TargetAtBoot \in BOOLEAN
ASSUME EventsAssumption == MaxEvents \in Nat

VARIABLES
  unit,      \* unit[i]: the service, "dead", "active" or "waiting" (auto-restart)
  box,       \* box[i]: how far the container of the current start has got
  marker,    \* marker[i]: the drain marker exists in the state directory
  link,      \* link[i]: the symlink in gh-runner.target.wants exists
  wants,     \* wants[i]: that symlink as systemd last loaded it
  url,       \* url[i]: the conf file sets RUNNER_URL
  secret,    \* secret[i]: the instance's podman secret exists
  upstream,  \* upstream[i]: engine and GitHub answer, the credential works
  since,     \* since[i]: jobs begun since the marker was written (history)
  ctl,       \* ctl[p]: the command process p is in the middle of
  clean,     \* clean[i]: the last command on i ran to its end, and no other
             \* beside it (history)
  events     \* how many bounded events have occurred

unitVars == <<unit, box>>
hostVars == <<url, secret, upstream>>
vars == <<unit, box, marker, link, wants, url, secret, upstream, since, ctl,
          clean, events>>

UnitStates == {"dead", "active", "waiting"}
BoxStates == {"none", "boot", "refused", "ready", "listening", "job", "done",
              "failed"}

CtlStates == [verb : {"none", "enable", "drain", "disable-now"},
              inst : Instances \cup {NoInstance},
              rest : SUBSET Instances,
              pc   : Steps,
              alone : BOOLEAN]     \* no other command beside it so far (history)

IdleCtl == [verb |-> "none", inst |-> NoInstance, rest |-> {}, pc |-> "idle",
            alone |-> FALSE]

Init ==
  /\ unit = [i \in Instances |-> "dead"]
  /\ box = [i \in Instances |-> "none"]
  /\ marker = [i \in Instances |-> FALSE]
  /\ link = [i \in Instances |-> FALSE]
  /\ wants = [i \in Instances |-> FALSE]
  /\ url = [i \in Instances |-> TRUE]
  /\ secret \in [Instances -> IF "no-token" \in Outages THEN BOOLEAN ELSE {TRUE}]
  /\ upstream = [i \in Instances |-> TRUE]
  /\ since = [i \in Instances |-> 0]
  /\ ctl = [p \in Ctls |-> IdleCtl]
  /\ clean = [i \in Instances |-> TRUE]
  /\ events = 0

Event(v) ==
  /\ v \in Verbs
  /\ events < MaxEvents
  /\ events' = events + 1

-----------------------------------------------------------------------------
(* The service manager: what its jobs do to a set of services.             *)

\* Stop the services in S.  A running container, and its job, dies.
Halt(S) ==
  /\ unit' = [i \in Instances |-> IF i \in S THEN "dead" ELSE unit[i]]
  /\ box' = [i \in Instances |-> IF i \in S THEN "none" ELSE box[i]]

\* Start the services in S afresh, over whatever they were doing.
Launch(S) ==
  /\ unit' = [i \in Instances |-> IF i \in S THEN "active" ELSE unit[i]]
  /\ box' = [i \in Instances |-> IF i \in S THEN "none" ELSE box[i]]

\* `systemctl start`: nothing happens to a service that is already active.
StartIfNeeded(S) == Launch({i \in S : unit[i] # "active"})

\* `systemctl daemon-reload`: the links on disk become the loaded ones.
DaemonReload == wants' = link

-----------------------------------------------------------------------------
(* The container of one start: podman run, then entrypoint.sh, then run.sh *)

CreateContainerStartLimit(i) ==   \* mutant: the default start limit
  /\ unit[i] = "active" /\ box[i] = "none"
  /\ IF secret[i]
     THEN /\ box' = [box EXCEPT ![i] = IF url[i] THEN "boot" ELSE "failed"]
          /\ UNCHANGED unit
     ELSE /\ unit' = [unit EXCEPT ![i] = "dead"]
          /\ UNCHANGED box
  /\ UNCHANGED <<marker, link, wants, hostVars, since, ctl, clean, events>>

\* podman run.  Without the secret it fails and nothing is created; with it,
\* the environment is read once, and the entrypoint dies at its first lines
\* when RUNNER_URL is not in it.
CreateContainer(i) ==
  /\ unit[i] = "active" /\ box[i] = "none"
  /\ IF secret[i]
     THEN /\ box' = [box EXCEPT ![i] = IF url[i] THEN "boot" ELSE "failed"]
          /\ UNCHANGED unit
     ELSE /\ unit' = [unit EXCEPT ![i] = "waiting"]
          /\ UNCHANGED box
  /\ UNCHANGED <<marker, link, wants, hostVars, since, ctl, clean, events>>

CheckDrainIgnored(i) ==   \* mutant: no drain check in the entrypoint
  /\ box[i] = "boot"
  /\ box' = [box EXCEPT ![i] = "ready"]
  /\ UNCHANGED <<unit, marker, link, wants, hostVars, since, ctl, clean, events>>

CheckDrain(i) ==
  /\ box[i] = "boot"
  /\ box' = [box EXCEPT ![i] = IF marker[i] THEN "refused" ELSE "ready"]
  /\ UNCHANGED <<unit, marker, link, wants, hostVars, since, ctl, clean, events>>

\* Template sync, workspace, preflight, registration token, config.sh.
Prepare(i) ==
  /\ box[i] = "ready"
  /\ box' = [box EXCEPT ![i] = IF upstream[i] THEN "listening" ELSE "failed"]
  /\ UNCHANGED <<unit, marker, link, wants, hostVars, since, ctl, clean, events>>

\* GitHub hands the listener its one job.
TakeJob(i) ==
  /\ box[i] = "listening"
  /\ box' = [box EXCEPT ![i] = "job"]
  /\ since' = [since EXCEPT ![i] = IF marker[i] THEN @ + 1 ELSE @]
  /\ UNCHANGED <<unit, marker, link, wants, hostVars, ctl, clean, events>>

\* An outage ends a listener that has no job.
LoseListener(i) ==
  /\ box[i] = "listening" /\ ~upstream[i]
  /\ box' = [box EXCEPT ![i] = "failed"]
  /\ UNCHANGED <<unit, marker, link, wants, hostVars, since, ctl, clean, events>>

FinishJobStays(i) ==   \* mutant: configured without --ephemeral
  /\ box[i] = "job"
  /\ box' = [box EXCEPT ![i] = "listening"]
  /\ UNCHANGED <<unit, marker, link, wants, hostVars, since, ctl, clean, events>>

FinishJob(i) ==
  /\ box[i] = "job"
  /\ box' = [box EXCEPT ![i] = "done"]
  /\ UNCHANGED <<unit, marker, link, wants, hostVars, since, ctl, clean, events>>

ContainerExitAlways(i) ==   \* mutant: no RestartPreventExitStatus
  /\ box[i] \in {"refused", "done", "failed"}
  /\ unit' = [unit EXCEPT ![i] = "waiting"]
  /\ box' = [box EXCEPT ![i] = "none"]
  /\ UNCHANGED <<marker, link, wants, hostVars, since, ctl, clean, events>>

ContainerExitLeftover(i) ==   \* mutant: the container outlives its service
  /\ box[i] \in {"refused", "done", "failed"}
  /\ unit' = [unit EXCEPT ![i] = IF box[i] = "refused" THEN "dead" ELSE "waiting"]
  /\ UNCHANGED <<box, marker, link, wants, hostVars, since, ctl, clean, events>>

\* The container is gone and the service with it: status 78 keeps it down,
\* every other status, success included, leads to a restart.
ContainerExit(i) ==
  /\ box[i] \in {"refused", "done", "failed"}
  /\ unit' = [unit EXCEPT ![i] = IF box[i] = "refused" THEN "dead" ELSE "waiting"]
  /\ box' = [box EXCEPT ![i] = "none"]
  /\ UNCHANGED <<marker, link, wants, hostVars, since, ctl, clean, events>>

\* RestartSec has passed.  No start limit: it never gives up.
AutoRestart(i) ==
  /\ unit[i] = "waiting"
  /\ Launch({i})
  /\ UNCHANGED <<marker, link, wants, hostVars, since, ctl, clean, events>>

\* The container dies by itself: out of memory, `podman kill`.
KillContainer(i) ==
  /\ Event("kill")
  /\ box[i] # "none"
  /\ box' = [box EXCEPT ![i] = "none"]
  /\ unit' = [unit EXCEPT ![i] = "waiting"]
  /\ UNCHANGED <<marker, link, wants, hostVars, since, ctl, clean>>

-----------------------------------------------------------------------------
(* Commands that are one systemctl call.                                   *)

OperatorStart(i) ==
  /\ Event("start")
  /\ StartIfNeeded({i})
  /\ UNCHANGED <<marker, link, wants, hostVars, since, ctl, clean>>

OperatorStop(i) ==
  /\ Event("stop")
  /\ Halt({i})
  /\ UNCHANGED <<marker, link, wants, hostVars, since, ctl, clean>>

OperatorRestart(i) ==
  /\ Event("restart")
  /\ Launch({i})
  /\ UNCHANGED <<marker, link, wants, hostVars, since, ctl, clean>>

\* Starting the target pulls in the services it wants, as systemd loaded them.
StartTarget ==
  /\ Event("target")
  /\ StartIfNeeded({i \in Instances : wants[i]})
  /\ UNCHANGED <<marker, link, wants, hostVars, since, ctl, clean>>

\* Stopping it reaches every service that is PartOf it, linked or not.
StopTarget ==
  /\ Event("target")
  /\ Halt(Instances)
  /\ UNCHANGED <<marker, link, wants, hostVars, since, ctl, clean>>

\* Restarting it restarts what runs and starts what is wanted.
RestartTarget ==
  /\ Event("target")
  /\ Launch({i \in Instances : unit[i] # "dead" \/ wants[i]})
  /\ UNCHANGED <<marker, link, wants, hostVars, since, ctl, clean>>

\* Files and podman secrets survive; processes do not.  The user manager
\* comes back with the links on disk, and starts them only with the target.
Reboot ==
  /\ Event("reboot")
  /\ unit' = [i \in Instances |->
                IF TargetAtBoot /\ link[i] THEN "active" ELSE "dead"]
  /\ box' = [i \in Instances |-> "none"]
  /\ DaemonReload
  /\ ctl' = [p \in Ctls |-> IdleCtl]
  /\ clean' = [i \in Instances |-> clean[i] /\ \A p \in Ctls : ctl[p].inst # i]
  /\ UNCHANGED <<marker, link, hostVars, since>>

-----------------------------------------------------------------------------
(* Commands that are several calls, one action per call.                   *)

At(p, pc) == ctl[p].pc = pc

Goto(p, pc) ==
  ctl' = [ctl EXCEPT ![p] = IF pc = "idle" THEN IdleCtl ELSE [@ EXCEPT !.pc = pc]]

\* Process p begins a command; no process that is under way is alone any more.
Begin(p, verb, i, S, pc) ==
  ctl' = [q \in Ctls |->
    IF q = p THEN [verb |-> verb, inst |-> i, rest |-> S, pc |-> pc,
                   alone |-> \A r \in Ctls \ {p} : At(r, "idle")]
             ELSE [ctl[q] EXCEPT !.alone = FALSE]]

IssueEnable(p, i) ==
  /\ At(p, "idle")
  /\ Event("enable")
  /\ Begin(p, "enable", i, {}, "check")
  /\ UNCHANGED <<unitVars, marker, link, wants, hostVars, since, clean>>

\* `disable <id>` or `disable --all`, draining or, with --now, stopping.
IssueDisable(p, S, v) ==
  /\ At(p, "idle")
  /\ Event(v)
  /\ Begin(p, v, NoInstance, S, "next")
  /\ UNCHANGED <<unitVars, marker, link, wants, hostVars, since, clean>>

\* The conf is loaded; no RUNNER_URL is an error.
EnableCheck(p) ==
  /\ At(p, "check")
  /\ Goto(p, IF url[ctl[p].inst] THEN "secret" ELSE "idle")
  /\ UNCHANGED <<unitVars, marker, link, wants, hostVars, since, clean, events>>

\* The podman secret is created from the credential file if it is not there.
EnableSecret(p) ==
  /\ At(p, "secret")
  /\ secret' = [secret EXCEPT ![ctl[p].inst] = TRUE]
  /\ Goto(p, "clear")
  /\ UNCHANGED <<unitVars, marker, link, wants, url, upstream, since, clean, events>>

EnableClearSkipped(p) ==   \* mutant: `enable` forgets the marker
  /\ At(p, "clear")
  /\ Goto(p, "dropin")
  /\ UNCHANGED <<unitVars, marker, link, wants, hostVars, since, clean, events>>

\* podman.socket and the state directory are ensured, the marker removed.
EnableClear(p) ==
  /\ At(p, "clear")
  /\ marker' = [marker EXCEPT ![ctl[p].inst] = FALSE]
  /\ Goto(p, "dropin")
  /\ UNCHANGED <<unitVars, link, wants, hostVars, since, clean, events>>

EnableDropin(p) ==
  /\ At(p, "dropin")
  /\ DaemonReload
  /\ Goto(p, "relink")
  /\ UNCHANGED <<unitVars, marker, link, hostVars, since, clean, events>>

\* An existing link is removed before the new one is made.
EnableRelink(p) ==
  /\ At(p, "relink")
  /\ link' = [link EXCEPT ![ctl[p].inst] = FALSE]
  /\ Goto(p, "symlink")
  /\ UNCHANGED <<unitVars, marker, wants, hostVars, since, clean, events>>

EnableSymlink(p) ==
  /\ At(p, "symlink")
  /\ link' = [link EXCEPT ![ctl[p].inst] = TRUE]
  /\ Goto(p, "reload")
  /\ UNCHANGED <<unitVars, marker, wants, hostVars, since, clean, events>>

\* The command is done with its instance: was it alone all the time?
Completed(p) ==
  clean' = [i \in Instances |-> IF i = ctl[p].inst THEN ctl[p].alone ELSE clean[i]]

EnableStart(p) ==
  /\ At(p, "start")
  /\ StartIfNeeded({ctl[p].inst})
  /\ Completed(p)
  /\ Goto(p, "idle")
  /\ UNCHANGED <<marker, link, wants, hostVars, since, events>>

\* The next instance of a `disable`, or its end.
DisableNext(p) ==
  /\ At(p, "next")
  /\ IF ctl[p].rest = {}
     THEN Goto(p, "idle")
     ELSE \E i \in ctl[p].rest :
            ctl' = [ctl EXCEPT ![p] =
              [ctl[p] EXCEPT !.inst = i, !.rest = ctl[p].rest \ {i},
                        !.pc = IF ctl[p].verb = "drain" THEN "mark" ELSE "unlink"]]
  /\ Completed(p)
  /\ UNCHANGED <<unitVars, marker, link, wants, hostVars, since, events>>

\* A marker that exists is left alone: the drain it asks for goes on.
DrainMark(p) ==
  LET i == ctl[p].inst IN
  /\ At(p, "mark")
  /\ marker' = [marker EXCEPT ![i] = TRUE]
  /\ since' = [since EXCEPT ![i] = IF marker[i] THEN @ ELSE 0]
  /\ Goto(p, "unlink")
  /\ UNCHANGED <<unitVars, link, wants, hostVars, clean, events>>

\* What a command does once its link is settled and loaded.
AfterReload(verb) ==
  CASE verb = "enable"      -> "start"
    [] verb = "disable-now" -> "stop"
    [] OTHER                -> "next"

DisableUnlinkOnly(p) ==   \* mutant: `disable` without its daemon-reload
  /\ At(p, "unlink")
  /\ link' = [link EXCEPT ![ctl[p].inst] = FALSE]
  /\ Goto(p, AfterReload(ctl[p].verb))
  /\ UNCHANGED <<unitVars, marker, wants, hostVars, since, clean, events>>

\* Only a link that was there is worth a daemon-reload.
DisableUnlink(p) ==
  LET i == ctl[p].inst IN
  /\ At(p, "unlink")
  /\ link' = [link EXCEPT ![i] = FALSE]
  /\ Goto(p, IF link[i] THEN "reload" ELSE AfterReload(ctl[p].verb))
  /\ UNCHANGED <<unitVars, marker, wants, hostVars, since, clean, events>>

Reload(p) ==
  /\ At(p, "reload")
  /\ DaemonReload
  /\ Goto(p, AfterReload(ctl[p].verb))
  /\ UNCHANGED <<unitVars, marker, link, hostVars, since, clean, events>>

DisableStop(p) ==
  /\ At(p, "stop")
  /\ Halt({ctl[p].inst})
  /\ Goto(p, "next")
  /\ UNCHANGED <<marker, link, wants, hostVars, since, clean, events>>

\* The next call raises, or the operator interrupts the command before it.
CtlFail(p) ==
  /\ ctl[p].pc \in MayFail
  /\ clean' = [i \in Instances |-> clean[i] /\ i # ctl[p].inst]
  /\ Goto(p, "idle")
  /\ UNCHANGED <<unitVars, marker, link, wants, hostVars, since, events>>

-----------------------------------------------------------------------------
(* What the instance depends on comes and goes.                            *)

\* The operator edits RUNNER_URL out of the conf file, or back in.
EditUrl(i) ==
  /\ Event("edit")
  /\ url' = [url EXCEPT ![i] = ~@]
  /\ UNCHANGED <<unitVars, marker, link, wants, secret, upstream, since, ctl, clean>>

\* The secret is dropped or loaded: `podman secret`, or another ctl command.
SecretChanges(i) ==
  /\ Event("secret")
  /\ secret' = [secret EXCEPT ![i] = ~@]
  /\ UNCHANGED <<unitVars, marker, link, wants, url, upstream, since, ctl, clean>>

UpstreamChanges(i) ==
  /\ "upstream" \in Outages
  /\ upstream' = [upstream EXCEPT ![i] = ~@]
  /\ UNCHANGED <<unitVars, marker, link, wants, url, secret, since, ctl, clean, events>>

-----------------------------------------------------------------------------
ContainerNext(i) ==
  \/ CreateContainer(i) \/ CheckDrain(i) \/ Prepare(i) \/ TakeJob(i)
  \/ LoseListener(i) \/ FinishJob(i) \/ ContainerExit(i) \/ AutoRestart(i)
  \/ KillContainer(i)

OperatorNext(i) ==
  \/ OperatorStart(i) \/ OperatorStop(i) \/ OperatorRestart(i)

EnvironmentNext(i) == EditUrl(i) \/ SecretChanges(i) \/ UpstreamChanges(i)

TargetNext == StartTarget \/ StopTarget \/ RestartTarget \/ Reboot

Issue(p) ==
  \/ \E i \in Instances : IssueEnable(p, i)
  \/ \E v \in {"drain", "disable-now"} :
       \/ \E i \in Instances : IssueDisable(p, {i}, v)
       \/ IssueDisable(p, Instances, v)

CtlStep(p) ==
  \/ EnableCheck(p) \/ EnableSecret(p) \/ EnableClear(p) \/ EnableDropin(p)
  \/ EnableRelink(p) \/ EnableSymlink(p) \/ EnableStart(p)
  \/ DisableNext(p) \/ DrainMark(p) \/ DisableUnlink(p) \/ Reload(p)
  \/ DisableStop(p)

Next ==
  \/ \E i \in Instances :
       ContainerNext(i) \/ OperatorNext(i) \/ EnvironmentNext(i)
  \/ TargetNext
  \/ \E p \in Ctls : Issue(p) \/ CtlStep(p) \/ CtlFail(p)

Spec == Init /\ [][Next]_vars

(***************************************************************************)
(* The service manager restarts what it must, a started container runs on, *)
(* a job ends (GitHub times jobs out), and a ctl process that is not       *)
(* interrupted finishes its calls.  Nothing makes GitHub send a job, an    *)
(* operator issue a command, or an outage end.                             *)
(***************************************************************************)
Fairness ==
  /\ \A i \in Instances :
       /\ WF_vars(CreateContainer(i))
       /\ WF_vars(CheckDrain(i))
       /\ WF_vars(Prepare(i))
       /\ WF_vars(FinishJob(i))
       /\ WF_vars(ContainerExit(i))
       /\ WF_vars(AutoRestart(i))
  /\ \A p \in Ctls : WF_vars(CtlStep(p))

FairSpec == Spec /\ Fairness

\* The repository has work: a listener is eventually given a job.
BusySpec == FairSpec /\ \A i \in Instances : WF_vars(TakeJob(i))

-----------------------------------------------------------------------------
(* Properties                                                              *)

\* Every variable keeps its kind of value, and only an active unit has a
\* container: systemd's view of the service and podman's of the container agree
\* (ExecStart runs in the foreground, ExecStop removes).
TypeOK ==
  /\ unit \in [Instances -> UnitStates]
  /\ box \in [Instances -> BoxStates]
  /\ \A i \in Instances : unit[i] # "active" => box[i] = "none"
  /\ marker \in [Instances -> BOOLEAN]
  /\ link \in [Instances -> BOOLEAN]
  /\ wants \in [Instances -> BOOLEAN]
  /\ url \in [Instances -> BOOLEAN]
  /\ secret \in [Instances -> BOOLEAN]
  /\ upstream \in [Instances -> BOOLEAN]
  /\ since \in [Instances -> Nat]
  /\ ctl \in [Ctls -> CtlStates]
  /\ \A p \in Ctls : ctl[p].pc \notin {"idle", "next"} => ctl[p].inst \in Instances
  /\ clean \in [Instances -> BOOLEAN]
  /\ events \in 0 .. MaxEvents

\* However the marker gets there while containers start, wait, work and are
\* killed, and whatever is started or restarted afterwards, an instance begins
\* at most one more job until the marker is removed: the drain check in
\* entrypoint.sh and the ephemeral runner see to it together.
DrainBudget == \A i \in Instances : marker[i] => since[i] <= 1

\* Why: a container past its drain check while the instance drains has begun
\* no job since the marker was written, and the next one will not get past it.
DrainInv ==
  \A i \in Instances :
    marker[i] => /\ since[i] <= 1
                 /\ box[i] \in {"ready", "listening"} => since[i] = 0

\* The same as an implementation: the drain marker and the position of the
\* container make up the gate of the contract.
gate == [i \in Instances |->
           IF ~marker[i] THEN "open"
           ELSE IF box[i] \in {"ready", "listening"} THEN "last" ELSE "shut"]
working == [i \in Instances |-> box[i] = "job"]

Contract == INSTANCE DrainContract
  WITH Instances <- Instances, gate <- gate, working <- working

\* Every behaviour of services, containers and commands keeps the promise
\* `disable` makes about jobs.
DrainHonoured == Contract!ContractSpec

\* What systemd has loaded differs from the links on disk only while some ctl
\* process is between its change and its daemon-reload (units.enable and
\* units.disable), so `start` without an id acts on the enabled instances.
WantsSettled ==
  \A i \in Instances :
    wants[i] # link[i] => \E p \in Ctls : ctl[p].pc \in {"symlink", "reload"}

\* Whatever commands overlapped or were cut short before, one that runs to its
\* end with no other beside it leaves its instance either enabled or draining:
\* `enable` removes the marker before it links, `disable` marks before it
\* unlinks, and neither is undone by what comes after it in the other.
OneIntent ==
  (\A p \in Ctls : ctl[p].pc = "idle") =>
    \A i \in Instances : clean[i] => ~(marker[i] /\ link[i])

EnableSteps == {"check", "secret", "clear", "dropin", "relink", "symlink", "start"}
DisableSteps == {"next", "mark", "unlink", "stop"}

\* A process is where its command can be, and an idle one holds nothing.
Purposeful(p) ==
  /\ ctl[p].pc = "idle" => ctl[p].inst = NoInstance /\ ~ctl[p].alone
  /\ ctl[p].pc \in EnableSteps => ctl[p].verb = "enable"
  /\ ctl[p].pc \in DisableSteps => ctl[p].verb # "enable"

\* With no other command beside it, what a command has done stays done.
Undisturbed(p) ==
  /\ \A q \in Ctls \ {p} : ctl[q].pc = "idle"
  /\ ctl[p].verb = "enable" /\ ctl[p].pc \notin {"check", "secret", "clear"} =>
       ~marker[ctl[p].inst]
  /\ /\ ctl[p].verb # "enable" /\ ctl[p].pc \in {"reload", "stop", "next"}
     /\ ctl[p].inst \in Instances
     => ~link[ctl[p].inst]

\* Why: an instance found both marked and linked has a command at work on it
\* that will clear `clean` if it is cut short or had company, and otherwise has
\* already done the one of its two changes that must come last.
IntentInv ==
  /\ \A i \in Instances :
       clean[i] /\ marker[i] /\ link[i] =>
         \E p \in Ctls : ctl[p].inst = i /\ ctl[p].pc # "check"
  /\ \A p \in Ctls : Purposeful(p) /\ (ctl[p].alone => Undisturbed(p))

\* A drained instance comes to rest, unless the drain is taken back, or the
\* container can not start because its secret or its RUNNER_URL is gone: the
\* entrypoint's drain check then never runs, and the service restarts for ever.
DrainStops ==
  \A i \in Instances :
    marker[i] ~> (unit[i] = "dead" \/ ~marker[i] \/ ~secret[i] \/ ~url[i])

\* How many steps of its own a draining instance is from its rest, at most.
Ahead(i) ==
  CASE unit[i] = "dead"    -> 0
    [] unit[i] = "waiting" -> 4
    [] OTHER -> [ready |-> 8, listening |-> 7, job |-> 6, done |-> 5, failed |-> 5,
                 none |-> 3, boot |-> 2, refused |-> 1][box[i]]

\* Why: with its secret and its RUNNER_URL there, whatever happens to a draining
\* instance by itself brings it nearer, be it in the middle of a job or about to
\* be restarted; only an operator, a kill, a reboot or the `start` of an `enable`
\* sets it back.
DrainAdvances ==
  [][\A i \in Instances :
       /\ marker[i] /\ secret[i] /\ url[i]
       /\ events' = events /\ ~\E p \in Ctls : EnableStart(p)
       => UNCHANGED <<unit[i], box[i]>> \/ Ahead(i)' < Ahead(i)]_vars

\* However long the secret, RUNNER_URL or GitHub was missing, an enabled
\* instance that is not drained is listening again after it is all back: there
\* is no start limit that leaves it failed.
Recovers ==
  \A i \in Instances :
    ([]~marker[i] /\ <>[](secret[i] /\ url[i] /\ upstream[i] /\ link[i])) =>
      []<>(box[i] \in {"listening", "job"})

\* An instance that is enabled and not draining gets to wait for jobs: "Remove
\* this file, or run `gh-runner-ctl enable`, to resume" (drain.py).
EnabledRuns ==
  \A i \in Instances :
    (link[i] /\ ~marker[i]) ~>
      (box[i] \in {"listening", "job"} \/ ~link[i] \/ marker[i])

=============================================================================
