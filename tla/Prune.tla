-------------------------------- MODULE Prune --------------------------------
(***************************************************************************)
(* gh-runner-prune: reaping what jobs leave behind in the podman store     *)
(* they share with every other job of the host.                            *)
(*                                                                         *)
(* A pass takes its listings first and removes by name afterwards, with    *)
(* force, while jobs create, start, stop and remove the same objects.  It  *)
(* is run by a timer and by operators, so passes may overlap.              *)
(***************************************************************************)
EXTENDS Naturals

CONSTANTS
  Jobs,          \* jobs; each may create one network
  Containers,    \* containers the docker shim created, hence labelled
  Builders,      \* buildkitd containers, known by their name alone
  Others,        \* containers with neither label nor buildx name
  Undated,       \* jobs whose network podman lists without a date one can parse
  NoJob,         \* the owner of what no job created
  Pruners,       \* gh-runner-prune processes
  MaxTroubles    \* bound on reboots of the host and on what podman refuses

ASSUME DisjointAssumption ==
  /\ Containers \cap Builders = {} /\ Containers \cap Others = {}
  /\ Builders \cap Others = {} /\ NoJob \notin Jobs
ASSUME UndatedAssumption == Undated \subseteq Jobs
ASSUME TroublesAssumption == MaxTroubles \in Nat

All == Containers \cup Builders \cup Others

VARIABLES
  job,       \* job[j]: "none", its age while it runs, "over"
  st,        \* st[c]: the container, as podman reports it
  age,       \* age[c]: since it was created
  owner,     \* owner[c]: the job that created it
  on,        \* on[c]: it is attached to its job's network
  net,       \* net[j]: the job's network, "none", its age, "removed"
  cache,     \* cache[b]: the builder's state volume exists
  pass,      \* pass[p]: where pruner p is, and its listings
  troubles   \* how often the host was rebooted, or podman refused the pruner
             \* to remove or to list something

jobVars == <<job, owner, on>>
vars == <<jobVars, st, age, net, cache, pass, troubles>>

States == {"none", "created", "running", "exited", "removed"}
Ages == {"young", "old"}    \* --max-age ago, or longer: "old"
Absent == {"none", "removed"}

Passes ==
  [pc : {"idle", "networks", "reap", "builders"}, containers : SUBSET Containers,
   networks : SUBSET Jobs, builders : SUBSET Builders,
   due : SUBSET Jobs]      \* whose leftovers were due when it began, without
                           \* those podman refused it some of (history)
IdlePass == [pc |-> "idle", containers |-> {}, networks |-> {}, builders |-> {},
             due |-> {}]

Init ==
  /\ job = [j \in Jobs |-> "none"]
  /\ st = [c \in All |-> IF c \in Others THEN "running" ELSE "none"]
  /\ age = [c \in Containers |-> "young"]
  /\ owner = [c \in Containers |-> NoJob]
  /\ on = [c \in Containers |-> FALSE]
  /\ net = [j \in Jobs |-> "none"]
  /\ cache = [b \in Builders |-> FALSE]
  /\ pass = [p \in Pruners |-> IdlePass]
  /\ troubles = 0

-----------------------------------------------------------------------------
(* What jobs do.                                                           *)

Running(j) == job[j] \in Ages

StartJob(j) ==
  /\ job[j] = "none"
  /\ job' = [job EXCEPT ![j] = "young"]
  /\ UNCHANGED <<st, age, owner, on, net, cache, pass, troubles>>

\* A job ends with or without having cleaned up: its runner may be killed.
EndJob(j) ==
  /\ Running(j)
  /\ job' = [job EXCEPT ![j] = "over"]
  /\ UNCHANGED <<st, age, owner, on, net, cache, pass, troubles>>

\* Its name is not used again.
CreateNetwork(j) ==
  /\ Running(j) /\ net[j] = "none"
  /\ net' = [net EXCEPT ![j] = "young"]
  /\ UNCHANGED <<jobVars, st, age, cache, pass, troubles>>

\* A container is made for a job, on its network if there is one.
CreateContainer(c, j) ==
  /\ Running(j) /\ st[c] = "none"
  /\ st' = [st EXCEPT ![c] = "created"]
  /\ owner' = [owner EXCEPT ![c] = j]
  /\ on' = [on EXCEPT ![c] = net[j] \in Ages]
  /\ UNCHANGED <<job, age, net, cache, pass, troubles>>

InUse(c) == owner[c] \in Jobs /\ Running(owner[c])

\* One that has exited may be started again.
StartContainer(c) ==
  /\ st[c] \in {"created", "exited"} /\ InUse(c)
  /\ st' = [st EXCEPT ![c] = "running"]
  /\ UNCHANGED <<jobVars, age, net, cache, pass, troubles>>

StopContainer(c) ==
  /\ st[c] = "running"
  /\ st' = [st EXCEPT ![c] = "exited"]
  /\ UNCHANGED <<jobVars, age, net, cache, pass, troubles>>

\* The job's own cleanup, of a container and of a network nothing is on.
RemoveContainer(c) ==
  /\ st[c] \notin Absent /\ InUse(c)
  /\ st' = [st EXCEPT ![c] = "removed"]
  /\ UNCHANGED <<jobVars, age, net, cache, pass, troubles>>

Attached(j) == {c \in Containers : owner[c] = j /\ on[c] /\ st[c] \notin Absent}

RemoveNetwork(j) ==
  /\ Running(j) /\ net[j] \in Ages /\ Attached(j) = {}
  /\ net' = [net EXCEPT ![j] = "removed"]
  /\ UNCHANGED <<jobVars, st, age, cache, pass, troubles>>

-----------------------------------------------------------------------------
(* Builders and everything else.                                           *)

\* A builder is created, or started again under its old name.
BootBuilder(b) ==
  /\ st[b] # "running"
  /\ st' = [st EXCEPT ![b] = "running"]
  /\ cache' = [cache EXCEPT ![b] = TRUE]
  /\ UNCHANGED <<jobVars, age, net, pass, troubles>>

\* `buildx rm`, which takes the cache along.
RemoveBuilder(b) ==
  /\ st[b] # "none"
  /\ st' = [st EXCEPT ![b] = "none"]
  /\ cache' = [cache EXCEPT ![b] = FALSE]
  /\ UNCHANGED <<jobVars, age, net, pass, troubles>>

StartOther(c) ==
  /\ st[c] = "exited"
  /\ st' = [st EXCEPT ![c] = "running"]
  /\ UNCHANGED <<jobVars, age, net, cache, pass, troubles>>

Trouble == troubles < MaxTroubles /\ troubles' = troubles + 1

\* The host goes down: containers stop, jobs and passes end.
Reboot ==
  /\ Trouble
  /\ st' = [c \in All |-> IF st[c] = "running" THEN "exited" ELSE st[c]]
  /\ job' = [j \in Jobs |-> IF Running(j) THEN "over" ELSE job[j]]
  /\ pass' = [p \in Pruners |-> IdlePass]
  /\ UNCHANGED <<age, owner, on, net, cache>>

\* --max-age passes.
Tick ==
  /\ age' = [c \in Containers |-> IF st[c] \in Absent THEN "young" ELSE "old"]
  /\ net' = [j \in Jobs |-> IF net[j] \in Ages THEN "old" ELSE net[j]]
  /\ job' = [j \in Jobs |-> IF Running(j) THEN "old" ELSE job[j]]
  /\ UNCHANGED <<owner, on, st, cache, pass, troubles>>

-----------------------------------------------------------------------------
(* One pass of the pruner.                                                 *)
(*                                                                         *)
(* Once it removes, the pass looks at no exit status but that of `podman   *)
(* volume rm`: what podman refuses to remove stays, and the pass goes on   *)
(* to the next.                                                            *)

At(p, pc) == pass[p].pc = pc

StaleAnyAge ==   \* mutant: no age floor
  {c \in Containers : st[c] = "exited"}

StaleUnlabelled ==   \* mutant: exclusion instead of positive selection
  {c \in All \ Builders : st[c] = "exited" /\ (c \in Containers => age[c] = "old")}

\* Labelled, not running, created or paused, and old enough since creation.
StaleContainers == {c \in Containers : st[c] = "exited" /\ age[c] = "old"}

\* A network of no known age is taken for an old one, a container is not.
OldEnough(j) == net[j] = "old" \/ (net[j] = "young" /\ j \in Undated)

StaleWhenIdle ==   \* mutant: idle-gated
  {j \in Jobs : OldEnough(j) /\ \A k \in Jobs : ~Running(k)}

\* Labelled and old enough: what is attached is not asked.
StaleNetworks == {j \in Jobs : OldEnough(j)}

\* Jobs that are over, with all they have left behind old enough: a container
\* that is not stopped, or not old, goes with its network.
Due == {j \in Jobs :
          /\ job[j] = "over" /\ net[j] # "young"
          /\ \A c \in Containers :
               owner[c] = j /\ st[c] \notin Absent =>
                 (st[c] = "exited" /\ age[c] = "old") \/ (on[c] /\ net[j] = "old")}

\* Stopped, and of no age in particular.
StoppedBuilders == {b \in Builders : st[b] = "exited"}

ListContainers(p) ==
  /\ At(p, "idle")
  /\ pass' = [pass EXCEPT ![p].pc = "networks", ![p].containers = StaleContainers,
                          ![p].due = Due]
  /\ UNCHANGED <<jobVars, st, age, net, cache, troubles>>

ListNetworks(p) ==
  /\ At(p, "networks")
  /\ pass' = [pass EXCEPT ![p].pc = "reap", ![p].networks = StaleNetworks]
  /\ UNCHANGED <<jobVars, st, age, net, cache, troubles>>

\* Podman could not be understood: the pass is over.
ListingFails(p) ==
  /\ pass[p].pc \in {"idle", "networks"}
  /\ pass' = [pass EXCEPT ![p] = IdlePass]
  /\ UNCHANGED <<jobVars, st, age, net, cache, troubles>>

\* `podman rm -f`, whatever the container is doing by now.
ReapContainer(p) ==
  /\ At(p, "reap")
  /\ \E c \in pass[p].containers :
       /\ st' = [st EXCEPT ![c] = IF @ = "none" THEN @ ELSE "removed"]
       /\ pass' = [pass EXCEPT ![p].containers = @ \ {c}]
  /\ UNCHANGED <<jobVars, age, net, cache, troubles>>

ContainerStays(p) ==
  /\ At(p, "reap") /\ Trouble
  /\ \E c \in pass[p].containers :
       pass' = [pass EXCEPT ![p].containers = @ \ {c}, ![p].due = @ \ {owner[c]}]
  /\ UNCHANGED <<jobVars, st, age, net, cache>>

ReapNetworkUnforced(p) ==   \* mutant: `network rm` without -f
  /\ At(p, "reap") /\ pass[p].containers = {}
  /\ \E j \in pass[p].networks :
       /\ net' = IF Attached(j) = {} THEN [net EXCEPT ![j] = "removed"] ELSE net
       /\ pass' = [pass EXCEPT ![p].networks = @ \ {j}]
  /\ UNCHANGED <<jobVars, st, age, cache, troubles>>

\* `podman network rm -f`: the containers on the network go with it.
ReapNetwork(p) ==
  /\ At(p, "reap") /\ pass[p].containers = {}
  /\ \E j \in pass[p].networks :
       /\ net' = [net EXCEPT ![j] = "removed"]
       /\ st' = [c \in All |-> IF net[j] \in Ages /\ c \in Attached(j)
                             THEN "removed" ELSE st[c]]
       /\ pass' = [pass EXCEPT ![p].networks = @ \ {j}]
  /\ UNCHANGED <<jobVars, age, cache, troubles>>

\* Some of the containers may have gone when podman gives up.
NetworkStays(p) ==
  /\ At(p, "reap") /\ pass[p].containers = {} /\ Trouble
  /\ \E j \in pass[p].networks :
       /\ \E taken \in SUBSET Attached(j) :
            st' = [c \in All |-> IF net[j] \in Ages /\ c \in taken
                                  THEN "removed" ELSE st[c]]
       /\ pass' = [pass EXCEPT ![p].networks = @ \ {j}, ![p].due = @ \ {j}]
  /\ UNCHANGED <<jobVars, age, net, cache>>

\* Builders are listed only now.
ListBuilders(p) ==
  /\ At(p, "reap") /\ pass[p].containers = {} /\ pass[p].networks = {}
  /\ pass' = [pass EXCEPT ![p].pc = "builders", ![p].builders = StoppedBuilders]
  /\ UNCHANGED <<jobVars, st, age, net, cache, troubles>>

\* A listing that fails is taken for an empty one here.
BuildersUnlisted(p) ==
  /\ At(p, "reap") /\ pass[p].containers = {} /\ pass[p].networks = {} /\ Trouble
  /\ pass' = [pass EXCEPT ![p].pc = "builders", ![p].builders = {}]
  /\ UNCHANGED <<jobVars, st, age, net, cache>>

ReapBuilder(p) ==
  /\ At(p, "builders")
  /\ \E b \in pass[p].builders :
       /\ st' = [st EXCEPT ![b] = "none"]
       /\ pass' = [pass EXCEPT ![p].builders = @ \ {b}]
  /\ UNCHANGED <<jobVars, age, net, cache, troubles>>

BuilderStays(p) ==
  /\ At(p, "builders") /\ Trouble
  /\ \E b \in pass[p].builders : pass' = [pass EXCEPT ![p].builders = @ \ {b}]
  /\ UNCHANGED <<jobVars, st, age, net, cache>>

\* After the containers: every buildx volume is tried, and podman refuses those that
\* a container, running or not, still has, and may refuse others or not list them.
ReapCaches(p) ==
  /\ At(p, "builders") /\ pass[p].builders = {}
  /\ \E kept \in SUBSET Builders :
       /\ cache' = [b \in Builders |-> cache[b] /\ (st[b] # "none" \/ b \in kept)]
       /\ IF kept = {} THEN UNCHANGED troubles ELSE Trouble
  /\ pass' = [pass EXCEPT ![p] = IdlePass]
  /\ UNCHANGED <<jobVars, st, age, net>>

-----------------------------------------------------------------------------
JobNext ==
  \/ \E j \in Jobs :
       StartJob(j) \/ EndJob(j) \/ CreateNetwork(j) \/ RemoveNetwork(j)
  \/ \E c \in Containers :
       \/ \E j \in Jobs : CreateContainer(c, j)
       \/ StartContainer(c) \/ RemoveContainer(c)
  \/ \E c \in All : StopContainer(c)

HostNext ==
  \/ \E b \in Builders : BootBuilder(b) \/ RemoveBuilder(b)
  \/ \E c \in Others : StartOther(c)
  \/ Reboot
  \/ Tick

PassStep(p) ==
  \/ ListContainers(p) \/ ListNetworks(p) \/ ReapContainer(p) \/ ContainerStays(p)
  \/ ReapNetwork(p) \/ NetworkStays(p) \/ ListBuilders(p) \/ BuildersUnlisted(p)
  \/ ReapBuilder(p) \/ BuilderStays(p) \/ ReapCaches(p)

Next ==
  \/ JobNext
  \/ HostNext
  \/ \E p \in Pruners : PassStep(p) \/ ListingFails(p)

Spec == Init /\ [][Next]_vars

(***************************************************************************)
(* Time passes, the timer starts a pass again and again and a pass goes    *)
(* on, podman answers a listing now and then, and what it refuses is       *)
(* bounded (troubles).  No job has to end, and no container to stop.       *)
(***************************************************************************)
Fairness ==
  /\ WF_vars(Tick)
  /\ \A p \in Pruners : WF_vars(PassStep(p)) /\ SF_vars(ListNetworks(p))

FairSpec == Spec /\ Fairness

-----------------------------------------------------------------------------
(* Properties                                                              *)

\* Every variable keeps its kind of value: a pass lists labelled containers,
\* networks of jobs and builders, and nothing else.
TypeOK ==
  /\ job \in [Jobs -> Ages \cup {"none", "over"}]
  /\ st \in [All -> States]
  /\ age \in [Containers -> Ages]
  /\ owner \in [Containers -> Jobs \cup {NoJob}]
  /\ on \in [Containers -> BOOLEAN]
  /\ net \in [Jobs -> Ages \cup {"none", "removed"}]
  /\ cache \in [Builders -> BOOLEAN]
  /\ pass \in [Pruners -> Passes]
  /\ troubles \in 0 .. MaxTroubles

\* What a pass takes: a network, or a container with what it is doing.
Takes(j, c) == net'[j] # net[j] \/ (owner[c] = j /\ st'[c] # st[c])

\* A pass takes nothing of a job younger than --max-age whose network has a date,
\* neither between `create` and `start` nor later, however long ago it
\* made its listings and whatever another pass does; and nothing that carries
\* neither the label nor a builder's name (prune.py: positive selection, and the
\* age floor covers the creation race).
YoungJobsKept ==
  [][\A p \in Pruners : PassStep(p) =>
       /\ \A j \in Jobs, c \in Containers :
            job[j] = "young" /\ j \notin Undated => ~Takes(j, c)
       /\ \A c \in Others : st'[c] = st[c]]_vars

\* Why: a container that is there belongs to a job that has started, and neither
\* it nor its network is older than the job.
AgesInv ==
  /\ \A c \in Containers :
       /\ st[c] = "none" => owner[c] = NoJob /\ age[c] = "young"
       /\ st[c] \notin Absent => owner[c] \in Jobs
       /\ owner[c] \in Jobs => job[owner[c]] # "none"
       /\ st[c] \notin Absent /\ age[c] = "old" => job[owner[c]] # "young"
  /\ \A j \in Jobs :
       /\ net[j] \in Ages => job[j] # "none"
       /\ net[j] = "old" => job[j] # "young"

\* And what a pass has listed is as old as it was then, or gone for good.
ListedInv ==
  \A p \in Pruners :
    /\ \A c \in pass[p].containers :
         st[c] # "none" /\ (st[c] \notin Absent => age[c] = "old")
    /\ \A j \in pass[p].networks :
         net[j] # "none" /\ (net[j] = "young" => j \in Undated)

\* Nothing is left of this job.
Gone(j) ==
  /\ net[j] \notin Ages
  /\ \A c \in Containers : owner[c] = j => st[c] \in Absent

\* One pass is enough where podman lets it: one that gets to its end leaves nothing
\* of a job that was over, and whose leftovers were due, when it began, unless podman
\* refused it part of that very job's; whatever other jobs are doing and other passes
\* have listed, and whatever of other jobs podman refused (prune.py: "Age is
\* per-object and composes with concurrent jobs").
PassReaps ==
  [][\A p \in Pruners : ReapCaches(p) => \A j \in pass[p].due : Gone(j)]_vars

\* Why: what is due and not listed yet stays where it is, and nothing is added.
Awaited(P, j) ==
  /\ job[j] = "over"
  /\ net[j] \in Ages =>
       net[j] = "old" /\ (P.pc \in {"reap", "builders"} => j \in P.networks)
  /\ \A c \in Containers :
       owner[c] = j /\ st[c] \notin Absent =>
         c \in P.containers \/ (on[c] /\ net[j] = "old")
  /\ P.pc = "builders" => Gone(j)

DueInv == \A p \in Pruners : \A j \in pass[p].due : Awaited(pass[p], j)

\* The same of jobs of any age: what is still in use is no leftover.
OnlyLeftovers ==
  [][\A p \in Pruners : PassStep(p) =>
       \A j \in Jobs, c \in Containers : Running(j) => ~Takes(j, c)]_vars

\* What a job that is over has left behind goes away, however many other jobs
\* are running by then: its network, its stopped containers, a stopped builder
\* and the cache of one that is gone.  What podman has refused to one pass, or
\* not listed, a later one is given.
LeftoversReaped ==
  /\ \A j \in Jobs : (job[j] = "over" /\ net[j] \in Ages) ~> net[j] = "removed"
  /\ \A c \in Containers :
       (st[c] = "exited" /\ owner[c] \in Jobs /\ job[owner[c]] = "over")
         ~> st[c] = "removed"
  /\ \A b \in Builders :
       /\ st[b] = "exited" ~> st[b] # "exited"
       /\ (cache[b] /\ st[b] = "none") ~> (~cache[b] \/ st[b] # "none")

=============================================================================
