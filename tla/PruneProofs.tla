----------------------------- MODULE PruneProofs -----------------------------
(***************************************************************************)
(* Proofs about Prune, for any number of jobs, containers and passes.      *)
(*                                                                         *)
(* What a pass removes is what it listed some time ago.  The argument is   *)
(* that age only grows: AgesInv says that nothing is older than its job,   *)
(* ListedInv that what was listed as old is still old or gone, and both    *)
(* together that a removal cannot reach a young job.  DueInv follows what  *)
(* a pass is to take from its listings to its end.                         *)
(***************************************************************************)
EXTENDS Prune, TLAPS

USE DEF All, States, Ages, Absent, Trouble

LEMMA InitType == Init => TypeOK
  BY TroublesAssumption DEF Init, TypeOK, IdlePass, Passes

LEMMA JobType == TypeOK /\ JobNext => TypeOK'
<1> SUFFICES ASSUME TypeOK, JobNext PROVE TypeOK'
  OBVIOUS
<1>1. ASSUME NEW j \in Jobs,
             StartJob(j) \/ EndJob(j) \/ CreateNetwork(j) \/ RemoveNetwork(j)
      PROVE  TypeOK'
  BY <1>1 DEF TypeOK, StartJob, EndJob, CreateNetwork, RemoveNetwork, jobVars
<1>2. ASSUME NEW c \in Containers, NEW j \in Jobs, CreateContainer(c, j)
      PROVE  TypeOK'
  BY <1>2 DEF TypeOK, CreateContainer
<1>3. ASSUME NEW c \in Containers, StartContainer(c) \/ RemoveContainer(c)
      PROVE  TypeOK'
  BY <1>3 DEF TypeOK, StartContainer, RemoveContainer, jobVars
<1>4. ASSUME NEW c \in All, StopContainer(c)
      PROVE  TypeOK'
  BY <1>4 DEF TypeOK, StopContainer, jobVars
<1> QED BY <1>1, <1>2, <1>3, <1>4 DEF JobNext

LEMMA HostType == TypeOK /\ HostNext => TypeOK'
<1> SUFFICES ASSUME TypeOK, HostNext PROVE TypeOK'
  OBVIOUS
<1>1. ASSUME NEW b \in Builders, BootBuilder(b) \/ RemoveBuilder(b)
      PROVE  TypeOK'
  BY <1>1 DEF TypeOK, BootBuilder, RemoveBuilder, jobVars
<1>2. ASSUME NEW c \in Others, StartOther(c)
      PROVE  TypeOK'
  BY <1>2 DEF TypeOK, StartOther, jobVars
<1>3. CASE Reboot
  BY <1>3, TroublesAssumption DEF TypeOK, Reboot, IdlePass, Passes, Running
<1>4. CASE Tick
  BY <1>4 DEF TypeOK, Tick, Running
<1> QED BY <1>1, <1>2, <1>3, <1>4 DEF HostNext

\* Where a pass is and what it has listed stays of its kind.
LEMMA PassType ==
  ASSUME TypeOK, NEW p \in Pruners, NEW q \in Passes, pass' = [pass EXCEPT ![p] = q]
  PROVE  pass' \in [Pruners -> Passes]
  BY DEF TypeOK

LEMMA StepType == ASSUME TypeOK, NEW p \in Pruners, PassStep(p) \/ ListingFails(p)
                  PROVE  TypeOK'
<1> DEFINE P == pass[p]
<1>1. P \in Passes
  BY DEF TypeOK
<1>2. CASE ListContainers(p)
  <2>1. [P EXCEPT !.pc = "networks", !.containers = StaleContainers, !.due = Due]
          \in Passes
    BY <1>1 DEF Passes, StaleContainers, Due
  <2>2. pass' = [pass EXCEPT ![p] = [P EXCEPT !.pc = "networks",
                                              !.containers = StaleContainers,
                                              !.due = Due]]
    BY <1>2 DEF ListContainers, TypeOK
  <2> QED BY <1>2, <2>1, <2>2, PassType DEF ListContainers, TypeOK, jobVars
<1>3. CASE ListNetworks(p)
  <2>1. [P EXCEPT !.pc = "reap", !.networks = StaleNetworks] \in Passes
    BY <1>1 DEF Passes, StaleNetworks
  <2>2. pass' = [pass EXCEPT ![p] = [P EXCEPT !.pc = "reap",
                                              !.networks = StaleNetworks]]
    BY <1>3 DEF ListNetworks, TypeOK
  <2> QED BY <1>3, <2>1, <2>2, PassType DEF ListNetworks, TypeOK, jobVars
<1>4. CASE ListingFails(p)
  BY <1>4 DEF ListingFails, TypeOK, IdlePass, Passes, jobVars
<1>5. CASE ReapContainer(p)
  <2>1. PICK c \in P.containers :
          /\ st' = [st EXCEPT ![c] = IF @ = "none" THEN @ ELSE "removed"]
          /\ pass' = [pass EXCEPT ![p].containers = @ \ {c}]
    BY <1>5 DEF ReapContainer
  <2>2. [P EXCEPT !.containers = @ \ {c}] \in Passes
    BY <1>1 DEF Passes
  <2>3. pass' = [pass EXCEPT ![p] = [P EXCEPT !.containers = @ \ {c}]]
    BY <2>1 DEF TypeOK
  <2>4. c \in Containers
    BY <1>1 DEF Passes
  <2> QED BY <1>5, <2>1, <2>2, <2>3, <2>4, PassType DEF ReapContainer, TypeOK, jobVars
<1>6. CASE ReapNetwork(p)
  <2>1. PICK j \in P.networks :
          /\ net' = [net EXCEPT ![j] = "removed"]
          /\ st' = [c \in All |-> IF net[j] \in Ages /\ c \in Attached(j)
                                THEN "removed" ELSE st[c]]
          /\ pass' = [pass EXCEPT ![p].networks = @ \ {j}]
    BY <1>6 DEF ReapNetwork
  <2>2. [P EXCEPT !.networks = @ \ {j}] \in Passes
    BY <1>1 DEF Passes
  <2>3. pass' = [pass EXCEPT ![p] = [P EXCEPT !.networks = @ \ {j}]]
    BY <2>1 DEF TypeOK
  <2>4. j \in Jobs
    BY <1>1 DEF Passes
  <2> QED BY <1>6, <2>1, <2>2, <2>3, <2>4, PassType DEF ReapNetwork, TypeOK, jobVars
<1>a. CASE ContainerStays(p)
  <2>1. PICK c \in P.containers :
          pass' = [pass EXCEPT ![p].containers = @ \ {c}, ![p].due = @ \ {owner[c]}]
    BY <1>a DEF ContainerStays
  <2>2. [P EXCEPT !.containers = @ \ {c}, !.due = @ \ {owner[c]}] \in Passes
    BY <1>1 DEF Passes
  <2>3. pass' = [pass EXCEPT ![p] = [P EXCEPT !.containers = @ \ {c},
                                              !.due = @ \ {owner[c]}]]
    BY <2>1 DEF TypeOK
  <2>4. pass' \in [Pruners -> Passes]
    BY <2>2, <2>3, PassType
  <2>5. troubles' \in 0 .. MaxTroubles
    BY <1>a, TroublesAssumption DEF ContainerStays, TypeOK
  <2> QED BY <1>a, <2>4, <2>5 DEF ContainerStays, TypeOK, jobVars
<1>b. CASE NetworkStays(p)
  <2>1. PICK j \in P.networks :
          /\ \E taken \in SUBSET Attached(j) :
               st' = [c \in All |-> IF net[j] \in Ages /\ c \in taken
                                   THEN "removed" ELSE st[c]]
          /\ pass' = [pass EXCEPT ![p].networks = @ \ {j}, ![p].due = @ \ {j}]
    BY <1>b DEF NetworkStays
  <2>2. [P EXCEPT !.networks = @ \ {j}, !.due = @ \ {j}] \in Passes
    BY <1>1 DEF Passes
  <2>3. pass' = [pass EXCEPT ![p] = [P EXCEPT !.networks = @ \ {j}, !.due = @ \ {j}]]
    BY <2>1 DEF TypeOK
  <2>4. pass' \in [Pruners -> Passes]
    BY <2>2, <2>3, PassType
  <2>5. troubles' \in 0 .. MaxTroubles
    BY <1>b, TroublesAssumption DEF NetworkStays, TypeOK
  <2> QED BY <1>b, <2>1, <2>4, <2>5 DEF NetworkStays, TypeOK, jobVars
<1>c. CASE BuildersUnlisted(p)
  <2>1. [P EXCEPT !.pc = "builders", !.builders = {}] \in Passes
    BY <1>1 DEF Passes
  <2>2. pass' = [pass EXCEPT ![p] = [P EXCEPT !.pc = "builders", !.builders = {}]]
    BY <1>c DEF BuildersUnlisted, TypeOK
  <2> QED BY <1>c, <2>1, <2>2, PassType, TroublesAssumption
          DEF BuildersUnlisted, TypeOK, jobVars
<1>d. CASE BuilderStays(p)
  <2>1. PICK b \in P.builders : pass' = [pass EXCEPT ![p].builders = @ \ {b}]
    BY <1>d DEF BuilderStays
  <2>2. [P EXCEPT !.builders = @ \ {b}] \in Passes
    BY <1>1 DEF Passes
  <2>3. pass' = [pass EXCEPT ![p] = [P EXCEPT !.builders = @ \ {b}]]
    BY <2>1 DEF TypeOK
  <2>4. pass' \in [Pruners -> Passes]
    BY <2>2, <2>3, PassType
  <2>5. troubles' \in 0 .. MaxTroubles
    BY <1>d, TroublesAssumption DEF BuilderStays, TypeOK
  <2> QED BY <1>d, <2>4, <2>5 DEF BuilderStays, TypeOK, jobVars
<1>7. CASE ListBuilders(p)
  <2>1. [P EXCEPT !.pc = "builders", !.builders = StoppedBuilders] \in Passes
    BY <1>1 DEF Passes, StoppedBuilders
  <2>2. pass' = [pass EXCEPT ![p] = [P EXCEPT !.pc = "builders",
                                              !.builders = StoppedBuilders]]
    BY <1>7 DEF ListBuilders, TypeOK
  <2> QED BY <1>7, <2>1, <2>2, PassType DEF ListBuilders, TypeOK, jobVars
<1>8. CASE ReapBuilder(p)
  <2>1. PICK b \in P.builders :
          /\ st' = [st EXCEPT ![b] = "none"]
          /\ pass' = [pass EXCEPT ![p].builders = @ \ {b}]
    BY <1>8 DEF ReapBuilder
  <2>2. [P EXCEPT !.builders = @ \ {b}] \in Passes
    BY <1>1 DEF Passes
  <2>3. pass' = [pass EXCEPT ![p] = [P EXCEPT !.builders = @ \ {b}]]
    BY <2>1 DEF TypeOK
  <2> QED BY <1>8, <2>1, <2>2, <2>3, PassType DEF ReapBuilder, TypeOK, jobVars
<1>9. CASE ReapCaches(p)
  <2>1. cache' \in [Builders -> BOOLEAN] /\ troubles' \in 0 .. MaxTroubles
    BY <1>9, TroublesAssumption DEF ReapCaches, TypeOK
  <2> QED BY <1>9, <2>1 DEF ReapCaches, TypeOK, IdlePass, Passes, jobVars
<1> QED BY <1>2, <1>3, <1>4, <1>5, <1>6, <1>7, <1>8, <1>9, <1>a, <1>b, <1>c, <1>d
        DEF PassStep

\* Every variable keeps its kind of value: a pass holds labelled containers,
\* networks of jobs and builders, and nothing else (prune.py, main).
THEOREM TypeCorrect == Spec => []TypeOK
<1>1. TypeOK /\ [Next]_vars => TypeOK'
  <2> SUFFICES ASSUME TypeOK, [Next]_vars PROVE TypeOK'
    OBVIOUS
  <2>1. CASE UNCHANGED vars
    BY <2>1 DEF vars, jobVars, TypeOK
  <2> QED BY <2>1, JobType, HostType, StepType DEF Next
<1> QED BY <1>1, InitType, PTL DEF Spec

-----------------------------------------------------------------------------
(* Nothing is older than its job.                                          *)

LEMMA InitAges == Init => AgesInv
  BY DisjointAssumption DEF Init, AgesInv

LEMMA JobAges == TypeOK /\ AgesInv /\ JobNext => AgesInv'
<1> SUFFICES ASSUME TypeOK, AgesInv, JobNext PROVE AgesInv'
  OBVIOUS
<1>1. ASSUME NEW j \in Jobs, StartJob(j) \/ EndJob(j)
      PROVE  AgesInv'
  BY <1>1, DisjointAssumption DEF TypeOK, AgesInv, StartJob, EndJob, Running
<1>2. ASSUME NEW j \in Jobs, CreateNetwork(j) \/ RemoveNetwork(j)
      PROVE  AgesInv'
  BY <1>2 DEF TypeOK, AgesInv, CreateNetwork, RemoveNetwork, Running, jobVars
<1>3. ASSUME NEW c \in Containers, NEW j \in Jobs, CreateContainer(c, j)
      PROVE  AgesInv'
  BY <1>3, DisjointAssumption DEF TypeOK, AgesInv, CreateContainer, Running
<1>4. ASSUME NEW c \in Containers, StartContainer(c) \/ RemoveContainer(c)
      PROVE  AgesInv'
  BY <1>4 DEF TypeOK, AgesInv, StartContainer, RemoveContainer, jobVars
<1>5. ASSUME NEW c \in All, StopContainer(c)
      PROVE  AgesInv'
  BY <1>5 DEF TypeOK, AgesInv, StopContainer, jobVars
<1> QED BY <1>1, <1>2, <1>3, <1>4, <1>5 DEF JobNext

LEMMA HostAges == TypeOK /\ AgesInv /\ HostNext => AgesInv'
<1> SUFFICES ASSUME TypeOK, AgesInv, HostNext PROVE AgesInv'
  OBVIOUS
<1>1. ASSUME NEW b \in Builders, BootBuilder(b) \/ RemoveBuilder(b)
      PROVE  AgesInv'
  BY <1>1, DisjointAssumption DEF TypeOK, AgesInv, BootBuilder, RemoveBuilder, jobVars
<1>2. ASSUME NEW c \in Others, StartOther(c)
      PROVE  AgesInv'
  BY <1>2, DisjointAssumption DEF TypeOK, AgesInv, StartOther, jobVars
<1>3. CASE Reboot
  BY <1>3 DEF TypeOK, AgesInv, Reboot, Running
<1>4. CASE Tick
  BY <1>4 DEF TypeOK, AgesInv, Tick, Running
<1> QED BY <1>1, <1>2, <1>3, <1>4 DEF HostNext

LEMMA PassAges == ASSUME TypeOK, AgesInv, ListedInv, NEW p \in Pruners,
                         PassStep(p) \/ ListingFails(p)
                  PROVE  AgesInv'
<1>1. CASE ListContainers(p) \/ ListNetworks(p) \/ ListBuilders(p)
            \/ ListingFails(p) \/ ReapCaches(p)
            \/ ContainerStays(p) \/ BuildersUnlisted(p) \/ BuilderStays(p)
  BY <1>1 DEF AgesInv, ListContainers, ListNetworks, ListBuilders, ListingFails,
              ReapCaches, ContainerStays, BuildersUnlisted, BuilderStays, jobVars
<1>2. CASE ReapContainer(p)
  BY <1>2 DEF TypeOK, AgesInv, ListedInv, Passes, ReapContainer, jobVars
<1>3. CASE ReapNetwork(p)
  BY <1>3 DEF TypeOK, AgesInv, Passes, ReapNetwork, Attached, jobVars
<1>5. CASE NetworkStays(p)
  BY <1>5 DEF TypeOK, AgesInv, Passes, NetworkStays, Attached, jobVars
<1>4. CASE ReapBuilder(p)
  <2>1. \A c \in Containers : st'[c] = st[c]
    BY <1>4, DisjointAssumption DEF TypeOK, Passes, ReapBuilder
  <2> QED BY <1>4, <2>1 DEF AgesInv, ReapBuilder, jobVars
<1> QED BY <1>1, <1>2, <1>3, <1>4, <1>5 DEF PassStep

-----------------------------------------------------------------------------
(* What was listed as old is still old, or gone for good.                  *)

LEMMA InitListed == Init => ListedInv
  BY DEF Init, ListedInv, IdlePass

\* A step of anybody else that keeps the listings: containers never become
\* unborn or, while they are there, young again, and neither do networks.
LEMMA ListedKept ==
  ASSUME TypeOK, ListedInv, UNCHANGED pass,
         \A c \in Containers : st[c] # "none" =>
            /\ st'[c] # "none"
            /\ st[c] \in Absent => st'[c] \in Absent
            /\ age[c] = "old" => age'[c] = "old" \/ st'[c] \in Absent,
         \A j \in Jobs : /\ net[j] # "none" => net'[j] # "none"
                         /\ net[j] \in {"old", "removed"} => net'[j] # "young"
  PROVE  ListedInv'
  BY DEF TypeOK, ListedInv, Passes

LEMMA JobListed == TypeOK /\ ListedInv /\ JobNext => ListedInv'
<1> SUFFICES ASSUME TypeOK, ListedInv, JobNext PROVE ListedInv'
  OBVIOUS
<1>1. ASSUME NEW j \in Jobs,
             StartJob(j) \/ EndJob(j) \/ CreateNetwork(j) \/ RemoveNetwork(j)
      PROVE  ListedInv'
  BY <1>1, ListedKept DEF TypeOK, StartJob, EndJob, CreateNetwork, RemoveNetwork, jobVars
<1>2. ASSUME NEW c \in Containers, NEW j \in Jobs, CreateContainer(c, j)
      PROVE  ListedInv'
  BY <1>2, ListedKept DEF TypeOK, CreateContainer
<1>3. ASSUME NEW c \in Containers, StartContainer(c) \/ RemoveContainer(c)
      PROVE  ListedInv'
  BY <1>3, ListedKept DEF TypeOK, StartContainer, RemoveContainer, jobVars
<1>4. ASSUME NEW c \in All, StopContainer(c)
      PROVE  ListedInv'
  BY <1>4, ListedKept DEF TypeOK, StopContainer, jobVars
<1> QED BY <1>1, <1>2, <1>3, <1>4 DEF JobNext

LEMMA HostListed == TypeOK /\ ListedInv /\ HostNext => ListedInv'
<1> SUFFICES ASSUME TypeOK, ListedInv, HostNext PROVE ListedInv'
  OBVIOUS
<1>1. ASSUME NEW b \in Builders, BootBuilder(b) \/ RemoveBuilder(b)
      PROVE  ListedInv'
  BY <1>1, ListedKept, DisjointAssumption
     DEF TypeOK, BootBuilder, RemoveBuilder, jobVars
<1>2. ASSUME NEW c \in Others, StartOther(c)
      PROVE  ListedInv'
  BY <1>2, ListedKept, DisjointAssumption DEF TypeOK, StartOther, jobVars
<1>3. CASE Reboot
  BY <1>3 DEF ListedInv, Reboot, IdlePass
<1>4. CASE Tick
  BY <1>4, ListedKept DEF TypeOK, Tick
<1> QED BY <1>1, <1>2, <1>3, <1>4 DEF HostNext

LEMMA PassListed == ASSUME TypeOK, ListedInv, NEW p \in Pruners,
                           PassStep(p) \/ ListingFails(p)
                    PROVE  ListedInv'
<1>1. CASE ListContainers(p)
  <2>1. /\ \A q \in Pruners \ {p} : pass'[q] = pass[q]
        /\ pass'[p].networks = pass[p].networks /\ pass'[p].containers = StaleContainers
    BY <1>1 DEF TypeOK, Passes, ListContainers
  <2> QED BY <1>1, <2>1 DEF ListedInv, ListContainers, StaleContainers
<1>2. CASE ListNetworks(p)
  BY <1>2 DEF TypeOK, ListedInv, Passes, ListNetworks, StaleNetworks, OldEnough
<1>3. CASE ListingFails(p) \/ ReapCaches(p)
  BY <1>3 DEF TypeOK, ListedInv, Passes, ListingFails, ReapCaches, IdlePass
<1>4. CASE ListBuilders(p)
  BY <1>4 DEF TypeOK, ListedInv, Passes, ListBuilders
<1>5. CASE ReapContainer(p)
  BY <1>5 DEF TypeOK, ListedInv, Passes, ReapContainer
<1>6. CASE ReapNetwork(p)
  BY <1>6 DEF TypeOK, ListedInv, Passes, ReapNetwork, Attached
<1>8. CASE ContainerStays(p)
  BY <1>8 DEF TypeOK, ListedInv, Passes, ContainerStays
<1>9. CASE NetworkStays(p)
  BY <1>9 DEF TypeOK, ListedInv, Passes, NetworkStays, Attached
<1>10. CASE BuildersUnlisted(p)
  BY <1>10 DEF TypeOK, ListedInv, Passes, BuildersUnlisted
<1>11. CASE BuilderStays(p)
  BY <1>11 DEF TypeOK, ListedInv, Passes, BuilderStays
<1>7. CASE ReapBuilder(p)
  <2>1. \A c \in Containers : st'[c] = st[c]
    BY <1>7, DisjointAssumption DEF TypeOK, Passes, ReapBuilder
  <2> QED BY <1>7, <2>1 DEF TypeOK, ListedInv, Passes, ReapBuilder
<1> QED BY <1>1, <1>2, <1>3, <1>4, <1>5, <1>6, <1>7, <1>8, <1>9, <1>10, <1>11 DEF PassStep

-----------------------------------------------------------------------------
(* No pass reaches a young job.                                            *)

IInv == TypeOK /\ AgesInv /\ ListedInv

LEMMA InitInv == Init => IInv
  BY InitType, InitAges, InitListed DEF IInv

LEMMA StepInv == IInv /\ [Next]_vars => IInv'
<1> SUFFICES ASSUME IInv, [Next]_vars PROVE IInv'
  OBVIOUS
<1>1. CASE UNCHANGED vars
  BY <1>1 DEF vars, jobVars, IInv, TypeOK, AgesInv, ListedInv
<1>2. CASE JobNext
  BY <1>2, JobType, JobAges, JobListed DEF IInv
<1>3. CASE HostNext
  BY <1>3, HostType, HostAges, HostListed DEF IInv
<1>4. ASSUME NEW p \in Pruners, PassStep(p) \/ ListingFails(p)
      PROVE  IInv'
  BY <1>4, StepType, PassAges, PassListed DEF IInv
<1> QED BY <1>1, <1>2, <1>3, <1>4 DEF Next

\* The containers of a young job are listed by nobody, and of its networks only
\* one without a date; the others are no part of what a pass lists.
LEMMA StepKeeps ==
  ASSUME IInv, NEW p \in Pruners, PassStep(p)
  PROVE  /\ \A j \in Jobs, c \in Containers :
              job[j] = "young" /\ j \notin Undated => ~Takes(j, c)
         /\ \A c \in Others : st'[c] = st[c]
<1>1. CASE \/ ListContainers(p) \/ ListNetworks(p) \/ ListBuilders(p) \/ ReapCaches(p)
           \/ ContainerStays(p) \/ BuildersUnlisted(p) \/ BuilderStays(p)
  BY <1>1 DEF ListContainers, ListNetworks, ListBuilders, ReapCaches, ContainerStays,
              BuildersUnlisted, BuilderStays, Takes
<1>2. CASE ReapContainer(p)
  BY <1>2, DisjointAssumption
     DEF IInv, TypeOK, AgesInv, ListedInv, Passes, ReapContainer, Takes
<1>3. CASE ReapNetwork(p)
  <2>1. PICK k \in pass[p].networks :
          /\ net' = [net EXCEPT ![k] = "removed"]
          /\ st' = [c \in All |-> IF net[k] \in Ages /\ c \in Attached(k)
                                THEN "removed" ELSE st[c]]
    BY <1>3 DEF ReapNetwork
  <2>2. k \in Jobs
    BY DEF IInv, TypeOK, Passes
  <2>3. net[k] \in {"old", "removed"} \/ k \in Undated
    BY <2>2 DEF IInv, TypeOK, ListedInv
  <2>4. ASSUME NEW j \in Jobs, NEW c \in Containers, job[j] = "young", j \notin Undated
        PROVE  ~Takes(j, c)
    <3>1. CASE j = k
      BY <2>1, <2>2, <2>3, <2>4, <3>1 DEF IInv, TypeOK, AgesInv, Takes
    <3>2. CASE j # k
      BY <2>1, <2>2, <2>4, <3>2 DEF IInv, TypeOK, Attached, Takes
    <3> QED BY <3>1, <3>2
  <2>5. \A c \in Others : st'[c] = st[c]
    BY <2>1, DisjointAssumption DEF Attached
  <2> QED BY <2>4, <2>5
<1>5. CASE NetworkStays(p)
  <2>0. PICK k \in pass[p].networks :
          \E taken \in SUBSET Attached(k) :
            st' = [c \in All |-> IF net[k] \in Ages /\ c \in taken
                                THEN "removed" ELSE st[c]]
    BY <1>5 DEF NetworkStays
  <2>1. PICK taken \in SUBSET Attached(k) :
          st' = [c \in All |-> IF net[k] \in Ages /\ c \in taken
                              THEN "removed" ELSE st[c]]
    BY <2>0
  <2>2. k \in Jobs /\ UNCHANGED net
    BY <1>5 DEF IInv, TypeOK, Passes, NetworkStays
  <2>3. net[k] \in {"old", "removed"} \/ k \in Undated
    BY <2>2 DEF IInv, TypeOK, ListedInv
  <2>4. ASSUME NEW j \in Jobs, NEW c \in Containers, job[j] = "young", j \notin Undated
        PROVE  ~Takes(j, c)
    <3>1. CASE j = k
      BY <2>1, <2>2, <2>3, <2>4, <3>1 DEF IInv, TypeOK, AgesInv, Takes
    <3>2. CASE j # k
      BY <2>1, <2>2, <2>4, <3>2 DEF IInv, TypeOK, Attached, Takes
    <3> QED BY <3>1, <3>2
  <2>5. \A c \in Others : st'[c] = st[c]
    BY <2>1, DisjointAssumption DEF Attached
  <2> QED BY <2>4, <2>5
<1>4. CASE ReapBuilder(p)
  BY <1>4, DisjointAssumption DEF IInv, TypeOK, Passes, ReapBuilder, Takes
<1> QED BY <1>1, <1>2, <1>3, <1>4, <1>5 DEF PassStep

\* However long ago a pass made its listings and however many passes overlap,
\* it takes nothing of a job younger than --max-age whose network has a date,
\* and nothing that carries neither label nor builder name (prune.py, 36-79).
THEOREM YoungJobsKeptHolds == Spec => YoungJobsKept
<1>1. IInv /\ [Next]_vars =>
        [\A p \in Pruners : PassStep(p) =>
           /\ \A j \in Jobs, c \in Containers :
                job[j] = "young" /\ j \notin Undated => ~Takes(j, c)
           /\ \A c \in Others : st'[c] = st[c]]_vars
  BY StepKeeps
<1> QED BY <1>1, InitInv, StepInv, PTL DEF Spec, YoungJobsKept

-----------------------------------------------------------------------------
(* What is due when a pass begins is gone when it ends.                    *)

\* A step that adds nothing to a job that is over.
Shrinks(j) ==
  /\ job'[j] = "over"
  /\ \/ net'[j] = net[j]
     \/ /\ net'[j] = "removed"
        /\ net[j] \in Ages => \A c \in Attached(j) : st'[c] \in Absent
  /\ \A c \in Containers :
       owner'[c] = j /\ st'[c] \notin Absent =>
         owner[c] = j /\ st[c] \notin Absent /\ on'[c] = on[c]

LEMMA AwaitedStays ==
  ASSUME NEW P \in Passes, NEW j \in Jobs, Awaited(P, j), Shrinks(j)
  PROVE  Awaited(P, j)'
<1>1. job'[j] = "over" /\ (P.pc = "builders" => Gone(j)')
  BY DEF Awaited, Shrinks, Gone
<1>2. net'[j] \in Ages =>
        net'[j] = "old" /\ (P.pc \in {"reap", "builders"} => j \in P.networks)
  BY DEF Awaited, Shrinks
<1>3. ASSUME NEW c \in Containers, owner'[c] = j, st'[c] \notin Absent
      PROVE  c \in P.containers \/ (on'[c] /\ net'[j] = "old")
  <2>1. owner[c] = j /\ st[c] \notin Absent /\ on'[c] = on[c]
    BY <1>3 DEF Shrinks
  <2>2. c \in P.containers \/ (on[c] /\ net[j] = "old")
    BY <2>1 DEF Awaited
  <2>3. CASE on[c] /\ net[j] = "old"
    <3>1. c \in Attached(j)
      BY <2>1, <2>3 DEF Attached
    <3> QED BY <1>3, <2>1, <2>3, <3>1 DEF Shrinks
  <2> QED BY <2>2, <2>3
<1> QED BY <1>1, <1>2, <1>3 DEF Awaited

\* Jobs that run, and the host, add nothing to one that is over.
LEMMA JobShrinks ==
  ASSUME TypeOK, JobNext, NEW j \in Jobs, job[j] = "over" PROVE Shrinks(j)
<1>1. ASSUME NEW k \in Jobs,
             StartJob(k) \/ EndJob(k) \/ CreateNetwork(k) \/ RemoveNetwork(k)
      PROVE  Shrinks(j)
  BY <1>1 DEF TypeOK, StartJob, EndJob, CreateNetwork, RemoveNetwork, Running, Shrinks,
              jobVars
<1>2. ASSUME NEW c \in Containers, NEW k \in Jobs, CreateContainer(c, k)
      PROVE  Shrinks(j)
  BY <1>2 DEF TypeOK, CreateContainer, Running, Shrinks
<1>3. ASSUME NEW c \in Containers, StartContainer(c) \/ RemoveContainer(c)
      PROVE  Shrinks(j)
  BY <1>3 DEF TypeOK, StartContainer, RemoveContainer, Shrinks, jobVars
<1>4. ASSUME NEW c \in All, StopContainer(c)
      PROVE  Shrinks(j)
  BY <1>4 DEF TypeOK, StopContainer, Shrinks, jobVars
<1> QED BY <1>1, <1>2, <1>3, <1>4 DEF JobNext

LEMMA HostShrinks ==
  ASSUME TypeOK, HostNext, ~Reboot, NEW j \in Jobs, job[j] = "over", net[j] # "young"
  PROVE  Shrinks(j)
<1>1. ASSUME NEW b \in Builders, BootBuilder(b) \/ RemoveBuilder(b)
      PROVE  Shrinks(j)
  BY <1>1, DisjointAssumption DEF TypeOK, BootBuilder, RemoveBuilder, Shrinks, jobVars
<1>2. ASSUME NEW c \in Others, StartOther(c)
      PROVE  Shrinks(j)
  BY <1>2, DisjointAssumption DEF TypeOK, StartOther, Shrinks, jobVars
<1>3. CASE Tick
  BY <1>3 DEF TypeOK, Tick, Running, Shrinks
<1> QED BY <1>1, <1>2, <1>3 DEF HostNext

\* Nor does a pass.
LEMMA PassShrinks ==
  ASSUME TypeOK, ListedInv, NEW p \in Pruners, PassStep(p) \/ ListingFails(p),
         NEW j \in Jobs, job[j] = "over"
  PROVE  Shrinks(j)
<1>1. CASE ListContainers(p) \/ ListNetworks(p) \/ ListBuilders(p)
            \/ ListingFails(p) \/ ReapCaches(p)
            \/ ContainerStays(p) \/ BuildersUnlisted(p) \/ BuilderStays(p)
  BY <1>1 DEF Shrinks, ListContainers, ListNetworks, ListBuilders, ListingFails,
              ReapCaches, ContainerStays, BuildersUnlisted, BuilderStays, jobVars
<1>2. CASE ReapContainer(p)
  BY <1>2 DEF TypeOK, Passes, ReapContainer, Shrinks, jobVars
<1>3. CASE ReapNetwork(p)
  BY <1>3 DEF TypeOK, Passes, ReapNetwork, Attached, Shrinks, jobVars
<1>5. CASE NetworkStays(p)
  BY <1>5 DEF TypeOK, Passes, NetworkStays, Attached, Shrinks, jobVars
<1>4. CASE ReapBuilder(p)
  <2>1. \A c \in Containers : st'[c] = st[c]
    BY <1>4, DisjointAssumption DEF TypeOK, Passes, ReapBuilder
  <2> QED BY <1>4, <2>1 DEF Shrinks, ReapBuilder, jobVars
<1> QED BY <1>1, <1>2, <1>3, <1>4, <1>5 DEF PassStep

\* Its own step leaves a pass with what it still has to take.
LEMMA OwnAwaited ==
  ASSUME TypeOK, ListedInv, NEW p \in Pruners, PassStep(p) \/ ListingFails(p),
         \A j \in pass[p].due : Awaited(pass[p], j), NEW j \in pass'[p].due
  PROVE  Awaited(pass[p], j)'
<1>0. PICK P \in Passes : P = pass[p]
  BY DEF TypeOK
<1>1. CASE ListContainers(p)
  <2>1. pass'[p] = [P EXCEPT !.pc = "networks", !.containers = StaleContainers,
                             !.due = Due]
    BY <1>0, <1>1 DEF ListContainers, TypeOK
  <2>2. pass'[p].pc = "networks" /\ pass'[p].containers = StaleContainers /\ j \in Due
    BY <2>1 DEF Passes
  <2> QED
    BY <1>1, <2>2 DEF ListContainers, Awaited, Due, StaleContainers, TypeOK, jobVars
<1>2. CASE ListingFails(p) \/ ReapCaches(p)
  BY <1>2 DEF ListingFails, ReapCaches, IdlePass, TypeOK
<1>3. CASE \/ ListNetworks(p) \/ ReapContainer(p) \/ ReapNetwork(p) \/ ListBuilders(p)
           \/ ReapBuilder(p) \/ ContainerStays(p) \/ NetworkStays(p)
           \/ BuildersUnlisted(p) \/ BuilderStays(p)
  <2>1. pass'[p].due \subseteq P.due
    <3>1. CASE ContainerStays(p)
      BY <1>0, <3>1 DEF ContainerStays, TypeOK, Passes
    <3>4. CASE NetworkStays(p)
      BY <1>0, <3>4 DEF NetworkStays, TypeOK, Passes
    <3>2. CASE BuildersUnlisted(p) \/ BuilderStays(p)
      BY <1>0, <3>2 DEF BuildersUnlisted, BuilderStays, TypeOK, Passes
    <3>3. CASE \/ ListNetworks(p) \/ ReapContainer(p) \/ ReapNetwork(p)
               \/ ListBuilders(p) \/ ReapBuilder(p)
      BY <1>0, <3>3 DEF ListNetworks, ReapContainer, ReapNetwork, ListBuilders, ReapBuilder,
                        TypeOK, Passes
    <3> QED BY <1>3, <3>1, <3>2, <3>3, <3>4
  <2>2. j \in Jobs /\ Awaited(P, j) /\ job[j] = "over"
    BY <1>0, <2>1 DEF Passes, Awaited
  <2>3. Shrinks(j)
    BY <2>2, PassShrinks
  <2>4. Awaited(P, j)'
    BY <2>2, <2>3, AwaitedStays
  <2>5. CASE ListNetworks(p)
    <3>1. pass'[p] = [P EXCEPT !.pc = "reap", !.networks = StaleNetworks]
      BY <1>0, <2>5 DEF ListNetworks, TypeOK
    <3>2. /\ pass'[p].pc = "reap" /\ pass'[p].networks = StaleNetworks
          /\ pass'[p].containers = P.containers
      BY <3>1 DEF Passes
    <3> QED
      BY <2>2, <2>4, <2>5, <3>2 DEF Awaited, ListNetworks, StaleNetworks, OldEnough
  <2>6. CASE ReapContainer(p)
    <3>1. PICK c \in P.containers :
            /\ st' = [st EXCEPT ![c] = IF @ = "none" THEN @ ELSE "removed"]
            /\ pass' = [pass EXCEPT ![p].containers = @ \ {c}]
      BY <1>0, <2>6 DEF ReapContainer
    <3>2. /\ pass'[p].pc = P.pc /\ pass'[p].networks = P.networks
          /\ pass'[p].containers = P.containers \ {c}
      BY <1>0, <3>1 DEF TypeOK, Passes
    <3>3. c \in Containers /\ st'[c] \in Absent
      BY <3>1 DEF Passes, TypeOK
    <3> QED
      BY <2>4, <3>2, <3>3 DEF Awaited
  <2>7. CASE ReapNetwork(p)
    <3>1. PICK k \in P.networks :
            /\ net' = [net EXCEPT ![k] = "removed"]
            /\ pass' = [pass EXCEPT ![p].networks = @ \ {k}]
      BY <1>0, <2>7 DEF ReapNetwork
    <3>2. /\ pass'[p].pc = P.pc /\ pass'[p].networks = P.networks \ {k}
          /\ pass'[p].containers = P.containers
      BY <1>0, <3>1 DEF TypeOK, Passes
    <3>3. k \in Jobs /\ net'[k] \notin Ages
      BY <3>1 DEF Passes, TypeOK
    <3> QED
      BY <2>4, <3>2, <3>3 DEF Awaited
  <2>10. CASE ContainerStays(p)
    <3>1. PICK c \in P.containers :
            pass' = [pass EXCEPT ![p].containers = @ \ {c}, ![p].due = @ \ {owner[c]}]
      BY <1>0, <2>10 DEF ContainerStays
    <3>2. /\ pass'[p].pc = P.pc /\ pass'[p].networks = P.networks
          /\ pass'[p].containers = P.containers \ {c} /\ j # owner[c]
      BY <1>0, <3>1 DEF TypeOK, Passes
    <3>3. UNCHANGED owner
      BY <2>10 DEF ContainerStays, jobVars
    <3> QED
      BY <2>4, <3>2, <3>3 DEF Awaited
  <2>11. CASE NetworkStays(p)
    <3>1. PICK k \in P.networks :
            pass' = [pass EXCEPT ![p].networks = @ \ {k}, ![p].due = @ \ {k}]
      BY <1>0, <2>11 DEF NetworkStays
    <3>2. /\ pass'[p].pc = P.pc /\ pass'[p].networks = P.networks \ {k}
          /\ pass'[p].containers = P.containers /\ j # k
      BY <1>0, <3>1 DEF TypeOK, Passes
    <3> QED
      BY <2>4, <3>2 DEF Awaited
  <2>8. CASE ListBuilders(p) \/ BuildersUnlisted(p)
    <3>1. /\ pass'[p].pc = "builders" /\ pass'[p].networks = P.networks
          /\ pass'[p].containers = P.containers /\ P.pc = "reap"
          /\ P.containers = {} /\ P.networks = {}
      BY <1>0, <2>8 DEF ListBuilders, BuildersUnlisted, At, TypeOK, Passes
    <3>2. Gone(j)'
      BY <2>4, <3>1 DEF Awaited, Gone
    <3> QED
      BY <2>4, <3>1, <3>2 DEF Awaited
  <2>9. CASE ReapBuilder(p) \/ BuilderStays(p)
    <3>1. /\ pass'[p].pc = P.pc /\ pass'[p].networks = P.networks
          /\ pass'[p].containers = P.containers
      BY <1>0, <2>9 DEF ReapBuilder, BuilderStays, TypeOK, Passes
    <3> QED
      BY <2>4, <3>1 DEF Awaited
  <2> QED
    BY <1>3, <2>5, <2>6, <2>7, <2>8, <2>9, <2>10, <2>11
<1> QED
  BY <1>1, <1>2, <1>3 DEF PassStep

LEMMA DueNext == IInv /\ DueInv /\ [Next]_vars => DueInv'
<1> SUFFICES ASSUME IInv, DueInv, [Next]_vars, NEW q \in Pruners, NEW j \in pass'[q].due
             PROVE  Awaited(pass[q], j)'
  BY DEF DueInv
<1>0. PICK Q \in Passes : Q = pass[q]
  BY DEF IInv, TypeOK
\* Whoever else moves, job j only loses what it has left.
<1>1. ASSUME pass'[q] = Q, \A i \in Jobs : Awaited(Q, i) => Shrinks(i)
      PROVE  Awaited(pass[q], j)'
  <2>1. j \in Jobs /\ Awaited(Q, j)
    BY <1>0, <1>1 DEF DueInv, Passes
  <2>2. Awaited(Q, j)'
    BY <1>1, <2>1, AwaitedStays
  <2> QED BY <1>1, <2>2 DEF Awaited
<1>2. CASE UNCHANGED vars
  <2>1. \A i \in Jobs : Awaited(Q, i) => Shrinks(i)
    BY <1>2 DEF vars, jobVars, Awaited, Shrinks
  <2> QED BY <1>0, <1>1, <1>2, <2>1 DEF vars
<1>3. CASE JobNext
  <2>1. UNCHANGED pass
    BY <1>3 DEF JobNext, StartJob, EndJob, CreateNetwork, RemoveNetwork, CreateContainer,
                StartContainer, RemoveContainer, StopContainer
  <2>2. \A i \in Jobs : Awaited(Q, i) => Shrinks(i)
    BY <1>3, JobShrinks DEF IInv, Awaited
  <2> QED BY <1>0, <1>1, <2>1, <2>2
<1>4. CASE HostNext /\ ~Reboot
  <2>1. UNCHANGED pass
    BY <1>4 DEF HostNext, BootBuilder, RemoveBuilder, StartOther, Tick
  <2>2. \A i \in Jobs : Awaited(Q, i) => Shrinks(i)
    BY <1>4, HostShrinks DEF IInv, Awaited
  <2> QED BY <1>0, <1>1, <2>1, <2>2
<1>5. CASE Reboot
  BY <1>5 DEF Reboot, IdlePass
<1>6. ASSUME NEW p \in Pruners, PassStep(p) \/ ListingFails(p)
      PROVE  Awaited(pass[q], j)'
  <2>1. CASE p = q
    BY <1>6, <2>1, OwnAwaited DEF IInv, DueInv
  <2>2. CASE p # q
    <3>1. pass'[q] = Q
      BY <1>0, <1>6, <2>2
         DEF IInv, TypeOK, PassStep, ListContainers, ListNetworks, ListingFails,
             ReapContainer, ReapNetwork, ListBuilders, ReapBuilder, ReapCaches,
             ContainerStays, NetworkStays, BuildersUnlisted, BuilderStays
    <3>2. \A i \in Jobs : Awaited(Q, i) => Shrinks(i)
      BY <1>6, PassShrinks DEF IInv, Awaited
    <3> QED BY <1>1, <3>1, <3>2
  <2> QED BY <2>1, <2>2
<1> QED
  BY <1>2, <1>3, <1>4, <1>5, <1>6 DEF Next

\* Whatever jobs, other passes and the host do meanwhile, a pass that gets to its
\* end has taken all that was due when it began of jobs that were over, but for the
\* jobs of which podman refused it something: one is enough, on a host however busy
\* (prune.py, main).
THEOREM PassReapsHolds == Spec => PassReaps
<1>1. Init => DueInv
  <2> SUFFICES ASSUME Init, NEW p \in Pruners PROVE pass[p].due = {}
    BY DEF DueInv
  <2> QED BY DEF Init, IdlePass
<1>2. IInv /\ DueInv /\ [Next]_vars
        => [\A p \in Pruners : ReapCaches(p) => \A j \in pass[p].due : Gone(j)]_vars
  BY DEF DueInv, Awaited, ReapCaches, At
<1> QED BY <1>1, <1>2, InitInv, StepInv, DueNext, PTL DEF Spec, PassReaps
=============================================================================
