---------------------------- MODULE DrainContract ----------------------------
(***************************************************************************)
(* What a graceful `disable` promises about the jobs of an instance.       *)
(*                                                                         *)
(* An ephemeral runner takes jobs one at a time.  While its gate is "open" *)
(* it may begin any number of them.  Draining closes the gate, but not     *)
(* always at once: a container that is already past its drain check, and   *)
(* has no job yet, still gets the job it is waiting for ("last").  Behind  *)
(* a "shut" gate nothing begins until the gate is opened again.            *)
(***************************************************************************)
CONSTANT Instances

VARIABLES
  gate,      \* gate[i]: "open", "last" (one more job may begin) or "shut"
  working    \* working[i]: a job is running in the instance

contractVars == <<gate, working>>

Gates == {"open", "last", "shut"}

ContractTypeOK ==
  /\ gate \in [Instances -> Gates]
  /\ working \in [Instances -> BOOLEAN]

ContractInit ==
  /\ gate = [i \in Instances |-> "open"]
  /\ working = [i \in Instances |-> FALSE]

\* A job begins; it uses up the last one a draining instance is allowed.
Begin(i) ==
  /\ gate[i] # "shut"
  /\ ~working[i]
  /\ working' = [working EXCEPT ![i] = TRUE]
  /\ gate' = [gate EXCEPT ![i] = IF gate[i] = "last" THEN "shut" ELSE gate[i]]

\* The containers of the instances in S end: a job is over or killed, and a
\* draining instance that was still waiting for its last job will not get it.
Quit(S) ==
  /\ working' = [i \in Instances |-> working[i] /\ i \notin S]
  /\ gate' = [i \in Instances |->
                IF i \in S /\ gate[i] = "last" THEN "shut" ELSE gate[i]]

\* A drain is requested.  A running job is never touched and is the last one.
Drain(i) ==
  /\ gate[i] = "open"
  /\ \E g \in (IF working[i] THEN {"shut"} ELSE {"last", "shut"}) :
       gate' = [gate EXCEPT ![i] = g]
  /\ UNCHANGED working

\* The drain is taken back.
Resume(i) ==
  /\ gate[i] # "open"
  /\ gate' = [gate EXCEPT ![i] = "open"]
  /\ UNCHANGED working

ContractNext ==
  \/ \E i \in Instances : Begin(i) \/ Drain(i) \/ Resume(i)
  \/ \E S \in SUBSET Instances : Quit(S)

ContractSpec == ContractInit /\ [][ContractNext]_contractVars
=============================================================================
