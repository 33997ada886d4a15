------------------------------- MODULE Status -------------------------------
(***************************************************************************)
(* `gh-runner-ctl status`: what it makes of systemd's restart counter and  *)
(* of the job logs the runner leaves in _diag.                             *)
(*                                                                         *)
(* The two have lives of their own.  The counter goes back to zero when a  *)
(* service is started by hand; the logs stay until gh-runner-prune finds   *)
(* them older than --diag-age.                                             *)
(***************************************************************************)
EXTENDS RunnerUnit

CONSTANT MaxRestarts    \* bound on the restarts systemd counts

VARIABLES
  restarts,    \* restarts[i]: NRestarts
  flush,       \* flush[i]: the next start begins to count anew
  fresh,       \* fresh[i]: Worker logs in _diag, younger than --diag-age
  stale,       \* stale[i]: older ones
  worked,      \* worked[i]: the present start has got a job (history)
  jobless      \* jobless[i]: counted restarts after a start without (history)

logVars == <<fresh, stale>>
counterVars == <<restarts, flush, jobless>>
statusVars == <<counterVars, logVars, worked>>

StatusInit ==
  /\ Init
  /\ restarts = [i \in Instances |-> 0] /\ flush = [i \in Instances |-> TRUE]
  /\ fresh = [i \in Instances |-> 0] /\ stale = [i \in Instances |-> 0]
  /\ worked = [i \in Instances |-> FALSE] /\ jobless = [i \in Instances |-> 0]

-----------------------------------------------------------------------------
(* What systemd counts.                                                    *)

CountRestart(i) ==
  /\ AutoRestart(i)
  /\ restarts[i] < MaxRestarts
  /\ restarts' = [restarts EXCEPT ![i] = @ + 1]
  /\ jobless' = [jobless EXCEPT ![i] = IF worked[i] THEN @ ELSE @ + 1]
  /\ worked' = [worked EXCEPT ![i] = FALSE]
  /\ UNCHANGED <<flush, logVars>>

\* A service that will not be restarted keeps its count until it is started.
Came(i) == unit[i] # "active" /\ unit'[i] = "active"
Went(i) == unit'[i] = "dead"

Recount ==
  /\ restarts' = [i \in Instances |-> IF Came(i) /\ flush[i] THEN 0 ELSE restarts[i]]
  /\ jobless' = [i \in Instances |-> IF Came(i) /\ flush[i] THEN 0 ELSE jobless[i]]
  /\ worked' = [i \in Instances |-> worked[i] /\ ~Came(i)]
  /\ flush' = [i \in Instances |-> Went(i) \/ (flush[i] /\ ~Came(i))]
  /\ UNCHANGED logVars

-----------------------------------------------------------------------------
(* The logs.                                                               *)

\* The runner opens one Worker log per job.
LogJob(i) ==
  /\ TakeJob(i)
  /\ fresh' = [fresh EXCEPT ![i] = @ + 1]
  /\ worked' = [worked EXCEPT ![i] = TRUE]
  /\ UNCHANGED <<counterVars, stale>>

\* --diag-age passes.
Age ==
  /\ stale' = [i \in Instances |-> stale[i] + fresh[i]]
  /\ fresh' = [i \in Instances |-> 0]
  /\ UNCHANGED <<vars, counterVars, worked>>

\* stale_diag, and the removal of what it lists.
PruneDiag ==
  /\ stale' = [i \in Instances |-> 0]
  /\ UNCHANGED <<vars, counterVars, fresh, worked>>

-----------------------------------------------------------------------------
Quietly(i) ==
  \/ CreateContainer(i) \/ CheckDrain(i) \/ Prepare(i)
  \/ LoseListener(i) \/ FinishJob(i) \/ ContainerExit(i) \/ KillContainer(i)

ByHand == \E i \in Instances : OperatorStart(i) \/ OperatorStop(i)

StatusNext ==
  \/ \E i \in Instances : CountRestart(i) \/ LogJob(i)
  \/ ((\E i \in Instances : Quietly(i)) \/ ByHand) /\ Recount
  \/ Age
  \/ PruneDiag

StatusSpec == StatusInit /\ [][StatusNext]_<<vars, statusVars>>

-----------------------------------------------------------------------------
(* The report.                                                             *)

JobsRun(i) == fresh[i] + stale[i]

Unexplained(i) == IF restarts[i] > JobsRun(i) THEN restarts[i] - JobsRun(i) ELSE 0

-----------------------------------------------------------------------------
(* Properties                                                              *)

\* "More restarts than jobs means something is exiting before it picks work up"
\* (cmd_status): where the report has restarts without a job, there were such.
UnexplainedMeansJobless ==
  \A i \in Instances : Unexplained(i) > 0 => jobless[i] > 0

=============================================================================
