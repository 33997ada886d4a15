------------------------------- MODULE Reports -------------------------------
(***************************************************************************)
(* What `doctor`, `list` and `check-credential` say of the state CtlSync   *)
(* keeps, and what sends an operator from there to `sync` and `enable`.    *)
(*                                                                         *)
(* The reports change nothing.  Their use is in the advice they give: a    *)
(* command that fails has to have its reason in one of them.               *)
(***************************************************************************)
EXTENDS CtlSync

\* conf.all_instances raises: doctor fails the check, the others end.
Unreadable == \E i \in Instances : conf[i] = "malformed"

SecretExists(i) == store[i] # "absent"

\* Credential files without an instance, empty ones among them.
OrphanCredentials == {i \in Instances : conf[i] = "absent" /\ file[i] # "absent"}

\* There is a socket where every instance mounts one.
CheckPodmanSocket == socket = "on"

\* No Quadlet link is missing or dangling.
CheckUnitLinks == disk.quadlet

CredentialProblemsFile ==   \* mutant: only the file is looked for
  IF Unreadable THEN {"malformed"}
  ELSE IF Configured = {} THEN {}
  ELSE {i \in Configured : ~Has(i)} \cup OrphanCredentials

\* The credentials doctor complains of: not there, not loaded, or without an
\* instance.  With nothing configured it does not look.
CredentialProblems ==
  IF Unreadable THEN {"malformed"}
  ELSE IF Configured = {} THEN {}
  ELSE {i \in Configured : ~Has(i) \/ ~SecretExists(i)} \cup OrphanCredentials

\* No instance lacks a RUNNER_URL.  (Their names are in Conf.)
CheckInstances == ~Unreadable /\ \A i \in Instances : conf[i] # "no-url"

Doctor ==
  /\ CheckPodmanSocket /\ CheckUnitLinks /\ CredentialProblems = {} /\ CheckInstances

\* The columns of `list`: what the next boot starts, and a drop-in that is not
\* what the conf file asks for.
Enabled(i) == i \in disk.on
Drift(i) == Wanted(i) # disk.dropin[i]

\* The verdict of `check-credential`, which looks at the mode as well.
CheckCredential(i) ==
  CASE ~Has(i)                                -> "missing"
    [] Has(i) /\ file[i] = "loose"            -> "unreadable"
    [] file[i] \in Tokens /\ SecretExists(i)  -> "ok"
    [] file[i] \in Tokens /\ ~SecretExists(i) -> "no secret"

-----------------------------------------------------------------------------
(* Properties                                                              *)

\* An `enable` of a configured instance that runs alone and gives up, although
\* podman refuses it nothing, gives up for a reason that doctor reports as well
\* (units.enable: "check `gh-runner-ctl doctor`"): no RUNNER_URL, no credential
\* or none it may use, a directory where the socket belongs that can not be
\* removed, a conf file nobody can read, or no Quadlet link.
EnableExplained ==
  [][\A p \in Ctls :
       /\ ctl[p].verb = "enable" /\ ctl[p].quiet /\ conf[ctl[p].inst] # "absent"
       /\ CtlStep(p) /\ ~Again(p) /\ ~CreateRefused(p)
       /\ ctl'[p].pc = "idle"
       => ~Doctor]_vars

\* One that runs alone to its end leaves the instance with all that a start of
\* it and the next boot need, as systemd has loaded it: its link, the limits of
\* its conf file, where to register, a secret, a state directory and the socket
\* it mounts.
EnableReady ==
  [][\A p \in Ctls, i \in Instances :
       Again(p) /\ ctl[p].quiet /\ ctl[p].inst = i =>
         /\ Enabled(i)' /\ i \in loaded'.on
         /\ conf'[i] \in Shapes
         /\ ~Drift(i)' /\ loaded'.dropin[i] = conf'[i]
         /\ CheckCredential(i)' \in {"ok", "unreadable"} /\ SecretExists(i)'
         /\ dir'[i] /\ CheckPodmanSocket']_vars

=============================================================================
