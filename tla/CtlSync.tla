------------------------------- MODULE CtlSync -------------------------------
(***************************************************************************)
(* What gh-runner-ctl derives from the conf files: the Quadlet links, one  *)
(* systemd drop-in, state directory and podman secret per instance, and    *)
(* what systemd has loaded of it all.                                      *)
(*                                                                         *)
(* instances.d/ and credentials.d/ are the only stores.  `sync` reconciles *)
(* the rest to them; `add`, `set-credential`, `enable` and `rm` derive     *)
(* their own part.  No command takes a lock: operators, configuration      *)
(* management and other commands act between any two calls.                *)
(***************************************************************************)
EXTENDS Naturals

CONSTANTS
  Instances,     \* instance ids
  Ctls,          \* gh-runner-ctl processes that may be running at once
  NoInstance,    \* the instance of an idle process
  Shapes,        \* unit-shaping settings of a conf file; "plain": none
  Tokens,        \* credential values
  Verbs,         \* commands issued in a run, of AllVerbs
  Edits,         \* hand edits that occur in a run, of AllEdits
  MayFail,       \* steps that may raise, be interrupted or be refused
  Drifted,       \* those that may start from any state their files can be in
  MaxEvents      \* bound on commands and hand edits

AllVerbs == {"sync", "enable", "add", "add-no-token", "set-credential", "rm"}
AllEdits == {"conf", "delete", "malformed", "file", "store", "package"}

Steps == {"idle", "links", "migrate", "moved", "socket", "timers", "load",
          "ensure", "dropin", "orphans", "read", "inspect", "drop", "create",
          "list", "prune", "finish", "reload", "conf", "has", "link", "again",
          "truncate", "write", "scaffold", "unlink", "unlinked", "forget",
          "unfile", "unconf", "purge"}

ASSUME NoInstanceAssumption == NoInstance \notin Instances
ASSUME ShapesAssumption ==
  "plain" \in Shapes /\ Shapes \cap {"absent", "malformed", "no-url"} = {}
ASSUME TokensAssumption ==
  Tokens \cap {"absent", "empty", "loose", "foreign", "none"} = {}
ASSUME ScopeAssumption ==
  Verbs \subseteq AllVerbs /\ Edits \subseteq AllEdits /\ Drifted \subseteq Instances
ASSUME FailAssumption == MayFail \subseteq Steps \ {"idle"}
ASSUME EventsAssumption == MaxEvents \in Nat

VARIABLES
  conf,      \* conf[i]: the conf file, "absent", "malformed", "no-url" (neither
             \* RUNNER_URL nor unit-shaping settings) or its shape
  file,      \* file[i]: the credential file, "absent", "empty", "loose" (others
             \* may read it) or a token
  store,     \* store[i]: the podman secret, "absent", "foreign" (no digest
             \* label) or the token it was created from
  dir,       \* dir[i]: the state directory exists
  socket,    \* podman.socket: "stuck" (shadowed by a directory that can not be
             \* removed), "dir" (by one that can), "off" or "on"
  timers,    \* the maintenance timers are enabled
  disk,      \* the unit files on disk: links and drop-ins
  loaded,    \* the same as systemd last loaded it
  ctl,       \* ctl[p]: the command process p is in the middle of
  events     \* how many commands and hand edits there have been

sources == <<conf, file>>
services == <<socket, timers>>
units == <<disk, loaded>>
vars == <<sources, store, dir, services, units, ctl, events>>

Confs == Shapes \cup {"absent", "malformed", "no-url"}
Sockets == {"stuck", "dir", "off", "on"}
Files == Tokens \cup {"absent", "empty", "loose"}
Stores == Tokens \cup {"absent", "foreign"}
UnitFiles ==
  [quadlet : BOOLEAN,               \* every Quadlet link is in place
   old     : SUBSET Instances,      \* linked from default.target.wants
   on      : SUBSET Instances,      \* linked from gh-runner.target.wants
   dropin  : [Instances -> Shapes]]

CtlStates ==
  [verb : AllVerbs \cup {"none"}, inst : Instances \cup {NoInstance}, pc : Steps,
   known   : SUBSET Instances,         \* the conf files it has read
   snap    : [Instances -> Shapes],    \* what they said
   todo    : SUBSET Instances,         \* what is left of its present loop
   val     : Tokens \cup {"none"},     \* the credential in its hands
   changed : BOOLEAN,                  \* `changed` is not empty
   quiet   : BOOLEAN]                  \* alone, and no call refused (history)

IdleCtl ==
  [verb |-> "none", inst |-> NoInstance, pc |-> "idle", known |-> {},
   snap |-> [i \in Instances |-> "plain"], todo |-> {}, val |-> "none",
   changed |-> FALSE, quiet |-> FALSE]

\* Anything there may be of an instance in Drifted, nothing yet of another.
Left(S, nothing) ==
  {f \in [Instances -> S] : \A i \in Instances \ Drifted : f[i] = nothing}

Init ==
  /\ conf \in Left(IF "malformed" \in Edits THEN Confs ELSE Confs \ {"malformed"}, "absent")
  /\ file \in Left(Files, "absent")
  /\ store \in Left(Stores, "absent")
  /\ dir \in Left(BOOLEAN, FALSE)
  /\ socket \in IF Drifted = {} THEN {"off"} ELSE Sockets
  /\ timers \in IF Drifted = {} THEN {FALSE} ELSE BOOLEAN
  /\ disk \in [quadlet : IF Drifted = {} THEN {FALSE} ELSE BOOLEAN,
               old : SUBSET Drifted, on : SUBSET Drifted, dropin : Left(Shapes, "plain")]
  /\ loaded = disk
  /\ ctl = [p \in Ctls |-> IdleCtl]
  /\ events = 0

-----------------------------------------------------------------------------
(* How a command proceeds.                                                 *)

At(p, pc) == ctl[p].pc = pc
Alone(p) == \A q \in Ctls \ {p} : ctl[q].pc = "idle"

\* Process p goes on as c; whoever else is under way is not undisturbed.
Go(p, c) ==
  ctl' = [q \in Ctls |->
            IF q # p THEN [ctl[q] EXCEPT !.quiet = FALSE]
            ELSE IF c.pc = "idle" THEN IdleCtl ELSE c]

GoTo(p, pc) == Go(p, [ctl[p] EXCEPT !.pc = pc])

\* The order of the calls of each command.  A loop is named by its first
\* step, and leads to what follows the loop.
After(verb, pc) ==
  CASE verb = "sync" ->
         [links |-> "migrate", migrate |-> "socket", socket |-> "timers",
          timers |-> "load", load |-> "ensure", ensure |-> "orphans",
          orphans |-> "read", read |-> "list", reload |-> "idle"][pc]
    [] verb = "enable" ->
         [conf |-> "has", read |-> "socket", socket |-> "ensure",
          ensure |-> "reload", reload |-> "link"][pc]
    [] verb = "add" -> [write |-> "scaffold", scaffold |-> "read", read |-> "idle"][pc]
    [] verb = "add-no-token" -> [scaffold |-> "idle"][pc]
    [] verb = "set-credential" -> [write |-> "read", read |-> "idle"][pc]
    [] verb = "rm" ->
         [conf |-> "unlink", load |-> "orphans", orphans |-> "reload",
          reload |-> "purge"][pc]

Start(verb) ==
  CASE verb = "sync" -> "links"
    [] verb \in {"enable", "rm"} -> "conf"
    [] verb \in {"add", "set-credential"} -> "truncate"
    [] verb = "add-no-token" -> "scaffold"

Issue(p, verb, i, t) ==
  /\ At(p, "idle")
  /\ verb \in Verbs
  /\ events < MaxEvents
  /\ events' = events + 1
  /\ Go(p, [IdleCtl EXCEPT !.verb = verb, !.inst = i, !.pc = Start(verb),
                           !.todo = {i} \ {NoInstance}, !.val = t,
                           !.quiet = Alone(p)])
  /\ UNCHANGED <<sources, store, dir, services, units>>

IssueSync(p) == Issue(p, "sync", NoInstance, "none")
IssueOn(p, i) == \E v \in {"enable", "rm"} : Issue(p, v, i, "none")

\* `add` refuses to overwrite a conf file, unless --force is given.
IssueAdd(p, i) ==
  \/ \E t \in Tokens : Issue(p, "add", i, t)
  \/ Issue(p, "add-no-token", i, "none")

IssueSetCredential(p, i) ==
  \E t \in Tokens : Issue(p, "set-credential", i, t)

-----------------------------------------------------------------------------
(* The host: links, podman.socket, timers.                                 *)

Links(p) ==
  /\ At(p, "links")
  /\ disk' = [disk EXCEPT !.quadlet = TRUE]
  /\ Go(p, [ctl[p] EXCEPT !.pc = After("sync", "links"), !.changed = ~disk.quadlet])
  /\ UNCHANGED <<sources, store, dir, services, loaded, events>>

\* The next link of an earlier build is unlinked; when there is none, go on.
Migrate(p) ==
  /\ At(p, "migrate")
  /\ \/ /\ disk.old = {}
        /\ GoTo(p, After(ctl[p].verb, "migrate"))
        /\ UNCHANGED disk
     \/ \E i \in disk.old :
          /\ disk' = [disk EXCEPT !.old = @ \ {i}]
          /\ Go(p, [ctl[p] EXCEPT !.pc = "moved", !.inst = i, !.changed = TRUE])
  /\ UNCHANGED <<sources, store, dir, services, loaded, events>>

\* And linked from gh-runner.target, over whatever link was there.
Moved(p) ==
  /\ At(p, "moved")
  /\ disk' = [disk EXCEPT !.on = @ \cup {ctl[p].inst}]
  /\ GoTo(p, "migrate")
  /\ UNCHANGED <<sources, store, dir, services, loaded, events>>

\* ensure_podman_socket: a directory left in its place goes first, and the
\* command fails if it does not go.
Socket(p) ==
  /\ At(p, "socket")
  /\ \/ /\ socket = "stuck"
        /\ GoTo(p, "idle")
        /\ UNCHANGED socket
     \/ /\ socket # "stuck"
        /\ socket' = "on"
        /\ Go(p, [ctl[p] EXCEPT !.pc = After(ctl[p].verb, "socket"),
                                !.changed = @ \/ socket # "on",
                                !.todo = ctl[p].known])
  /\ UNCHANGED <<sources, store, dir, timers, units, events>>

Timers(p) ==
  /\ At(p, "timers")
  /\ timers' = TRUE
  /\ Go(p, [ctl[p] EXCEPT !.pc = After(ctl[p].verb, "timers"),
                          !.changed = @ \/ ~timers])
  /\ UNCHANGED <<sources, store, dir, socket, units, events>>

-----------------------------------------------------------------------------
(* Conf files, state directories and drop-ins.                             *)

Configured == {i \in Instances : conf[i] # "absent"}

\* The unit-shaping settings the conf file asks for.
Wanted(i) == IF conf[i] \in {"absent", "no-url"} THEN "plain" ELSE conf[i]

LoadBeforeUnlink(p) ==   \* mutant: `rm` lists the instances before it unlinks
  /\ At(p, "load")
  /\ IF \E i \in Instances : conf[i] = "malformed"
     THEN GoTo(p, "idle")
     ELSE Go(p, [ctl[p] EXCEPT
            !.pc = After(ctl[p].verb, "load"),
            !.known = Configured \cup ({ctl[p].inst} \cap Instances),
            !.todo = Configured,
            !.snap = [i \in Instances |-> Wanted(i)]])
  /\ UNCHANGED <<sources, store, dir, services, units, events>>

\* all_instances: one malformed conf file fails the whole command.  What was
\* read is what the rest of the command works from.
Load(p) ==
  /\ At(p, "load")
  /\ IF \E i \in Instances : conf[i] = "malformed"
     THEN GoTo(p, "idle")
     ELSE Go(p, [ctl[p] EXCEPT
            !.pc = After(ctl[p].verb, "load"),
            !.known = Configured, !.todo = Configured,
            !.snap = [i \in Instances |-> Wanted(i)]])
  /\ UNCHANGED <<sources, store, dir, services, units, events>>

\* conf.load, of one instance; `enable` refuses one without RUNNER_URL.
LoadOne(p) ==
  LET i == ctl[p].inst IN
  /\ At(p, "conf")
  /\ IF \/ conf[i] \in {"absent", "malformed"}
        \/ ctl[p].verb = "enable" /\ conf[i] = "no-url"
     THEN GoTo(p, "idle")
     ELSE Go(p, [ctl[p] EXCEPT !.pc = After(ctl[p].verb, "conf"),
                               !.known = {i}, !.snap[i] = Wanted(i)])
  /\ UNCHANGED <<sources, store, dir, services, units, events>>

\* state.ensure for the next instance.
Ensure(p) ==
  /\ At(p, "ensure")
  /\ \/ /\ ctl[p].todo = {}
        /\ GoTo(p, After(ctl[p].verb, "ensure"))
        /\ UNCHANGED dir
     \/ \E i \in ctl[p].todo :
          /\ dir' = [dir EXCEPT ![i] = TRUE]
          /\ Go(p, [ctl[p] EXCEPT !.pc = "dropin", !.inst = i,
                                  !.todo = @ \ {i},
                                  !.changed = @ \/ ~dir[i]])
  /\ UNCHANGED <<sources, store, services, units, events>>

DropinSilent(p) ==   \* mutant: a drop-in written is not a change
  LET i == ctl[p].inst IN
  /\ At(p, "dropin")
  /\ disk' = [disk EXCEPT !.dropin[i] = ctl[p].snap[i]]
  /\ GoTo(p, "ensure")
  /\ UNCHANGED <<sources, store, dir, services, loaded, events>>

\* sync_dropin: written, rewritten or removed as the conf file read says.
Dropin(p) ==
  LET i == ctl[p].inst IN
  /\ At(p, "dropin")
  /\ disk' = [disk EXCEPT !.dropin[i] = ctl[p].snap[i]]
  /\ Go(p, [ctl[p] EXCEPT !.pc = "ensure",
                          !.changed = @ \/ disk.dropin[i] # ctl[p].snap[i]])
  /\ UNCHANGED <<sources, store, dir, services, loaded, events>>

\* prune_orphan_dropins: those of instances whose conf file has gone away.
Orphans(p) ==
  LET orphan(i) == i \notin ctl[p].known /\ disk.dropin[i] # "plain" IN
  /\ At(p, "orphans")
  /\ disk' = [disk EXCEPT !.dropin =
                [i \in Instances |-> IF orphan(i) THEN "plain" ELSE @[i]]]
  /\ Go(p, [ctl[p] EXCEPT !.pc = After(ctl[p].verb, "orphans"),
                          !.todo = ctl[p].known,
                          !.changed = @ \/ \E i \in Instances : orphan(i)])
  /\ UNCHANGED <<sources, store, dir, services, loaded, events>>

-----------------------------------------------------------------------------
(* Credentials and podman secrets.                                         *)

ReadForgets(p) ==   \* mutant: the value read is not the value passed on
  /\ At(p, "read")
  /\ \/ /\ ctl[p].todo = {}
        /\ GoTo(p, After(ctl[p].verb, "read"))
     \/ \E i \in ctl[p].todo :
          Go(p, [ctl[p] EXCEPT !.pc = "inspect", !.inst = i, !.todo = @ \ {i}])
  /\ UNCHANGED <<sources, store, dir, services, units, events>>

ReadStops(p) ==   \* mutant: the first bad credential ends the loop
  /\ At(p, "read")
  /\ \/ /\ ctl[p].todo = {}
        /\ GoTo(p, After(ctl[p].verb, "read"))
     \/ \E i \in ctl[p].todo :
          IF file[i] \in Tokens
          THEN Go(p, [ctl[p] EXCEPT !.pc = "inspect", !.inst = i,
                                    !.todo = @ \ {i}, !.val = file[i]])
          ELSE IF ctl[p].verb = "sync"
               THEN Go(p, [ctl[p] EXCEPT !.todo = {}])
               ELSE GoTo(p, "idle")
  /\ UNCHANGED <<sources, store, dir, services, units, events>>

\* secret.sync of the next instance begins with its credential file.  A file
\* that cannot be used is an error, which `sync` turns into a warning.
Read(p) ==
  /\ At(p, "read")
  /\ \/ /\ ctl[p].todo = {}
        /\ GoTo(p, After(ctl[p].verb, "read"))
     \/ \E i \in ctl[p].todo :
          IF file[i] \in Tokens
          THEN Go(p, [ctl[p] EXCEPT !.pc = "inspect", !.inst = i,
                                    !.todo = @ \ {i}, !.val = file[i]])
          ELSE IF ctl[p].verb = "sync"
               THEN Go(p, [ctl[p] EXCEPT !.todo = @ \ {i}])
               ELSE GoTo(p, "idle")
  /\ UNCHANGED <<sources, store, dir, services, units, events>>

InspectExists(p) ==   \* mutant: a secret that is there is left alone
  /\ At(p, "inspect")
  /\ IF store[ctl[p].inst] # "absent"
     THEN Go(p, [ctl[p] EXCEPT !.pc = "read", !.val = "none"])
     ELSE GoTo(p, "create")
  /\ UNCHANGED <<sources, store, dir, services, units, events>>

InspectAlways(p) ==   \* mutant: every secret is replaced
  /\ At(p, "inspect")
  /\ GoTo(p, IF store[ctl[p].inst] = "absent" THEN "create" ELSE "drop")
  /\ UNCHANGED <<sources, store, dir, services, units, events>>

\* The digest label tells a secret that is right from one to replace.
Inspect(p) ==
  LET i == ctl[p].inst IN
  /\ At(p, "inspect")
  /\ IF store[i] = ctl[p].val
     THEN Go(p, [ctl[p] EXCEPT !.pc = "read", !.val = "none"])
     ELSE GoTo(p, IF store[i] = "absent" THEN "create" ELSE "drop")
  /\ UNCHANGED <<sources, store, dir, services, units, events>>

\* `podman secret rm`, whose refusal goes unnoticed.
Drop(p) ==
  /\ At(p, "drop")
  /\ \/ store' = [store EXCEPT ![ctl[p].inst] = "absent"]
     \/ "drop" \in MayFail /\ UNCHANGED store
  /\ GoTo(p, "create")
  /\ UNCHANGED <<sources, dir, services, units, events>>

Create(p) ==
  LET i == ctl[p].inst IN
  /\ At(p, "create")
  /\ store[i] = "absent"
  /\ store' = [store EXCEPT ![i] = ctl[p].val]
  /\ Go(p, [ctl[p] EXCEPT !.pc = "read", !.val = "none", !.changed = TRUE])
  /\ UNCHANGED <<sources, dir, services, units, events>>

\* podman refuses a name that is taken, or fails: `sync` warns and goes on.
CreateRefused(p) ==
  /\ At(p, "create")
  /\ store[ctl[p].inst] # "absent" \/ "create" \in MayFail
  /\ IF ctl[p].verb = "sync"
     THEN Go(p, [ctl[p] EXCEPT !.pc = "read", !.val = "none", !.quiet = FALSE])
     ELSE GoTo(p, "idle")
  /\ UNCHANGED <<sources, store, dir, services, units, events>>

\* The names of our secrets, those of unknown instances to be removed.  When
\* podman fails there are none.
ListSecrets(p) ==
  /\ At(p, "list")
  /\ \/ Go(p, [ctl[p] EXCEPT !.pc = "prune", !.todo =
                 {i \in Instances \ ctl[p].known : store[i] # "absent"}])
     \/ /\ "list" \in MayFail
        /\ Go(p, [ctl[p] EXCEPT !.pc = "prune", !.todo = {}, !.quiet = FALSE])
  /\ UNCHANGED <<sources, store, dir, services, units, events>>

\* `podman secret rm` again: a secret it keeps counts as removed.
PruneSecret(p) ==
  /\ At(p, "prune")
  /\ \E i \in ctl[p].todo :
       \/ /\ store' = [store EXCEPT ![i] = "absent"]
          /\ Go(p, [ctl[p] EXCEPT !.todo = @ \ {i}, !.changed = TRUE])
       \/ /\ "prune" \in MayFail
          /\ Go(p, [ctl[p] EXCEPT !.todo = @ \ {i}, !.changed = TRUE, !.quiet = FALSE])
          /\ UNCHANGED store
  /\ UNCHANGED <<sources, dir, services, units, events>>

\* daemon-reload, if anything this process did is in its list of changes.
FinishPrune(p) ==
  /\ At(p, "prune")
  /\ ctl[p].todo = {}
  /\ GoTo(p, IF ctl[p].changed THEN "reload" ELSE "idle")
  /\ UNCHANGED <<sources, store, dir, services, units, events>>

Reload(p) ==
  /\ At(p, "reload")
  /\ loaded' = disk
  /\ GoTo(p, After(ctl[p].verb, "reload"))
  /\ UNCHANGED <<sources, store, dir, services, disk, events>>

-----------------------------------------------------------------------------
(* add, set-credential, enable, rm.                                        *)

\* The credential file is truncated, or created, and then written.
Truncate(p) ==
  /\ At(p, "truncate")
  /\ file' = [file EXCEPT ![ctl[p].inst] = "empty"]
  /\ GoTo(p, "write")
  /\ UNCHANGED <<conf, store, dir, services, units, events>>

Write(p) ==
  /\ At(p, "write")
  /\ file' = [file EXCEPT ![ctl[p].inst] = ctl[p].val]
  /\ Go(p, [ctl[p] EXCEPT !.pc = After(ctl[p].verb, "write"), !.val = "none"])
  /\ UNCHANGED <<conf, store, dir, services, units, events>>

\* The scaffold has its unit-shaping keys commented out.
Scaffold(p) ==
  /\ At(p, "scaffold")
  /\ conf' = [conf EXCEPT ![ctl[p].inst] = "plain"]
  /\ GoTo(p, After(ctl[p].verb, "scaffold"))
  /\ UNCHANGED <<file, store, dir, services, units, events>>

\* secret.has_credential, which does not look at the mode.
Has(i) == file[i] \notin {"absent", "empty"}

HasCredentialOnly(p) ==   \* mutant: `enable` does not look for the secret
  /\ At(p, "has")
  /\ GoTo(p, IF Has(ctl[p].inst) THEN "socket" ELSE "idle")
  /\ UNCHANGED <<sources, store, dir, services, units, events>>

\* `enable` wants a credential, and loads it only if there is no secret.
HasCredential(p) ==
  LET i == ctl[p].inst IN
  /\ At(p, "has")
  /\ GoTo(p, IF ~Has(i) THEN "idle"
             ELSE IF store[i] = "absent" THEN "read" ELSE "socket")
  /\ UNCHANGED <<sources, store, dir, services, units, events>>

\* units.enable: systemd must know the template, which Quadlet generates.
Link(p) ==
  /\ At(p, "link")
  /\ IF loaded.quadlet
     THEN /\ disk' = [disk EXCEPT !.on = @ \cup {ctl[p].inst}]
          /\ GoTo(p, "again")
     ELSE /\ UNCHANGED disk
          /\ GoTo(p, "idle")
  /\ UNCHANGED <<sources, store, dir, services, loaded, events>>

Again(p) ==
  /\ At(p, "again")
  /\ loaded' = disk
  /\ GoTo(p, "idle")
  /\ UNCHANGED <<sources, store, dir, services, disk, events>>

UnlinkOnly(p) ==   \* mutant: the reload is left to the end of `rm`
  LET i == ctl[p].inst IN
  /\ At(p, "unlink")
  /\ disk' = [disk EXCEPT !.on = @ \ {i}]
  /\ GoTo(p, "forget")
  /\ UNCHANGED <<sources, store, dir, services, loaded, events>>

\* units.disable, its unlinking: without a link there is nothing to reload.
Unlink(p) ==
  LET i == ctl[p].inst IN
  /\ At(p, "unlink")
  /\ disk' = [disk EXCEPT !.on = @ \ {i}]
  /\ GoTo(p, IF i \in disk.on THEN "unlinked" ELSE "forget")
  /\ UNCHANGED <<sources, store, dir, services, loaded, events>>

Unlinked(p) ==
  /\ At(p, "unlinked")
  /\ loaded' = disk
  /\ GoTo(p, "forget")
  /\ UNCHANGED <<sources, store, dir, services, disk, events>>

\* secret.remove: the secret if podman lets go of it, then the file.
Forget(p) ==
  /\ At(p, "forget")
  /\ \/ /\ store' = [store EXCEPT ![ctl[p].inst] = "absent"]
        /\ GoTo(p, "unfile")
     \/ /\ "forget" \in MayFail
        /\ Go(p, [ctl[p] EXCEPT !.pc = "unfile", !.quiet = FALSE])
        /\ UNCHANGED store
  /\ UNCHANGED <<sources, dir, services, units, events>>

Unfile(p) ==
  /\ At(p, "unfile")
  /\ file' = [file EXCEPT ![ctl[p].inst] = "absent"]
  /\ GoTo(p, "unconf")
  /\ UNCHANGED <<conf, store, dir, services, units, events>>

Unconf(p) ==
  /\ At(p, "unconf")
  /\ conf' = [conf EXCEPT ![ctl[p].inst] = "absent"]
  /\ GoTo(p, "load")
  /\ UNCHANGED <<file, store, dir, services, units, events>>

\* With --purge the state directory goes too.
Purge(p) ==
  /\ At(p, "purge")
  /\ \/ dir' = [dir EXCEPT ![ctl[p].inst] = FALSE]
     \/ UNCHANGED dir
  /\ GoTo(p, "idle")
  /\ UNCHANGED <<sources, store, services, units, events>>

-----------------------------------------------------------------------------
(* What happens between the calls.                                         *)

\* The next call raises, or the operator interrupts the command before it.
CtlFail(p) ==
  /\ ctl[p].pc \in MayFail
  /\ GoTo(p, "idle")
  /\ UNCHANGED <<sources, store, dir, services, units, events>>

Edit(kind) ==
  /\ kind \in Edits
  /\ events < MaxEvents
  /\ events' = events + 1
  /\ ctl' = [q \in Ctls |-> [ctl[q] EXCEPT !.quiet = FALSE]]

\* A conf file is written, rewritten or deleted, by hand or by a template.
EditConf(i) ==
  /\ \/ Edit("conf") /\ \E c \in Shapes \cup {"no-url"} : conf' = [conf EXCEPT ![i] = c]
     \/ Edit("delete") /\ conf' = [conf EXCEPT ![i] = "absent"]
     \/ Edit("malformed") /\ conf' = [conf EXCEPT ![i] = "malformed"]
  /\ UNCHANGED <<file, store, dir, services, units>>

EditFile(i) ==
  /\ Edit("file")
  /\ \E c \in Files : file' = [file EXCEPT ![i] = c]
  /\ UNCHANGED <<conf, store, dir, services, units>>

\* `podman secret create` or `rm` by hand.
EditStore(i) ==
  /\ Edit("store")
  /\ \E c \in {"absent", "foreign"} : store' = [store EXCEPT ![i] = c]
  /\ UNCHANGED <<sources, dir, services, units>>

\* A package upgrade brings a Quadlet file that has no link yet.
UpgradePackage ==
  /\ Edit("package")
  /\ disk' = [disk EXCEPT !.quadlet = FALSE]
  /\ UNCHANGED <<sources, store, dir, services, loaded>>

-----------------------------------------------------------------------------
SecretStep(p) ==
  \/ Read(p) \/ Inspect(p) \/ Drop(p) \/ Create(p) \/ CreateRefused(p)

SyncStep(p) ==
  \/ Links(p) \/ Migrate(p) \/ Moved(p) \/ Socket(p) \/ Timers(p) \/ Load(p)
  \/ Ensure(p) \/ Dropin(p) \/ Orphans(p) \/ ListSecrets(p) \/ PruneSecret(p)
  \/ FinishPrune(p) \/ Reload(p)

OtherStep(p) ==
  \/ Truncate(p) \/ Write(p) \/ Scaffold(p)
  \/ LoadOne(p) \/ HasCredential(p) \/ Link(p) \/ Again(p)
  \/ Unlink(p) \/ Unlinked(p) \/ Forget(p) \/ Unfile(p) \/ Unconf(p) \/ Purge(p)

CtlStep(p) == SecretStep(p) \/ SyncStep(p) \/ OtherStep(p)

IssueAny(p) ==
  \/ IssueSync(p)
  \/ \E i \in Instances : IssueOn(p, i) \/ IssueAdd(p, i) \/ IssueSetCredential(p, i)

EditAny ==
  \/ \E i \in Instances : EditConf(i) \/ EditFile(i) \/ EditStore(i)
  \/ UpgradePackage

Next ==
  \/ \E p \in Ctls : IssueAny(p) \/ CtlStep(p) \/ CtlFail(p)
  \/ EditAny

Spec == Init /\ [][Next]_vars

-----------------------------------------------------------------------------
(* Properties                                                              *)

\* Every variable keeps its kind of value: no command leaves a file, a secret
\* or a unit in a state the code does not know, and what a command carries from
\* one step to the next (instances, value read) is there when it is used.
TypeOK ==
  /\ conf \in [Instances -> Confs]
  /\ file \in [Instances -> Files]
  /\ store \in [Instances -> Stores]
  /\ dir \in [Instances -> BOOLEAN]
  /\ socket \in Sockets
  /\ timers \in BOOLEAN
  /\ disk \in UnitFiles
  /\ loaded \in UnitFiles
  /\ ctl \in [Ctls -> CtlStates]
  /\ events \in 0 .. MaxEvents

\* Every piece of derived state is what the conf and credential files say.
InSync ==
  /\ disk.quadlet /\ disk.old = {} /\ socket = "on" /\ timers
  /\ \A i \in Instances :
       IF conf[i] = "absent"
       THEN disk.dropin[i] = "plain" /\ store[i] = "absent"
       ELSE /\ disk.dropin[i] = Wanted(i)
            /\ dir[i]
            /\ file[i] \in Tokens => store[i] = file[i]

\* From whatever state edits, upgrades and commands cut short have left, one
\* `sync` that runs alone and meets no refusal reconciles all of it (cmd_sync:
\* its passes over links, drop-ins, orphans and secrets leave nothing to each
\* other), where a secret podman could not compare counts as wrong.
SyncConverges ==
  [][\A p \in Ctls : FinishPrune(p) /\ ctl[p].quiet => InSync']_vars

\* `sync` is idempotent: once everything is in sync (and no link is on its way
\* to another directory), no later step of it rewrites a drop-in, replaces a
\* secret or touches a unit.
SyncSettles ==
  [][\A p \in Ctls :
       /\ ctl[p].verb = "sync" /\ ctl[p].quiet /\ ctl[p].pc # "moved"
       /\ InSync /\ CtlStep(p)
       => UNCHANGED <<sources, store, dir, services, disk>>]_vars

\* When a `sync` that ran alone ends, systemd has loaded what is on disk: its
\* list of changes (`if changed: units.reload()`) is not missing one.
SyncLoads ==
  [][\A p \in Ctls :
       /\ ctl[p].verb = "sync" /\ ctl[p].quiet
       /\ Reload(p) \/ (FinishPrune(p) /\ ~ctl[p].changed)
       => loaded' = disk']_vars

\* Systemd has loaded what is on disk, but for a Quadlet file a package brought.
UpToDate == loaded = disk \/ loaded = [disk EXCEPT !.quadlet = TRUE]

\* Whenever no command is under way, in whatever order several of them have made
\* their calls, systemd has loaded the units on disk: each command reloads after
\* its own last change, or leaves a change it has counted to that reload.  (One
\* that ends before, at a malformed conf file or a failed call, does not, nor does
\* the `sync` after it, which finds nothing to change.)
LoadedBetween == (\A p \in Ctls : At(p, "idle")) => UpToDate

\* No source, no secret and no link of gh-runner.target is there any more.
Removed(i) ==
  /\ conf[i] = "absent" /\ file[i] = "absent" /\ store[i] = "absent"
  /\ i \notin disk.on

\* And nothing derived from it, on disk or in systemd.
Gone(i) ==
  /\ Removed(i)
  /\ disk.dropin[i] = "plain"
  /\ loaded.dropin[i] = "plain" /\ i \notin loaded.on

\* `rm` that ran alone leaves nothing of the instance but its state directory
\* and a link an earlier build may have put in default.target.wants, which
\* units.disable does not look for and the next `sync` moves; when another
\* instance's malformed conf file stops it half way, nothing but those, the
\* drop-in, and what systemd still has loaded (cmd_rm: the other instances are
\* read after the conf file is unlinked and before the reload).
RmLeavesNothing ==
  [][\A p \in Ctls, i \in Instances :
       ctl[p].verb = "rm" /\ ctl[p].inst = i /\ ctl[p].quiet =>
         /\ Load(p) => Removed(i)'
         /\ Purge(p) => Gone(i)']_vars

\* Between commands, the podman secret of an enabled instance is the token in
\* its credential file: `set-credential`, `add`, `enable` and `sync` each load
\* what the file says, and none that comes after another undoes it.  (Two at once
\* may: secret.sync reads the file before it asks podman.)
SecretFollowsFile ==
  (\A p \in Ctls : ctl[p].pc = "idle") =>
    \A i \in disk.on : file[i] \in Tokens => store[i] = file[i]

\* A `set-credential` or `add` that ran alone ends with a credential that can be
\* used and the secret made from it, whatever either was before and whatever the
\* modes and labels; the value the operator typed is in nobody's hands any more.
CredentialLoads ==
  [][\A p \in Ctls :
       /\ ctl[p].verb \in {"add", "set-credential"} /\ ctl[p].quiet
       /\ Read(p) /\ ctl[p].todo = {}
       => /\ file[ctl[p].inst] \in Tokens
          /\ store[ctl[p].inst] = file[ctl[p].inst]
          /\ ctl[p].val = "none"]_vars

=============================================================================
