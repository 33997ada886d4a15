# A verification project for gh-runner-service

This directory holds TLA+ models of gh-runner-service, the configurations
that model-check them with TLC, and theorems about them checked by TLAPS. Line
references are to the repository (`src/` here is its root); every definition
that models code is listed with its lines in `PROJECT.json`, under `map`.

    tlc -config RunnerUnit_commands.cfg MCRunnerUnit      # one run
    tlapm RunnerUnitProofs.tla                           # one module of proofs

`PROJECT.json` names the module and configuration of each run, and for every
property a *mutant*: a change to one definition, of the kind a bug would make,
under which TLC finds the property violated. Mutated definitions sit beside
the ones they replace and are marked `mutant:`.

## 1. The system

Self-hosted GitHub Actions runners as rootless podman containers under the
user's systemd. Each runner *instance* takes one job per container and starts
over. A control program manages the instances; a pruner removes what jobs leave
in the podman store all instances share; and inside a container an entrypoint
registers the runner and a shim stands between a job and the container engine.

| Component | Source | State | Operations |
|---|---|---|---|
| runner service | `units/quadlet/gh-runner@.container`, `units/user/gh-runner.target` | service state, wants links as loaded | start, stop, restart, auto-restart, reboot |
| `gh-runner-ctl` | `gh_runner_ctl/cli.py`, `units.py`, `state.py` | Quadlet links, wants links, drop-ins, state directories, `podman.socket`, timers | `sync`, `add`, `rm`, `enable`, `disable [--now]`, `start`, `stop`, `restart`, `set-credential` |
| conf files | `conf.py` | `gh-runner.conf`, `instances.d/<id>.conf` | parse, lint, merge, classify |
| credentials | `secret.py` | `credentials.d/<id>` and podman secrets, with a digest label | write, load, replace, forget, prune orphans |
| drain | `drain.py` | a marker file in the state directory | mark, clear |
| pruner | `prune.py` | none of its own; containers, networks, builders, volumes, `_diag` | one pass, by timer or by hand |
| entrypoint | `container/context/entrypoint.sh`, `register.sh` | the instance's copy of the runner, `.version`, `_work`, `.runner` | sync the template, drain check, sweep, preflight, register, run |
| docker shim | `container/context/docker` | none | rewrite one command line |
| reports | `list`, `show`, `status`, `doctor`, `check-credential`, `version_check.py` | none | read and print |
| packaging | `gh-runner.spec`, `Makefile`, `Containerfile`, `tools/` | the pristine template, the package's version in two files | build, bump, check, install, upgrade |

How they interact, and what is hard:

- **Marker, link and service.** `disable` writes the drain marker and removes
  the wants link; the entrypoint reads the marker once per container and exits
  78, which `RestartPreventExitStatus=78` turns into a stop; `enable` removes
  the marker, links, reloads and starts. Nothing locks: commands, systemd, a
  container in mid-start, a reboot and an operator interleave freely.
- **Sources and derived state.** Conf and credential files are the only
  sources. Five commands derive links, drop-ins, secrets and directories from
  them in sequences of calls, each of which may raise. What systemd has loaded
  is a further copy of what is on disk. Commands may overlap, be cut short, or meet
  a malformed file.
- **Listing, then removing.** The pruner lists first and removes by name with
  force later, while jobs create, start and stop the same objects, and beside
  other passes.
- **Whatever died before.** A container can be killed anywhere. The next
  one starts from what it left: half-copied files, a dirty work directory, a
  registration known locally, to GitHub, or both.
- **Several readers of one text.** ctl, podman and the scripts in the container
  read the same conf lines by rules of their own; `status` and `register.sh`
  take RUNNER_URL apart separately; our version stands in two files.
- **Reports that give advice.** doctor, `list`, `status` and `check-credential`
  conclude from counters, logs, files and secrets that live and die separately
  what an operator should do next.
- **One pass over a language it does not know.** The shim finds the
  subcommand without a table of flags and drops and inserts arguments.

What makes each correct: a draining instance begins at most one more job and
comes to rest, and an enabled one recovers; `sync` reconciles everything from
any state, changes nothing when there is nothing to do and reloads when it
must, and `rm` leaves nothing; the pruner removes leftovers, all of them in
the end, and nothing else; a job runs from a whole release in a clean
workspace, and no death prevents the next start; the engine gets the
command the job asked for, less the socket mounts, plus the labels; what is
shown and checked is what the container gets; and a command that gives up has
its reason in a report. Where the code falls short of this, section 4 says so.

## 2. The modules

### RunnerUnit: services, containers, commands, drain

One service per instance (`unit`: dead, active, waiting for its auto-restart)
and the container of its current start (`box`): `boot` until the entrypoint's
drain check, then `refused` (it will exit 78) or `ready`, then `listening`,
`job`, `done`, or `failed` for any other bad end. `marker` and `link` are
files, `wants` the links as systemd loaded them. `DaemonReload` copies one to
the other. Without the podman secret `podman run` fails and there is no container;
without RUNNER_URL the entrypoint dies on line 12 or after, before the drain
check.

A ctl command is a sequence of calls and every call is an action:
`check secret clear dropin relink symlink reload start` for `enable` (cli.py
`cmd_enable`, `units.enable`), `mark unlink reload [stop]` per instance for
`disable`. `Goto` and `AfterReload` give the order. `CtlFail` is the next call raising
or an interrupt, at the steps in `MayFail`. Operators start, stop and restart
services and the target at any time, containers are killed, the host reboots,
secret, RUNNER_URL, engine and GitHub go away and come back.

`since` (jobs begun since the marker was written), `clean` (the last command on
the instance ran to its end and met no other) and the field `alone` of a command
(it has met none so far) are history: no guard reads them. They let `OneIntent`
speak of each command that had the instance to itself in a system where others
overlap.

### DrainContract: what a graceful `disable` promises

The abstract specification of the same thing, in two variables: an instance
has a `gate` that is open, good for one `last` job, or shut, and is `working` or
not. RunnerUnit implements it under `gate` and `working` as it defines them
from marker and container; `DrainHonoured` is this refinement.

### CtlSync: what commands derive from the files

The files (`conf`, `file`), the podman secrets (`store`, by the token whose
digest they carry), the state directories, `podman.socket` (which podman may
have shadowed with a directory, one that may not even be removable: `stuck`), the
timers, and the unit files `disk` and `loaded`: Quadlet links, wants links of the
present and of the former target, drop-ins. A conf file is absent, malformed,
without a RUNNER_URL (`no-url`, which `enable` refuses), or one of `Shapes`, the
settings that shape its drop-in. `After` is the order of the calls of `sync`, `enable`,
`add`, `add --no-token`, `set-credential` and `rm`, and a loop over instances
is one step per instance. A credential file may be there and not be readable, its mode
being too wide. `known` and `snap` are what a command has read and goes on
using. Failing to compare a secret counts as a difference, and a secret is
replaced by removing and creating, as in the code; that podman refuses to remove
one goes unnoticed, in `Drop`, `Forget` and `PruneSecret` alike. Hand edits and package
upgrades change files between any two calls. `quiet` (history) marks a
command that ran alone and met no refusal.

### Reports: what an operator is told of CtlSync's state

doctor's checks of the socket, the links, the credentials and each instance's
RUNNER_URL, the ENABLED and DRIFT columns of `list` and the verdict of
`check-credential`, each as the condition its code evaluates on the variables of
CtlSync. They change nothing; the properties relate `enable` to them, when it
gives up and when it is done.

### Prune: the pruner and the jobs around it

Jobs with their containers and network, builders with their caches, and containers of
nobody's concern, each with its age: `young` until `--max-age` has passed, then `old`. A
pass lists stale containers, then stale networks, removes them one at a time, lists stopped
builders only then, removes them, and tries every cache volume (podman refuses the ones in
use). What podman refuses to remove stays and the pass goes on, as no exit status but that
of `volume rm` is looked at (`ContainerStays`, `NetworkStays`, `BuilderStays`, `kept` in
`ReapCaches`); a listing that fails ends the pass if it is of containers or networks and
counts as an empty one if it is of builders or volumes (`ListingFails`,
`BuildersUnlisted`). `due` (history) has the jobs that were over, with nothing left but
what was old enough, when the pass began, and loses those podman refuses some of. Removing a network with force takes the containers attached to
it along. A network of a job in `Undated` has a creation date the pruner can not parse: such
a network counts as old at once (prune.py:77-78), such a container never.

### Status: restarts against jobs

RunnerUnit's service with systemd's restart counter, which starts anew when the
service is started by hand, and the Worker logs of `_diag`, one per job, which the
pruner removes when they are older than `--diag-age`. `Unexplained` is what
`status` subtracts; `jobless` (history) counts the restarts after a start
that got no job.

### Conf, Versions, Packaging: what is read from text

*Conf.* A file is a sequence of lines; a line sets a key to a value, in quotes or with
blanks around it, or is one that sets nothing or is refused. `Parse`, `Lint`, `Load`,
`Classify` and `RenderDropin` are ctl's reading, `Passed` podman's, `RegisteredName` and
`Endpoint` those of the scripts, `CheckInstances` doctor's verdict. `Filled` is the loop of
`parse_env_file`, once for each of the two readings. Values are sequences of the parts
between slashes, as far as a property tells them apart.

*Versions.* Upstream publishes lines, fixes of older lines, candidates (marked or
not) and drafts, newest first; `Status` is the exit status of the check. A version
carries its place in upstream's order, which the code does not see.

*Packaging.* The base version and qualifier in the spec and the version in the
Python package; `make bump-version` changes one after the other, people edit
the spec, and `CheckVersion` is what `make check-version` lets pass.

### DockerShim: one command line

The arguments are tokens, one for each class the shim or the client tells
apart; `-vsock` and `-itv` are the client's short forms with the value or other flags
joined on, mounts to the client (`Bundled`) and any flags to the shim. One action per arm of the shim's `case`, and the execution at the end.
`Legal`, `InOptions` and `Kept` are the real client's own reading of the same
line: what it accepts, which positions are before the image or container, and
which arguments are no mount of the socket. `Expected` is what it should get, by
position and so without a loop like the shim's.

### Entrypoint: one container after another

One action per step of the script from the drain check to `run.sh`. `tree[f]` is the release
each file of the copy is of, `package[f]` that of the template; releases need not have the
same files (`Ships`) but all have `config.sh` and `.version`. `cp -a` removes nothing, so a
copy may keep files its release does not have; `Whole(r)` is that all of release `r` is there.
`torn` (history) says that the last copy was cut short or met an upgrade. Without `config.sh`
the script ends (`ConfigureFails`), and it may end where other files are missing. A job may
write anything into the work directory, a checkout whose name begins with a dot (`.repo`)
included, which the script's glob does not match (`Globbed`); `local` and `server` are the two
sides of the registration. The drain check is part of `Boot`; `Mark`
and `Clear` write and remove the marker at any time, and `minted` (history) counts the
tokens minted since. `Die` may strike at the steps in `DiesAt`, and `BeginUpgrade` and
`UpgradeFile` are rpm replacing the template in place. `ScriptDrains` is the refinement of
DrainContract by the script alone, step by step, where RunnerUnit has the same script in
three steps and all of systemd around it.

`MCRunnerUnit`, `MCCtlSync`, `MCPrune` and `MCEntrypoint` only give names to sets of steps,
shapes, releases and symmetries for the configurations; `MCText` puts Conf, Versions and Packaging, which have no
state in common, side by side. `*Proofs` hold the theorems.

## 3. The runs

Twelve runs: eight whose properties hold, four that show a finding. State counts are
distinct states found; each run takes two minutes or so at most.

| Run | Question | Instance | States |
|---|---|---|---|
| `commands` | does a drain hold against everything at once, do commands leave one intent, and is the contract kept? (`DrainBudget`, `WantsSettled`, `OneIntent`, `DrainHonoured`) | 2 instances, 2 ctls, 4 events, every step may fail but the link change and its reload | 2.5M |
| `liveness` | does a drain end, and does an enabled instance recover? (`DrainStops`, `DrainAdvances`, `Recovers`) | 1 instance, 1 ctl, 5 events, outages | 20k |
| `resume_race` | does `enable` resume a draining instance? (finding) | 1 instance, 1 ctl, 4 events | small |
| `sync_drifted` | does one `sync` repair every state the files can be in, and then do nothing; does `enable` explain itself and leave what a start needs; what does an `rm` leave? (`SyncConverges`, `SyncSettles`, `EnableExplained`, `EnableReady`, `RmLeavesNothing`) | every initial state of 1 instance, beside 1 that begins as nothing; 2 tokens, 2 events, every step may fail | 6.4M |
| `ctl_commands` | do the commands work one after the other, for two instances? (`SecretFollowsFile`, `LoadedBetween`, `SyncConverges`, `SyncLoads`, `CredentialLoads`) | 2 instances, 2 tokens, 7 events, from nothing; `rm` may be cut short | 1.1M |
| `prune_leftovers` | is everything reaped although jobs always run, by a single pass, and nothing of a young job? (`LeftoversReaped`, `PassReaps`, `YoungJobsKept`) | 2 jobs, one of them without a date, 1 container, 1 builder, 1 other, a reboot or a refusal | 354k |
| `prune_long_job` | is age a safe guard for jobs of any length? (finding) | 1 job, 1 container | small |
| `status` | is a restart without a job one? (finding) | 1 instance, 3 events, 3 restarts | small |
| `text` | do the readers of a conf agree, does the version check warn when it should, does what is checked upgrade? (`SeenAsPassed`, `DropinIsLastWord`, `NamesDistinct`, `TargetIsEndpoint`, `WarnsWhenBehind`, `UpgradesToRelease`) | 3 files with 3 lines in all over 4 keys; 6 releases, a page of 4; 2 bases | 525k |
| `shim` | does the engine get what it should? (`EngineGetsExpected`, `InjectionInChain`, `SocketNeverMounted`) | every line of up to 5 arguments over 15 tokens | 5.4M |
| `entry_restarts` | whole tree, clean workspace, next start, no token too many, and the contract of a drain (`TreeWhole`, `WorkFresh`, `StartsAgain`, `ScriptAdvances`, `MintsOnce`, `ScriptDrains`) | `config.sh`, a file of every other release and the version marker, 2 releases, 2 deaths anywhere, an upgrade at any time, any number of drains | 515k |
| `entry_torn_copy` | and with no exception for a copy that was killed? (finding) | 1 death, in the copy | small |

Why these bounds are enough to meet the interesting cases:

- *RunnerUnit.* What couples instances is the target, `disable --all` and the
  reload, so two suffice; ctl processes meet pairwise on one
  instance. Breaking a drain takes a drain, a command that interferes and a
  restart or kill; `enable` after `disable` after `enable`, each cut
  short or overlapped, is within four events. Container
  steps, outages and auto-restarts are not counted and not bounded. Jobs are
  counted only while draining, where the proofs bound them by one. All
  safety properties are proved for any bounds.
- *CtlSync.* `sync` treats instances alike and one after the other, so a single one covers
  every initial state of its files (`Drifted`); two are needed for orphans and for `rm` beside a
  neighbour, with a credential or without, or with a malformed conf file. Of two tokens one is
  old. Two events from every initial state are an edit or a command that fails, and then the
  command in question: nearly all that edits and failures leave is among the initial states.
  Seven from nothing are `add`, `enable`, `set-credential`, edits, `sync` and `rm`, or `rm`
  again after it was cut short. `ctl_commands` has neither malformed files nor commands that
  are cut short before a reload, either of which falsifies `SyncLoads` and `LoadedBetween`, and
  one process, as two falsify `SecretFollowsFile` (section 4).
- *Prune.* Two ages suffice, since `--max-age` is the only line the code draws. A second
  job keeps the host busy while the first one's leftovers wait. One trouble is a reboot
  or one refusal, in any pass; what one refusal leaves is left to any later pass. One pruner is
  enough for liveness; `YoungJobsKept` and `PassReaps` with overlapping passes were
  checked with two and are proved for any number.
- *Status.* A report goes wrong with two jobs, two restarts and one pruning.
- *Conf.* Three lines are two that set the same key in different files and one
  more, or two that clash between instances over a default; the key sets have a value that
  equals another instance's default name, an empty one, and URLs with
  and without a slash at the end. All four properties are proved for any bounds.
- *Versions.* `PageAssumption` says what a page must hold: the releases that
  decide and all that is odd. With more odd entries than the code's page of 30
  leaves room for, the check would miss a release.
- *DockerShim.* Five arguments hold a two-word subcommand, a flag with a value
  and a mount, or a mount in a container's command; and every pair and triple of
  arms in every order, and short forms with a value joined on or following. All three safety properties are proved for any length.
- *Entrypoint.* With one file copied before and one after the marker, a torn
  copy has every shape, with and without `config.sh`; the second release has a file less than
  the first. Two deaths leave one behind another one, and the second may come after the upgrade.
  The safety properties are proved for any files, releases and deaths.

Deadlock is checked where the system can always move. `CHECK_DEADLOCK FALSE`
stands in `commands`, `liveness`, `resume_race`, `status` (all services dead and the events
used up), the two runs of CtlSync (no command left), `text` (the files and lists are full) and
`shim` (it has executed the engine).

### Fairness

- RunnerUnit: weak fairness of what systemd, podman and the script do by
  themselves (create, check, prepare, exit, restart), of the end of a job
  (GitHub times jobs out), and of the next call of a command that is not cut
  short. None on commands, events, outages or recoveries. Only `BusySpec` adds that a
  listener is given a job in the end. `DrainStops` needs it, because an idle listener
  is not told to stop: see section 6.
- Prune: time passes; the timer starts passes and a pass goes on (weak);
  a network listing that is asked for again and again is answered some time
  (strong, as each failure ends the pass). Podman refuses no more than `MaxTroubles` removals
  and listings of builders, so that some pass comes after the last refusal; what is refused for
  ever stays for ever, in the code as in the model. Jobs need not end, nor containers stop.
- Entrypoint: the script goes on and is started again, an upgrade once begun
  completes. No job has to come, and no drain to end.
- CtlSync, Reports, Status, Conf, Versions, Packaging and DockerShim state safety only.

## 4. Findings

Four runs show the code doing other than its documentation says.

1. `resume_race`, `EnabledRuns`. drain.py:39 says of a draining instance
   "Remove this file, or run `gh-runner-ctl enable`, to resume." `enable` runs
   `systemctl start`, which does nothing to an active service. A container
   that read the marker just before `enable` removed it exits 78 just after,
   and the service stays down, enabled and not draining.
2. `prune_long_job`, `OnlyLeftovers`. prune.py:184 speaks of "containers and
   networks stopped longer than this". The code asks a network only for its
   age, so that of a job that has run for `--max-age` is removed by force, with
   the job's running containers on it.
3. `entry_torn_copy`, `TreeSynced`. entrypoint.sh:31-32 says that the whole tree is
   synced when the version marker differs. The marker is one of the files `cp -a`
   brings: a copy killed after it and before the rest looks complete. If `config.sh` was
   among the rest, every later start fails there (entrypoint.sh:135-136, `set -e`), until
   the next release: the instance is `Wedged`, which is why `StartsAgain` names it.
4. `status`, `UnexplainedMeansJobless`. cli.py:341-342 says "Every restart should
   correspond to a completed job. More restarts than jobs means something is
   exiting before it picks work up." The counter runs since the service was last
   started by hand, the logs are kept for `--diag-age` (state.py:69-70 says
   so): a runner with a job on every start, up for longer than that, is
   reported with restarts "without a job".

Five more the models have, and the statements of properties that hold name as
exceptions; they have no run of their own.

5. entrypoint.sh:48-49 says "Job checkouts and scratch go", the design (:371) that
   `_work/<repo>` is removed since "Job checkouts must not leak across jobs". The sweep goes
   over `"$WORK"/*` in both of its modes, which no name that begins with a dot matches: the
   checkout of a repository such as `.github` stays (`WorkFresh`, `.repo`).
6. The design (:1024-1025) has the version check warn "when the gap exceeds
   `VERSION_WARN_RELEASES`"; the code warns when it reaches it (version_check.py:133), as the
   option's help says (:109) and with it `WarnsWhenBehind`.
7. `rm` is to "disable and remove an instance" (cli.py:663). A link that an earlier build put
   in `default.target.wants` is not looked for (units.py:315-319), and the next `sync` moves it
   to `gh-runner.target.wants` (units.py:160-185): the next boot starts an instance without a
   conf file (`RmLeavesNothing`).
8. secret.py:149 says "Make one instance's podman secret match its file". The file is read
   before podman is asked and no command takes a lock: of two commands the one that read the
   older token may load it last, and the older one stays until the next `sync`
   (`SecretFollowsFile`, `CredentialLoads`).
9. The design (:1101) calls `ctl sync` "the operation that must converge". A `sync` stopped by
   a malformed conf file has changed links already, and the list of its changes is gone with
   it (cli.py:251): the next one finds all in place, says "already in sync" (cli.py:256), and
   systemd has still not loaded it (`SyncLoads`, `LoadedBetween`).

## 5. The proofs

For every value of the constants, from the `ASSUME`s the modules name (types
and disjointness of constants, no more) unless said otherwise.

**RunnerUnitProofs** (RunnerUnit and Status). `TypeCorrect` is inductive as it stands,
thanks to its conjunct that only an active service has a container. `DrainBudgetHolds`:
`since <= 1` alone is not inductive, as a container in `listening` could begin a second job;
`DrainInv` adds that a container past its drain check without a job has `since = 0`. It
survives every action since the two ways into `ready` and `job` are the drain check, which a
draining container fails, and the one job of an ephemeral runner. `WantsSettledHolds`
assumes that neither making the link nor the reload fails (`MayFail \cap {"symlink",
"reload"} = {}`); with such a failure it does not hold. `OneIntentHolds` rests on
`IntentInv`: where an instance is both marked and linked, a command is still at work on it,
and a command that has met no other (`alone`) finds what it did itself as it left it.
`DrainIsHonoured` is the refinement of DrainContract: every action leaves gate and work
alone (lemma `Still`), ends containers (`Quits`, `Ends`), or is `Begin`, `Drain` or
`Resume`. `DrainAdvancesHolds` is the well-founded half of `DrainStops`: `Ahead` counts the
steps a draining instance has left, and each of its own steps takes at least one away. It
says nothing of an instance without its secret or RUNNER_URL, which goes round for ever
(section 6). That the steps are taken is fairness.

`StatusOnlyCounts`: what is proved of the services holds beside `status`.
`StatusRightUntilPruned` is what finding 4 leaves: while no log is removed (`[][~PruneDiag]`),
`status` never reports more restarts without a job than there were, however often the
counter began anew. By `Tally`: each counted restart has a log or had no job.

**EntrypointProofs.** `TypeCorrect`; `WorkFreshHolds`, as the sweep comes before everything
else in each container; `TreeWholeHolds`, from `MarkerInv`: outside a copy and unless it was
`torn`, a version marker that is not 0 vouches for every file of its release, and within one
the files already copied are of the release wanted. None of them has a hypothesis about
where containers die or when packages are installed: what a copy that is cut short or meets an
upgrade leaves is in the statements, as `torn`, and finding 3 shows it to be needed.
`MintsOnceHolds` needs
`MintInv`: a container on its way to a token while the instance drains was started
before, and has none yet. `ScriptAdvancesHolds` is the well-founded half of `StartsAgain`:
each step of the script gets to a later `Stage` or leaves less to copy or sweep, as
`Unregistered` keeps config.sh from refusing and `MarkerInv` has all files there unless the copy
was torn. `ScriptDrainsHolds` is the refinement: a step is
none of the contract's (`Quiet`), ends the container (`Ends`), or is `Begin`, `Drain`
or `Resume`.

**DockerShimProofs.** For command lines of any length. `TypeCorrect` contains
the loop's progress: what is kept is shorter than what is consumed.
`InjectionInChainHolds` follows from `ChainInv` (before the first flag the kept
line is the line itself and has one word per argument; afterwards the
subcommand is settled). `SocketNeverMountedHolds` rests on `MountInv` (the kept
line has no mount, and does not end in a flag whose value is still to come)
and on two lemmas about sequences: appending (`AppendNoMount`) and injecting
(`SpliceNoMount`) bring no mount about. Of the forms the shim does not look for,
`BundleInv` says that of a line without one the kept line has none, nor ends in a flag that
waits for another value than the next argument; `SpliceUnbundled` that injecting adds none. `EngineGetsExpectedHolds` is the agreement of the
two readings. `WordsRead` says where the loop puts the leading words and that a flag ends
them; `KeptRead` that what is kept is the subcommand and then the arguments to be kept
before the next one (`KeptTo`), and that the next one is no value of a `-v`. So a step
either keeps one more argument (`TakesOne`, by `PickedAppend`: a position behind all
others comes last) or passes one that is part of a mount (`KeptUnlessMount`, `KeptWhen`:
the client and the pass agree on which those are only if nothing in the container's
own command looks like one).

**PruneProofs.** For any number of jobs, containers and overlapping passes, jobs of any
length and reboots. `YoungJobsKeptHolds`: a listing is of the past, so the argument is that
age only grows. `AgesInv` says that a container that is there belongs to a job that has
started and is, like its network, no older than the job; `ListedInv` that what a pass has
listed is as old as it was then or gone for good. Together they put what a pass removes out
of a young job's reach. Without the age (`OnlyLeftovers`) the statement is false: finding 2.
`PassReapsHolds`: what was due when a pass began is, until the pass takes it, in its
listings or on a network that will be (`DueInv`), and neither jobs nor other passes nor the
host add to it (`Shrinks`). A job podman refused some of to this very pass is not `due` any
more; what it refused of others, or to other passes, does not matter.

**CtlSyncProofs.** For any number of instances, processes and events, overlapping
commands and hand edits, from any initial state. Two invariants carry most of the
theorems.

- `TypeInv`: beside the types, what a command holds at each step (`Carried`): its
  verb has the step (`StepsOf`), it has an instance where it needs one and a token
  where it is to store one, and a command for one instance has no other to
  go on to. Without it nothing is known of a command that goes on after another
  process or an editor has moved.
- `DoneInv`: what a `sync`, `enable`, `rm`, `add` or `set-credential` that has met nobody
  (`quiet`) has already brought about when it is at a given step: for `sync`, the links after
  `links`, the socket after `socket`, the drop-ins of the instances no longer in
  `todo`, and so on. Each lemma `...StepDone` shows that a command's own step
  adds its part and keeps the rest; whoever else moves ends `quiet`.

`SyncConvergesHolds`, `RmLeavesNothingHolds` and `CredentialLoadsHolds` read the last step
off `DoneInv`. `SyncSettlesHolds` shows step by step that in a state in sync nothing
is left to write, remove or replace. None of the four has a hypothesis:
whatever failed before, the next run that is left alone repairs it.

`SyncLoadsHolds` and `LoadedBetweenHolds` have two, both needed: no command may fail between
a change of a unit file and its reload (`MayFail \subseteq NothingPending`), and no conf
file is malformed, as a `sync` stopped by one forgets what it has changed (section 4, 9).
`LoadedBetweenHolds` has a third of the same kind, that no directory stands in the place of
`podman.socket` that can not be removed: it, too, stops a `sync` after its first changes.
`LoadedInv` says that disk and systemd differ only while a command that will reload, having
noted a change, is under way, `AloneInv` that a quiet command has no other beside it.
`LoadedBetween` speaks of overlapping commands as well: the reload of one may come before
another's change, but that one reloads, too.

`SyncsAgreeHolds` and `SettledIsInSync` are about any number of `sync` and `enable`
that overlap: from the end of the first `sync` on everything stays as the files say
(`Settled`), but for a secret that a command under way has removed to create it anew, and
with no command under way that is `InSync`. None of them ran alone, so `DoneInv` says
nothing; the argument is what each relies on and the others leave alone. `Informed`:
what a command has read is what the files say; `Reached`: what a `sync` relies on being in
place at each step, whoever put it there; `Helps` and `Spares`: no step takes back a
link, a directory or a drop-in that is as it should be, nor a secret except to
replace it. The hypotheses (`Deriving`) are that only these two verbs run and nobody edits
the files (the other verbs change them, section 6), and that a command is not cut short where
it would leave a secret removed (`drop`, `create`) or, as podman does not list or does not
remove, would not prune. Cut short anywhere else, it does no harm. No run has these two, as every run
of CtlSync has edits; TLC found them to hold with two processes, two tokens and three commands
from every initial state (2.2M states).

**ReportsProofs.** The same invariants, read by doctor, `list` and
`check-credential`: `EnableExplainedHolds` takes the ways `enable` can give up apart, and
`EnableReadyHolds` what a start needs at its end. No hypotheses.

**VersionsProofs.** `WarnsWhenBehindHolds` for every page size, threshold and number of
odd entries that `PageAssumption` lets fit, and lists of any length. `LessIsNewer`: tuples
of the leading digits are ordered as upstream's versions are. `LineInv`: an entry
of the main line is followed by none that is newer, so where a newer release is off the page,
all of the main line on the page are newer too, and there is room for
enough of them (`FullPageWarns`, by counting). `UpgradesToReleaseHolds` is about Packaging,
for any set of base versions: `RankOfPassed` orders what the check lets pass.

**ConfProofs.** For any instances, files of any length, keys and values (`TextsAssumption`:
sequences of strings). All four properties hold of every state whose files hold lines
(`LinesInv`); what has to be shown is what the loop of `parse_env_file` comes to.
`FilledIs`: after it, each key has the value of the last line that sets it. The loop is a
recursive function; the function that gives each number of lines its last values satisfies
the same equation (`LatestStep`), and two that do can not differ, as there would be a least
number of lines where they do (`Least`, from the library's `WFMin`). `ReadFacts` and
`BothRead` carry that over to ctl's and podman's reading of one file and of two.
`TargetIsEndpointHolds` needs `PathIsTarget`, about the parts of a URL.
`NamesDistinctHolds` assumes that containers' host names differ and that no RUNNER_NAME is
made of one: podman makes host names up for each container, so nobody can write one down.

Only model-checked: the liveness properties `DrainStops`, `Recovers`, `LeftoversReaped`
and `StartsAgain`, as fairness rests on ENABLED, which is out of the prover's reach. For
three of them what makes them end is proved (`DrainAdvances`, `PassReaps`,
`ScriptAdvances`). Of the safety properties, `SecretFollowsFile`: it holds of commands that
run one after the other, while only they write credentials and secrets, and section 4 (8) says what
two at once make of it. Every other safety property of a passing run has a theorem.

## 6. What else the models show

Behaviours the models have as the code has them, which no property forbids
because no document promises otherwise or only in passing. Each was met while
stating a stronger property.

- An idle listener is not stopped by a drain: it drains only after one more
  job, which may never come.
- A draining instance without RUNNER_URL or without its secret restarts every
  five seconds for ever: both fail before the drain check
  (entrypoint.sh:12, 22-24). `DrainStops` excludes the two by name.
- An instance that drains while its container dies after registering has had a token it
  did not use: `MintsOnce` counts it, and asks for no second one.
- Two commands on one instance at once may leave it enabled and draining.
  `OneIntent` is about commands that ran alone.
- `enable` clears the drain marker before it can fail on an unknown unit
  (cli.py:151-153): a failed `enable` may have cancelled a drain.
- doctor advises `sync` for a secret that is missing (doctor.py:108). If the
  credential file's mode is too wide, `sync` refuses it and the advice stays; only
  `check-credential` names the mode. With no instance configured, doctor does not look for
  orphan credentials.
- design/gh-runner-rpm-spec.md:562-563 says that `ctl edit` rejects a file that relies on quotes
  being stripped; `cmd_edit` warns and leaves it (cli.py:104-114). Nothing
  lints `gh-runner.conf`.
- A RUNNER_NAME that is empty in the file is shown as empty, while the entrypoint makes up
  a name from the container's host name, which is not the host's (conf.py:197, entrypoint.sh:14).
- RUNNER_URL with two slashes at its end: `status` shows the target, `register.sh` finds no
  endpoint, or another one. `TargetIsEndpoint` is about the rest.
- The version check calls `latest` what was published last, which may be a fix of an older line.
- The pruner takes the network of a young job if its date can not be parsed (prune.py:77-78).
- `disable` whose daemon-reload failed does not reload when it is tried again,
  since the link is already gone (units.py:317). A `sync` stopped by a directory in the place
  of `podman.socket` forgets its changes as one stopped by a malformed file does (section 4, 9).
- Of two overlapping commands one may prune the secret of an instance just added
  (cli.py:242), or put an old one back (section 4, 8). Both take a
  command that changes the sources: `sync` and `enable` among themselves agree (section 5).
- Between the two calls that replace a secret there is none: a container started just then
  fails, as does every start after a command killed there, until the next `sync`.
- One malformed conf file stops `rm` of another instance half way (cli.py:123): its
  files and its link are gone, its drop-in stays. A link in `default.target.wants` stays
  in any case (section 4, 7).
- A secret `sync` prunes counts as removed whether podman has removed it or not
  (secret.py:202); so does what the pruner reaps (prune.py:211, 216, 227), which a later pass
  finds again.
- The pruner's ages count from creation, also for what stopped a moment ago
  (prune.py:65); a stopped persistent builder goes as an abandoned one does
  (prune.py:122); a builder started between listing and removal is
  removed (prune.py:224).
- A volume of a job, labelled by the shim, is never listed by the pruner.
- The shim strips socket mounts from the command a container is to run, too
  (`PlainCommand` in `EngineGetsExpected`).
- The shim leaves `-v=SPEC`, `-vSPEC` and `-itv SPEC` in, which are mounts to the client
  (docker:88-101). The runner writes `-v SPEC` (docker:12-13).
- An upgrade while a container copies the template stamps a mixture (entrypoint.sh:37-43),
  which stays if the new marker was the one read; `TreeWhole` excepts it by `torn`.
- Files that a new release does not have any more stay in the instance's copy
  (entrypoint.sh:42).

## 7. Not modelled

- What podman prints: its JSON and its dates are taken as understood, as not understood
  (`ListingFails`), or as without a date.
- doctor's checks of the host (linger, subuid, podman's version, cgroups, `quadlet
  -dryrun`, `:Z`): each is one condition on something no other part changes.
- `keys`, the help texts, the layout of reports, the arguments of commands.
- `--images` and `--dry-run` of the pruner: the first touches nothing a job uses,
  the second nothing at all.
- The `gh-runner.conf` of defaults is a file of Conf; in CtlSync it is part of each conf
  file, an edit of it a series of edits, one per instance.
- Blanks between a key and its `=`, and versions of other than three parts.
- Image builds and the rest of the Makefile and the spec: they run before the system does.

## 8. Plan

Done, in this order: RunnerUnit and DrainContract (what users would notice
first), CtlSync, Prune, DockerShim, Entrypoint; then Reports, Conf, Versions, Packaging and
Status, with the proofs named above.

Then `sync` and `enable` overlapping, the safety properties that had no theorem, and the
steps behind the liveness properties.

Next:

1. *Composition.* RunnerUnit and Entrypoint both implement DrainContract; left is to show
   RunnerUnit's container to be an abstraction of Entrypoint, one `Die` for a `kill`.
2. *Overlap with `add`, `set-credential` and `rm`*: which promises survive a lock around
   the commands that change sources.
