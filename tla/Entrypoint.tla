----------------------------- MODULE Entrypoint -----------------------------
(***************************************************************************)
(* entrypoint.sh, once per container, i.e. once per job, on a state        *)
(* directory that outlives every container: the runner's own tree, the     *)
(* work directory and the registration.                                    *)
(*                                                                         *)
(* Whatever ends a container, the next one starts from what it left, and   *)
(* unless the instance drains it is started at once: what systemd makes of *)
(* the ways to exit is in RunnerUnit.                                      *)
(***************************************************************************)
EXTENDS Naturals

CONSTANTS
  Parts,         \* files of the runner's tree, other than the two named below
  MaxRelease,    \* package releases 1 .. MaxRelease are installed in turn
  Ships,         \* Ships[r]: the parts release r has
  DiesAt,        \* where a container may be killed or a command of it fail
  MaxDeaths      \* bound on that

Steps == {"down", "version", "copy", "stamp", "stamped", "sweep", "preflight",
          "mint", "clear", "config", "save", "listen", "job"}

ASSUME PartsAssumption == Parts \cap {"config.sh", ".version"} = {}
ASSUME ReleaseAssumption == MaxRelease \in Nat \ {0}
ASSUME ShipsAssumption == Ships \in [1 .. MaxRelease -> SUBSET Parts]
ASSUME DiesAssumption == DiesAt \subseteq Steps \ {"down"}
ASSUME DeathsAssumption == MaxDeaths \in Nat

Files == Parts \cup {"config.sh", ".version"}
Releases == 1 .. MaxRelease

\* The files of a release: the script it is configured by and the version marker
\* are in every one.
FilesOf(r) == Ships[r] \cup {"config.sh", ".version"}

\* File f as release r has it.
Shipped(r, f) == IF f \in FilesOf(r) THEN r ELSE 0

\* What _work may hold: the runner's directory of scratch and the two it is to keep
\* (one stands for both), checkouts, plain files a job has put beside them, and
\* whatever has a name that begins with a dot: a checkout is named for its
\* repository, and `.github` is a usual one.
Entries == {"_temp", "_tool", "repo", "file", ".repo"}

VARIABLES
  pc,        \* where the container is, "down" if there is none
  package,   \* package[f]: the release file f of the template is of, 0 if
             \* there is none
  release,   \* the release installed last, or being installed
  tree,      \* tree[f]: the release file f of the instance's copy is of, 0 if
             \* it is missing or empty; tree[".version"] is the version marker
  torn,      \* the copy was cut short, or taken of a template that rpm was
             \* replacing, since it was last copied as a whole (history)
  want,      \* the template's marker, as this container read it
  todo,      \* files this container has yet to copy
  wipe,      \* RUNNER_WIPE_WORK=1 in its environment
  work,      \* entries of _work that hold something of a job
  local,     \* .runner exists
  server,    \* GitHub lists a runner under this name
  marker,    \* the drain marker exists
  minted,    \* tokens minted since it was written (history)
  deaths     \* how many containers have come to a bad end

template == <<package, release>>
copy == <<tree, torn, want, todo>>
registration == <<local, server>>
drain == <<marker, minted>>
vars == <<pc, template, copy, wipe, work, registration, drain, deaths>>

Init ==
  /\ pc = "down"
  /\ package = [f \in Files |-> Shipped(1, f)]
  /\ release = 1
  /\ tree = [f \in Files |-> 0]
  /\ torn = FALSE
  /\ want = 0
  /\ todo = {}
  /\ wipe = FALSE
  /\ work = {}
  /\ local = FALSE
  /\ server = FALSE
  /\ marker = FALSE
  /\ minted = 0
  /\ deaths = 0

-----------------------------------------------------------------------------
(* The script.                                                             *)

\* The template is the release installed last, all of it and nothing else.
Installed == \A f \in Files : package[f] = Shipped(release, f)

\* Of release r there is every file in the instance's copy; there may be more, as
\* what an earlier release had is not removed.
Whole(r) == \A f \in FilesOf(r) : tree[f] = r

BootUnchecked ==   \* mutant: no drain check
  /\ pc = "down"
  /\ pc' = "version"
  /\ wipe' \in BOOLEAN
  /\ UNCHANGED <<template, copy, work, registration, drain, deaths>>

\* A container starts, with the conf file of that moment.  First of all it looks
\* for the marker, and has changed nothing when it finds it and exits.
Boot ==
  /\ pc = "down" /\ ~marker
  /\ pc' = "version"
  /\ wipe' \in BOOLEAN
  /\ UNCHANGED <<template, copy, work, registration, drain, deaths>>

CompareOnce ==   \* mutant: a tree that is there is not synced again
  /\ pc = "version"
  /\ want' = package[".version"]
  /\ IF tree[".version"] = 0
     THEN pc' = "copy" /\ todo' = Files
     ELSE pc' = "sweep" /\ todo' = {}
  /\ UNCHANGED <<template, tree, torn, wipe, work, registration, drain, deaths>>

\* The template is copied when the markers differ.
Compare ==
  /\ pc = "version"
  /\ want' = package[".version"]
  /\ IF tree[".version"] = want'
     THEN pc' = "sweep" /\ todo' = {} /\ torn' = torn
     ELSE pc' = "copy" /\ todo' = Files /\ torn' = ~Installed
  /\ UNCHANGED <<template, tree, wipe, work, registration, drain, deaths>>

\* `cp -a`, in the order of the directory, and what the template does not have
\* stays as it is; .version is one of the files.
CopyFile ==
  /\ pc = "copy"
  /\ \E f \in todo :
       /\ tree' = IF package[f] = 0 THEN tree ELSE [tree EXCEPT ![f] = package[f]]
       /\ todo' = todo \ {f}
  /\ UNCHANGED <<pc, template, torn, want, wipe, work, registration, drain, deaths>>

CopyDoneAnyway ==   \* mutant: without `set -e`, a cp that has failed
  /\ pc = "copy"
  /\ pc' = "stamp"
  /\ UNCHANGED <<template, copy, wipe, work, registration, drain, deaths>>

CopyDone ==
  /\ pc = "copy" /\ todo = {}
  /\ pc' = "stamp"
  /\ UNCHANGED <<template, copy, wipe, work, registration, drain, deaths>>

\* `echo > .version` truncates it first.
Stamp ==
  /\ \/ pc = "stamp" /\ pc' = "stamped" /\ tree' = [tree EXCEPT ![".version"] = 0]
     \/ pc = "stamped" /\ pc' = "sweep" /\ tree' = [tree EXCEPT ![".version"] = want]
  /\ UNCHANGED <<template, torn, want, todo, wipe, work, registration, drain, deaths>>

\* What `_work/*` stands for: nothing that begins with a dot.
Globbed == Entries \ {".repo"}

SweptNotTemp ==   \* mutant: _temp is not a checkout
  IF wipe THEN Globbed ELSE {"repo"}

\* What goes: all that, or _temp and every directory of it but two.
Swept == IF wipe THEN Globbed ELSE {"_temp", "repo"}

Sweep ==
  /\ pc = "sweep"
  /\ \E e \in Swept \cap work : work' = work \ {e}
  /\ UNCHANGED <<pc, template, copy, wipe, registration, drain, deaths>>

SweepDone ==
  /\ pc = "sweep" /\ Swept \cap work = {}
  /\ pc' = "preflight"
  /\ UNCHANGED <<template, copy, wipe, work, registration, drain, deaths>>

\* The socket is usable, and the host's engine answers.
Preflight ==
  /\ pc = "preflight"
  /\ pc' = "mint"
  /\ UNCHANGED <<template, copy, wipe, work, registration, drain, deaths>>

\* register.sh: a credential, an endpoint inferred from RUNNER_URL, a token.
Mint ==
  /\ pc = "mint"
  /\ pc' = "clear"
  /\ minted' = IF marker THEN minted + 1 ELSE minted
  /\ UNCHANGED <<template, copy, wipe, work, registration, marker, deaths>>

ClearRegistrationSkipped ==   \* mutant: --replace is thought to be enough
  /\ pc = "clear"
  /\ pc' = "config"
  /\ UNCHANGED <<template, copy, wipe, work, registration, drain, deaths>>

\* What the previous container has written is stale.
ClearRegistration ==
  /\ pc = "clear"
  /\ pc' = "config"
  /\ local' = FALSE
  /\ UNCHANGED <<template, copy, wipe, work, server, drain, deaths>>

\* config.sh registers, in place of whatever GitHub lists under that name.
Configure ==
  /\ pc = "config"
  /\ tree["config.sh"] # 0 /\ ~local
  /\ pc' = "save"
  /\ server' = TRUE
  /\ UNCHANGED <<template, copy, wipe, work, local, drain, deaths>>

\* It refuses when it is configured already; and the script ends, by `set -e`,
\* where there is no config.sh, or where it can not make do with the files of the
\* runner that are there.
ConfigureFails ==
  /\ pc = "config"
  /\ local \/ ~Whole(want)
  /\ pc' = "down"
  /\ UNCHANGED <<template, copy, wipe, work, registration, drain, deaths>>

\* run.sh is one of those files, too.
SaveRegistration ==
  /\ pc = "save"
  /\ \/ pc' = "listen"
     \/ ~Whole(want) /\ pc' = "down"
  /\ local' = TRUE
  /\ UNCHANGED <<template, copy, wipe, work, server, drain, deaths>>

-----------------------------------------------------------------------------
(* What it starts, and what may happen to it.                              *)

TakeJob ==
  /\ pc = "listen"
  /\ pc' = "job"
  /\ UNCHANGED <<template, copy, wipe, work, registration, drain, deaths>>

JobWrites ==
  /\ pc = "job"
  /\ \E e \in Entries : work' = work \cup {e}
  /\ UNCHANGED <<pc, template, copy, wipe, registration, drain, deaths>>

FinishJobListens ==   \* mutant: configured without --ephemeral
  /\ pc = "job"
  /\ pc' = "listen"
  /\ UNCHANGED <<template, copy, wipe, work, registration, drain, deaths>>

\* GitHub forgets an ephemeral runner once it has had its job.
FinishJob ==
  /\ pc = "job"
  /\ pc' = "down"
  /\ server' = FALSE
  /\ UNCHANGED <<template, copy, wipe, work, local, drain, deaths>>

\* `disable` and `enable`.  A marker that is there is left alone.
Mark ==
  /\ ~marker
  /\ marker' = TRUE
  /\ minted' = 0
  /\ UNCHANGED <<pc, template, copy, wipe, work, registration, deaths>>

Clear ==
  /\ marker
  /\ marker' = FALSE
  /\ UNCHANGED <<pc, template, copy, wipe, work, registration, minted, deaths>>

\* The container is killed, or exits because a command of it has failed.
Die ==
  /\ pc \in DiesAt /\ deaths < MaxDeaths
  /\ pc' = "down"
  /\ deaths' = deaths + 1
  /\ torn' = (torn \/ pc = "copy")
  /\ UNCHANGED <<template, tree, want, wipe, work, registration, drain>>
  /\ todo' = {}

\* A package upgrade replaces the template file by file, and containers start and
\* copy meanwhile.
BeginUpgrade ==
  /\ release < MaxRelease /\ Installed
  /\ release' = release + 1
  /\ torn' = (torn \/ pc = "copy")
  /\ UNCHANGED <<pc, package, tree, want, todo, wipe, work, registration, drain, deaths>>

UpgradeFile ==
  /\ \E f \in Files :
       /\ package[f] # Shipped(release, f)
       /\ package' = [package EXCEPT ![f] = Shipped(release, f)]
  /\ UNCHANGED <<pc, release, copy, wipe, work, registration, drain, deaths>>

-----------------------------------------------------------------------------
Script ==
  \/ Boot \/ Compare \/ CopyFile \/ CopyDone \/ Stamp \/ Sweep \/ SweepDone
  \/ Preflight \/ Mint \/ ClearRegistration \/ Configure \/ ConfigureFails
  \/ SaveRegistration

Runner == TakeJob \/ JobWrites \/ FinishJob

Next == Script \/ Runner \/ Mark \/ Clear \/ Die \/ BeginUpgrade \/ UpgradeFile

Spec == Init /\ [][Next]_vars

\* systemd starts the container again and the script goes on, and so does rpm
\* with an upgrade; no job has to come or to end, and no drain.
FairSpec == Spec /\ WF_vars(Script) /\ WF_vars(UpgradeFile)

-----------------------------------------------------------------------------
(* Properties                                                              *)

\* Every variable keeps its kind of value, at every step of the script.
TypeOK ==
  /\ pc \in Steps
  /\ package \in [Files -> Releases \cup {0}]
  /\ release \in Releases
  /\ tree \in [Files -> Releases \cup {0}]
  /\ torn \in BOOLEAN
  /\ want \in Releases \cup {0}
  /\ todo \in SUBSET Files
  /\ pc # "copy" => todo = {}
  /\ wipe \in BOOLEAN
  /\ work \in SUBSET Entries
  /\ local \in BOOLEAN /\ server \in BOOLEAN
  /\ marker \in BOOLEAN /\ minted \in Nat
  /\ deaths \in 0 .. MaxDeaths

\* Past the registration: config.sh and run.sh run from the copy.
Runs == {"config", "save", "listen", "job"}

\* config.sh and run.sh run from one whole release, the one the template's
\* marker named when the container started (step 3 of the script), unless the
\* last copy was cut short or taken while rpm was replacing the template: no
\* other death, and no upgrade at another time, leaves a mixture.
TreeWhole == pc \in Runs /\ ~torn => Whole(want)

\* Step 3 of the script without that exception: "Sync the pristine template into
\* the instance state dir when the version marker differs.  The *whole* tree".
TreeSynced == pc \in Runs => Whole(want)

\* Past the sweep, before a job.
Fresh == {"preflight", "mint", "clear", "config", "save", "listen"}

\* A job finds no scratch of an earlier one and no checkout, however that job
\* ended, and no actions or tools either if RUNNER_WIPE_WORK is set: but for what
\* has a name that begins with a dot, which the sweep does not match.  (Step 4 of
\* the script has no such exception: "Job checkouts and scratch go".)
WorkFresh ==
  pc \in Fresh =>
    /\ work \cap {"_temp", "repo"} = {}
    /\ wipe => "_tool" \notin work

\* A container has ended and left the marker of the template in a copy that is
\* not that release: every later start will take it for complete.
Wedged ==
  /\ pc = "down"
  /\ tree[".version"] = package[".version"]
  /\ ~Whole(tree[".version"])

\* No death leaves behind what keeps the instance from registering again, neither
\* in _work nor in a registration on either side, unless it drains, or a copy has
\* left a marker that vouches for files that are not there.
StartsAgain == pc = "down" ~> (pc = "listen" \/ marker \/ Wedged)

\* How far the script has got.
Stage == [down |-> 0, version |-> 1, copy |-> 2, stamp |-> 3, stamped |-> 4,
          sweep |-> 5, preflight |-> 6, mint |-> 7, clear |-> 8, config |-> 9,
          save |-> 10, listen |-> 11, job |-> 12]

\* Why: whatever earlier containers have left in _work and of a registration,
\* every step of the script gets it further, or leaves it with less to copy or to
\* sweep; it gives up by itself only over a copy that was cut short or taken while
\* rpm was replacing the template.
ScriptAdvances ==
  [][Script =>
       \/ Stage[pc] < Stage[pc']
       \/ /\ pc' = pc
          /\ \/ todo' \subseteq todo /\ todo' # todo
             \/ work' \subseteq work /\ work' # work
       \/ torn /\ pc' = "down"]_vars

\* Wherever the container is when the marker is written, and however often one
\* dies afterwards, at most one more token is minted, be it used or not: step 1 of
\* the script is there so "a drained instance never mints a token it will not use".
MintsOnce == marker => minted <= 1

\* Why: a container on its way to a token was started before the marker was
\* written, and has none yet.
MintInv ==
  marker => /\ minted <= 1
            /\ pc \in {"version", "copy", "stamp", "stamped", "sweep", "preflight",
                       "mint"} => minted = 0

\* The script by itself, step by step, keeps the promise of a graceful `disable`:
\* a container past its drain check holds the gate open for one more job.
Here == {"this runner"}
gate == [i \in Here |->
           IF ~marker THEN "open" ELSE IF pc \in {"down", "job"} THEN "shut" ELSE "last"]
working == [i \in Here |-> pc = "job"]

Contract == INSTANCE DrainContract
  WITH Instances <- Here, gate <- gate, working <- working

ScriptDrains == Contract!ContractSpec

=============================================================================
