-------------------------------- MODULE Conf --------------------------------
(***************************************************************************)
(* The conf files: gh-runner.conf and instances.d/<id>.conf.               *)
(*                                                                         *)
(* Three readers share them.  gh-runner-ctl parses them for what it shows, *)
(* checks and derives; podman parses them again, as --env-file, for what   *)
(* the container gets; entrypoint.sh and register.sh take it from there.   *)
(* Nothing but the lint rules and doctor tells an operator when the        *)
(* readers disagree.                                                       *)
(***************************************************************************)
EXTENDS Naturals, Sequences, SequencesExt

CONSTANTS
  Instances,     \* instance ids, strings as in file names
  Global,        \* the file of defaults
  TextsOf,       \* TextsOf[k]: the values key k is given; a value is the
                 \* sequence of its parts between slashes, <<>> if empty
  MaxLines       \* bound on the lines of all files together

Keys == DOMAIN TextsOf
Sources == Instances \cup {Global}

ASSUME GlobalAssumption == Global \notin Instances
ASSUME LinesAssumption == MaxLines \in Nat
ASSUME TextsAssumption == \A k \in Keys : TextsOf[k] \subseteq Seq(STRING)

Blank == ""    \* the part of a value between two slashes that are adjacent

VARIABLE lines     \* lines[f]: the lines of file f

\* The keys by where they go.  A key that is in none of the three is passed to
\* the container as it is.
UnitShaping ==
  [MEMORY_MAX |-> "MemoryMax", MEMORY_HIGH |-> "MemoryHigh",
   CPU_WEIGHT |-> "CPUWeight", CPU_QUOTA |-> "CPUQuota",
   TASKS_MAX |-> "TasksMax", IO_WEIGHT |-> "IOWeight"]
JobShaping == {"JOB_MEMORY_MAX", "JOB_CPUS"}
RuntimeKeys == {"RUNNER_URL", "RUNNER_NAME", "RUNNER_LABELS", "RUNNER_GROUP",
                "RUNNER_WIPE_WORK"}

\* A line sets a key to a value, in quotes or with blanks around it, or it is
\* one that sets nothing.
Settings ==
  UNION {[key : {k}, text : TextsOf[k], style : {"plain", "quoted", "padded"}] : k \in Keys}
Others == {[key |-> k] : k \in {"#", "no equals sign", "not-a-key"}}

ConfInit == lines = [f \in Sources |-> <<>>]

Size == FoldSet(LAMBDA f, n : n + Len(lines[f]), 0, Sources)

\* A line more, by an editor, by `gh-runner-ctl edit` or by a template.
AddLine(f) ==
  /\ Size < MaxLines
  /\ \E l \in Settings \cup Others : lines' = [lines EXCEPT ![f] = Append(@, l)]

ConfNext == \E f \in Sources : AddLine(f)
ConfSpec == ConfInit /\ [][ConfNext]_lines

-----------------------------------------------------------------------------
(* What gh-runner-ctl reads.                                               *)

Sets(l) == l.key \in Keys

\* A value without the blanks around it: quotes are part of it.
Stripped(l) ==
  [text |-> l.text, style |-> IF l.style = "padded" THEN "plain" ELSE l.style]

\* The files that parse_env_file refuses.
Refused(f) ==
  \E n \in DOMAIN lines[f] : lines[f][n].key \in {"no equals sign", "not-a-key"}

\* The one set of values over the other.
Over(first, second) ==
  [k \in DOMAIN first \cup DOMAIN second |->
     IF k \in DOMAIN first THEN first[k] ELSE second[k]]

Only(k, v) == [key \in {k} |-> v]

\* values[key] = value, line after line: what the lines ls come to, of which
\* line n has the value vs[n].
Filled(ls, vs) ==
  LET values[n \in 0 .. Len(ls)] ==
        IF n = 0 THEN <<>>
        ELSE IF Sets(ls[n]) THEN Over(Only(ls[n].key, vs[n]), values[n - 1])
        ELSE values[n - 1]
  IN values[Len(ls)]

ParseWith(Value(_), f) ==
  Filled(lines[f], [n \in {m \in DOMAIN lines[f] : Sets(lines[f][m])} |-> Value(lines[f][n])])

Unquoted(l) == [text |-> l.text, style |-> "plain"]
ParseUnquoted(f) == ParseWith(Unquoted, f)    \* mutant: systemd's rules

Parse(f) == ParseWith(Stripped, f)

\* The lines lint_env_file warns of.
Lint(f) ==
  {n \in DOMAIN lines[f] :
     Sets(lines[f][n]) /\ lines[f][n].style \in {"quoted", "padded"}}

\* conf.load raises: the instance cannot be used at all.
Raises(i) == Refused(Global) \/ Refused(i)

DefaultName(i) == [text |-> <<"host-" \o i>>, style |-> "plain"]

LoadGlobalWins(i) ==   \* mutant: the defaults are applied last
  Over(Parse(Global), Over(Parse(i), Only("RUNNER_NAME", DefaultName(i))))

\* The defaults, then the instance's own, then a name of last resort.
Load(i) == Over(Parse(i), Over(Parse(Global), Only("RUNNER_NAME", DefaultName(i))))

\* Where each key goes: the groups of `show`, and the drop-in.
Classify(i) ==
  LET set == DOMAIN Load(i) IN
  [unit    |-> set \cap DOMAIN UnitShaping,
   job     |-> set \cap JobShaping,
   runtime |-> set \cap RuntimeKeys,
   unknown |-> set \ (DOMAIN UnitShaping \cup JobShaping \cup RuntimeKeys)]

RenderDropin(i) ==
  [s \in {UnitShaping[k] : k \in Classify(i).unit} |->
     Load(i)[CHOOSE k \in DOMAIN UnitShaping : UnitShaping[k] = s]]

-----------------------------------------------------------------------------
(* What the container gets.                                                *)

Verbatim(l) == [text |-> l.text, style |-> l.style]

\* podman --env-file, of both files: no quotes and no blanks are removed.
Passed(i) == Over(ParseWith(Verbatim, i), ParseWith(Verbatim, Global))

Nothing(v) == v.text = <<>> /\ v.style = "plain"

\* entrypoint.sh: unset or empty, the name is made of the container's own host
\* name, which is not the host's.
ContainerName(i) == [text |-> <<"container-" \o i>>, style |-> "plain"]

RegisteredName(i) ==
  IF "RUNNER_NAME" \in DOMAIN Passed(i) /\ ~Nothing(Passed(i)["RUNNER_NAME"])
  THEN Passed(i)["RUNNER_NAME"]
  ELSE ContainerName(i)

\* register.sh: the path behind the host, less one slash at its end.
Path(url) ==
  LET p == IF Len(url) > 1 THEN Tail(url) ELSE url
  IN IF Len(p) > 1 /\ Last(p) = Blank THEN Front(p) ELSE p

\* Two parts are a repository, one is an organisation, no other is anything.
Endpoint(url) ==
  CASE Len(Path(url)) = 2 -> <<"repos">> \o Path(url)
    [] Len(Path(url)) = 1 /\ Path(url) # <<Blank>> -> <<"orgs">> \o Path(url)
    [] OTHER -> <<>>

-----------------------------------------------------------------------------
(* What an operator is told.                                               *)

TargetUnstripped(url) ==   \* mutant: a slash at the end is not removed
  IF Len(url) > 1 THEN Tail(url) ELSE url

\* The TARGET column of `status`.
Target(url) ==
  LET named == SubSeq(url, 1, SelectLastInSeq(url, LAMBDA part : part # Blank))
  IN IF Len(named) > 1 THEN Tail(named) ELSE named

Name(i) == Load(i)["RUNNER_NAME"]

NamesOwn(i) ==   \* mutant: doctor looks at the instance's own file alone
  \A j \in Instances \ {i} :
    "RUNNER_NAME" \in DOMAIN Parse(i) \cap DOMAIN Parse(j) => Name(i) # Name(j)

NameIsOwn(i) == \A j \in Instances \ {i} : Name(i) # Name(j)

\* doctor, check_instances: there is a URL, no name is given twice, and no
\* instance's own file has anything to be warned of.
CheckInstances ==
  \A i \in Instances :
       /\ ~Raises(i)
       /\ "RUNNER_URL" \in DOMAIN Load(i) /\ ~Nothing(Load(i)["RUNNER_URL"])
       /\ Lint(i) = {}
       /\ NameIsOwn(i)

-----------------------------------------------------------------------------
(* Properties                                                              *)

\* The last line that sets k, in the instance's file or else in the defaults.
Deciding(i, k) ==
  LET At(f) == SelectLastInSeq(lines[f], LAMBDA l : l.key = k)
  IN IF At(i) > 0 THEN <<i, At(i)>> ELSE <<Global, At(Global)>>

\* "`show` must report what the container will actually see" (conf.py): where a
\* key is shown with another value than podman passes on, it is the line that
\* decides it, in whichever file, that has blanks and that lint_env_file warns of.
SeenAsPassed ==
  \A i \in Instances : ~Raises(i) =>
    \A k \in DOMAIN Passed(i) :
      Load(i)[k] # Passed(i)[k] =>
        LET d == Deciding(i, k) IN
        d[2] \in Lint(d[1]) /\ lines[d[1]][d[2]].style = "padded"

\* The drop-in has exactly the limits the files set, each as its last line has
\* it, the instance's before the defaults, and nothing that bounds jobs.
DropinIsLastWord ==
  \A i \in Instances : ~Raises(i) =>
    LET Said == {k \in DOMAIN UnitShaping : Deciding(i, k)[2] > 0} IN
    /\ DOMAIN RenderDropin(i) = {UnitShaping[k] : k \in Said}
    /\ \A k \in Said :
         LET d == Deciding(i, k) IN
         RenderDropin(i)[UnitShaping[k]] = Stripped(lines[d[1]][d[2]])

\* Where doctor finds nothing wrong with the instances, no two containers
\* register under one name: defaults, quotes, blanks and empty values included
\* ("an unwinnable registration fight", doctor.py).
NamesDistinct ==
  CheckInstances =>
    \A i, j \in Instances : i # j => RegisteredName(i) # RegisteredName(j)

\* Where doctor finds nothing wrong with the instances and register.sh finds an
\* endpoint for one, it is that of the repository or organisation `status` shows
\* as TARGET, a slash at the end or not.
TargetIsEndpoint ==
  CheckInstances =>
    \A i \in Instances :
      LET url == Passed(i)["RUNNER_URL"] IN
      /\ url.style = "plain" /\ Blank \notin ToSet(Front(url.text))
      /\ Endpoint(url.text) # <<>>
      => Tail(Endpoint(url.text)) = Target(Load(i)["RUNNER_URL"].text)

=============================================================================
