----------------------------- MODULE DockerShim -----------------------------
(***************************************************************************)
(* The `docker` the runner finds first on its PATH: it drops the mount of  *)
(* the engine's socket, labels and limits what a job creates, and hands    *)
(* the rest to the real client.                                            *)
(*                                                                         *)
(* An argument is one of a few tokens, which stand for the classes the     *)
(* shim and the client tell apart: "network" is it and "volume", "--name"  *)
(* any flag with a value, "-e" any without, "img" any word that is no      *)
(* verb, "sock" and "dir" the two kinds of mount spec, alone or joined to  *)
(* their flag.  "-vsock" is -v=sock as well, and "-itv" any bundle of      *)
(* short flags that ends with v: mounts to the client, flags to the shim.  *)
(***************************************************************************)
EXTENDS Naturals, Sequences, FiniteSets

CONSTANTS
  DropSocket,  \* GH_RUNNER_SHIM_DROP_SOCKET=1, the default
  Limits,      \* are JOB_MEMORY_MAX and JOB_CPUS set?
  MaxLen       \* bound on the number of arguments

ASSUME ShimAssumption ==
  DropSocket \in BOOLEAN /\ Limits \in BOOLEAN
ASSUME MaxLenAssumption == MaxLen \in Nat

Groups == {"network", "container"}
Words == Groups \cup {"create", "run", "buildx", "img", "sock", "dir"}
Joined == {"--volume=sock", "--volume=dir"}
Flags == {"--name", "-e", "-vsock", "-itv"}
Tokens == Words \cup Joined \cup Flags \cup {"-v"}
Injected == {"--label", "--memory"}

VARIABLES
  argv,      \* the command line
  next,      \* the first argument not consumed
  out,       \* what is kept
  pos,       \* leading words seen
  depth,     \* of how many words the subcommand is
  verb, sub, \* the first and the second of them, "none" until seen
  insertAt,  \* how many of `out` precede what is injected; 0: unset
  seen,      \* a flag has been seen
  engine     \* what the real client is executed with, once it is

vars == <<argv, next, out, pos, depth, verb, sub, insertAt, seen, engine>>
chain == <<pos, depth, verb, sub, insertAt>>

None == <<"not executed">>

-----------------------------------------------------------------------------
(* The real client reads its own options up to the first word after the    *)
(* subcommand: the image or container.  What follows is not for it.        *)

Valued == {"-v", "--name", "-itv"}

Legal(s) ==
  \A k \in DOMAIN s :
    /\ s[k] \in Valued => k < Len(s) /\ s[k + 1] \in Words
    /\ k = 1 /\ s[k] \in Groups => k < Len(s) /\ s[k + 1] \in Words

ChainLen(s) ==
  IF s = <<>> \/ s[1] \notin Words THEN 0 ELSE IF s[1] \in Groups THEN 2 ELSE 1

\* A mount of the socket in a form the shim looks for.
IsMount(s, k) ==
  s[k] = "--volume=sock" \/ (s[k] = "-v" /\ k < Len(s) /\ s[k + 1] = "sock")

\* A mount of the socket in a short form the shim does not look for.
Bundled(s, k) ==
  s[k] = "-vsock" \/ (s[k] = "-itv" /\ k < Len(s) /\ s[k + 1] = "sock")

\* The argument before position k takes one; k has its value then, as a value
\* is a word and takes none itself.
IsValue(s, k) == k > 1 /\ s[k - 1] \in Valued

\* No image or container has been named up to position k.
InOptions(s, k) == \A j \in ChainLen(s) + 1 .. k : s[j] \in Words => IsValue(s, j)

\* The mount of the socket, or the second of its two words.
OfMount(s, k) ==
  IsMount(s, k) \/ (k > 1 /\ s[k - 1] = "-v" /\ IsMount(s, k - 1))

Kept(s) ==
  {k \in ChainLen(s) + 1 .. Len(s) : ~(DropSocket /\ InOptions(s, k) /\ OfMount(s, k))}

\* The arguments of s at the positions in K, in their order.
Rank(K, k) == Cardinality({m \in K : m <= k})
Only(S) == CHOOSE k \in S : TRUE
Picked(s, K) == [j \in 1 .. Cardinality(K) |-> s[Only({k \in K : Rank(K, k) = j})]]

Init ==
  /\ argv \in UNION {[1 .. n -> Tokens] : n \in 0 .. MaxLen}
  /\ next = 1 /\ out = <<>> /\ pos = 0 /\ depth = 1 /\ verb = "none" /\ sub = "none"
  /\ insertAt = 0 /\ seen = FALSE /\ engine = None

-----------------------------------------------------------------------------
(* The loop of the shim, one argument at a time.                           *)

More == engine = None /\ next <= Len(argv)

TakeMountForever ==   \* mutant: `shift 2` fails when one argument is left
  /\ More /\ argv[next] = "-v"
  /\ seen' = TRUE
  /\ IF next = Len(argv)
     THEN out' = Append(out, argv[next]) /\ next' = next
     ELSE /\ next' = next + 2
          /\ out' = IF DropSocket /\ argv[next + 1] = "sock" THEN out
                    ELSE out \o <<argv[next], argv[next + 1]>>
  /\ UNCHANGED <<argv, chain, engine>>

\* -v, --volume or --mount, with its value if there is one.
TakeMount ==
  /\ More /\ argv[next] = "-v"
  /\ seen' = TRUE
  /\ IF next = Len(argv)
     THEN out' = Append(out, argv[next]) /\ next' = next + 1
     ELSE /\ next' = next + 2
          /\ out' = IF DropSocket /\ argv[next + 1] = "sock" THEN out
                    ELSE out \o <<argv[next], argv[next + 1]>>
  /\ UNCHANGED <<argv, chain, engine>>

TakeJoinedKept ==   \* mutant: only the two-word form is dropped
  /\ More /\ argv[next] \in Joined
  /\ seen' = TRUE
  /\ next' = next + 1
  /\ out' = Append(out, argv[next])
  /\ UNCHANGED <<argv, chain, engine>>

TakeJoined ==
  /\ More /\ argv[next] \in Joined
  /\ seen' = TRUE
  /\ next' = next + 1
  /\ out' = IF DropSocket /\ argv[next] = "--volume=sock" THEN out
            ELSE Append(out, argv[next])
  /\ UNCHANGED <<argv, chain, engine>>

TakeFlagUnseen ==   \* mutant: a flag does not end the subcommand
  /\ More /\ argv[next] \in Flags
  /\ next' = next + 1
  /\ out' = Append(out, argv[next])
  /\ UNCHANGED <<argv, chain, seen, engine>>

TakeFlag ==
  /\ More /\ argv[next] \in Flags
  /\ seen' = TRUE
  /\ next' = next + 1
  /\ out' = Append(out, argv[next])
  /\ UNCHANGED <<argv, chain, engine>>

\* A word is part of the subcommand only while no flag has been seen.
TakeWord ==
  LET w == argv[next] IN
  /\ More /\ w \in Words
  /\ IF seen THEN UNCHANGED <<pos, depth, verb, sub>>
     ELSE /\ pos' = pos + 1
          /\ verb' = IF pos = 0 THEN w ELSE verb
          /\ depth' = IF pos = 0 /\ w \in Groups THEN 2 ELSE depth
          /\ sub' = IF pos = 1 THEN w ELSE sub
  /\ out' = Append(out, w)
  /\ insertAt' = IF ~seen /\ pos' = depth' /\ insertAt = 0 THEN Len(out') ELSE insertAt
  /\ next' = next + 1
  /\ UNCHANGED <<argv, seen, engine>>

group == IF depth = 2 THEN verb ELSE "none"
action == IF depth = 2 THEN sub ELSE verb

Labelled(g, a) == <<g, a>> \in ({"none", "container"} \X {"create", "run"})
                               \cup {<<"network", "create">>}
Limited(g, a) == <<g, a>> \in {"none", "container"} \X {"create", "run"}

InjectFor(g, a) ==
  (IF Labelled(g, a) THEN <<"--label">> ELSE <<>>)
    \o (IF Limits /\ Limited(g, a) THEN <<"--memory">> ELSE <<>>)

ExecEngine ==
  /\ engine = None /\ next > Len(argv)
  /\ engine' = IF insertAt = 0 THEN out
               ELSE SubSeq(out, 1, insertAt) \o InjectFor(group, action)
                      \o SubSeq(out, insertAt + 1, Len(out))
  /\ UNCHANGED <<argv, next, out, chain, seen>>

Next == TakeMount \/ TakeJoined \/ TakeFlag \/ TakeWord \/ ExecEngine

Spec == Init /\ [][Next]_vars

-----------------------------------------------------------------------------
(* Properties                                                              *)

\* The loop keeps no more than it has consumed.
LineOK ==
  /\ argv \in Seq(Tokens)
  /\ next \in 1 .. Len(argv) + 1
  /\ out \in Seq(Tokens) /\ Len(out) < next

ChainOK ==
  /\ pos \in Nat
  /\ depth \in {1, 2}
  /\ verb \in Words \cup {"none"} /\ sub \in Words \cup {"none"}
  /\ insertAt \in 0 .. Len(out)
  /\ seen \in BOOLEAN

EngineOK == engine = None \/ engine \in Seq(Tokens \cup Injected)

\* The types, and: every argument is consumed once, and what is kept of the
\* command line never outruns what has been read of it.
TypeOK == LineOK /\ ChainOK /\ EngineOK

Expected(s) ==
  LET n == ChainLen(s) IN
  SubSeq(s, 1, n)
    \o (IF n = 0 THEN <<>>
        ELSE IF n = 1 THEN InjectFor("none", s[1]) ELSE InjectFor(s[1], s[2]))
    \o Picked(s, Kept(s))

\* Nothing after the options looks like a mount of the socket.
PlainCommand(s) == \A k \in DOMAIN s : IsMount(s, k) => InOptions(s, k)

\* Of a command line it accepts, the client gets the subcommand, then what is
\* injected for it, then every argument in its order but the socket mounts, and
\* nothing of a flag's value is taken for a verb: the shim's single pass, which
\* does not know the flags, agrees with the client's own reading.  It departs
\* from that reading for a socket mount in the command a container is to run,
\* which the pass strips as well, and for one in a short form joined to its
\* value or to other flags (Bundled), which it does not see and leaves in.
EngineGetsExpected ==
  engine # None /\ Legal(argv) /\ PlainCommand(argv) => engine = Expected(argv)

\* What is injected comes right after the leading words that make up the
\* subcommand, none of them touched, never between a flag and its value nor
\* after the image: a label can not become part of the job's command.
InjectionInChain ==
  insertAt # 0 =>
    /\ insertAt = depth /\ insertAt <= Len(out)
    /\ \A k \in 1 .. insertAt : argv[k] \in Words /\ out[k] = argv[k]

\* No command line the client accepts has it mount the engine's socket by
\* -v, --volume or --mount, the forms the shim looks for: nothing the shim drops
\* or inserts brings a flag and a value together that were apart.  A mount the
\* shim does not see (-vsock, -itv sock) reaches the client only from a command
\* line that has one itself: the runner's own lines have not.
SocketNeverMounted ==
  DropSocket /\ Legal(argv) /\ engine # None =>
    \A k \in DOMAIN engine :
      /\ ~IsMount(engine, k)
      /\ Bundled(engine, k) => \E j \in DOMAIN argv : Bundled(argv, j)

=============================================================================
