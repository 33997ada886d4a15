-------------------------- MODULE DockerShimProofs --------------------------
(***************************************************************************)
(* Theorems about DockerShim, for command lines of any length.             *)
(***************************************************************************)
EXTENDS DockerShim, SequenceTheorems, FiniteSetTheorems, TLAPS

LEMMA InitialArgv == Init => argv \in Seq(Tokens)
<1> SUFFICES ASSUME Init PROVE argv \in Seq(Tokens)
  OBVIOUS
<1>1. PICK n \in 0 .. MaxLen : argv \in [1 .. n -> Tokens]
  BY DEF Init
<1>2. n \in Nat
  BY <1>1, MaxLenAssumption
<1> QED
  BY <1>1, <1>2

-----------------------------------------------------------------------------
(* The invariant.                                                          *)

\* Until a flag is seen, the shim has kept the words it has read, all of them
\* and nothing else.
ChainInv ==
  /\ ~seen =>
       /\ next = pos + 1 /\ Len(out) = pos
       /\ \A k \in 1 .. pos : out[k] = argv[k] /\ argv[k] \in Words
  /\ pos = 0 => depth = 1
  /\ insertAt # 0 => pos # 0 /\ InjectionInChain

LEMMA InjectType ==
  ASSUME NEW g, NEW a PROVE InjectFor(g, a) \in Seq(Injected)
<1>1. <<>> \in Seq(Injected) /\ <<"--label">> \in Seq(Injected) /\ <<"--memory">> \in Seq(Injected)
  BY DEF Injected
<1>2. ASSUME NEW s \in Seq(Injected), NEW t \in Seq(Injected) PROVE s \o t \in Seq(Injected)
  BY <1>2
<1> QED
  BY <1>1, <1>2 DEF InjectFor

LEMMA Widen ==
  ASSUME NEW s \in Seq(Tokens) PROVE s \in Seq(Tokens \cup Injected)
OBVIOUS

\* Every variable keeps its type; in particular the loop always advances.
THEOREM TypeCorrect == Spec => []TypeOK
<1>1. Init => TypeOK
  <2> SUFFICES ASSUME Init PROVE TypeOK
    OBVIOUS
  <2>1. argv \in Seq(Tokens) /\ next = 1 /\ out = <<>>
    BY InitialArgv DEF Init
  <2>2. LineOK
    BY <2>1 DEF LineOK
  <2>3. pos \in Nat /\ depth \in {1, 2} /\ insertAt \in 0 .. Len(out)
    BY <2>1 DEF Init
  <2>4. verb \in Words \cup {"none"} /\ sub \in Words \cup {"none"} /\ seen \in BOOLEAN
    BY Zenon DEF Init
  <2>6. ChainOK
    BY <2>3, <2>4 DEF ChainOK
  <2>5. EngineOK
    BY DEF Init, EngineOK
  <2> QED
    BY <2>2, <2>5, <2>6 DEF TypeOK
<1>2. TypeOK /\ [Next]_vars => TypeOK'
  <2> SUFFICES ASSUME LineOK, ChainOK, EngineOK, [Next]_vars PROVE TypeOK'
    BY DEF TypeOK
  <2>0. More => next \in 1 .. Len(argv) /\ argv[next] \in Tokens
    BY DEF More, LineOK
  <2>1. CASE TakeMount
    <3>1. LineOK'
      <4>1. CASE next = Len(argv)
        BY <2>0, <2>1, <4>1 DEF TakeMount, LineOK
      <4>2. CASE next # Len(argv)
        <5>1. next + 1 \in 1 .. Len(argv) /\ argv[next + 1] \in Tokens
          BY <2>0, <2>1, <4>2 DEF TakeMount, LineOK
        <5>2. <<argv[next], argv[next + 1]>> \in Seq(Tokens)
          BY <2>0, <2>1, <5>1 DEF TakeMount
        <5>3. next' = next + 2 /\ argv' = argv
          BY <2>1, <4>2 DEF TakeMount
        <5>4. out' = out \/ out' = out \o <<argv[next], argv[next + 1]>>
          BY <2>1, <4>2 DEF TakeMount
        <5>5. out' \in Seq(Tokens) /\ Len(out') <= Len(out) + 2
          BY <5>2, <5>4 DEF LineOK
        <5>6. Len(out') < next'
          BY <5>2, <5>3, <5>4, <5>5 DEF LineOK
        <5> QED
          BY <5>1, <5>3, <5>5, <5>6 DEF LineOK
      <4> QED
        BY <4>1, <4>2
    <3>2. Len(out) <= Len(out')
      BY <2>0, <2>1 DEF TakeMount, LineOK
    <3>3. ChainOK'
      BY <2>1, <3>1, <3>2 DEF TakeMount, chain, ChainOK, LineOK
    <3> QED
      BY <2>1, <3>1, <3>3 DEF TakeMount, TypeOK, EngineOK
  <2>2. CASE TakeJoined \/ TakeFlag
    <3>1. More /\ seen' = TRUE /\ next' = next + 1 /\ UNCHANGED <<argv, chain, engine>>
      BY <2>2 DEF TakeJoined, TakeFlag
    <3>2. out' = out \/ out' = Append(out, argv[next])
      BY <2>2 DEF TakeJoined, TakeFlag
    <3>3. out' \in Seq(Tokens) /\ Len(out) <= Len(out') /\ Len(out') <= Len(out) + 1
      BY <2>0, <3>1, <3>2 DEF LineOK
    <3>4. LineOK'
      BY <2>0, <3>1, <3>3 DEF LineOK
    <3>5. ChainOK'
      BY <3>1, <3>3 DEF chain, ChainOK, LineOK
    <3> QED
      BY <3>1, <3>4, <3>5 DEF TypeOK, EngineOK
  <2>3. CASE TakeWord
    <3>1. LineOK' /\ Len(out) <= Len(out')
      BY <2>0, <2>3 DEF TakeWord, LineOK
    <3>2. pos' \in Nat /\ depth' \in {1, 2} /\ verb' \in Words \cup {"none"} /\ sub' \in Words \cup {"none"}
      BY <2>3 DEF TakeWord, ChainOK
    <3>3. insertAt' \in 0 .. Len(out')
      BY <2>3, <3>1 DEF TakeWord, ChainOK, LineOK
    <3> QED
      BY <2>3, <3>1, <3>2, <3>3 DEF TakeWord, TypeOK, ChainOK, EngineOK
  <2>4. CASE ExecEngine
    <3>1. engine' \in Seq(Tokens \cup Injected)
      <4>1. CASE insertAt = 0
        BY <2>4, <4>1, Widen DEF ExecEngine, LineOK
      <4>2. CASE insertAt # 0
        <5> DEFINE T == Tokens \cup Injected
                   a == SubSeq(out, 1, insertAt)
                   i == InjectFor(group, action)
                   b == SubSeq(out, insertAt + 1, Len(out))
        <5>1. a \in Seq(Tokens) /\ b \in Seq(Tokens) /\ i \in Seq(Injected)
          BY <4>2, InjectType DEF LineOK, ChainOK
        <5>2. a \in Seq(T) /\ b \in Seq(T) /\ i \in Seq(T)
          BY <5>1
        <5>3. engine' = a \o i \o b
          BY <2>4, <4>2 DEF ExecEngine
        <5> HIDE DEF a, b, i
        <5> QED
          BY <5>2, <5>3
      <4> QED
        BY <4>1, <4>2
    <3> QED
      BY <2>4, <3>1 DEF ExecEngine, chain, TypeOK, LineOK, ChainOK, EngineOK
  <2>5. CASE UNCHANGED vars
    BY <2>5 DEF vars, chain, TypeOK, LineOK, ChainOK, EngineOK
  <2> QED
    BY <2>1, <2>2, <2>3, <2>4, <2>5 DEF Next
<1> QED
  BY <1>1, <1>2, PTL DEF Spec

-----------------------------------------------------------------------------

\* What is injected follows the words of the subcommand, whatever the command
\* line: it never parts a flag from its value, nor becomes part of the command
\* to be run in the container.
LEMMA ChainStep == TypeOK /\ ChainInv /\ [Next]_vars => ChainInv'
<1> SUFFICES ASSUME LineOK, ChainOK, ChainInv, [Next]_vars PROVE ChainInv'
  BY DEF TypeOK
<1>0. More => next \in 1 .. Len(argv) /\ argv[next] \in Tokens
  BY DEF More, LineOK
<1>1. ASSUME TakeMount \/ TakeJoined \/ TakeFlag PROVE ChainInv'
  <2>1. More /\ seen' = TRUE /\ UNCHANGED <<argv, chain>>
    BY <1>1 DEF TakeMount, TakeJoined, TakeFlag
  <2>2. \/ out' = out \/ out' = Append(out, argv[next])
        \/ next + 1 \in 1 .. Len(argv) /\ out' = out \o <<argv[next], argv[next + 1]>>
    <3>1. CASE TakeMount
      BY <1>0, <2>1, <3>1 DEF TakeMount, LineOK
    <3>2. CASE TakeJoined \/ TakeFlag
      BY <3>2 DEF TakeJoined, TakeFlag
    <3> QED
      BY <1>1, <3>1, <3>2
  <2>3. Len(out) <= Len(out') /\ \A k \in 1 .. Len(out) : out'[k] = out[k]
    <3>1. CASE out' = out
      BY <3>1 DEF LineOK
    <3>2. CASE out' = Append(out, argv[next])
      BY <1>0, <2>1, <3>2 DEF LineOK
    <3>3. ASSUME next + 1 \in 1 .. Len(argv), out' = out \o <<argv[next], argv[next + 1]>>
          PROVE  Len(out) <= Len(out') /\ \A k \in 1 .. Len(out) : out'[k] = out[k]
      <4>1. <<argv[next], argv[next + 1]>> \in Seq(Tokens)
        BY <1>0, <2>1, <3>3 DEF LineOK
      <4> QED
        BY <3>3, <4>1 DEF LineOK
    <3> QED
      BY <2>2, <3>1, <3>2, <3>3
  <2> QED
    BY <2>1, <2>3 DEF ChainInv, InjectionInChain, chain, ChainOK, LineOK
<1>2. ASSUME TakeWord PROVE ChainInv'
  <2>1. /\ More /\ argv[next] \in Words /\ out' = Append(out, argv[next])
        /\ next' = next + 1 /\ UNCHANGED <<argv, seen>>
    BY <1>2 DEF TakeWord
  <2>2. /\ Len(out') = Len(out) + 1 /\ out'[Len(out) + 1] = argv[next]
        /\ \A k \in 1 .. Len(out) : out'[k] = out[k]
    BY <1>0, <2>1 DEF LineOK
  <2>3. CASE seen
    <3>1. UNCHANGED <<pos, depth, insertAt>>
      BY <1>2, <2>3 DEF TakeWord
    <3> QED
      BY <2>1, <2>2, <2>3, <3>1 DEF ChainInv, InjectionInChain, ChainOK, LineOK
  <2>4. CASE ~seen
    <3>1. /\ pos' = pos + 1 /\ (pos # 0 => depth' = depth)
          /\ insertAt' = IF pos' = depth' /\ insertAt = 0 THEN Len(out') ELSE insertAt
      BY <1>2, <2>4 DEF TakeWord
    <3>2. next = pos + 1 /\ Len(out) = pos
      BY <2>4 DEF ChainInv
    <3>3. \A k \in 1 .. pos' : out'[k] = argv'[k] /\ argv'[k] \in Words
      BY <2>1, <2>2, <2>4, <3>1, <3>2 DEF ChainInv, ChainOK
    <3>4. pos' # 0 /\ next' = pos' + 1 /\ Len(out') = pos'
      BY <2>1, <2>2, <3>1, <3>2 DEF ChainOK
    <3>5. insertAt' # 0 => InjectionInChain'
      <4>1. CASE insertAt = 0
        BY <3>1, <3>3, <3>4, <4>1 DEF InjectionInChain, ChainOK
      <4>2. CASE insertAt # 0
        BY <2>1, <2>2, <3>1, <4>2 DEF InjectionInChain, ChainInv, ChainOK
      <4> QED
        BY <4>1, <4>2
    <3> QED
      BY <3>3, <3>4, <3>5 DEF ChainInv
  <2> QED
    BY <2>3, <2>4
<1>3. ASSUME ExecEngine \/ UNCHANGED vars PROVE ChainInv'
  BY <1>3 DEF ExecEngine, vars, chain, ChainInv, InjectionInChain
<1> QED
  BY <1>1, <1>2, <1>3 DEF Next

LEMMA ChainAlways == Spec => [](TypeOK /\ ChainInv)
<1>1. Init => ChainInv
  BY DEF Init, ChainInv
<1> QED
  BY <1>1, ChainStep, TypeCorrect, PTL DEF Spec

\* As above, as the invariant the runs check.
THEOREM InjectionInChainHolds == Spec => []InjectionInChain
<1>1. ChainInv => InjectionInChain
  BY DEF ChainInv, InjectionInChain
<1> QED
  BY <1>1, ChainAlways, PTL

-----------------------------------------------------------------------------
(* The mount of the socket.                                                *)

NoMount(s) == \A k \in 1 .. Len(s) : ~IsMount(s, k)

\* What has been kept mounts no socket, and does not end with a flag that
\* waits for its value.
MountInv ==
  DropSocket /\ Legal(argv) =>
    /\ NoMount(out)
    /\ Len(out) # 0 => out[Len(out)] # "-v"
    /\ engine # None => NoMount(engine)

LEMMA AppendNoMount ==
  ASSUME NEW s \in Seq(Tokens), NEW w \in Tokens, w # "--volume=sock",
         NoMount(s), Len(s) # 0 => s[Len(s)] # "-v"
  PROVE  NoMount(Append(s, w))
<1> DEFINE t == Append(s, w)
<1>1. /\ Len(t) = Len(s) + 1 /\ t[Len(s) + 1] = w
      /\ \A k \in 1 .. Len(s) : t[k] = s[k]
  OBVIOUS
<1> HIDE DEF t
<1>2. ASSUME NEW k \in 1 .. Len(t) PROVE ~IsMount(t, k)
  <2>1. CASE k = Len(t)
    BY <1>1, <2>1 DEF IsMount
  <2>2. CASE k = Len(s) /\ Len(s) # 0
    BY <1>1, <2>2 DEF IsMount, NoMount
  <2>3. CASE k < Len(s)
    <3>1. k \in 1 .. Len(s) /\ k + 1 \in 1 .. Len(s)
      BY <2>3
    <3>2. ~IsMount(s, k)
      BY <3>1 DEF NoMount
    <3> QED
      BY <1>1, <2>3, <3>1, <3>2 DEF IsMount
  <2> QED
    BY <1>1, <2>1, <2>2, <2>3
<1> QED
  BY <1>2 DEF NoMount, t

LEMMA Concat ==
  ASSUME NEW T, NEW s \in Seq(T), NEW t \in Seq(T)
  PROVE  /\ s \o t \in Seq(T) /\ Len(s \o t) = Len(s) + Len(t)
         /\ \A k \in 1 .. Len(s) : (s \o t)[k] = s[k]
         /\ \A k \in 1 .. Len(t) : (s \o t)[Len(s) + k] = t[k]
OBVIOUS

\* Where everything is once what the shim injects is inserted.
LEMMA Splice ==
  ASSUME NEW s \in Seq(Tokens), NEW n \in 1 .. Len(s), NEW i \in Seq(Injected)
  PROVE  LET e == SubSeq(s, 1, n) \o i \o SubSeq(s, n + 1, Len(s)) IN
         /\ Len(e) = Len(s) + Len(i)
         /\ \A k \in 1 .. n : e[k] = s[k]
         /\ \A k \in 1 .. Len(i) : e[n + k] = i[k]
         /\ \A k \in n + 1 .. Len(s) : e[k + Len(i)] = s[k]
<1> DEFINE a == SubSeq(s, 1, n)
           b == SubSeq(s, n + 1, Len(s))
           e == a \o i \o b
<1>1. a \in Seq(Tokens) /\ Len(a) = n /\ \A k \in 1 .. n : a[k] = s[k]
  OBVIOUS
<1>2. /\ b \in Seq(Tokens) /\ Len(b) = Len(s) - n
      /\ \A k \in 1 .. Len(s) - n : b[k] = s[n + k]
  OBVIOUS
<1> HIDE DEF a, b
<1>3. /\ Len(e) = Len(s) + Len(i)
      /\ \A k \in 1 .. n : e[k] = s[k]
      /\ \A k \in 1 .. Len(i) : e[n + k] = i[k]
      /\ \A k \in n + 1 .. Len(s) : e[k + Len(i)] = s[k]
  <2> DEFINE T == Tokens \cup Injected
  <2>1. a \in Seq(T) /\ i \in Seq(T) /\ b \in Seq(T)
    BY <1>1, <1>2
  <2> HIDE DEF T
  <2>2. /\ a \o i \in Seq(T) /\ Len(a \o i) = n + Len(i)
        /\ \A k \in 1 .. n : (a \o i)[k] = a[k]
        /\ \A k \in 1 .. Len(i) : (a \o i)[n + k] = i[k]
    <3>1. /\ a \o i \in Seq(T) /\ Len(a \o i) = Len(a) + Len(i)
          /\ \A k \in 1 .. Len(a) : (a \o i)[k] = a[k]
          /\ \A k \in 1 .. Len(i) : (a \o i)[Len(a) + k] = i[k]
      BY ONLY <2>1, Concat
    <3> QED
      BY <1>1, <3>1
  <2>3. /\ Len(e) = n + Len(i) + Len(b)
        /\ \A k \in 1 .. n + Len(i) : e[k] = (a \o i)[k]
        /\ \A k \in 1 .. Len(b) : e[n + Len(i) + k] = b[k]
    <3> DEFINE c == a \o i
    <3>1. c \in Seq(T) /\ Len(c) = n + Len(i) /\ e = c \o b
      BY <2>2
    <3> HIDE DEF c, e
    <3>2. /\ Len(c \o b) = Len(c) + Len(b)
          /\ \A k \in 1 .. Len(c) : (c \o b)[k] = c[k]
          /\ \A k \in 1 .. Len(b) : (c \o b)[Len(c) + k] = b[k]
      <4>1. c \in Seq(T) /\ b \in Seq(T)
        BY <2>1, <3>1
      <4> QED
        BY ONLY <4>1, Concat
    <3> QED
      BY <3>1, <3>2 DEF c
  <2>4. ASSUME NEW k \in n + 1 .. Len(s) PROVE e[k + Len(i)] = s[k]
    <3>1. k - n \in 1 .. Len(b) /\ n + Len(i) + (k - n) = k + Len(i) /\ n + (k - n) = k
      BY <1>2
    <3> QED
      BY <1>2, <2>3, <3>1
  <2> QED
    BY <1>1, <1>2, <2>2, <2>3, <2>4
<1> QED
  BY <1>3 DEF a, b

\* Inserting what the shim injects, after an argument that is no flag.
LEMMA SpliceNoMount ==
  ASSUME NEW s \in Seq(Tokens), NEW n \in 1 .. Len(s), NEW i \in Seq(Injected),
         NoMount(s), s[n] # "-v"
  PROVE  NoMount(SubSeq(s, 1, n) \o i \o SubSeq(s, n + 1, Len(s)))
<1> DEFINE e == SubSeq(s, 1, n) \o i \o SubSeq(s, n + 1, Len(s))
<1>3. \A k \in 1 .. Len(i) : i[k] \notin {"-v", "--volume=sock", "sock"}
  BY DEF Injected
<1>4. /\ Len(e) = Len(s) + Len(i)
      /\ \A k \in 1 .. n : e[k] = s[k]
      /\ \A k \in 1 .. Len(i) : e[n + k] = i[k]
      /\ \A k \in n + 1 .. Len(s) : e[k + Len(i)] = s[k]
  BY Splice
<1> HIDE DEF e
<1>5. ASSUME NEW k \in 1 .. Len(e) PROVE ~IsMount(e, k)
  <2>1. CASE k < n
    <3>1. k + 1 \in 1 .. n /\ k \in 1 .. Len(s) /\ ~IsMount(s, k)
      BY <2>1 DEF NoMount
    <3> QED
      BY <1>4, <2>1, <3>1 DEF IsMount
  <2>2. CASE k = n
    <3>1. e[k] # "-v" /\ s[k] # "--volume=sock"
      BY <1>4, <2>2 DEF NoMount, IsMount
    <3> QED
      BY <1>4, <2>2, <3>1 DEF IsMount
  <2>3. CASE k \in n + 1 .. n + Len(i)
    <3>1. k - n \in 1 .. Len(i) /\ n + (k - n) = k
      BY <2>3
    <3> QED
      BY <1>3, <1>4, <3>1 DEF IsMount
  <2>4. CASE k > n + Len(i)
    <3> DEFINE m == k - Len(i)
    <3>1. m \in n + 1 .. Len(s) /\ m + Len(i) = k /\ m \in 1 .. Len(s)
      BY <1>4, <2>4
    <3>2. ~IsMount(s, m) /\ e[k] = s[m]
      BY <1>4, <3>1 DEF NoMount
    <3>3. k < Len(e) => m + 1 \in n + 1 .. Len(s) /\ (m + 1) + Len(i) = k + 1
      BY <1>4, <3>1
    <3>4. k < Len(e) => e[k + 1] = s[m + 1] /\ m < Len(s)
      BY <1>4, <3>3
    <3> QED
      BY <3>2, <3>4 DEF IsMount
  <2> QED
    BY <2>1, <2>2, <2>3, <2>4
<1> QED
  BY <1>5 DEF NoMount, e

LEMMA MountStep == TypeOK /\ ChainInv /\ MountInv /\ [Next]_vars => MountInv'
<1> SUFFICES ASSUME LineOK, ChainOK, ChainInv, MountInv, [Next]_vars,
                    DropSocket, Legal(argv')
             PROVE  /\ NoMount(out')
                    /\ Len(out') # 0 => out'[Len(out')] # "-v"
                    /\ engine' # None => NoMount(engine')
  BY DEF TypeOK, MountInv
<1>1. argv' = argv
  BY DEF Next, TakeMount, TakeJoined, TakeFlag, TakeWord, ExecEngine, vars
<1>2. /\ NoMount(out)
      /\ Len(out) # 0 => out[Len(out)] # "-v"
      /\ engine # None => NoMount(engine)
  BY <1>1 DEF MountInv
<1>3. More => next \in 1 .. Len(argv) /\ argv[next] \in Tokens /\ engine = None
  BY DEF More, LineOK
<1>4. ASSUME NEW w \in Tokens, w \notin {"-v", "--volume=sock"},
             out' = Append(out, w), engine' = engine
      PROVE  /\ NoMount(out')
             /\ Len(out') # 0 => out'[Len(out')] # "-v"
             /\ engine' # None => NoMount(engine')
  <2>1. NoMount(out')
    BY <1>2, <1>4, AppendNoMount DEF LineOK
  <2>2. out'[Len(out')] = w
    BY <1>4 DEF LineOK
  <2> QED
    BY <1>2, <1>4, <2>1, <2>2
<1>5. CASE TakeMount
  <2>1. /\ More /\ argv[next] = "-v" /\ next < Len(argv) /\ argv[next + 1] \in Words
    BY <1>1, <1>3, <1>5 DEF TakeMount, Legal, Valued, LineOK
  <2>2. \/ out' = out
        \/ argv[next + 1] # "sock" /\ out' = out \o <<"-v", argv[next + 1]>>
    BY <1>5, <2>1 DEF TakeMount, LineOK
  <2>3. engine' = engine
    BY <1>5 DEF TakeMount
  <2>4. ASSUME argv[next + 1] # "sock", out' = out \o <<"-v", argv[next + 1]>>
        PROVE  NoMount(out') /\ out'[Len(out')] # "-v"
    <3> DEFINE w == argv[next + 1]
    <3>1. w \in Words \ {"sock"} /\ w \in Tokens /\ "-v" \in Tokens
      BY <2>1, <2>4 DEF Tokens
    <3>2. w \notin {"-v", "--volume=sock", "sock"}
      BY <3>1 DEF Words, Groups
    <3>3. out' = out \o <<"-v", w>>
      BY <2>4
    <3> HIDE DEF w
    <3>4. <<"-v", w>> \in Seq(Tokens) /\ Len(<<"-v", w>>) = 2
      BY <3>1
    <3>5. /\ Len(out') = Len(out) + 2
          /\ out'[Len(out) + 1] = "-v" /\ out'[Len(out) + 2] = w
          /\ \A k \in 1 .. Len(out) : out'[k] = out[k]
      BY <3>3, <3>4 DEF LineOK
    <3>6. ASSUME NEW k \in 1 .. Len(out') PROVE ~IsMount(out', k)
      <4>1. CASE k = Len(out) + 1 \/ k = Len(out) + 2
        BY <3>2, <3>5, <4>1 DEF IsMount, LineOK
      <4>2. CASE k = Len(out) /\ Len(out) # 0
        BY <1>2, <3>5, <4>2 DEF IsMount, NoMount, LineOK
      <4>3. CASE k < Len(out)
        <5>1. k \in 1 .. Len(out) /\ k + 1 \in 1 .. Len(out)
          BY <4>3 DEF LineOK
        <5>2. ~IsMount(out, k)
          BY <1>2, <5>1 DEF NoMount
        <5> QED
          BY <3>5, <4>3, <5>1, <5>2 DEF IsMount, LineOK
      <4> QED
        BY <3>5, <4>1, <4>2, <4>3 DEF LineOK
    <3> QED
      BY <3>2, <3>5, <3>6 DEF NoMount
  <2> QED
    BY <1>2, <2>2, <2>3, <2>4
<1>6. CASE TakeJoined
  <2>1. More /\ argv[next] \in Joined /\ engine' = engine
    BY <1>6 DEF TakeJoined
  <2>2. \/ out' = out
        \/ argv[next] # "--volume=sock" /\ out' = Append(out, argv[next])
    BY <1>6 DEF TakeJoined
  <2>3. argv[next] # "-v"
    BY <2>1 DEF Joined
  <2> QED
    BY <1>2, <1>3, <1>4, <2>1, <2>2, <2>3
<1>7. CASE TakeFlag \/ TakeWord
  <2>1. /\ More /\ argv[next] \in Flags \cup Words
        /\ engine' = engine /\ out' = Append(out, argv[next])
    BY <1>7 DEF TakeFlag, TakeWord
  <2>2. argv[next] \notin {"-v", "--volume=sock"}
    BY <2>1 DEF Flags, Words, Groups
  <2> QED
    BY <1>3, <1>4, <2>1, <2>2
<1>8. CASE ExecEngine
  <2>1. out' = out
    BY <1>8 DEF ExecEngine
  <2>2. NoMount(engine')
    <3>1. CASE insertAt = 0
      BY <1>2, <1>8, <3>1 DEF ExecEngine
    <3>2. CASE insertAt # 0
      <4> DEFINE i == InjectFor(group, action)
      <4>1. i \in Seq(Injected)
        BY InjectType
      <4>2. insertAt \in 1 .. Len(out)
        BY <3>2 DEF ChainOK, LineOK
      <4>3. out[insertAt] \in Words
        BY <3>2, <4>2 DEF ChainInv, InjectionInChain
      <4>4. out[insertAt] # "-v"
        BY <4>3 DEF Words, Groups
      <4>5. engine' = SubSeq(out, 1, insertAt) \o i \o SubSeq(out, insertAt + 1, Len(out))
        BY <1>8, <3>2 DEF ExecEngine
      <4>6. out \in Seq(Tokens)
        BY DEF LineOK
      <4> HIDE DEF i
      <4> QED
        BY <1>2, <4>1, <4>2, <4>4, <4>5, <4>6, SpliceNoMount
    <3> QED
      BY <3>1, <3>2
  <2> QED
    BY <1>2, <2>1, <2>2
<1>9. CASE UNCHANGED vars
  BY <1>2, <1>9 DEF vars
<1> QED
  BY <1>5, <1>6, <1>7, <1>8, <1>9 DEF Next

-----------------------------------------------------------------------------
(* The mounts the shim does not look for.                                  *)

Unbundled(s) == \A k \in 1 .. Len(s) : ~Bundled(s, k)

\* Of a command line without one, none is kept; a flag that waits for its
\* value is the last argument consumed, and its value the next.
BundleInv ==
  Legal(argv) /\ Unbundled(argv) =>
    /\ Unbundled(out)
    /\ Len(out) # 0 /\ out[Len(out)] = "-itv" => next > 1 /\ argv[next - 1] = "-itv"
    /\ engine # None => Unbundled(engine)

\* One argument more, unless it is the value the last one waits for.
LEMMA AppendUnbundled ==
  ASSUME NEW s \in Seq(Tokens), NEW w \in Tokens, w # "-vsock", Unbundled(s),
         Len(s) # 0 /\ s[Len(s)] = "-itv" => w # "sock"
  PROVE  Unbundled(Append(s, w))
<1> DEFINE t == Append(s, w)
<1>1. /\ Len(t) = Len(s) + 1 /\ t[Len(s) + 1] = w
      /\ \A k \in 1 .. Len(s) : t[k] = s[k]
  OBVIOUS
<1> HIDE DEF t
<1>2. ASSUME NEW k \in 1 .. Len(t) PROVE ~Bundled(t, k)
  <2>1. CASE k = Len(t)
    BY <1>1, <2>1 DEF Bundled
  <2>2. CASE k = Len(s) /\ Len(s) # 0
    BY <1>1, <2>2 DEF Bundled, Unbundled
  <2>3. CASE k < Len(s)
    <3>1. k \in 1 .. Len(s) /\ k + 1 \in 1 .. Len(s)
      BY <2>3
    <3>2. ~Bundled(s, k)
      BY <3>1 DEF Unbundled
    <3> QED
      BY <1>1, <2>3, <3>1, <3>2 DEF Bundled
  <2> QED
    BY <1>1, <2>1, <2>2, <2>3
<1> QED
  BY <1>2 DEF Unbundled, t

\* Inserting what the shim injects, after an argument that takes no value.
LEMMA SpliceUnbundled ==
  ASSUME NEW s \in Seq(Tokens), NEW n \in 1 .. Len(s), NEW i \in Seq(Injected),
         Unbundled(s), s[n] # "-itv"
  PROVE  Unbundled(SubSeq(s, 1, n) \o i \o SubSeq(s, n + 1, Len(s)))
<1> DEFINE e == SubSeq(s, 1, n) \o i \o SubSeq(s, n + 1, Len(s))
<1>1. \A k \in 1 .. Len(i) : i[k] \notin {"-itv", "-vsock", "sock"}
  BY DEF Injected
<1>2. /\ Len(e) = Len(s) + Len(i)
      /\ \A k \in 1 .. n : e[k] = s[k]
      /\ \A k \in 1 .. Len(i) : e[n + k] = i[k]
      /\ \A k \in n + 1 .. Len(s) : e[k + Len(i)] = s[k]
  BY Splice
<1> HIDE DEF e
<1>3. ASSUME NEW k \in 1 .. Len(e) PROVE ~Bundled(e, k)
  <2>1. CASE k < n
    <3>1. k + 1 \in 1 .. n /\ k \in 1 .. Len(s) /\ ~Bundled(s, k)
      BY <2>1 DEF Unbundled
    <3> QED
      BY <1>2, <2>1, <3>1 DEF Bundled
  <2>2. CASE k = n
    <3>1. e[k] # "-itv" /\ s[k] # "-vsock"
      BY <1>2, <2>2 DEF Unbundled, Bundled
    <3> QED
      BY <1>2, <2>2, <3>1 DEF Bundled
  <2>3. CASE k \in n + 1 .. n + Len(i)
    <3>1. k - n \in 1 .. Len(i) /\ n + (k - n) = k
      BY <2>3
    <3> QED
      BY <1>1, <1>2, <3>1 DEF Bundled
  <2>4. CASE k > n + Len(i)
    <3> DEFINE m == k - Len(i)
    <3>1. m \in n + 1 .. Len(s) /\ m + Len(i) = k /\ m \in 1 .. Len(s)
      BY <1>2, <2>4
    <3>2. ~Bundled(s, m) /\ e[k] = s[m]
      BY <1>2, <3>1 DEF Unbundled
    <3>3. k < Len(e) => m + 1 \in n + 1 .. Len(s) /\ (m + 1) + Len(i) = k + 1
      BY <1>2, <3>1
    <3>4. k < Len(e) => e[k + 1] = s[m + 1] /\ m < Len(s)
      BY <1>2, <3>3
    <3> QED
      BY <3>2, <3>4 DEF Bundled
  <2> QED
    BY <2>1, <2>2, <2>3, <2>4
<1> QED
  BY <1>3 DEF Unbundled, e

LEMMA BundleStep == TypeOK /\ ChainInv /\ BundleInv /\ [Next]_vars => BundleInv'
<1> DEFINE Last(o, n) == Len(o) # 0 /\ o[Len(o)] = "-itv" => n > 1 /\ argv[n - 1] = "-itv"
<1> SUFFICES ASSUME LineOK, ChainOK, ChainInv, BundleInv, [Next]_vars PROVE BundleInv'
  BY DEF TypeOK
<1>1. argv' = argv
  BY DEF Next, TakeMount, TakeJoined, TakeFlag, TakeWord, ExecEngine, vars
<1> SUFFICES ASSUME Legal(argv'), Unbundled(argv')
             PROVE  Unbundled(out') /\ Last(out', next') /\ (engine' # None => Unbundled(engine'))
  BY <1>1 DEF BundleInv
<1>2. Unbundled(out) /\ Last(out, next) /\ (engine # None => Unbundled(engine))
  BY <1>1 DEF BundleInv
<1>3. More => next \in 1 .. Len(argv) /\ argv[next] \in Tokens /\ argv[next] # "-vsock"
  BY <1>1 DEF More, LineOK, Unbundled, Bundled
\* What follows a flag that waits for its value is a word, and not the socket.
<1>4. Len(out) # 0 /\ out[Len(out)] = "-itv" =>
        next <= Len(argv) /\ argv[next] \in Words \ {"sock"}
  <2> SUFFICES ASSUME Len(out) # 0, out[Len(out)] = "-itv"
               PROVE  next <= Len(argv) /\ argv[next] \in Words \ {"sock"}
    OBVIOUS
  <2> DEFINE k == next - 1
  <2>1. k \in DOMAIN argv /\ argv[k] = "-itv" /\ k + 1 = next
    BY <1>2 DEF LineOK
  <2>2. k < Len(argv) /\ argv[k + 1] \in Words
    BY <1>1, <2>1 DEF Legal, Valued
  <2>3. ~Bundled(argv, k)
    BY <1>1, <2>1 DEF Unbundled, LineOK
  <2> QED
    BY <2>1, <2>2, <2>3 DEF Bundled
<1>5. ASSUME More, out' = Append(out, argv[next]), next' = next + 1, engine' = engine
      PROVE  Unbundled(out') /\ Last(out', next') /\ (engine' # None => Unbundled(engine'))
  <2>1. Unbundled(out')
    BY <1>2, <1>3, <1>4, <1>5, AppendUnbundled DEF LineOK
  <2>2. out'[Len(out')] = argv[next]
    BY <1>5 DEF LineOK
  <2>3. next' > 1 /\ next' - 1 = next
    BY <1>5 DEF LineOK
  <2> QED
    BY <1>2, <1>5, <2>1, <2>2, <2>3
<1>6. CASE TakeMount
  <2>1. /\ More /\ argv[next] = "-v" /\ next < Len(argv) /\ argv[next + 1] \in Words
    BY <1>1, <1>3, <1>6 DEF TakeMount, Legal, Valued, LineOK
  <2>2. /\ next' = next + 2 /\ engine' = engine
        /\ out' = out \/ out' = out \o <<"-v", argv[next + 1]>>
    BY <1>6, <2>1 DEF TakeMount, LineOK
  <2>3. Len(out) # 0 => out[Len(out)] # "-itv"
    BY <1>4, <2>1 DEF Words, Groups
  <2>4. ASSUME out' = out \o <<"-v", argv[next + 1]>>
        PROVE  Unbundled(out') /\ Last(out', next')
    <3> DEFINE w == argv[next + 1]
               o == Append(out, "-v")
    <3>1. w \in Tokens /\ w # "-vsock" /\ w # "-itv" /\ "-v" \in Tokens
      BY <2>1 DEF Tokens, Words, Groups
    <3> HIDE DEF w
    <3>2. o \in Seq(Tokens) /\ Len(o) # 0 /\ o[Len(o)] = "-v" /\ out' = Append(o, w)
      BY <2>4, <3>1 DEF LineOK, w
    <3>3. Unbundled(o)
      BY <1>2, <2>3, <3>1, AppendUnbundled DEF LineOK
    <3> HIDE DEF o
    <3>4. Unbundled(Append(o, w))
      BY <3>1, <3>2, <3>3, AppendUnbundled
    <3>5. out'[Len(out')] = w
      BY <3>1, <3>2
    <3> QED
      BY <3>1, <3>2, <3>4, <3>5
  <2> QED
    BY <1>2, <2>2, <2>3, <2>4
<1>7. CASE TakeJoined
  <2>1. More /\ next' = next + 1 /\ engine' = engine /\ argv[next] \in Joined
    BY <1>7 DEF TakeJoined
  <2>2. out' = out \/ out' = Append(out, argv[next])
    BY <1>7 DEF TakeJoined
  <2>3. Len(out) # 0 => out[Len(out)] # "-itv"
    BY <1>4, <2>1 DEF Words, Groups, Joined
  <2> QED
    BY <1>2, <1>5, <2>1, <2>2, <2>3
<1>8. CASE TakeFlag \/ TakeWord
  BY <1>5, <1>8 DEF TakeFlag, TakeWord
<1>9. CASE ExecEngine
  <2>1. UNCHANGED <<out, next>> /\ next > Len(argv)
    BY <1>9 DEF ExecEngine
  <2>2. Unbundled(engine')
    <3>1. CASE insertAt = 0
      BY <1>2, <1>9, <3>1 DEF ExecEngine
    <3>2. CASE insertAt # 0
      <4> DEFINE i == InjectFor(group, action)
      <4>1. i \in Seq(Injected)
        BY InjectType
      <4>2. insertAt \in 1 .. Len(out)
        BY <3>2 DEF ChainOK, LineOK
      <4>3. out[insertAt] \in Words
        BY <3>2, <4>2 DEF ChainInv, InjectionInChain
      <4>4. out[insertAt] # "-itv"
        BY <4>3 DEF Words, Groups
      <4>5. engine' = SubSeq(out, 1, insertAt) \o i \o SubSeq(out, insertAt + 1, Len(out))
        BY <1>9, <3>2 DEF ExecEngine
      <4>6. out \in Seq(Tokens)
        BY DEF LineOK
      <4> HIDE DEF i
      <4> QED
        BY <1>2, <4>1, <4>2, <4>4, <4>5, <4>6, SpliceUnbundled
    <3> QED
      BY <3>1, <3>2
  <2> QED
    BY <1>2, <2>1, <2>2
<1>10. CASE UNCHANGED vars
  BY <1>2, <1>10 DEF vars
<1> QED
  BY <1>6, <1>7, <1>8, <1>9, <1>10 DEF Next

\* With GH_RUNNER_SHIM_DROP_SOCKET=1 no command line of any length, whatever
\* it asks for and wherever, has the client mount the engine's socket by a form
\* the shim looks for; and the forms it does not look for are in what it hands
\* on only if they were in what it was given.
THEOREM SocketNeverMountedHolds == Spec => []SocketNeverMounted
<1>1. Init => MountInv /\ BundleInv
  <2> SUFFICES ASSUME Init PROVE MountInv /\ BundleInv
    OBVIOUS
  <2>1. out = <<>> /\ ~(engine # None)
    BY DEF Init
  <2>2. NoMount(out) /\ Unbundled(out) /\ Len(out) = 0
    BY <2>1 DEF NoMount, Unbundled
  <2> QED
    BY <2>1, <2>2 DEF MountInv, BundleInv
<1>2. TypeOK /\ MountInv /\ BundleInv => SocketNeverMounted
  <2> SUFFICES ASSUME LineOK, EngineOK, MountInv, BundleInv,
                      DropSocket, Legal(argv), engine # None, NEW k \in DOMAIN engine
               PROVE  /\ ~IsMount(engine, k)
                      /\ Bundled(engine, k) => \E j \in DOMAIN argv : Bundled(argv, j)
    BY DEF TypeOK, SocketNeverMounted
  <2>1. DOMAIN engine = 1 .. Len(engine) /\ DOMAIN argv = 1 .. Len(argv)
    BY DEF LineOK, EngineOK
  <2>2. ~IsMount(engine, k)
    BY <2>1 DEF MountInv, NoMount
  <2>3. Unbundled(argv) => ~Bundled(engine, k)
    BY <2>1 DEF BundleInv, Unbundled
  <2> QED
    BY <2>1, <2>2, <2>3 DEF Unbundled
<1> QED
  BY <1>1, <1>2, MountStep, BundleStep, ChainAlways, PTL DEF Spec

-----------------------------------------------------------------------------
(* Sequences put together and taken apart.                                *)

LEMMA AppendTail ==
  ASSUME NEW a \in Seq(Tokens), NEW b \in Seq(Tokens), NEW w \in Tokens
  PROVE  Append(a \o b, w) = a \o Append(b, w)
<1>1. b \in Seq(Tokens) /\ Append(b, w) \in Seq(Tokens) /\ Len(Append(b, w)) = Len(b) + 1
  OBVIOUS
<1>2. a \o b \in Seq(Tokens) /\ Len(a \o b) = Len(a) + Len(b)
  OBVIOUS
<1> DEFINE x == Append(a \o b, w)
           y == a \o Append(b, w)
<1>3. x \in Seq(Tokens) /\ Len(x) = Len(a) + Len(b) + 1
  BY <1>2
<1>4. y \in Seq(Tokens) /\ Len(y) = Len(a) + Len(b) + 1
  BY <1>1
<1>5. ASSUME NEW i \in 1 .. Len(x) PROVE x[i] = y[i]
  OBVIOUS
<1> HIDE DEF x, y
<1>6. x = y
  BY <1>3, <1>4, <1>5, SeqEqual
<1> QED BY <1>6 DEF x, y

LEMMA AppendTwo ==
  ASSUME NEW s \in Seq(Tokens), NEW v \in Tokens, NEW w \in Tokens
  PROVE  s \o <<v, w>> = Append(Append(s, v), w)
<1> DEFINE x == s \o <<v, w>>
           y == Append(Append(s, v), w)
<1>1. x \in Seq(Tokens) /\ Len(x) = Len(s) + 2
  OBVIOUS
<1>2. y \in Seq(Tokens) /\ Len(y) = Len(s) + 2
  OBVIOUS
<1>3. \A i \in 1 .. Len(s) + 2 : x[i] = y[i]
  OBVIOUS
<1> HIDE DEF x, y
<1>4. x = y
  BY <1>1, <1>2, <1>3, SeqEqual
<1> QED BY <1>4 DEF x, y

LEMMA SubSeqHalves ==
  ASSUME NEW a \in Seq(Tokens), NEW b \in Seq(Tokens)
  PROVE  SubSeq(a \o b, 1, Len(a)) = a /\ SubSeq(a \o b, Len(a) + 1, Len(a \o b)) = b
<1> DEFINE c == a \o b
<1>0. c \in Seq(Tokens) /\ Len(c) = Len(a) + Len(b)
  OBVIOUS
<1>1. \A i \in 1 .. Len(a) : c[i] = a[i]
  OBVIOUS
<1>2. \A i \in 1 .. Len(b) : c[Len(a) + i] = b[i]
  OBVIOUS
<1> HIDE DEF c
<1>3. SubSeq(c, 1, Len(a)) \in Seq(Tokens) /\ Len(SubSeq(c, 1, Len(a))) = Len(a)
       /\ \A i \in 1 .. Len(a) : SubSeq(c, 1, Len(a))[i] = c[i]
  BY <1>0
<1>4. SubSeq(c, 1, Len(a)) = a
  BY <1>3, <1>1, SeqEqual
<1>5. SubSeq(c, Len(a) + 1, Len(c)) \in Seq(Tokens) /\ Len(SubSeq(c, Len(a) + 1, Len(c))) = Len(b)
       /\ \A i \in 1 .. Len(b) : SubSeq(c, Len(a) + 1, Len(c))[i] = c[Len(a) + i]
  BY <1>0
<1>6. SubSeq(c, Len(a) + 1, Len(c)) = b
  BY <1>2, <1>5, SeqEqual
<1> QED BY <1>4, <1>6 DEF c

LEMMA SubExtend ==
  ASSUME NEW s \in Seq(Tokens), NEW k \in 1 .. Len(s)
  PROVE  SubSeq(s, 1, k) = Append(SubSeq(s, 1, k - 1), s[k])
<1> DEFINE x == SubSeq(s, 1, k)
           y == Append(SubSeq(s, 1, k - 1), s[k])
<1>1. x \in Seq(Tokens) /\ Len(x) = k
  OBVIOUS
<1>2. y \in Seq(Tokens) /\ Len(y) = k
  OBVIOUS
<1>3. \A i \in 1 .. k : x[i] = y[i]
  OBVIOUS
<1> HIDE DEF x, y
<1> QED BY <1>1, <1>2, <1>3, SeqEqual DEF x, y

-----------------------------------------------------------------------------
(* Picking arguments.                                                      *)

\* A position behind all others comes last.
LEMMA PickedAppend ==
  ASSUME NEW s, NEW K \in SUBSET Nat, IsFiniteSet(K), NEW k \in Nat,
         \A m \in K : m < k, NEW T, Picked(s, K) \in Seq(T), s[k] \in T
  PROVE  Picked(s, K \cup {k}) = Append(Picked(s, K), s[k])
<1> DEFINE L == K \cup {k}
           n == Cardinality(K)
<1>1. n \in Nat
  BY FS_CardinalityType
<1>0. /\ \A m \in K : m \in Nat /\ m < k /\ m <= k
      /\ k \notin K /\ k <= k
  OBVIOUS
<1>2. IsFiniteSet(L) /\ Cardinality(L) = n + 1
  BY <1>0, FS_AddElement, Zenon
<1>3. ASSUME NEW x \in K PROVE Rank(L, x) = Rank(K, x) /\ Rank(K, x) \in Nat /\ Rank(K, x) <= n
  <2>1. {m \in L : m <= x} = {m \in K : m <= x}
    BY <1>3
  <2>2. {m \in K : m <= x} \in SUBSET K
    OBVIOUS
  <2> QED BY <2>1, <2>2, FS_Subset, FS_CardinalityType DEF Rank
<1>4. Rank(L, k) = n + 1
  <2>1. {m \in L : m <= k} = L
    BY <1>0
  <2> QED BY <1>2, <2>1 DEF Rank
<1>5. \A x : x \in L <=> x \in K \/ x = k
  OBVIOUS
<1>8. /\ Picked(s, L) = [j \in 1 .. n + 1 |-> s[Only({x \in L : Rank(L, x) = j})]]
      /\ Picked(s, K) = [j \in 1 .. n |-> s[Only({x \in K : Rank(K, x) = j})]]
  BY <1>2 DEF Picked
<1> HIDE DEF L, n
<1>6. ASSUME NEW j \in 1 .. n
      PROVE  {x \in L : Rank(L, x) = j} = {x \in K : Rank(K, x) = j}
  <2>1. ASSUME NEW x PROVE x \in L /\ Rank(L, x) = j <=> x \in K /\ Rank(K, x) = j
    <3>1. j # n + 1
      BY <1>1
    <3>2. CASE x = k
      BY <1>0, <1>4, <3>1, <3>2
    <3>3. CASE x # k
      BY <1>3, <1>5, <3>3
    <3> QED BY <3>2, <3>3
  <2> QED BY <2>1, Zenon
<1>7. Only({x \in L : Rank(L, x) = n + 1}) = k
  <2>1. ASSUME NEW x PROVE x \in L /\ Rank(L, x) = n + 1 <=> x = k
    <3>1. CASE x = k
      BY <1>4, <1>5, <3>1
    <3>2. CASE x \in K
      <4>1. Rank(L, x) \in Nat /\ Rank(L, x) <= n
        BY <1>3, <3>2
      <4>2. Rank(L, x) # n + 1
        BY <1>1, <4>1
      <4> QED BY <1>0, <3>2, <4>2
    <3> QED BY <1>5, <3>1, <3>2
  <2>2. {x \in L : Rank(L, x) = n + 1} = {k}
    BY <2>1, Zenon
  <2>3. Only({k}) = k
    BY DEF Only
  <2> QED BY <2>2, <2>3, Zenon
<1> DEFINE P == Picked(s, K)
           Q == Picked(s, L)
<1>9. Q[n + 1] = s[k] /\ \A j \in 1 .. n : Q[j] = P[j]
  <2>1. ASSUME NEW j \in 1 .. n PROVE Q[j] = P[j]
    <3>1. Q[j] = s[Only({x \in L : Rank(L, x) = j})]
      BY <1>1, <1>8
    <3>2. P[j] = s[Only({x \in K : Rank(K, x) = j})]
      BY <1>1, <1>8
    <3> QED BY <1>6, <3>1, <3>2, Zenon
  <2>2. Q[n + 1] = s[Only({x \in L : Rank(L, x) = n + 1})]
    BY <1>1, <1>8
  <2> QED BY <1>7, <2>1, <2>2
<1>10. DOMAIN Q = 1 .. n + 1 /\ DOMAIN P = 1 .. n /\ Q = [j \in 1 .. n + 1 |-> Q[j]]
  BY <1>8
<1> HIDE DEF P, Q
<1>11. P \in Seq(T) /\ s[k] \in T
  BY DEF P
<1>12. Len(P) = n
  BY <1>1, <1>10, <1>11
<1>13. Q \in Seq(T) /\ Len(Q) = n + 1
  <2>1. \A j \in 1 .. n : P[j] \in T
    BY <1>11, <1>12
  <2>2. \A j \in 1 .. n + 1 : j \in 1 .. n \/ j = n + 1
    BY <1>1
  <2>3. \A j \in 1 .. n + 1 : Q[j] \in T
    BY <1>9, <1>11, <2>1, <2>2
  <2>4. Q \in [1 .. n + 1 -> T]
    BY <1>10, <2>3, Zenon
  <2> QED BY <1>1, <2>4
<1>14. /\ Append(P, s[k]) \in Seq(T) /\ Len(Append(P, s[k])) = n + 1
       /\ Append(P, s[k])[n + 1] = s[k]
       /\ \A j \in 1 .. n : Append(P, s[k])[j] = P[j]
  BY <1>1, <1>11, <1>12
<1>15. \A j \in 1 .. n + 1 : Q[j] = Append(P, s[k])[j]
  BY <1>1, <1>9, <1>14
<1> HIDE DEF P, Q
<1>16. Q = Append(P, s[k])
  BY <1>13, <1>14, <1>15, SeqEqual
<1> QED
  BY <1>16 DEF P, Q, L

LEMMA PickedNone == \A s : Picked(s, {}) = <<>>
BY FS_EmptySet DEF Picked

-----------------------------------------------------------------------------
(* The line as the client reads it.                                        *)

LEMMA ChainFacts ==
  ASSUME NEW s \in Seq(Tokens), Legal(s)
  PROVE  LET n == ChainLen(s) IN
         /\ n \in 0 .. Len(s) /\ n <= 2
         /\ \A k \in 1 .. n : s[k] \in Words
         /\ n = 0 => Len(s) = 0 \/ s[1] \notin Words
         /\ n = 1 => s[1] \notin Groups
         /\ n = 2 => s[1] \in Groups
<1>1. CASE Len(s) = 0
  BY <1>1 DEF ChainLen
<1>2. CASE Len(s) # 0 /\ s[1] \notin Words
  BY <1>2 DEF ChainLen
<1>3. CASE Len(s) # 0 /\ s[1] \in Words /\ s[1] \notin Groups
  <2>1. ChainLen(s) = 1
    BY <1>3 DEF ChainLen
  <2> QED BY <1>3, <2>1
<1>4. CASE Len(s) # 0 /\ s[1] \in Groups
  <2>1. s[1] \in Words /\ ChainLen(s) = 2
    BY <1>4 DEF ChainLen, Words
  <2>2. 1 < Len(s) /\ s[1 + 1] \in Words
    BY <1>4 DEF Legal
  <2> QED BY <1>4, <2>1, <2>2
<1> QED
  BY <1>1, <1>2, <1>3, <1>4 DEF Words

LEMMA Kinds ==
  /\ \A w \in Words : w \notin Joined \cup Flags \cup {"-v"} /\ w \notin Valued
  /\ \A w \in Joined : w \notin Flags \cup {"-v"} /\ w \notin Valued
  /\ "-v" \in Valued /\ "-v" \notin Flags
BY DEF Words, Groups, Joined, Flags, Valued

\* Of a command line with no socket mount in the container's own command, the
\* client is to get what is no part of one, wherever it stands.
LEMMA KeptWhen ==
  ASSUME NEW s \in Seq(Tokens), Legal(s), PlainCommand(s),
         NEW k \in ChainLen(s) + 1 .. Len(s), ChainLen(s) \in Nat
  PROVE  k \in Kept(s) <=> ~(DropSocket /\ OfMount(s, k))
<1>1. k \in DOMAIN s /\ k \in Nat /\ k > 0
  OBVIOUS
<1>2. CASE IsMount(s, k)
  <2>1. InOptions(s, k)
    BY <1>1, <1>2 DEF PlainCommand
  <2> QED BY <1>2, <2>1 DEF Kept, OfMount
<1>3. CASE k > 1 /\ s[k - 1] = "-v" /\ IsMount(s, k - 1)
  <2>1. k - 1 \in DOMAIN s
    BY <1>1, <1>3
  <2>2. InOptions(s, k - 1)
    BY <1>3, <2>1 DEF PlainCommand
  <2>3. IsValue(s, k)
    BY <1>3, Kinds DEF IsValue
  <2>4. InOptions(s, k)
    BY <1>1, <2>2, <2>3 DEF InOptions
  <2> QED BY <1>3, <2>4 DEF Kept, OfMount
<1> QED
  BY <1>2, <1>3 DEF Kept, OfMount

KeptTo(s, m) == {k \in Kept(s) : k < m}

LEMMA KeptFacts ==
  ASSUME NEW s \in Seq(Tokens), ChainLen(s) \in Nat, NEW m \in Nat
  PROVE  /\ KeptTo(s, m) \in SUBSET Nat /\ IsFiniteSet(KeptTo(s, m))
         /\ m <= ChainLen(s) + 1 => KeptTo(s, m) = {}
         /\ m = Len(s) + 1 => KeptTo(s, m) = Kept(s)
         /\ m \notin Kept(s) => KeptTo(s, m + 1) = KeptTo(s, m)
         /\ m \in Kept(s) => KeptTo(s, m + 1) = KeptTo(s, m) \cup {m}
<1>1. Kept(s) \subseteq ChainLen(s) + 1 .. Len(s)
  BY DEF Kept
<1>2. Len(s) \in Nat
  OBVIOUS
<1>3. IsFiniteSet(1 .. Len(s)) /\ KeptTo(s, m) \in SUBSET (1 .. Len(s))
  BY <1>1, <1>2, FS_Interval DEF KeptTo
<1>4. IsFiniteSet(KeptTo(s, m))
  BY <1>3, FS_Subset
<1> QED
  BY <1>1, <1>2, <1>3, <1>4 DEF KeptTo

\* What follows the subcommand goes on with the next argument that is kept.
LEMMA TakesOne ==
  ASSUME NEW s \in Seq(Tokens), ChainLen(s) \in 0 .. Len(s), NEW k \in Kept(s),
         Picked(s, KeptTo(s, k)) \in Seq(Tokens), NEW o,
         o = SubSeq(s, 1, ChainLen(s)) \o Picked(s, KeptTo(s, k))
  PROVE  /\ Picked(s, KeptTo(s, k + 1)) \in Seq(Tokens)
         /\ Append(o, s[k]) = SubSeq(s, 1, ChainLen(s)) \o Picked(s, KeptTo(s, k + 1))
<1> DEFINE P == Picked(s, KeptTo(s, k))
           A == SubSeq(s, 1, ChainLen(s))
<1>1. k \in 1 .. Len(s) /\ k \in Nat /\ s[k] \in Tokens
  BY DEF Kept
<1>2. /\ KeptTo(s, k) \in SUBSET Nat /\ IsFiniteSet(KeptTo(s, k))
      /\ KeptTo(s, k + 1) = KeptTo(s, k) \cup {k}
      /\ \A m \in KeptTo(s, k) : m < k
  <2>1. ChainLen(s) \in Nat
    OBVIOUS
  <2>2. /\ KeptTo(s, k) \in SUBSET Nat /\ IsFiniteSet(KeptTo(s, k))
        /\ KeptTo(s, k + 1) = KeptTo(s, k) \cup {k}
    BY <1>1, <2>1, KeptFacts
  <2>3. \A m \in KeptTo(s, k) : m < k
    BY DEF KeptTo
  <2> QED BY <2>2, <2>3
<1>3. Picked(s, KeptTo(s, k + 1)) = Append(P, s[k])
  BY <1>1, <1>2, PickedAppend
<1>4. A \in Seq(Tokens) /\ P \in Seq(Tokens) /\ o = A \o P
  OBVIOUS
<1> HIDE DEF A, P
<1>5. Append(P, s[k]) \in Seq(Tokens) /\ Append(A \o P, s[k]) = A \o Append(P, s[k])
  <2> DEFINE w == s[k]
  <2>1. A \in Seq(Tokens) /\ P \in Seq(Tokens) /\ w \in Tokens
    BY <1>1, <1>4
  <2> HIDE DEF w
  <2>2. Append(P, w) \in Seq(Tokens)
    BY ONLY <2>1
  <2>3. Append(A \o P, w) = A \o Append(P, w)
    BY ONLY <2>1, AppendTail
  <2> QED
    BY <2>2, <2>3 DEF w
<1> QED
  BY <1>3, <1>4, <1>5 DEF A, P

-----------------------------------------------------------------------------
(* The invariant.                                                          *)

\* Of the command line read, the leading words are where the loop puts them.
WordsRead ==
  LET n == ChainLen(argv) IN
  /\ next <= n => ~seen /\ pos = next - 1 /\ insertAt = 0
  /\ n = 0 => insertAt = 0 /\ (next > 1 => seen)
  /\ n > 0 /\ next > 1 => pos > 0 /\ verb = argv[1] /\ depth = n
  /\ n = 2 /\ next > 2 => pos > 1 /\ sub = argv[2]
  /\ n > 0 /\ next > n => insertAt = n

\* What is kept of it is the subcommand and what the client is to get of the
\* rest, and the next argument is no value.
KeptRead ==
  LET n == ChainLen(argv)
      kept == Picked(argv, KeptTo(argv, next))
  IN /\ next > 1 => argv[next - 1] # "-v"
     /\ kept \in Seq(Tokens)
     /\ out = SubSeq(argv, 1, IF next <= n THEN next - 1 ELSE n) \o kept
     /\ engine # None => engine = Expected(argv)

ReadInv == Legal(argv) => WordsRead /\ (PlainCommand(argv) => KeptRead)

LEMMA WordsStep ==
  ASSUME LineOK, ChainOK, ChainInv, Legal(argv), WordsRead, [Next]_vars
  PROVE  argv' = argv /\ WordsRead'
<1> DEFINE n == ChainLen(argv)
<1>1. argv' = argv
  BY DEF Next, TakeMount, TakeJoined, TakeFlag, TakeWord, ExecEngine, vars
<1>2. /\ n \in 0 .. Len(argv) /\ n <= 2
      /\ \A k \in 1 .. n : argv[k] \in Words
      /\ n = 0 => Len(argv) = 0 \/ argv[1] \notin Words
      /\ n = 1 => argv[1] \notin Groups
      /\ n = 2 => argv[1] \in Groups
  BY ChainFacts DEF LineOK
<1>3. More => next \in 1 .. Len(argv)
  BY DEF More, LineOK
<1>4. /\ next <= n => ~seen /\ pos = next - 1 /\ insertAt = 0
      /\ n = 0 => insertAt = 0 /\ (next > 1 => seen)
      /\ n > 0 /\ next > 1 => pos > 0 /\ verb = argv[1] /\ depth = n
      /\ n = 2 /\ next > 2 => pos > 1 /\ sub = argv[2]
      /\ n > 0 /\ next > n => insertAt = n
  BY DEF WordsRead
<1>5. /\ next \in Nat /\ pos \in Nat /\ Len(out) \in Nat
      /\ ~seen => next = pos + 1 /\ Len(out) = pos
      /\ pos = 0 => depth = 1
  BY DEF LineOK, ChainOK, ChainInv
<1>6. SUFFICES
        /\ next' <= n => ~seen' /\ pos' = next' - 1 /\ insertAt' = 0
        /\ n = 0 => insertAt' = 0 /\ (next' > 1 => seen')
        /\ n > 0 /\ next' > 1 => pos' > 0 /\ verb' = argv[1] /\ depth' = n
        /\ n = 2 /\ next' > 2 => pos' > 1 /\ sub' = argv[2]
        /\ n > 0 /\ next' > n => insertAt' = n
  BY <1>1 DEF WordsRead
<1> HIDE DEF n
<1>7. ASSUME More, next > n, next' \in Nat, next' > next, UNCHANGED chain
      PROVE  /\ next' > n /\ next' > 1
             /\ n = 0 => insertAt' = 0
             /\ n > 0 => pos' > 0 /\ verb' = argv[1] /\ depth' = n /\ insertAt' = n
             /\ n = 2 => pos' > 1 /\ sub' = argv[2]
  BY <1>2, <1>4, <1>5, <1>7 DEF chain
<1>8. CASE TakeMount \/ TakeJoined \/ TakeFlag
  <2>1. /\ More /\ seen' = TRUE /\ UNCHANGED chain
        /\ next' = next + 1 \/ next' = next + 2
        /\ argv[next] \notin Words
    BY <1>8, Kinds DEF TakeMount, TakeJoined, TakeFlag
  <2>2. next > n
    BY <1>2, <1>3, <1>5, <2>1
  <2>3. next' \in Nat /\ next' > next
    BY <1>5, <2>1
  <2>4. seen'
    BY <2>1, Zenon
  <2> QED BY <1>2, <1>7, <2>1, <2>2, <2>3, <2>4
<1>9. CASE TakeWord
  <2>1. More /\ next' = next + 1 /\ seen' = seen /\ argv[next] \in Words
    BY <1>9 DEF TakeWord
  <2>2. CASE seen
    <3>1. UNCHANGED chain
      BY <1>9, <2>2 DEF TakeWord, chain
    <3> QED BY <1>2, <1>4, <1>5, <1>7, <2>1, <2>2, <3>1
  <2>3. CASE ~seen
    <3>1. /\ pos' = pos + 1
          /\ verb' = IF pos = 0 THEN argv[next] ELSE verb
          /\ depth' = IF pos = 0 /\ argv[next] \in Groups THEN 2 ELSE depth
          /\ sub' = IF pos = 1 THEN argv[next] ELSE sub
          /\ insertAt' = IF pos' = depth' /\ insertAt = 0 THEN Len(out') ELSE insertAt
      BY <1>9, <2>3 DEF TakeWord
    <3>2. Len(out') = pos + 1
      <4>1. out' = Append(out, argv[next])
        BY <1>9 DEF TakeWord
      <4> QED BY <1>5, <2>3, <4>1 DEF LineOK
    <3>3. n > 0
      BY <1>2, <1>3, <1>4, <1>5, <2>1, <2>3
    <3>4. CASE next = 1
      <4>1. pos = 0 /\ depth' = n
        BY <1>2, <1>5, <2>3, <3>1, <3>3, <3>4
      <4> QED BY <1>2, <1>4, <2>1, <2>3, <3>1, <3>2, <3>3, <3>4, <4>1
    <3>5. CASE next = 2 /\ n = 2
      BY <1>4, <1>5, <2>1, <2>3, <3>1, <3>2, <3>5
    <3>6. CASE next > n
      <4>3. insertAt = n /\ pos > 0 /\ next > 1
        BY <1>2, <1>4, <1>5, <3>3, <3>6
      <4>4. pos # 0 /\ insertAt # 0
        BY <3>3, <4>3
      <4>1. verb' = verb /\ depth' = depth /\ insertAt' = insertAt
        BY <3>1, <4>4
      <4>2. n = 2 => pos > 1 /\ sub' = sub
        BY <1>4, <1>5, <3>1, <3>6
      <4> QED BY <1>2, <1>4, <1>5, <2>1, <3>1, <3>3, <3>6, <4>1, <4>2, <4>3
    <3> QED BY <1>2, <1>3, <2>1, <3>3, <3>4, <3>5, <3>6
  <2> QED BY <2>2, <2>3
<1>10. CASE ExecEngine \/ UNCHANGED vars
  <2>1. UNCHANGED <<next, seen, chain>>
    BY <1>10 DEF ExecEngine, vars, chain
  <2> QED BY <1>4, <2>1 DEF chain
<1> QED
  BY <1>8, <1>9, <1>10 DEF Next

\* No argument that follows one which takes no value is part of a mount, but
\* one that is a mount of the socket itself.
LEMMA KeptUnlessMount ==
  ASSUME NEW s \in Seq(Tokens), Legal(s), PlainCommand(s),
         NEW k \in ChainLen(s) + 1 .. Len(s), k > 1 => s[k - 1] # "-v"
  PROVE  k \in Kept(s) <=> ~(DropSocket /\ IsMount(s, k))
<1>1. ChainLen(s) \in Nat
  BY ChainFacts
<1>2. OfMount(s, k) <=> IsMount(s, k)
  BY DEF OfMount
<1> QED
  BY <1>1, <1>2, KeptWhen

LEMMA KeptStep ==
  ASSUME LineOK, Legal(argv), PlainCommand(argv), KeptRead, engine = None,
         TakeMount \/ TakeJoined \/ TakeFlag \/ TakeWord
  PROVE  KeptRead'
<1> DEFINE n == ChainLen(argv)
           kept(m) == Picked(argv, KeptTo(argv, m))
           head(m) == SubSeq(argv, 1, IF m <= n THEN m - 1 ELSE n)
<1>1. argv' = argv /\ engine' = None /\ More
  BY DEF TakeMount, TakeJoined, TakeFlag, TakeWord
<1>2. /\ argv \in Seq(Tokens) /\ next \in 1 .. Len(argv) /\ next \in Nat
      /\ argv[next] \in Tokens /\ Len(argv) \in Nat
  BY <1>1 DEF LineOK, More
<1>3. /\ n \in 0 .. Len(argv) /\ n <= 2 /\ n \in Nat
      /\ \A k \in 1 .. n : argv[k] \in Words
  BY <1>2, ChainFacts
<1>4. /\ next > 1 => argv[next - 1] # "-v"
      /\ kept(next) \in Seq(Tokens)
      /\ out = head(next) \o kept(next)
  BY DEF KeptRead
<1>5. SUFFICES
        /\ next' > 1 => argv[next' - 1] # "-v"
        /\ kept(next') \in Seq(Tokens)
        /\ out' = head(next') \o kept(next')
  BY <1>1 DEF KeptRead
<1>6. ASSUME NEW m \in n + 1 .. Len(argv), m \in Kept(argv), NEW o,
             kept(m) \in Seq(Tokens), o = head(m) \o kept(m)
      PROVE  kept(m + 1) \in Seq(Tokens) /\ Append(o, argv[m]) = head(m + 1) \o kept(m + 1)
  <2>1. ~(m <= n) /\ ~(m + 1 <= n)
    BY <1>3
  <2>2. o = SubSeq(argv, 1, ChainLen(argv)) \o Picked(argv, KeptTo(argv, m))
    BY <1>6, <2>1
  <2>3. ChainLen(argv) \in 0 .. Len(argv) /\ Picked(argv, KeptTo(argv, m)) \in Seq(Tokens)
    BY <1>3, <1>6
  <2> QED BY <1>2, <1>6, <2>1, <2>2, <2>3, TakesOne
<1>7. ASSUME NEW m \in n + 1 .. Len(argv), m \notin Kept(argv)
      PROVE  kept(m + 1) = kept(m) /\ head(m + 1) = head(m)
  <2>1. ~(m <= n) /\ ~(m + 1 <= n) /\ m \in Nat
    BY <1>3
  <2>2. KeptTo(argv, m + 1) = KeptTo(argv, m)
    BY <1>2, <1>3, <1>7, <2>1, KeptFacts
  <2> QED BY <2>1, <2>2
<1>8. ASSUME next > n
      PROVE  next \in Kept(argv) <=> ~(DropSocket /\ IsMount(argv, next))
  <2>1. next \in ChainLen(argv) + 1 .. Len(argv)
    BY <1>2, <1>3, <1>8
  <2> QED BY <1>2, <1>4, <2>1, KeptUnlessMount
<1>9. argv[next] \notin Words => next > n
  BY <1>2, <1>3
<1> HIDE DEF n, kept, head
<1>10. CASE TakeMount
  <2> DEFINE w == argv[next + 1]
  <2>1. argv[next] = "-v" /\ next < Len(argv) /\ w \in Words /\ next > n
    BY <1>2, <1>9, <1>10, Kinds DEF TakeMount, Legal
  <2>2. /\ next' = next + 2
        /\ out' = IF DropSocket /\ w = "sock" THEN out ELSE out \o <<argv[next], w>>
    BY <1>2, <1>10, <2>1 DEF TakeMount
  <2>3. IsMount(argv, next) <=> w = "sock"
    BY <2>1 DEF IsMount
  <2>4. next + 1 \in n + 1 .. Len(argv) /\ next \in n + 1 .. Len(argv)
    BY <1>2, <1>3, <2>1
  <2>5. next + 1 \in Kept(argv) <=> ~(DropSocket /\ w = "sock")
    <3>1. OfMount(argv, next + 1) <=> w = "sock"
      <4>1. ~IsMount(argv, next + 1)
        BY <2>1, Kinds DEF IsMount, Joined, Words, Groups
      <4>2. (next + 1) - 1 = next /\ next + 1 > 1
        BY <1>2
      <4> QED BY <2>1, <2>3, <4>1, <4>2 DEF OfMount
    <3> QED BY <1>2, <1>3, <2>4, <3>1, KeptWhen DEF n
  <2>6. next' > 1 /\ next' - 1 = next + 1 /\ w # "-v" /\ next' = (next + 1) + 1
    BY <1>2, <2>1, <2>2, Kinds
  <2>7. CASE DropSocket /\ w = "sock"
    <3>1. next \notin Kept(argv) /\ next + 1 \notin Kept(argv)
      BY <1>8, <2>1, <2>3, <2>5, <2>7
    <3>2. kept(next') = kept(next) /\ head(next') = head(next)
      BY <1>7, <2>4, <2>6, <3>1
    <3> QED BY <1>4, <2>2, <2>6, <2>7, <3>2
  <2>8. CASE ~(DropSocket /\ w = "sock")
    <3>1. next \in Kept(argv) /\ next + 1 \in Kept(argv)
      BY <1>8, <2>1, <2>3, <2>5, <2>8
    <3>2. /\ kept(next + 1) \in Seq(Tokens)
          /\ Append(out, argv[next]) = head(next + 1) \o kept(next + 1)
      BY <1>4, <1>6, <2>4, <3>1
    <3>3. /\ kept(next') \in Seq(Tokens)
          /\ Append(Append(out, argv[next]), w) = head(next') \o kept(next')
      BY <1>6, <2>4, <2>6, <3>1, <3>2
    <3>4. out' = Append(Append(out, argv[next]), w)
      <4> DEFINE v == argv[next]
      <4>1. out \in Seq(Tokens) /\ v \in Tokens /\ w \in Tokens
        BY <1>2, <2>1 DEF LineOK, Tokens
      <4>2. out' = out \o <<v, w>>
        BY <2>2, <2>8
      <4> HIDE DEF v, w
      <4> QED BY <4>1, <4>2, AppendTwo DEF v
    <3> QED BY <2>6, <3>3, <3>4
  <2> QED BY <2>7, <2>8
<1>11. CASE TakeJoined
  <2>1. /\ argv[next] \in Joined /\ next' = next + 1
        /\ out' = IF DropSocket /\ argv[next] = "--volume=sock" THEN out
                  ELSE Append(out, argv[next])
    BY <1>11 DEF TakeJoined
  <2>2. argv[next] # "-v" /\ next > n /\ next \in n + 1 .. Len(argv)
    BY <1>2, <1>3, <1>9, <2>1, Kinds
  <2>3. next \in Kept(argv) <=> ~(DropSocket /\ argv[next] = "--volume=sock")
    BY <1>8, <2>2 DEF IsMount
  <2>4. next' > 1 /\ next' - 1 = next
    BY <1>2, <2>1
  <2> QED BY <1>4, <1>6, <1>7, <2>1, <2>2, <2>3, <2>4
<1>12. CASE (TakeFlag \/ TakeWord) /\ next > n
  <2>1. /\ argv[next] \in Flags \cup Words /\ next' = next + 1
        /\ out' = Append(out, argv[next])
    BY <1>12 DEF TakeFlag, TakeWord
  <2>2. argv[next] # "-v" /\ argv[next] # "--volume=sock" /\ next \in n + 1 .. Len(argv)
    BY <1>2, <1>3, <1>12, <2>1 DEF Flags, Words, Groups
  <2>3. next \in Kept(argv)
    BY <1>8, <1>12, <2>2 DEF IsMount
  <2>4. next' > 1 /\ next' - 1 = next
    BY <1>2, <2>1
  <2> QED BY <1>4, <1>6, <2>1, <2>2, <2>3, <2>4
<1>13. CASE TakeWord /\ next <= n
  <2>1. /\ argv[next] \in Words /\ next' = next + 1
        /\ out' = Append(out, argv[next])
    BY <1>13 DEF TakeWord
  <2>2. kept(next) = <<>> /\ kept(next') = <<>>
    <3>1. KeptTo(argv, next) = {} /\ KeptTo(argv, next') = {}
      BY <1>2, <1>3, <1>13, <2>1, KeptFacts DEF n
    <3> QED BY <3>1, PickedNone DEF kept
  <2>3. head(next) = SubSeq(argv, 1, next - 1) /\ head(next') = SubSeq(argv, 1, next)
    <3>1. next <= n /\ (next' <= n => next' - 1 = next) /\ (~(next' <= n) => n = next)
      BY <1>2, <1>3, <1>13, <2>1
    <3> QED BY <3>1 DEF head
  <2>4. out = head(next) /\ head(next) \in Seq(Tokens) /\ head(next') \in Seq(Tokens)
    BY <1>2, <1>4, <2>2, <2>3, ConcatEmptySeq
  <2>5. out' = head(next')
    BY <1>2, <2>1, <2>3, <2>4, SubExtend
  <2>6. argv[next' - 1] # "-v"
    BY <1>2, <2>1, Kinds
  <2>7. head(next') \o <<>> = head(next')
    BY <2>4, ConcatEmptySeq
  <2> QED BY <2>2, <2>5, <2>6, <2>7
<1>14. TakeFlag => next > n
  BY <1>9, Kinds DEF TakeFlag
<1>15. next > n \/ next <= n
  BY <1>2, <1>3
<1> QED
  BY <1>10, <1>11, <1>12, <1>13, <1>14, <1>15

LEMMA ExecStep ==
  ASSUME LineOK, Legal(argv), WordsRead, KeptRead, ExecEngine
  PROVE  KeptRead'
<1> DEFINE n == ChainLen(argv)
           A == SubSeq(argv, 1, n)
           P == Picked(argv, Kept(argv))
           I == InjectFor(group, action)
<1>1. next = Len(argv) + 1 /\ argv \in Seq(Tokens) /\ UNCHANGED <<argv, next, out>>
  BY DEF ExecEngine, LineOK
<1>2. n \in 0 .. Len(argv) /\ n <= 2 /\ n \in Nat /\ n < next /\ ~(next <= n)
  BY <1>1, ChainFacts
<1>3. KeptTo(argv, next) = Kept(argv)
  BY <1>1, <1>2, KeptFacts
<1>4. A \in Seq(Tokens) /\ Len(A) = n /\ P \in Seq(Tokens) /\ out = A \o P
  BY <1>1, <1>2, <1>3 DEF KeptRead
<1>5. SUFFICES engine' = Expected(argv)
  BY <1>1 DEF KeptRead
<1>6. Expected(argv) =
        A \o (IF n = 0 THEN <<>>
              ELSE IF n = 1 THEN InjectFor("none", argv[1]) ELSE InjectFor(argv[1], argv[2])) \o P
  BY DEF Expected
<1>7. engine' = IF insertAt = 0 THEN out
                ELSE SubSeq(out, 1, insertAt) \o I \o SubSeq(out, insertAt + 1, Len(out))
  BY DEF ExecEngine
<1>8. CASE n = 0
  <2>1. insertAt = 0
    BY <1>8 DEF WordsRead
  <2>2. A \o <<>> = A
    BY <1>4, ConcatEmptySeq
  <2> QED BY <1>4, <1>6, <1>7, <1>8, <2>1, <2>2
<1>9. CASE n # 0
  <2>1. /\ insertAt = n /\ verb = argv[1] /\ depth = n
        /\ n = 2 => sub = argv[2]
    BY <1>1, <1>2, <1>9 DEF WordsRead
  <2>2. I = IF n = 1 THEN InjectFor("none", argv[1]) ELSE InjectFor(argv[1], argv[2])
    BY <1>2, <1>9, <2>1 DEF group, action
  <2>3. SubSeq(out, 1, n) = A /\ SubSeq(out, n + 1, Len(out)) = P
    <3> HIDE DEF A, P, n
    <3> QED BY <1>4, SubSeqHalves
  <2> QED BY <1>6, <1>7, <1>9, <2>1, <2>2, <2>3
<1> QED
  BY <1>8, <1>9

LEMMA ReadStep == TypeOK /\ ChainInv /\ ReadInv /\ [Next]_vars => ReadInv'
<1> SUFFICES ASSUME LineOK, ChainOK, ChainInv, ReadInv, [Next]_vars, Legal(argv)'
             PROVE  WordsRead' /\ (PlainCommand(argv)' => KeptRead')
  BY DEF TypeOK, ReadInv
<1>1. argv' = argv
  BY DEF Next, TakeMount, TakeJoined, TakeFlag, TakeWord, ExecEngine, vars
<1>2. Legal(argv) /\ WordsRead /\ (PlainCommand(argv) => KeptRead)
  BY <1>1 DEF ReadInv
<1>3. WordsRead'
  BY <1>2, WordsStep
<1>4. ASSUME PlainCommand(argv), KeptRead PROVE KeptRead'
  <2>1. CASE TakeMount \/ TakeJoined \/ TakeFlag \/ TakeWord
    <3>1. engine = None
      BY <2>1 DEF TakeMount, TakeJoined, TakeFlag, TakeWord, More
    <3> QED BY <1>2, <1>4, <2>1, <3>1, KeptStep
  <2>2. CASE ExecEngine
    BY <1>2, <1>4, <2>2, ExecStep
  <2>3. CASE UNCHANGED vars
    BY <1>4, <2>3 DEF vars, KeptRead
  <2> QED BY <2>1, <2>2, <2>3 DEF Next
<1> QED
  BY <1>1, <1>2, <1>3, <1>4

\* Of a command line of any length that the client accepts, it gets the
\* subcommand, what is injected for it and then all but the socket mounts, in
\* order, although the shim reads the line without knowing the client's flags:
\* a value is never taken for a verb, because the value's flag came first.
THEOREM EngineGetsExpectedHolds == Spec => []EngineGetsExpected
<1>1. Init => ReadInv
  <2> SUFFICES ASSUME Init, Legal(argv) PROVE WordsRead /\ KeptRead
    BY DEF ReadInv
  <2> DEFINE n == ChainLen(argv)
  <2>1. /\ argv \in Seq(Tokens) /\ next = 1 /\ out = <<>> /\ pos = 0
        /\ insertAt = 0 /\ ~seen /\ engine = None
    BY InitialArgv DEF Init
  <2>2. n \in Nat
    BY <2>1, ChainFacts
  <2>3. WordsRead
    BY <2>1, <2>2 DEF WordsRead
  <2>4. Picked(argv, KeptTo(argv, next)) = <<>>
    <3>1. 1 <= n + 1 /\ 1 \in Nat
      BY <2>2
    <3>2. KeptTo(argv, 1) = {}
      BY <2>1, <2>2, <3>1, KeptFacts
    <3> QED BY <2>1, <3>2, PickedNone
  <2>5. SubSeq(argv, 1, IF next <= n THEN next - 1 ELSE n) = <<>>
    <3>1. (IF next <= n THEN next - 1 ELSE n) = 0
      BY <2>1, <2>2
    <3> QED BY <2>1, <3>1
  <2>6. <<>> \in Seq(Tokens) /\ <<>> \o <<>> = <<>>
    OBVIOUS
  <2>7. KeptRead
    <3> HIDE DEF n
    <3>1. ~(next > 1) /\ ~(engine # None)
      BY <2>1
    <3>2. out = <<>> \o <<>>
      BY <2>1, <2>6
    <3> QED BY <2>4, <2>5, <2>6, <3>1, <3>2, Zenon DEF KeptRead, n
  <2> QED BY <2>3, <2>7
<1>2. ReadInv => EngineGetsExpected
  BY DEF ReadInv, KeptRead, EngineGetsExpected
<1> QED
  BY <1>1, <1>2, ReadStep, ChainAlways, PTL DEF Spec

=============================================================================
