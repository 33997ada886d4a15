----------------------------- MODULE ConfProofs -----------------------------
(***************************************************************************)
(* Theorems about Conf, for any instances, values and number of lines.     *)
(***************************************************************************)
EXTENDS Conf, SequenceTheorems, WellFoundedInduction, TLAPS

Lines == Settings \cup Others
LinesInv == lines \in [Sources -> Seq(Lines)]

\* Files hold lines.
LEMMA LinesAlways == ConfSpec => []LinesInv
<1>1. ConfInit => LinesInv
  BY DEF ConfInit, LinesInv
<1>2. LinesInv /\ [ConfNext]_lines => LinesInv'
  <2> SUFFICES ASSUME LinesInv, NEW f \in Sources, AddLine(f) PROVE LinesInv'
    BY DEF ConfNext, LinesInv
  <2>1. PICK l \in Lines : lines' = [lines EXCEPT ![f] = Append(@, l)]
    BY DEF AddLine, Lines
  <2> QED BY <2>1 DEF LinesInv
<1> QED BY <1>1, <1>2, PTL DEF ConfSpec

-----------------------------------------------------------------------------
(* Least and greatest numbers.                                             *)

LEMMA Least ==
  ASSUME NEW S \in SUBSET Nat, S # {}
  PROVE  \E m \in S : \A k \in S : m <= k
<1>1. \E x \in S : \A y \in S : ~(<<y, x>> \in OpToRel(<, Nat))
  BY WFMin, NatLessThanWellFounded
<1>2. ASSUME NEW x \in S, NEW y \in S, ~(<<y, x>> \in OpToRel(<, Nat)) PROVE x <= y
  <2>1. ~(y < x)
    BY <1>2 DEF OpToRel
  <2> QED BY <2>1
<1> QED BY <1>1, <1>2

LEMMA Greatest ==
  ASSUME NEW n \in Nat, NEW S \in SUBSET (1 .. n), S # {}
  PROVE  Max(S) \in S /\ \A k \in S : k <= Max(S)
<1> DEFINE U == {u \in Nat : \A k \in S : k <= u}
<1>1. n \in U /\ U \in SUBSET Nat
  OBVIOUS
<1> HIDE DEF U
<1>2. PICK m \in U : \A u \in U : m <= u
  BY <1>1, Least
<1>3. m \in Nat /\ \A k \in S : k <= m
  BY DEF U
<1>4. m \in S
  <2> SUFFICES ASSUME m \notin S PROVE FALSE
    OBVIOUS
  <2>1. PICK j \in S : TRUE
    OBVIOUS
  <2>2. m > 0
    BY <1>3, <2>1
  <2>3. \A k \in S : k <= m - 1
    BY <1>3
  <2>4. m - 1 \in U
    BY <1>3, <2>2, <2>3 DEF U
  <2> QED BY <1>2, <1>3, <2>4
<1>5. \E x \in S : \A y \in S : x >= y
  BY <1>3, <1>4
<1>6. Max(S) \in S /\ \A y \in S : Max(S) >= y
  <2> DEFINE P(x) == x \in S /\ \A y \in S : x >= y
  <2>1. Max(S) = CHOOSE x : P(x)
    BY Zenon DEF Max
  <2>2. \E x : P(x)
    BY <1>5
  <2> HIDE DEF P
  <2>3. P(Max(S))
    BY <2>1, <2>2, Zenon
  <2> QED BY <2>3 DEF P
<1> QED BY <1>6

-----------------------------------------------------------------------------
(* The loop over the lines.                                                *)

LinesOf(ls, k, n) == {j \in 1 .. n : ls[j].key = k}
KeysIn(ls, n) == {k \in Keys : LinesOf(ls, k, n) # {}}
Latest(ls, vs, n) == [k \in KeysIn(ls, n) |-> vs[Max(LinesOf(ls, k, n))]]

LEMMA LatestStep ==
  ASSUME NEW ls, NEW vs, NEW n \in Nat, n # 0
  PROVE  Latest(ls, vs, n) = IF Sets(ls[n]) THEN Over(Only(ls[n].key, vs[n]), Latest(ls, vs, n - 1))
                             ELSE Latest(ls, vs, n - 1)
<1>1. ASSUME NEW k, k # ls[n].key PROVE LinesOf(ls, k, n) = LinesOf(ls, k, n - 1)
  BY <1>1 DEF LinesOf
<1>2. CASE ~Sets(ls[n])
  <2>1. \A k \in Keys : LinesOf(ls, k, n) = LinesOf(ls, k, n - 1)
    BY <1>1, <1>2 DEF Sets
  <2>2. KeysIn(ls, n) = KeysIn(ls, n - 1)
    BY <2>1 DEF KeysIn
  <2>3. \A k \in KeysIn(ls, n) : LinesOf(ls, k, n) = LinesOf(ls, k, n - 1)
    BY <2>1 DEF KeysIn
  <2> QED BY <1>2, <2>2, <2>3 DEF Latest
<1>3. CASE Sets(ls[n])
  <2> DEFINE k0 == ls[n].key
  <2>1. Max(LinesOf(ls, k0, n)) = n /\ LinesOf(ls, k0, n) # {}
    <3>1. n \in LinesOf(ls, k0, n) /\ LinesOf(ls, k0, n) \in SUBSET (1 .. n)
      BY DEF LinesOf
    <3>2. Max(LinesOf(ls, k0, n)) \in 1 .. n /\ n <= Max(LinesOf(ls, k0, n))
      BY <3>1, Greatest
    <3> QED BY <3>1, <3>2
  <2>2. KeysIn(ls, n) = {k0} \cup KeysIn(ls, n - 1)
    <3>1. k0 \in Keys
      BY <1>3 DEF Sets
    <3> QED BY <1>1, <2>1, <3>1 DEF KeysIn
  <2>3. Latest(ls, vs, n) = [k \in {k0} \cup KeysIn(ls, n - 1) |->
                               IF k = k0 THEN vs[n] ELSE Latest(ls, vs, n - 1)[k]]
    <3>1. ASSUME NEW k \in {k0} \cup KeysIn(ls, n - 1)
          PROVE  vs[Max(LinesOf(ls, k, n))] = IF k = k0 THEN vs[n] ELSE Latest(ls, vs, n - 1)[k]
      BY <1>1, <2>1 DEF Latest
    <3> QED BY <2>2, <3>1 DEF Latest
  <2>4. Over(Only(k0, vs[n]), Latest(ls, vs, n - 1)) =
          [k \in {k0} \cup KeysIn(ls, n - 1) |->
             IF k = k0 THEN vs[n] ELSE Latest(ls, vs, n - 1)[k]]
    BY DEF Over, Only, Latest
  <2> QED BY <1>3, <2>3, <2>4
<1> QED BY <1>2, <1>3

\* After the loop each key has the value of the last line that sets it.
LEMMA FilledIs ==
  ASSUME NEW ls, Len(ls) \in Nat, NEW vs
  PROVE  Filled(ls, vs) = Latest(ls, vs, Len(ls))
<1> DEFINE R(h) == h = [n \in 0 .. Len(ls) |->
                         IF n = 0 THEN <<>>
                         ELSE IF Sets(ls[n]) THEN Over(Only(ls[n].key, vs[n]), h[n - 1])
                         ELSE h[n - 1]]
           v == CHOOSE h : R(h)
           g == [n \in 0 .. Len(ls) |-> Latest(ls, vs, n)]
<1>1. Filled(ls, vs) = v[Len(ls)]
  BY DEF Filled
<1>2. R(g)
  <2>1. ASSUME NEW n \in 0 .. Len(ls)
        PROVE  g[n] = IF n = 0 THEN <<>>
                      ELSE IF Sets(ls[n]) THEN Over(Only(ls[n].key, vs[n]), g[n - 1])
                      ELSE g[n - 1]
    <3>1. CASE n = 0
      <4>1. KeysIn(ls, 0) = {}
        BY DEF KeysIn, LinesOf
      <4>2. Latest(ls, vs, 0) = <<>>
        BY <4>1 DEF Latest
      <4> QED BY <3>1, <4>2
    <3>2. CASE n # 0
      <4>1. n \in Nat /\ n - 1 \in 0 .. Len(ls)
        BY <3>2
      <4>2. g[n] = Latest(ls, vs, n) /\ g[n - 1] = Latest(ls, vs, n - 1)
        BY <4>1
      <4> HIDE DEF g
      <4> QED BY <3>2, <4>1, <4>2, LatestStep
    <3> QED BY <3>1, <3>2
  <2>2. g = [n \in 0 .. Len(ls) |-> g[n]]
    OBVIOUS
  <2> HIDE DEF g
  <2> QED BY <2>1, <2>2, Zenon
<1>3. R(v)
  <2> HIDE DEF R, g
  <2> QED BY <1>2, Zenon
<1>4. g[Len(ls)] = Latest(ls, vs, Len(ls))
  OBVIOUS
<1> HIDE DEF v, g
<1>5. ASSUME NEW n \in 0 .. Len(ls), v[n] # g[n] PROVE FALSE
  <2> DEFINE S == {k \in 0 .. Len(ls) : v[k] # g[k]}
  <2>1. PICK m \in S : \A k \in S : m <= k
    <3>1. S \in SUBSET Nat /\ S # {}
      BY <1>5
    <3> HIDE DEF S
    <3> QED BY <3>1, Least
  <2>2. m \in 0 .. Len(ls) /\ v[m] # g[m] /\ m # 0
    BY <1>2, <1>3, <2>1
  <2>3. m - 1 \in 0 .. Len(ls) /\ ~(m <= m - 1)
    BY <2>2
  <2>4. m - 1 \notin S
    BY <2>1, <2>3
  <2>5. v[m - 1] = g[m - 1]
    BY <2>3, <2>4
  <2>6. v[m] = IF Sets(ls[m]) THEN Over(Only(ls[m].key, vs[m]), v[m - 1]) ELSE v[m - 1]
    BY <1>3, <2>2
  <2>7. g[m] = IF Sets(ls[m]) THEN Over(Only(ls[m].key, vs[m]), g[m - 1]) ELSE g[m - 1]
    BY <1>2, <2>2
  <2> QED BY <2>2, <2>5, <2>6, <2>7
<1> QED BY <1>1, <1>4, <1>5

\* The last line of f that sets k, 0 if none does.
LastOf(f, k) == SelectLastInSeq(lines[f], LAMBDA l : l.key = k)
KeysOf(f) == {k \in Keys : \E n \in DOMAIN lines[f] : lines[f][n].key = k}

LEMMA LastFacts ==
  ASSUME LinesInv, NEW f \in Sources, NEW k
  PROVE  LET I == LinesOf(lines[f], k, Len(lines[f])) IN
         /\ I # {} => LastOf(f, k) = Max(I) /\ Max(I) \in DOMAIN lines[f]
                       /\ lines[f][Max(I)].key = k
         /\ I = {} => LastOf(f, k) = 0
<1> DEFINE I == LinesOf(lines[f], k, Len(lines[f]))
<1>1. lines[f] \in Seq(Lines)
  BY DEF LinesInv
<1>2. Len(lines[f]) \in Nat /\ DOMAIN lines[f] = 1 .. Len(lines[f])
  BY <1>1
<1>3. LastOf(f, k) = IF I # {} THEN Max(I) ELSE 0
  BY DEF LastOf, SelectLastInSeq, LinesOf
<1>4. I \in SUBSET (1 .. Len(lines[f]))
  BY DEF LinesOf
<1>5. I # {} => Max(I) \in I
  <2> HIDE DEF I
  <2> QED BY <1>2, <1>4, Greatest
<1> QED
  BY <1>2, <1>3, <1>4, <1>5 DEF LinesOf

\* So a key has what the last line that sets it says, to each reader by its
\* own rules.
LEMMA ReadFacts ==
  ASSUME LinesInv, NEW f \in Sources
  PROVE  /\ DOMAIN Parse(f) = KeysOf(f) /\ DOMAIN ParseWith(Verbatim, f) = KeysOf(f)
         /\ \A k \in KeysOf(f) :
              /\ LastOf(f, k) \in DOMAIN lines[f] /\ LastOf(f, k) > 0
              /\ lines[f][LastOf(f, k)].key = k
              /\ Parse(f)[k] = Stripped(lines[f][LastOf(f, k)])
              /\ ParseWith(Verbatim, f)[k] = Verbatim(lines[f][LastOf(f, k)])
         /\ \A k \in Keys \ KeysOf(f) : LastOf(f, k) = 0
<1> DEFINE ls == lines[f]
           I(k) == LinesOf(ls, k, Len(ls))
           ctl == [n \in {m \in DOMAIN ls : Sets(ls[m])} |-> Stripped(ls[n])]
           podman == [n \in {m \in DOMAIN ls : Sets(ls[m])} |-> Verbatim(ls[n])]
<1>1. ls \in Seq(Lines)
  BY DEF LinesInv
<1>2. Len(ls) \in Nat /\ DOMAIN ls = 1 .. Len(ls)
  BY <1>1
<1>3. Parse(f) = Latest(ls, ctl, Len(ls)) /\ ParseWith(Verbatim, f) = Latest(ls, podman, Len(ls))
  <2>1. Parse(f) = Filled(ls, ctl) /\ ParseWith(Verbatim, f) = Filled(ls, podman)
    BY DEF Parse, ParseWith
  <2> HIDE DEF ls, ctl, podman
  <2> QED BY <1>2, <2>1, FilledIs
<1>4. KeysIn(ls, Len(ls)) = KeysOf(f)
  BY <1>2 DEF KeysIn, KeysOf, LinesOf
<1>5. ASSUME NEW k \in KeysOf(f)
      PROVE  /\ LastOf(f, k) = Max(I(k)) /\ LastOf(f, k) \in DOMAIN ls
             /\ ls[LastOf(f, k)].key = k /\ Sets(ls[LastOf(f, k)])
  <2>1. I(k) # {} /\ k \in Keys
    BY <1>4, <1>5 DEF KeysIn
  <2> QED BY <2>1, LastFacts DEF Sets
<1>6. ASSUME NEW k \in Keys \ KeysOf(f) PROVE LastOf(f, k) = 0
  <2>1. I(k) = {}
    BY <1>4, <1>6 DEF KeysIn
  <2> QED BY <2>1, LastFacts
<1>7. \A k \in KeysOf(f) : /\ Parse(f)[k] = ctl[LastOf(f, k)]
                           /\ ParseWith(Verbatim, f)[k] = podman[LastOf(f, k)]
  BY <1>3, <1>4, <1>5 DEF Latest
<1>8. DOMAIN Parse(f) = KeysOf(f) /\ DOMAIN ParseWith(Verbatim, f) = KeysOf(f)
  BY <1>3, <1>4 DEF Latest
<1>9. ASSUME NEW k \in KeysOf(f)
      PROVE  /\ LastOf(f, k) > 0
             /\ ctl[LastOf(f, k)] = Stripped(ls[LastOf(f, k)])
             /\ podman[LastOf(f, k)] = Verbatim(ls[LastOf(f, k)])
  BY <1>2, <1>5
<1> HIDE DEF ctl, podman, I
<1> QED
  BY <1>5, <1>6, <1>7, <1>8, <1>9

-----------------------------------------------------------------------------
(* Two files and a default.                                                *)

LEMMA DecidingIs ==
  \A i, k : Deciding(i, k) = IF LastOf(i, k) > 0 THEN <<i, LastOf(i, k)>>
                            ELSE <<Global, LastOf(Global, k)>>
BY DEF Deciding, LastOf

Decides(i, k) == lines[Deciding(i, k)[1]][Deciding(i, k)[2]]
KeysOfBoth(i) == KeysOf(i) \cup KeysOf(Global)

\* What ctl has of a key and what podman passes on are the same line's, and
\* that line is the deciding one.
LEMMA BothRead ==
  ASSUME LinesInv, NEW i \in Instances
  PROVE  /\ DOMAIN Load(i) = KeysOfBoth(i) \cup {"RUNNER_NAME"}
         /\ DOMAIN Passed(i) = KeysOfBoth(i)
         /\ "RUNNER_NAME" \notin KeysOfBoth(i) => Load(i)["RUNNER_NAME"] = DefaultName(i)
         /\ \A k \in KeysOfBoth(i) :
              /\ Deciding(i, k)[1] = IF k \in KeysOf(i) THEN i ELSE Global
              /\ Deciding(i, k)[2] \in DOMAIN lines[Deciding(i, k)[1]] /\ Deciding(i, k)[2] > 0
              /\ Decides(i, k).key = k
              /\ Load(i)[k] = Stripped(Decides(i, k))
              /\ Passed(i)[k] = Verbatim(Decides(i, k))
         /\ \A k \in Keys \ KeysOfBoth(i) : Deciding(i, k)[2] = 0
<1> DEFINE set == KeysOfBoth(i)
           P(f) == ParseWith(Verbatim, f)
<1>1. i \in Sources /\ Global \in Sources
  BY DEF Sources
<1>2. /\ DOMAIN Parse(i) = KeysOf(i) /\ DOMAIN P(i) = KeysOf(i)
      /\ DOMAIN Parse(Global) = KeysOf(Global) /\ DOMAIN P(Global) = KeysOf(Global)
  BY <1>1, ReadFacts
<1>3. /\ Load(i) = Over(Parse(i), Over(Parse(Global), Only("RUNNER_NAME", DefaultName(i))))
      /\ Passed(i) = Over(P(i), P(Global))
  BY DEF Load, Passed
<1>4. /\ DOMAIN Load(i) = set \cup {"RUNNER_NAME"} /\ DOMAIN Passed(i) = set
      /\ "RUNNER_NAME" \notin set => Load(i)["RUNNER_NAME"] = DefaultName(i)
      /\ \A k \in KeysOf(i) : Load(i)[k] = Parse(i)[k] /\ Passed(i)[k] = P(i)[k]
      /\ \A k \in KeysOf(Global) \ KeysOf(i) :
           Load(i)[k] = Parse(Global)[k] /\ Passed(i)[k] = P(Global)[k]
  <2> HIDE DEF P
  <2> QED BY <1>2, <1>3 DEF Over, Only, KeysOfBoth
<1>5. ASSUME NEW f \in Sources, NEW k \in KeysOf(f)
      PROVE  /\ LastOf(f, k) \in DOMAIN lines[f] /\ LastOf(f, k) > 0 /\ LastOf(f, k) \in Nat
             /\ lines[f][LastOf(f, k)].key = k
             /\ Parse(f)[k] = Stripped(lines[f][LastOf(f, k)])
             /\ P(f)[k] = Verbatim(lines[f][LastOf(f, k)])
  <2>1. lines[f] \in Seq(Lines)
    BY DEF LinesInv
  <2>2. LastOf(f, k) \in DOMAIN lines[f] => LastOf(f, k) \in Nat
    BY <2>1
  <2>3. /\ LastOf(f, k) \in DOMAIN lines[f] /\ LastOf(f, k) > 0
        /\ lines[f][LastOf(f, k)].key = k
        /\ Parse(f)[k] = Stripped(lines[f][LastOf(f, k)])
        /\ ParseWith(Verbatim, f)[k] = Verbatim(lines[f][LastOf(f, k)])
    BY <1>5, ReadFacts
  <2> QED BY <2>2, <2>3
<1>6. ASSUME NEW f \in Sources, NEW k \in Keys \ KeysOf(f) PROVE LastOf(f, k) = 0
  BY <1>6, ReadFacts
<1> HIDE DEF P
<1>7. ASSUME NEW k \in set
      PROVE  /\ Deciding(i, k)[1] = IF k \in KeysOf(i) THEN i ELSE Global
             /\ Deciding(i, k)[2] \in DOMAIN lines[Deciding(i, k)[1]] /\ Deciding(i, k)[2] > 0
             /\ Decides(i, k).key = k
             /\ Load(i)[k] = Stripped(Decides(i, k))
             /\ Passed(i)[k] = Verbatim(Decides(i, k))
  <2>1. CASE k \in KeysOf(i)
    <3>1. Deciding(i, k) = <<i, LastOf(i, k)>>
      BY <1>1, <1>5, <2>1, DecidingIs
    <3> QED BY <1>1, <1>4, <1>5, <2>1, <3>1 DEF Decides
  <2>2. CASE k \notin KeysOf(i)
    <3>1. LastOf(i, k) = 0
      BY <1>1, <1>6, <1>7, <2>2 DEF KeysOf, KeysOfBoth
    <3>2. Deciding(i, k) = <<Global, LastOf(Global, k)>>
      BY <3>1, DecidingIs
    <3>3. k \in KeysOf(Global) \ KeysOf(i)
      BY <1>7, <2>2 DEF KeysOfBoth
    <3> QED BY <1>1, <1>4, <1>5, <2>2, <3>2, <3>3 DEF Decides
  <2> QED BY <2>1, <2>2
<1>8. ASSUME NEW k \in Keys \ set PROVE Deciding(i, k)[2] = 0
  <2>1. LastOf(i, k) = 0 /\ LastOf(Global, k) = 0
    BY <1>1, <1>6, <1>8 DEF KeysOfBoth
  <2> QED BY <2>1, DecidingIs
<1> QED BY <1>4, <1>7, <1>8

\* For any files: what `show` shows is what the container gets, or the line
\* that decides has blanks that a lint rule warns of.
THEOREM SeenAsPassedHolds == ConfSpec => []SeenAsPassed
<1>1. LinesInv => SeenAsPassed
  <2> SUFFICES ASSUME LinesInv, NEW i \in Instances, NEW k \in DOMAIN Passed(i),
                      Load(i)[k] # Passed(i)[k]
               PROVE  LET d == Deciding(i, k) IN
                      d[2] \in Lint(d[1]) /\ lines[d[1]][d[2]].style = "padded"
    BY DEF SeenAsPassed
  <2> DEFINE d == Deciding(i, k)
             l == Decides(i, k)
  <2>1. /\ k \in KeysOfBoth(i)
        /\ d[2] \in DOMAIN lines[d[1]] /\ l.key = k
        /\ Load(i)[k] = Stripped(l) /\ Passed(i)[k] = Verbatim(l)
    BY BothRead
  <2> HIDE DEF l
  <2>2. l.style = "padded"
    BY <2>1 DEF Stripped, Verbatim
  <2>3. Sets(l)
    BY <2>1 DEF Sets, KeysOf, KeysOfBoth
  <2> QED BY <2>1, <2>2, <2>3 DEF Lint, l, Decides
<1> QED BY <1>1, LinesAlways, PTL

\* What stands where a key should be in a line that sets nothing.
NoKeys == {"#", "no equals sign", "not-a-key"}

LEMMA LineKinds ==
  ASSUME NEW l \in Lines
  PROVE  \/ /\ l.key \in Keys /\ l.text \in TextsOf[l.key]
            /\ l.style \in {"plain", "quoted", "padded"}
         \/ l.key \in NoKeys
<1>1. CASE l \in Settings
  <2>1. PICK k \in Keys : l \in [key : {k}, text : TextsOf[k], style : {"plain", "quoted", "padded"}]
    BY <1>1 DEF Settings
  <2> QED BY <2>1
<1>2. CASE l \in Others
  <2>1. PICK k \in NoKeys : l = [key |-> k]
    BY <1>2 DEF Others, NoKeys
  <2> QED BY <2>1
<1> QED BY <1>1, <1>2 DEF Lines

LEMMA UnitShapingFacts ==
  /\ \A k, m \in DOMAIN UnitShaping : UnitShaping[k] = UnitShaping[m] => k = m
  /\ \A k \in DOMAIN UnitShaping : k # "RUNNER_NAME" /\ k \notin NoKeys
<1>1. DOMAIN UnitShaping = {"MEMORY_MAX", "MEMORY_HIGH", "CPU_WEIGHT", "CPU_QUOTA",
                            "TASKS_MAX", "IO_WEIGHT"}
  BY DEF UnitShaping
<1>2. /\ UnitShaping["MEMORY_MAX"] = "MemoryMax" /\ UnitShaping["MEMORY_HIGH"] = "MemoryHigh"
      /\ UnitShaping["CPU_WEIGHT"] = "CPUWeight" /\ UnitShaping["CPU_QUOTA"] = "CPUQuota"
      /\ UnitShaping["TASKS_MAX"] = "TasksMax" /\ UnitShaping["IO_WEIGHT"] = "IOWeight"
  BY DEF UnitShaping
<1>3. \A k \in DOMAIN UnitShaping : k # "RUNNER_NAME" /\ k \notin NoKeys
  BY <1>1 DEF NoKeys
<1> QED BY <1>1, <1>2, <1>3

\* A key that is none of Keys is set by no line.
LEMMA OtherKeys ==
  ASSUME LinesInv, NEW i \in Instances, NEW k, k \notin NoKeys
  PROVE  Deciding(i, k)[2] > 0 <=> k \in KeysOfBoth(i)
<1>1. CASE k \in Keys
  <2>1. k \in KeysOfBoth(i) => Deciding(i, k)[2] > 0
    BY BothRead
  <2>2. k \notin KeysOfBoth(i) => Deciding(i, k)[2] = 0
    BY <1>1, BothRead
  <2> QED BY <2>1, <2>2
<1>2. CASE k \notin Keys
  <2>1. ASSUME NEW f \in Sources PROVE LastOf(f, k) = 0
    <3>1. lines[f] \in Seq(Lines)
      BY DEF LinesInv
    <3>2. \A l \in Lines : l.key # k
      BY <1>2, LineKinds
    <3>4. \A n \in 1 .. Len(lines[f]) : lines[f][n] \in Lines
      BY <3>1
    <3>3. LinesOf(lines[f], k, Len(lines[f])) = {}
      BY <3>2, <3>4 DEF LinesOf
    <3> QED BY <3>3, LastFacts
  <2>2. Deciding(i, k)[2] = 0
    BY <2>1, DecidingIs DEF Sources
  <2>3. k \notin KeysOfBoth(i)
    BY <1>2 DEF KeysOfBoth, KeysOf
  <2> QED BY <2>2, <2>3
<1> QED BY <1>1, <1>2

\* For any files: the drop-in has exactly the limits that are set, as the last
\* line of the instance or else of the defaults has them.
THEOREM DropinIsLastWordHolds == ConfSpec => []DropinIsLastWord
<1>1. LinesInv => DropinIsLastWord
  <2> SUFFICES ASSUME LinesInv, NEW i \in Instances
               PROVE  LET Said == {k \in DOMAIN UnitShaping : Deciding(i, k)[2] > 0} IN
                      /\ DOMAIN RenderDropin(i) = {UnitShaping[k] : k \in Said}
                      /\ \A k \in Said :
                           LET d == Deciding(i, k) IN
                           RenderDropin(i)[UnitShaping[k]] = Stripped(lines[d[1]][d[2]])
    BY DEF DropinIsLastWord
  <2> DEFINE Said == {k \in DOMAIN UnitShaping : Deciding(i, k)[2] > 0}
             U == UnitShaping
  <2>1. Said = DOMAIN Load(i) \cap DOMAIN U /\ Said \subseteq KeysOfBoth(i)
    <3>1. \A k \in DOMAIN U : Deciding(i, k)[2] > 0 <=> k \in KeysOfBoth(i)
      BY UnitShapingFacts, OtherKeys
    <3>2. DOMAIN Load(i) = KeysOfBoth(i) \cup {"RUNNER_NAME"}
      BY BothRead
    <3> QED BY <3>1, <3>2, UnitShapingFacts
  <2>2. RenderDropin(i) = [s \in {U[k] : k \in Said} |->
                             Load(i)[CHOOSE k \in DOMAIN U : U[k] = s]]
    <3>1. Classify(i).unit = Said
      BY <2>1 DEF Classify
    <3> QED BY <3>1 DEF RenderDropin
  <2>3. ASSUME NEW k \in Said
        PROVE  RenderDropin(i)[U[k]] = Stripped(Decides(i, k))
    <3> HIDE DEF U
    <3>1. k \in DOMAIN U /\ U[k] \in {U[m] : m \in Said}
      BY <2>1, <2>3
    <3>2. (CHOOSE m \in DOMAIN U : U[m] = U[k]) = k
      BY <3>1, UnitShapingFacts DEF U
    <3>3. RenderDropin(i)[U[k]] = Load(i)[k]
      BY <2>2, <3>1, <3>2
    <3> QED BY <2>1, <2>3, <3>3, BothRead
  <2> QED BY <2>2, <2>3 DEF Decides
<1> QED BY <1>1, LinesAlways, PTL

-----------------------------------------------------------------------------
(* What doctor's silence is worth.                                         *)

LEMMA DecidesIsLine ==
  ASSUME LinesInv, NEW i \in Instances, NEW k \in KeysOfBoth(i), k \notin NoKeys
  PROVE  Decides(i, k).text \in TextsOf[k] /\ k \in Keys
<1>1. Deciding(i, k)[1] \in Sources
  BY BothRead DEF Sources
<1>2. lines[Deciding(i, k)[1]] \in Seq(Lines)
  BY <1>1 DEF LinesInv
<1>3. Deciding(i, k)[2] \in DOMAIN lines[Deciding(i, k)[1]] /\ Decides(i, k).key = k
  BY BothRead
<1>4. Decides(i, k) \in Lines
  BY <1>2, <1>3 DEF Decides
<1> QED BY <1>3, <1>4, LineKinds

\* For any files and names: where doctor finds nothing wrong, no two containers
\* register under one name.  Two host names of containers differ, and nobody
\* gives a runner the host name of a container, which podman makes up.
THEOREM NamesDistinctHolds ==
  ASSUME \A i, j \in Instances : i # j => ContainerName(i) # ContainerName(j),
         \A i \in Instances :
            "RUNNER_NAME" \in Keys => ContainerName(i).text \notin TextsOf["RUNNER_NAME"]
  PROVE  ConfSpec => []NamesDistinct
<1> DEFINE N == "RUNNER_NAME"
<1>1. ASSUME LinesInv, CheckInstances, NEW i \in Instances, NEW j \in Instances, i # j
      PROVE  RegisteredName(i) # RegisteredName(j)
  <2> DEFINE Given(x) == N \in KeysOfBoth(x) /\ ~Nothing(Passed(x)[N])
  <2>1. ASSUME NEW x \in Instances
        PROVE  RegisteredName(x) = IF Given(x) THEN Passed(x)[N] ELSE ContainerName(x)
    <3>1. DOMAIN Passed(x) = KeysOfBoth(x)
      BY <1>1, BothRead
    <3> QED BY <3>1 DEF RegisteredName
  <2>2. ASSUME NEW x \in Instances, Given(x)
        PROVE  /\ Passed(x)[N] = Verbatim(Decides(x, N)) /\ Name(x) = Stripped(Decides(x, N))
               /\ Passed(x)[N].text \in TextsOf[N] /\ N \in Keys
    <3>1. N \in KeysOfBoth(x) /\ N \notin NoKeys
      BY <2>2 DEF NoKeys
    <3>2. Passed(x)[N] = Verbatim(Decides(x, N)) /\ Load(x)[N] = Stripped(Decides(x, N))
      BY <1>1, <3>1, BothRead
    <3>3. Decides(x, N).text \in TextsOf[N] /\ N \in Keys
      BY <1>1, <3>1, DecidesIsLine
    <3> QED BY <3>2, <3>3 DEF Name, Verbatim
  <2> HIDE DEF Given
  <2>3. CASE ~Given(i) /\ ~Given(j)
    BY <1>1, <2>1, <2>3
  <2>4. ASSUME NEW x \in Instances, NEW y \in Instances, Given(x), ~Given(y)
        PROVE  RegisteredName(x) # RegisteredName(y)
    BY <2>1, <2>2, <2>4
  <2>5. CASE Given(i) /\ Given(j)
    <3>1. Name(i) # Name(j)
      BY <1>1 DEF CheckInstances, NameIsOwn
    <3>2. \A a, b : Verbatim(a) = Verbatim(b) => Stripped(a) = Stripped(b)
      <4> SUFFICES ASSUME NEW a, NEW b, Verbatim(a) = Verbatim(b) PROVE Stripped(a) = Stripped(b)
        OBVIOUS
      <4>1. Verbatim(a).text = a.text /\ Verbatim(b).text = b.text
        BY DEF Verbatim
      <4>2. Verbatim(a).style = a.style /\ Verbatim(b).style = b.style
        BY DEF Verbatim
      <4>3. a.text = b.text /\ a.style = b.style
        BY <4>1, <4>2
      <4> QED BY <4>3, Zenon DEF Stripped
    <3>3. Verbatim(Decides(i, N)) # Verbatim(Decides(j, N))
      BY <2>2, <2>5, <3>1, <3>2
    <3> QED BY <2>1, <2>2, <2>5, <3>3
  <2> QED BY <1>1, <2>3, <2>4, <2>5
<1>2. LinesInv => NamesDistinct
  BY <1>1 DEF NamesDistinct
<1> QED BY <1>2, LinesAlways, PTL

-----------------------------------------------------------------------------
(* URLs.                                                                   *)

\* The last part that is not blank, where none before the last one is.
LEMMA LastPart ==
  ASSUME NEW S, NEW u \in Seq(S), u # <<>>, \A j \in 1 .. Len(u) - 1 : u[j] # Blank
  PROVE  SelectLastInSeq(u, LAMBDA part : part # Blank) =
           IF u[Len(u)] # Blank THEN Len(u) ELSE Len(u) - 1
<1> DEFINE m == Len(u)
           I == {j \in 1 .. m : u[j] # Blank}
<1>1. SelectLastInSeq(u, LAMBDA part : part # Blank) = IF I # {} THEN Max(I) ELSE 0
  BY DEF SelectLastInSeq
<1>2. m \in Nat /\ m # 0 /\ I \in SUBSET (1 .. m)
  OBVIOUS
<1>3. \A j \in 1 .. m : j \in I <=> j # m \/ u[m] # Blank
  OBVIOUS
<1>4. I # {} => Max(I) \in I /\ \A j \in I : j <= Max(I)
  <2> HIDE DEF I
  <2> QED BY <1>2, Greatest
<1> HIDE DEF I, m
<1>5. CASE u[m] # Blank
  <2>1. m \in I
    BY <1>2, <1>3, <1>5
  <2>2. Max(I) \in 1 .. m /\ m <= Max(I)
    BY <1>2, <1>4, <2>1
  <2> QED BY <1>1, <1>2, <1>5, <2>1, <2>2 DEF m
<1>6. CASE u[m] = Blank
  <2>1. CASE m = 1
    <3>1. I = {}
      BY <1>2, <1>3, <1>6, <2>1
    <3> QED BY <1>1, <1>6, <2>1, <3>1 DEF m
  <2>2. CASE m # 1
    <3>1. m - 1 \in I /\ m \notin I
      BY <1>2, <1>3, <1>6, <2>2
    <3>2. Max(I) \in 1 .. m /\ m - 1 <= Max(I) /\ Max(I) # m
      BY <1>2, <1>4, <3>1
    <3>3. Max(I) = m - 1
      BY <1>2, <3>2
    <3> QED BY <1>1, <1>6, <3>1, <3>3 DEF m
  <2> QED BY <2>1, <2>2
<1> QED BY <1>5, <1>6

LEMMA TailAfter ==
  ASSUME NEW S, NEW w, NEW s \in Seq(S)
  PROVE  Tail(<<w>> \o s) = s
<1> DEFINE T == S \cup {w}
           x == <<w>> \o s
<1>1. <<w>> \in Seq(T) /\ s \in Seq(T) /\ Len(<<w>>) = 1
  OBVIOUS
<1>2. x \in Seq(T) /\ Len(x) = Len(s) + 1 /\ \A j \in 1 .. Len(s) : x[j + 1] = s[j]
  BY <1>1
<1> HIDE DEF x, T
<1>3. Tail(x) \in Seq(T) /\ Len(Tail(x)) = Len(s) /\ \A j \in 1 .. Len(s) : Tail(x)[j] = s[j]
  BY <1>1, <1>2
<1>4. Tail(x) = s
  BY <1>1, <1>3, SeqEqual
<1> QED BY <1>4 DEF x

LEMMA WholeSub ==
  ASSUME NEW S, NEW s \in Seq(S)
  PROVE  SubSeq(s, 1, Len(s)) = s
<1>1. /\ SubSeq(s, 1, Len(s)) \in Seq(S) /\ Len(SubSeq(s, 1, Len(s))) = Len(s)
      /\ \A j \in 1 .. Len(s) : SubSeq(s, 1, Len(s))[j] = s[j]
  OBVIOUS
<1> QED BY <1>1, SeqEqual

\* Both drop the host and the last end.
LEMMA FrontTail ==
  ASSUME NEW S, NEW u \in Seq(S), Len(u) > 2
  PROVE  Front(Tail(u)) = Tail(SubSeq(u, 1, Len(u) - 1))
<1> DEFINE p == Tail(u)
           q == SubSeq(u, 1, Len(u) - 1)
           n == Len(u) - 2
<1>1. p \in Seq(S) /\ Len(p) = n + 1 /\ \A j \in 1 .. n + 1 : p[j] = u[j + 1]
  OBVIOUS
<1>2. q \in Seq(S) /\ Len(q) = n + 1 /\ \A j \in 1 .. n + 1 : q[j] = u[j]
  OBVIOUS
<1>3. n \in Nat /\ n > 0
  OBVIOUS
<1> HIDE DEF p, q, n
<1>4. Front(p) \in Seq(S) /\ Len(Front(p)) = n /\ \A j \in 1 .. n : Front(p)[j] = u[j + 1]
  BY <1>1, <1>3 DEF Front
<1>5. Tail(q) \in Seq(S) /\ Len(Tail(q)) = n /\ \A j \in 1 .. n : Tail(q)[j] = u[j + 1]
  BY <1>2, <1>3
<1>6. Front(p) = Tail(q)
  BY <1>4, <1>5, SeqEqual
<1> QED BY <1>6 DEF p, q

\* Of a URL that register.sh makes something of, `status` shows the path it
\* takes: both drop the host and one slash at the end.
LEMMA PathIsTarget ==
  ASSUME NEW S, NEW u \in Seq(S), Blank \notin ToSet(Front(u)), Endpoint(u) # <<>>
  PROVE  Path(u) = Target(u) /\ Tail(Endpoint(u)) = Path(u)
<1> DEFINE m == Len(u)
           p == Path(u)
<1>0. m \in Nat
  OBVIOUS
<1>1. /\ p = IF m > 1 THEN (IF Len(Tail(u)) > 1 /\ Last(Tail(u)) = Blank
                            THEN Front(Tail(u)) ELSE Tail(u))
             ELSE (IF m > 1 /\ Last(u) = Blank THEN Front(u) ELSE u)
      /\ m \in Nat
  BY DEF Path
<1>2. Len(p) = 2 \/ (Len(p) = 1 /\ p # <<Blank>>)
  BY DEF Endpoint
<1>3. m > 1 => /\ Tail(u) \in Seq(S) /\ Len(Tail(u)) = m - 1
               /\ Tail(u)[m - 1] = u[m]
  OBVIOUS
<1>4. m # 0
  <2> SUFFICES ASSUME m = 0 PROVE FALSE
    OBVIOUS
  <2>1. p = u /\ Len(p) = 0
    BY <1>1
  <2> HIDE DEF p
  <2> QED BY <1>2, <2>1
<1>5. \A j \in 1 .. m - 1 : u[j] # Blank
  <2> SUFFICES ASSUME NEW j \in 1 .. m - 1 PROVE u[j] \in ToSet(Front(u))
    OBVIOUS
  <2>1. /\ Front(u) \in Seq(S) /\ Len(Front(u)) = m - 1 /\ Front(u)[j] = u[j]
    BY <1>1, <1>4 DEF Front
  <2>2. DOMAIN Front(u) = 1 .. m - 1
    BY <2>1
  <2> QED BY <2>1, <2>2 DEF ToSet
<1> DEFINE n == IF u[m] # Blank THEN m ELSE m - 1
           named == SubSeq(u, 1, n)
<1>6. Target(u) = IF Len(named) > 1 THEN Tail(named) ELSE named
  <2>1. SelectLastInSeq(u, LAMBDA part : part # Blank) = n
    <3>1. u # <<>>
      BY <1>4
    <3> QED BY <1>5, <3>1, LastPart
  <2> QED BY <2>1 DEF Target
<1>7. n \in 0 .. m /\ Len(named) = n
  BY <1>1, <1>4
<1>8. p \in Seq(S) /\ p = Target(u)
  <2> HIDE DEF p, n
  <2>1. CASE m = 1
    <3>1. p = u /\ u = <<u[1]>>
      BY <1>1, <2>1
    <3>2. u[1] # Blank
      BY <1>2, <2>1, <3>1
    <3>3. n = 1 /\ named = u
      BY <2>1, <3>2, WholeSub DEF n
    <3>4. ~(Len(named) > 1)
      BY <1>7, <3>3
    <3> QED BY <1>6, <3>1, <3>3, <3>4
  <2>2. CASE m > 1 /\ u[m] # Blank
    <3>1. n = m /\ named = u /\ Len(named) > 1
      BY <1>7, <2>2, WholeSub DEF n
    <3>2. Last(Tail(u)) # Blank
      BY <1>3, <2>2 DEF Last
    <3>3. p = Tail(u)
      BY <1>1, <2>2, <3>2
    <3> QED BY <1>3, <1>6, <2>2, <3>1, <3>3
  <2>3. CASE m = 2 /\ u[m] = Blank
    <3>1. Len(Tail(u)) = 1 /\ Tail(u)[1] = Blank /\ Tail(u) \in Seq(S)
      BY <1>3, <2>3
    <3>2. p = Tail(u)
      <4>1. m > 1 /\ ~(Len(Tail(u)) > 1)
        <5> DEFINE t == Tail(u)
        <5>1. Len(t) = 1
          BY <3>1
        <5> HIDE DEF m, t
        <5>2. m > 1
          BY <2>3
        <5>3. ~(Len(t) > 1)
          BY <5>1
        <5> QED BY <5>2, <5>3 DEF t
      <4> QED BY <1>1, <4>1, Zenon
    <3>3. Len(p) = 1 /\ p[1] = Blank /\ p \in Seq(S)
      BY <3>1, <3>2, Zenon
    <3>4. p = <<Blank>>
      BY <3>3
    <3> QED BY <1>2, <3>3, <3>4
  <2>4. CASE m > 2 /\ u[m] = Blank
    <3>1. n = m - 1 /\ Len(named) > 1
      BY <1>1, <1>7, <2>4 DEF n
    <3>2. Last(Tail(u)) = Blank /\ Len(Tail(u)) > 1
      BY <1>1, <1>3, <2>4 DEF Last
    <3>3. p = Front(Tail(u))
      BY <1>1, <2>4, <3>2
    <3>4. p = Tail(named)
      BY <2>4, <3>1, <3>3, FrontTail
    <3>5. Tail(named) \in Seq(S)
      <4>1. named \in Seq(S)
        BY <1>7
      <4> HIDE DEF named
      <4> QED BY <3>1, <4>1
    <3> QED BY <1>6, <3>1, <3>4, <3>5
  <2> HIDE DEF m
  <2>5. m = 1 \/ m = 2 \/ m > 2
    BY <1>0, <1>4
  <2>6. m > 2 => m > 1
    BY <1>0
  <2> QED BY <2>1, <2>2, <2>3, <2>4, <2>5, <2>6
<1>9. Endpoint(u) = <<"repos">> \o p \/ Endpoint(u) = <<"orgs">> \o p
  <2> HIDE DEF p
  <2> QED BY <1>2 DEF Endpoint, p
<1> HIDE DEF p
<1>10. Tail(Endpoint(u)) = p
  BY <1>8, <1>9, TailAfter
<1> QED BY <1>8, <1>10 DEF p

\* For any files and URLs: where doctor finds nothing wrong, the TARGET that
\* `status` shows of an instance is where register.sh registers it.
THEOREM TargetIsEndpointHolds == ConfSpec => []TargetIsEndpoint
<1>1. LinesInv => TargetIsEndpoint
  <2> DEFINE K == "RUNNER_URL"
  <2> SUFFICES ASSUME LinesInv, CheckInstances, NEW i \in Instances,
                      Passed(i)[K].style = "plain",
                      Blank \notin ToSet(Front(Passed(i)[K].text)),
                      Endpoint(Passed(i)[K].text) # <<>>
               PROVE  Tail(Endpoint(Passed(i)[K].text)) = Target(Load(i)[K].text)
    BY DEF TargetIsEndpoint
  <2>1. K \in KeysOfBoth(i) /\ K \notin NoKeys
    <3>1. K \in DOMAIN Load(i)
      BY DEF CheckInstances
    <3>2. DOMAIN Load(i) = KeysOfBoth(i) \cup {"RUNNER_NAME"}
      BY BothRead
    <3> QED BY <3>1, <3>2 DEF NoKeys
  <2>2. Passed(i)[K] = Verbatim(Decides(i, K)) /\ Load(i)[K] = Stripped(Decides(i, K))
    BY <2>1, BothRead
  <2>3. Decides(i, K).text \in Seq(STRING)
    <3>1. Decides(i, K).text \in TextsOf[K] /\ K \in Keys
      BY <2>1, DecidesIsLine
    <3> QED BY <3>1, TextsAssumption
  <2> DEFINE u == Decides(i, K).text
  <2>4. Passed(i)[K].text = u /\ Load(i)[K].text = u
    BY <2>2 DEF Verbatim, Stripped
  <2> HIDE DEF u
  <2>5. u \in Seq(STRING) /\ Blank \notin ToSet(Front(u)) /\ Endpoint(u) # <<>>
    BY <2>3, <2>4 DEF u
  <2>6. Path(u) = Target(u) /\ Tail(Endpoint(u)) = Path(u)
    BY <2>5, PathIsTarget
  <2> QED BY <2>4, <2>6
<1> QED BY <1>1, LinesAlways, PTL

=============================================================================
