------------------------- MODULE MetaStorageProofs -------------------------
(***************************************************************************)
(* Theorems about MetaStorage, for any calls and programs, any keys, values *)
(* and sizes, any capacity and limit.  The invariant says where a call can  *)
(* be and at which operation of its program, what a call that acts on the   *)
(* free space knows of it, who is going to wake a sleeper, and what a set   *)
(* of replicas or of a field has still to write over.                       *)
(***************************************************************************)
EXTENDS MetaStorage, FiniteSetTheorems, SequenceTheorems,
        WellFoundedInduction, TLAPS

-----------------------------------------------------------------------------
(* Sums over a finite set.  SumFunctionOnSet chooses a recursive function:  *)
(* what it returns is shown on a smallest set that would be an exception.   *)

\* A set of subsets of a finite set has a minimal member: the form in which the
\* inductions below are done.
LEMMA MinimalSubset ==
  ASSUME NEW U, IsFiniteSet(U), NEW B, B \subseteq SUBSET U, B # {}
  PROVE  \E s \in B : \A t \in B : ~(t \subseteq s /\ t # s)
<1>1. IsWellFoundedOn(StrictSubsetOrdering(U), SUBSET U)
  BY FS_StrictSubsetOrderingWellFounded, FS_FiniteSubsetsOfFinite
<1>2. PICK s \in B : \A t \in B : <<t, s>> \notin StrictSubsetOrdering(U)
  BY <1>1, WFMin
<1> QED BY <1>2 DEF StrictSubsetOrdering

One(s) == CHOOSE x \in s : TRUE
Rest(s) == s \ {One(s)}

LEMMA OneOf == \A s : s # {} => One(s) \in s /\ Rest(s) \subseteq s /\ Rest(s) # s
BY DEF One, Rest

\* The function that SumFunctionOnSet chooses to sum up f over U.
IsSum(f, U, g) ==
  g = [s \in SUBSET U |-> IF s = {} THEN 0 ELSE f[One(s)] + g[Rest(s)]]

LEMMA SumIs ==
  ASSUME NEW f, NEW U
  PROVE  SumFunctionOnSet(f, U) = (CHOOSE g : IsSum(f, U, g))[U]
BY DEF SumFunctionOnSet, FoldFunctionOnSet, MapThenFoldSet, IsSum, One, Rest

LEMMA SumUnique ==
  ASSUME NEW f, NEW U, NEW V, IsFiniteSet(V), V \subseteq U,
         NEW g, IsSum(f, U, g), NEW h, IsSum(f, V, h)
  PROVE  \A s \in SUBSET V : g[s] = h[s]
<1> DEFINE B == {s \in SUBSET V : g[s] # h[s]}
<1> SUFFICES ASSUME B # {} PROVE FALSE
  OBVIOUS
<1>1. PICK s \in B : \A t \in B : ~(t \subseteq s /\ t # s)
  <2> HIDE DEF B
  <2>1. B \subseteq SUBSET V
    BY DEF B
  <2> QED BY <2>1, MinimalSubset
<1>2. /\ g[s] = IF s = {} THEN 0 ELSE f[One(s)] + g[Rest(s)]
      /\ h[s] = IF s = {} THEN 0 ELSE f[One(s)] + h[Rest(s)]
  <2>1. s \in SUBSET U /\ s \in SUBSET V
    OBVIOUS
  <2>2. g[s] = IF s = {} THEN 0 ELSE f[One(s)] + g[Rest(s)]
    BY <2>1 DEF IsSum
  <2>3. h[s] = IF s = {} THEN 0 ELSE f[One(s)] + h[Rest(s)]
    BY <2>1 DEF IsSum
  <2> QED BY <2>2, <2>3
<1>3. CASE s = {}
  BY <1>2, <1>3
<1>4. CASE s # {}
  <2>1. Rest(s) \in SUBSET V /\ Rest(s) \subseteq s /\ Rest(s) # s
    BY <1>4, OneOf
  <2>2. g[Rest(s)] = h[Rest(s)]
    BY <1>1, <2>1
  <2> QED BY <1>2, <1>4, <2>2
<1> QED BY <1>3, <1>4

LEMMA SumExists ==
  ASSUME NEW f, NEW U, IsFiniteSet(U)
  PROVE  \E g : IsSum(f, U, g)
<1> DEFINE B == {s \in SUBSET U : ~\E g : IsSum(f, s, g)}
<1> SUFFICES ASSUME B # {} PROVE FALSE
  <2>1. U \notin B
    OBVIOUS
  <2> QED BY <2>1
<1>1. PICK V \in B : \A t \in B : ~(t \subseteq V /\ t # V)
  <2> HIDE DEF B
  <2>1. B \subseteq SUBSET U
    BY DEF B
  <2> QED BY <2>1, MinimalSubset
<1>2. \A t \in SUBSET V : t # V => \E g : IsSum(f, t, g)
  BY <1>1
<1>3. \A t \in SUBSET V : t # V => IsSum(f, t, CHOOSE g : IsSum(f, t, g))
  BY <1>2
<1> DEFINE G(t) == CHOOSE g : IsSum(f, t, g)
<1> DEFINE h == [s \in SUBSET V |-> IF s = {} THEN 0 ELSE f[One(s)] + G(Rest(s))[Rest(s)]]
<1>4. ASSUME NEW t \in SUBSET V, t # V
      PROVE  h[t] = G(t)[t]
  <2>1. IsSum(f, t, G(t))
    BY <1>3, <1>4
  <2>2. G(t)[t] = IF t = {} THEN 0 ELSE f[One(t)] + G(t)[Rest(t)]
    <3> HIDE DEF G
    <3>1. t \in SUBSET t
      OBVIOUS
    <3> QED BY <2>1, <3>1 DEF IsSum
  <2>3. CASE t = {}
    BY <2>2, <2>3
  <2>4. CASE t # {}
    <3>1. Rest(t) \in SUBSET V /\ Rest(t) # V /\ Rest(t) \subseteq t
      BY <1>4, <2>4, OneOf
    <3>2. IsSum(f, Rest(t), G(Rest(t))) /\ IsFiniteSet(Rest(t))
      BY <1>3, <3>1, FS_Subset
    <3>3. G(t)[Rest(t)] = G(Rest(t))[Rest(t)]
      <4> HIDE DEF G
      <4> QED BY <2>1, <3>1, <3>2, SumUnique
    <3> QED BY <2>2, <2>4, <3>3
  <2> QED BY <2>3, <2>4
<1>5. IsSum(f, V, h)
  <2>1. \A s \in SUBSET V : s # {} => h[Rest(s)] = G(Rest(s))[Rest(s)]
    <3>1. \A s \in SUBSET V : s # {} => Rest(s) \in SUBSET V /\ Rest(s) # V
      BY OneOf
    <3> HIDE DEF G, h
    <3> QED BY <1>4, <3>1
  <2> HIDE DEF G
  <2>2. \A s \in SUBSET V :
          h[s] = IF s = {} THEN 0 ELSE f[One(s)] + h[Rest(s)]
    BY <2>1
  <2>3. h = [s \in SUBSET V |-> h[s]]
    OBVIOUS
  <2> HIDE DEF h
  <2> QED BY <2>2, <2>3 DEF IsSum
<1> QED BY <1>1, <1>5

\* What the recursion says of the sum itself.
LEMMA SumStep ==
  ASSUME NEW f, NEW S, IsFiniteSet(S)
  PROVE  SumFunctionOnSet(f, S) =
           IF S = {} THEN 0 ELSE f[One(S)] + SumFunctionOnSet(f, Rest(S))
<1>1. PICK g : g = CHOOSE h : IsSum(f, S, h)
  OBVIOUS
<1>2. IsSum(f, S, g) /\ SumFunctionOnSet(f, S) = g[S]
  BY <1>1, SumExists, SumIs
<1>3. g[S] = IF S = {} THEN 0 ELSE f[One(S)] + g[Rest(S)]
  <2>1. S \in SUBSET S
    OBVIOUS
  <2> QED BY <1>2, <2>1 DEF IsSum
<1>4. S # {} => g[Rest(S)] = SumFunctionOnSet(f, Rest(S))
  <2> SUFFICES ASSUME S # {} PROVE g[Rest(S)] = SumFunctionOnSet(f, Rest(S))
    OBVIOUS
  <2>1. Rest(S) \subseteq S /\ IsFiniteSet(Rest(S)) /\ Rest(S) \in SUBSET Rest(S)
    BY OneOf, FS_Subset
  <2>2. PICK h : h = CHOOSE k : IsSum(f, Rest(S), k)
    OBVIOUS
  <2>3. IsSum(f, Rest(S), h) /\ SumFunctionOnSet(f, Rest(S)) = h[Rest(S)]
    BY <2>1, <2>2, SumExists, SumIs
  <2> QED BY <1>2, <2>1, <2>3, SumUnique
<1> QED BY <1>2, <1>3, <1>4

\* The sum of naturals is one.
LEMMA SumNat ==
  ASSUME NEW S, IsFiniteSet(S), NEW f, \A x \in S : f[x] \in Nat
  PROVE  SumFunctionOnSet(f, S) \in Nat
<1> DEFINE B == {s \in SUBSET S : SumFunctionOnSet(f, s) \notin Nat}
<1> SUFFICES ASSUME B # {} PROVE FALSE
  <2>1. S \notin B
    OBVIOUS
  <2> QED BY <2>1
<1>1. PICK s \in B : \A t \in B : ~(t \subseteq s /\ t # s)
  <2> HIDE DEF B
  <2>1. B \subseteq SUBSET S
    BY DEF B
  <2> QED BY <2>1, MinimalSubset
<1>2. SumFunctionOnSet(f, s) =
        IF s = {} THEN 0 ELSE f[One(s)] + SumFunctionOnSet(f, Rest(s))
  BY FS_Subset, SumStep
<1>3. s # {} => f[One(s)] \in Nat /\ SumFunctionOnSet(f, Rest(s)) \in Nat
  BY <1>1, OneOf
<1> QED BY <1>2, <1>3

\* The order in which the elements are taken is of no account.
LEMMA SumTake ==
  ASSUME NEW S, IsFiniteSet(S), NEW f, \A x \in S : f[x] \in Nat, NEW x \in S
  PROVE  SumFunctionOnSet(f, S) = f[x] + SumFunctionOnSet(f, S \ {x})
<1> DEFINE Bad(s) == \E y \in s : SumFunctionOnSet(f, s) # f[y] + SumFunctionOnSet(f, s \ {y})
<1> DEFINE B == {s \in SUBSET S : Bad(s)}
<1> SUFFICES ASSUME B # {} PROVE FALSE
  <2>1. S \notin B
    OBVIOUS
  <2> QED BY <2>1
<1>1. PICK s \in B : \A t \in B : ~(t \subseteq s /\ t # s)
  <2> HIDE DEF B
  <2>1. B \subseteq SUBSET S
    BY DEF B
  <2> QED BY <2>1, MinimalSubset
<1>2. PICK y \in s : SumFunctionOnSet(f, s) # f[y] + SumFunctionOnSet(f, s \ {y})
  OBVIOUS
<1>3. \A t \in SUBSET s : t # s =>
        \A z \in t : SumFunctionOnSet(f, t) = f[z] + SumFunctionOnSet(f, t \ {z})
  BY <1>1
<1>4. \A t \in SUBSET S : IsFiniteSet(t) /\ SumFunctionOnSet(f, t) \in Nat
  <2>1. \A t \in SUBSET S : IsFiniteSet(t)
    BY FS_Subset
  <2> QED BY <2>1, SumNat
<1> HIDE DEF B, Bad
<1>5. s \in SUBSET S /\ s # {} /\ One(s) \in s /\ Rest(s) = s \ {One(s)}
  BY <1>2, OneOf DEF B, Rest
<1>6. SumFunctionOnSet(f, s) = f[One(s)] + SumFunctionOnSet(f, s \ {One(s)})
  BY <1>4, <1>5, SumStep
<1>7. y # One(s)
  BY <1>2, <1>6
<1>8. SumFunctionOnSet(f, s \ {One(s)}) =
        f[y] + SumFunctionOnSet(f, (s \ {One(s)}) \ {y})
  <2>1. s \ {One(s)} \in SUBSET s /\ s \ {One(s)} # s /\ y \in s \ {One(s)}
    BY <1>2, <1>5, <1>7
  <2> QED BY <1>3, <2>1
<1>9. SumFunctionOnSet(f, s \ {y}) =
        f[One(s)] + SumFunctionOnSet(f, (s \ {y}) \ {One(s)})
  <2>1. s \ {y} \in SUBSET s /\ s \ {y} # s /\ One(s) \in s \ {y}
    BY <1>2, <1>5, <1>7
  <2> QED BY <1>3, <2>1
<1>10. (s \ {One(s)}) \ {y} = (s \ {y}) \ {One(s)}
  OBVIOUS
<1>11. /\ f[y] \in Nat /\ f[One(s)] \in Nat
       /\ SumFunctionOnSet(f, (s \ {y}) \ {One(s)}) \in Nat
  <2>1. (s \ {y}) \ {One(s)} \in SUBSET S
    BY <1>5
  <2> QED BY <1>2, <1>4, <1>5, <2>1
<1> QED BY <1>2, <1>6, <1>8, <1>9, <1>10, <1>11

\* Nothing counts but the values on the set.
LEMMA SumSame ==
  ASSUME NEW S, IsFiniteSet(S), NEW f, NEW g, \A x \in S : f[x] = g[x]
  PROVE  SumFunctionOnSet(f, S) = SumFunctionOnSet(g, S)
<1> DEFINE B == {s \in SUBSET S : SumFunctionOnSet(f, s) # SumFunctionOnSet(g, s)}
<1> SUFFICES ASSUME B # {} PROVE FALSE
  <2>1. S \notin B
    OBVIOUS
  <2> QED BY <2>1
<1>1. PICK s \in B : \A t \in B : ~(t \subseteq s /\ t # s)
  <2> HIDE DEF B
  <2>1. B \subseteq SUBSET S
    BY DEF B
  <2> QED BY <2>1, MinimalSubset
<1>2. /\ SumFunctionOnSet(f, s) =
           IF s = {} THEN 0 ELSE f[One(s)] + SumFunctionOnSet(f, Rest(s))
      /\ SumFunctionOnSet(g, s) =
           IF s = {} THEN 0 ELSE g[One(s)] + SumFunctionOnSet(g, Rest(s))
  BY FS_Subset, SumStep
<1>3. s # {} => /\ f[One(s)] = g[One(s)]
                /\ SumFunctionOnSet(f, Rest(s)) = SumFunctionOnSet(g, Rest(s))
  BY <1>1, OneOf
<1> QED BY <1>2, <1>3

\* What a new value of one element adds.
LEMMA SumUpdate ==
  ASSUME NEW S, IsFiniteSet(S), NEW f, NEW g, NEW x \in S,
         \A y \in S : f[y] \in Nat /\ g[y] \in Nat,
         \A y \in S \ {x} : f[y] = g[y]
  PROVE  SumFunctionOnSet(g, S) = SumFunctionOnSet(f, S) - f[x] + g[x]
<1>1. SumFunctionOnSet(f, S) = f[x] + SumFunctionOnSet(f, S \ {x})
  BY SumTake
<1>2. SumFunctionOnSet(g, S) = g[x] + SumFunctionOnSet(g, S \ {x})
  BY SumTake
<1>3. IsFiniteSet(S \ {x})
  BY FS_Subset
<1>4. SumFunctionOnSet(f, S \ {x}) = SumFunctionOnSet(g, S \ {x})
  BY <1>3, SumSame
<1>5. SumFunctionOnSet(f, S \ {x}) \in Nat
  BY <1>3, SumNat
<1> QED BY <1>1, <1>2, <1>4, <1>5

\* Zeros add up to zero.
LEMMA SumZero ==
  ASSUME NEW S, IsFiniteSet(S), NEW f, \A x \in S : f[x] = 0
  PROVE  SumFunctionOnSet(f, S) = 0
<1> DEFINE B == {s \in SUBSET S : SumFunctionOnSet(f, s) # 0}
<1> SUFFICES ASSUME B # {} PROVE FALSE
  <2>1. S \notin B
    OBVIOUS
  <2> QED BY <2>1
<1>1. PICK s \in B : \A t \in B : ~(t \subseteq s /\ t # s)
  <2> HIDE DEF B
  <2>1. B \subseteq SUBSET S
    BY DEF B
  <2> QED BY <2>1, MinimalSubset
<1>2. SumFunctionOnSet(f, s) =
        IF s = {} THEN 0 ELSE f[One(s)] + SumFunctionOnSet(f, Rest(s))
  BY FS_Subset, SumStep
<1>3. s # {} => f[One(s)] = 0 /\ SumFunctionOnSet(f, Rest(s)) = 0
  BY <1>1, OneOf
<1> QED BY <1>2, <1>3

-----------------------------------------------------------------------------
(* The operators of the community modules that the model uses              *)

LEMMA MinIs ==
  ASSUME NEW s \in Seq(Calls), NEW S, S \subseteq DOMAIN s, S # {}
  PROVE  Min(S) \in S /\ \A i \in S : Min(S) <= i
<1> DEFINE Below(i) == {j \in S : j <= i}
           B == {Below(i) : i \in S}
<1>1. S \subseteq 1..Len(s) /\ IsFiniteSet(1..Len(s)) /\ S \subseteq Int
  <2>1. Len(s) \in Int /\ 1 \in Int /\ DOMAIN s = 1..Len(s)
    OBVIOUS
  <2>2. IsFiniteSet(1..Len(s))
    BY <2>1, FS_Interval
  <2> QED BY <2>1, <2>2
<1>2. B \subseteq SUBSET (1..Len(s)) /\ B # {}
  BY <1>1
<1>3. PICK t \in B : \A u \in B : ~(u \subseteq t /\ u # t)
  <2>1. PICK U : U = 1..Len(s)
    OBVIOUS
  <2>2. IsFiniteSet(U) /\ B \subseteq SUBSET U /\ B # {}
    BY <1>1, <1>2, <2>1
  <2> HIDE DEF B
  <2> QED BY <2>2, MinimalSubset
<1>4. PICK m \in S : t = Below(m)
  OBVIOUS
<1>5. ASSUME NEW i \in S PROVE m <= i
  <2> SUFFICES ASSUME i < m PROVE FALSE
    BY <1>1
  <2>1. Below(i) \in B
    OBVIOUS
  <2>2. Below(i) \subseteq t
    BY <1>1, <1>4
  <2>3. m \in t /\ m \notin Below(i)
    BY <1>1, <1>4
  <2> QED BY <1>3, <2>1, <2>2, <2>3
<1> QED BY <1>5 DEF Min

LEMMA RemoveAtIs ==
  ASSUME NEW s \in Seq(Calls), NEW i \in DOMAIN s
  PROVE  /\ RemoveAt(s, i) \in Seq(Calls)
         /\ \A j \in DOMAIN s : j # i => s[j] \in ToSet(RemoveAt(s, i))
<1>1. Len(s) \in Nat /\ i \in 1..Len(s)
  OBVIOUS
<1>2. SubSeq(s, 1, i - 1) \in Seq(Calls) /\ SubSeq(s, i + 1, Len(s)) \in Seq(Calls)
  BY <1>1
<1>3. RemoveAt(s, i) \in Seq(Calls)
  BY <1>2 DEF RemoveAt
<1>4. ASSUME NEW j \in DOMAIN s, j # i
      PROVE  s[j] \in ToSet(RemoveAt(s, i))
  <2> DEFINE p == SubSeq(s, 1, i - 1)
             q == SubSeq(s, i + 1, Len(s))
  <2>1. Len(p) = i - 1 /\ Len(q) = Len(s) - i
    BY <1>1
  <2>2. RemoveAt(s, i) = p \o q /\ p \in Seq(Calls) /\ q \in Seq(Calls)
    BY <1>2 DEF RemoveAt
  <2>6. \A k \in 1..Len(p) : p[k] = s[k]
    BY <1>1, <2>1
  <2>7. \A k \in 1..Len(q) : q[k] = s[i + k]
    <3> SUFFICES ASSUME NEW k \in 1..Len(q) PROVE q[k] = s[i + k]
      OBVIOUS
    <3>1. PICK m, n \in Int : m = i + 1 /\ n = Len(s)
      BY <1>1
    <3>2. \A x \in m..n : s[x] \in Calls
      BY <1>1, <3>1
    <3>3. k \in 1..(n - m + 1) /\ m + k - 1 = i + k
      <4>1. n - m + 1 = Len(q)
        <5> HIDE DEF q
        <5> QED BY <1>1, <2>1, <3>1
      <4> QED BY <1>1, <3>1, <4>1
    <3>4. SubSeq(s, m, n)[k] = s[m + k - 1]
      BY <3>2, <3>3, SubSeqProperties
    <3>5. q = SubSeq(s, m, n)
      BY <3>1
    <3> HIDE DEF q
    <3> QED BY <3>3, <3>4, <3>5
  <2> HIDE DEF p, q
  <2>3. Len(p \o q) = Len(s) - 1
    BY <1>1, <2>1, <2>2
  <2>4. CASE j < i
    <3>1. p[j] = s[j] /\ j \in 1..Len(p)
      BY <1>1, <2>1, <2>4, <2>6
    <3>2. (p \o q)[j] = s[j] /\ j \in DOMAIN (p \o q)
      BY <1>1, <2>1, <2>2, <2>3, <2>4, <3>1
    <3> QED BY <2>2, <3>2 DEF ToSet
  <2>5. CASE j > i
    <3>1. q[j - i] = s[j] /\ j - i \in 1..Len(q)
      BY <1>1, <1>4, <2>1, <2>5, <2>7
    <3>2. (p \o q)[j - 1] = s[j] /\ j - 1 \in DOMAIN (p \o q)
      BY <1>1, <1>4, <2>1, <2>2, <2>3, <2>5, <3>1
    <3> QED BY <2>2, <3>2 DEF ToSet
  <2> QED BY <1>1, <1>4, <2>4, <2>5
<1> QED BY <1>3, <1>4
-----------------------------------------------------------------------------
(* The inductive invariant, part by part                                   *)

\* The shape of the state, the amounts of space left aside.
Shape ==
  /\ disk \in [Keys -> Contents]
  /\ waiters \in Seq(Calls)
  /\ pc \in [Calls -> States]
  /\ op \in [Calls -> Ops \cup {NoOp}]
  /\ result \in [Calls -> Contents]
  /\ fd \in [Calls -> Keys \cup {None}]
  /\ prog \in [Calls -> Programs \cup {NoProgram}]
  /\ stage \in [Calls -> 0..(Len(Replicas) + 3)]
  /\ carry \in [Calls -> Contents]
  /\ turn \in DOMAIN Replicas
  /\ future \in [Calls -> FutureStates]
  /\ current \in Calls \cup {None}
  /\ waitsFor \in [Calls -> Calls \cup {None}]

\* A call is only where its operation can bring it.
MayBe(o, s) ==
  /\ s \in {"check", "checked", "asleep", "woken"} => WaitsForSpace(o)
  /\ s \in {"write", "tmp"} => o.kind = "set"
  /\ s \in {"exists", "read"} => o.kind = "get"
  /\ s \in {"open", "opened"} => o.kind \in {"open", "openw"}
  /\ s = "copy" => o.kind \in {"copy", "move"}
  /\ s = "filling" => o.kind \in {"copy", "openw"}
  /\ s \in {"notify", "notified"} =>
       o.key \in Limited /\ o.kind \in {"set", "open", "openw"}
TwoFiles(o) == o.kind \in {"copy", "move"} => o.to \in Keys /\ o.to # o.key
Placed(c) == MayBe(op[c], pc[c]) /\ TwoFiles(op[c])

\* A call is at the operation that its program has come to.
AtStage(c) ==
  /\ prog[c].kind = "none" => stage[c] = 0 /\ op[c] = NoOp
  /\ prog[c].kind \in FutureKinds => op[c] = NoOp
  /\ prog[c].kind \in {"get", "replget", "fallback"} => op[c].kind = "get"
  /\ prog[c].kind = "open" => op[c].kind = "open"
  /\ prog[c].kind = "replset" =>
       /\ stage[c] \in 1..Len(Replicas)
       /\ op[c] = OpSet(Replicas[stage[c]], prog[c].val)
  /\ prog[c].kind = "cacheget" =>
       /\ stage[c] \in 1..3
       /\ stage[c] = 1 => op[c] = OpGet(Store)
       /\ stage[c] = 2 => op[c].kind = "get"
       /\ stage[c] = 3 => op[c].kind = "set" /\ op[c].key = Store
  /\ prog[c].kind = "fieldset" =>
       /\ stage[c] \in 1..2
       /\ stage[c] = 1 => op[c] = OpGet(prog[c].key)
       /\ stage[c] = 2 => op[c].kind = "set" /\ op[c].key = prog[c].key
  /\ op[c].kind = "copy" => prog[c].kind = "fscopy"
  /\ op[c].kind = "openw" => prog[c].kind = "openw"
  /\ waitsFor[c] # None => pc[c] = "idle" /\ prog[c].kind = "futget"

Control == Shape /\ \A c \in Calls : Placed(c) /\ AtStage(c)

\* Space is an amount, and whoever sleeps is listed.
Amounts ==
  /\ litter \in Nat /\ Free \in Nat
  /\ free \in [Calls -> 0..Capacity]
  /\ \A c \in Calls : pc[c] = "asleep" => c \in ToSet(waiters)

\* Who has a file open is about to fill it.  As long as none was read, copied or
\* opened again meanwhile, the files without their value are those that one call
\* has open, and nobody has got hold of anything but values.
Whole ==
  /\ \A c \in Calls : fd[c] # None => pc[c] = "filling"
  /\ "torn" \notin lapses =>
       /\ \A c \in Calls : result[c] # Empty /\ carry[c] # Empty /\ op[c].val # Empty
       /\ \A c \in Calls : fd[c] # None => disk[fd[c]] = Empty
       /\ \A c, d \in Calls : fd[c] # None /\ fd[c] = fd[d] => c = d
       /\ \A k \in Keys : disk[k] = Empty => \E c \in Calls : fd[c] = k

\* The figure of the only call that acts is not more than there is, and what
\* it may take leaves the limit free.
Limiting(c) == Acting(pc[c]) /\ ~Unlimited(c)
RoomKept ==
  "crowded" \notin lapses =>
    /\ Free >= Limit
    /\ \A c, d \in Calls : Limiting(c) /\ Limiting(d) => c = d
    /\ \A c \in Calls :
         /\ pc[c] \in {"tmp", "filling"} => ~Unasked(c)
         /\ pc[c] \in {"checked", "notified"} => free[c] <= Free
         /\ pc[c] \in {"woken", "write"} /\ ~Unlimited(c) /\ op[c].val # None
              => Free >= Size(op[c].val) + Limit

\* A set that sleeps beside enough room is going to be told, or somebody else
\* is, who will tell in turn.
WillTell(d) ==
  \/ pc[d] = "filling"
  \/ /\ op[d].key \in Limited
     /\ pc[d] \in {"woken", "write", "tmp", "open", "opened", "notify"}
ToBeTold ==
  \/ "silent" \in lapses
  \/ \E c \in Calls : pc[c] \in {"failed", "cancelled"}
  \/ \A c \in Calls : pc[c] = "asleep" /\ op[c].kind = "set" =>
       \/ c \in outdated
       \/ Free <= Size(op[c].val) + Limit
       \/ \E d \in Calls : \/ WillTell(d)
                           \/ /\ pc[d] = "notified"
                              /\ free[d] > Size(op[c].val) + Limit

\* As long as nobody meddles, one set of the Replicator at a time: the storages
\* it has written hold its value, the others what they all held before.
Disturbed ==
  \E c \in Calls : Meddled(c) \/ (prog[c].kind = "replset" /\ c \in raced)
Written(c) == {Replicas[i] : i \in 1..(stage[c] - 1)}
                \cup (IF pc[c] \in {"done", "notify", "notified"}
                      THEN {Replicas[stage[c]]} ELSE {})
SameOn(S) == \A k, l \in S : disk[k] = disk[l]
OneAtATime ==
  /\ \A c, d \in Calls : Replicating(c) /\ Replicating(d) => c = d
  /\ \A c \in Calls : Replicating(c) =>
       /\ \A k \in Written(c) : disk[k] = prog[c].val
       /\ SameOn(ToSet(Replicas) \ Written(c))
  /\ (~\E c \in Calls : Replicating(c)) => SameOn(ToSet(Replicas))
OneReplicating == Disturbed \/ OneAtATime

\* What a call is going to replace is still what it has seen, or it has raced.
Seen(c) == IF prog[c].kind = "cacheget" THEN None
           ELSE IF stage[c] = 1 THEN result[c] ELSE carry[c]
StillSeen ==
  \A c \in Calls : Between(c) => c \in raced \/ disk[BackKey(c)] = Seen(c)

StorageInv ==
  /\ Control /\ Amounts /\ Whole /\ RoomKept /\ ToBeTold
  /\ OneReplicating /\ StillSeen /\ WaitersReachable
-----------------------------------------------------------------------------
(* Where a call is                                                         *)

\* A step of a storage that takes one call from one place to another.
LEMMA PlaceKept ==
  ASSUME Control, NEW c \in Calls, NEW s \in States, MayBe(op[c], s),
         pc[c] # "idle", GoTo(c, s), op' = op, prog' = prog, stage' = stage,
         waitsFor' = waitsFor
  PROVE  pc' \in [Calls -> States] /\ \A d \in Calls : Placed(d)' /\ AtStage(d)'
<1>1. pc' \in [Calls -> States]
  BY DEF Control, Shape, GoTo
<1>2. ASSUME NEW d \in Calls PROVE Placed(d)' /\ AtStage(d)'
  <2>1. pc \in [Calls -> States] /\ Placed(d) /\ AtStage(d)
    BY DEF Control, Shape
  <2>2. pc'[d] = IF d = c THEN s ELSE pc[d]
    BY <2>1 DEF GoTo
  <2>3. Placed(d)'
    BY <2>1, <2>2 DEF Placed, MayBe, WaitsForSpace, TwoFiles
  <2>4. AtStage(d)'
    BY <2>1, <2>2 DEF AtStage, OpSet, OpGet
  <2> QED BY <2>3, <2>4
<1> QED BY <1>1, <1>2

\* What a call that is under way has been called with.
LEMMA OpIs ==
  ASSUME StorageAssumption, Control, NEW c \in Calls,
         pc[c] \notin {"idle", "done", "failed", "cancelled"}
  PROVE  op[c] \in Ops /\ op[c].key \in Keys /\ op[c].val \in Contents
<1>1. op[c] \in Ops \/ op[c] = NoOp
  BY DEF Control, Shape
<1>2. NoOp.kind = "none" /\ NoOp.key = None
  BY DEF NoOp
<1>3. MayBe(op[c], pc[c]) /\ pc[c] \in States
  BY DEF Control, Shape, Placed
<1>4. Limited \subseteq Keys /\ None \notin Keys
  BY DEF StorageAssumption
<1>5. op[c] # NoOp
  BY <1>2, <1>3, <1>4 DEF MayBe, WaitsForSpace, States
<1> QED BY <1>1, <1>5 DEF Ops

\* Every step of a storage keeps every call where it may be.
LEMMA StepControl ==
  ASSUME StorageAssumption, Control, NEW c \in Calls, Step(c),
         prog' = prog, stage' = stage, carry' = carry, turn' = turn,
         UNCHANGED futureVars
  PROVE  Control'
<1>1. /\ Placed(c) /\ Shape /\ MayBe(op[c], pc[c]) /\ TwoFiles(op[c])
      /\ waitsFor' = waitsFor /\ current' = current /\ future' = future
  BY DEF Control, Placed, futureVars
<1>2. op' = op
  BY DEF Step, ReadFree, PassCheck, Sleep, Resume, Cancel, WakeNobody, WakeOne,
         WakeRaises, WriteTemp, Rename, Erase, WriteFails, Exists, Read,
         OpenFile, OpenToWrite, OpenInPlace, CloseFile, CopyNothing, CopyOpens,
         FileFills, Move
<1>3. pc[c] \notin {"idle", "done", "failed", "cancelled"}
  BY DEF Step, ReadFree, PassCheck, Sleep, Resume, Cancel, WakeNobody, WakeOne,
         WakeRaises, WriteTemp, Rename, Erase, WriteFails, Exists, Read,
         OpenFile, OpenToWrite, OpenInPlace, CloseFile, CopyNothing, CopyOpens,
         FileFills, Move
<1>4. op[c] \in Ops /\ op[c].key \in Keys /\ op[c].val \in Contents
  BY <1>3, OpIs
<1>5. pc' \in [Calls -> States] /\ \A d \in Calls : Placed(d)' /\ AtStage(d)'
  <2> DEFINE Goes(s) == s \in States /\ MayBe(op[c], s) /\ GoTo(c, s)
  <2>1. ASSUME NEW s, Goes(s)
        PROVE  pc' \in [Calls -> States] /\ \A d \in Calls : Placed(d)' /\ AtStage(d)'
    BY <1>1, <1>2, <1>3, <2>1, PlaceKept
  <2> USE DEF States, MayBe
  <2>2. ReadFree(c) => Goes(IF pc[c] = "check" THEN "checked" ELSE "notified")
    BY <1>1 DEF ReadFree
  <2>3. PassCheck(c) => Goes("write")
    BY <1>1 DEF PassCheck, Fits, WaitsForSpace
  <2>4. Sleep(c) => Goes("asleep")
    BY <1>1 DEF Sleep
  <2>5. Resume(c) => Goes(Work(op[c]))
    BY <1>1 DEF Resume, Work, WaitsForSpace
  <2>6. Cancel(c) => Goes("cancelled")
    BY <1>1 DEF Cancel
  <2>7. WakeNobody(c) => Goes("done")
    BY <1>1 DEF WakeNobody
  <2>8. WakeRaises(c) => Goes("failed")
    BY <1>1 DEF WakeRaises
  <2>9. WriteTemp(c) => Goes("tmp")
    BY <1>1 DEF WriteTemp
  <2>10. Rename(c) \/ Erase(c) \/ CloseFile(c) => Goes(AfterWrite(c))
    BY <1>1 DEF Rename, Erase, CloseFile, AfterWrite
  <2>11. WriteFails(c) => Goes("failed")
    BY <1>1 DEF WriteFails
  <2>12. Exists(c) => Goes("done") \/ Goes("read")
    BY <1>1 DEF Exists
  <2>13. Read(c) => Goes("failed") \/ Goes("done")
    BY <1>1 DEF Read
  <2>14. OpenFile(c) => Goes("failed") \/ Goes("opened")
    BY <1>1 DEF OpenFile
  <2>19. OpenToWrite(c) => Goes("filling")
    BY <1>1 DEF OpenToWrite, OpenInPlace
  <2>15. CopyNothing(c) \/ Move(c) => Goes("done")
    BY <1>1 DEF CopyNothing, Move
  <2>16. CopyOpens(c) => Goes("filling")
    BY <1>1 DEF CopyOpens, OpenInPlace
  <2>17. FileFills(c) => Goes("failed") \/ Goes(Filled(c))
    BY <1>1 DEF FileFills, Filled
  <2>18. CASE WakeOne(c)
    <3> DEFINE d == First(c)
    <3>1. d \in Calls
      <4>1. Roomy(c) # {} /\ Roomy(c) \subseteq DOMAIN waiters
        BY <2>18 DEF WakeOne, Roomy
      <4>2. Min(Roomy(c)) \in Roomy(c)
        BY <1>1, <4>1, MinIs DEF Shape
      <4> QED BY <1>1, <4>1, <4>2 DEF Shape, First
    <3>2. pc' = [pc EXCEPT ![c] = "done", ![d] = "woken"] /\ pc[d] = "asleep" /\ c # d
      BY <2>18 DEF WakeOne
    <3> HIDE DEF d
    <3>3. pc' \in [Calls -> States]
      BY <1>1, <3>1, <3>2 DEF Shape
    <3>4. ASSUME NEW x \in Calls PROVE Placed(x)' /\ AtStage(x)'
      <4>1. Placed(x) /\ AtStage(x)
        BY DEF Control
      <4>2. pc'[x] = IF x = c THEN "done" ELSE IF x = d THEN "woken" ELSE pc[x]
        BY <1>1, <3>1, <3>2 DEF Shape
      <4>3. Placed(x)'
        BY <1>2, <3>2, <4>1, <4>2 DEF Placed, WaitsForSpace, TwoFiles
      <4>4. AtStage(x)'
        BY <1>1, <1>2, <1>3, <3>2, <4>1, <4>2 DEF AtStage, OpSet, OpGet
      <4> QED BY <4>3, <4>4
    <3> QED BY <3>3, <3>4
  <2> HIDE DEF Goes
  <2> QED BY <2>1, <2>2, <2>3, <2>4, <2>5, <2>6, <2>7, <2>8, <2>9, <2>10,
             <2>11, <2>12, <2>13, <2>14, <2>15, <2>16, <2>17, <2>18, <2>19 DEF Step
<1>6. waiters' \in Seq(Calls)
  <2>1. waiters \in Seq(Calls)
    BY <1>1 DEF Shape
  <2>2. CASE Sleep(c)
    BY <2>1, <2>2 DEF Sleep
  <2>3. CASE WakeOne(c)
    <3>1. Roomy(c) # {} /\ Roomy(c) \subseteq DOMAIN waiters
      BY <2>3 DEF WakeOne, Roomy
    <3>2. Min(Roomy(c)) \in DOMAIN waiters
      BY <2>1, <3>1, MinIs
    <3> QED BY <2>1, <2>3, <3>2, RemoveAtIs DEF WakeOne
  <2> QED BY <2>1, <2>2, <2>3
          DEF Step, ReadFree, PassCheck, Resume, Cancel, WakeNobody, WakeRaises,
              WriteTemp, Rename, Erase, WriteFails, Exists, Read, OpenFile,
              OpenToWrite, OpenInPlace, CloseFile, CopyNothing, CopyOpens,
              FileFills, Move
<1>7. disk' \in [Keys -> Contents] /\ result' \in [Calls -> Contents]
      /\ fd' \in [Calls -> Keys \cup {None}]
  <2>1. /\ disk \in [Keys -> Contents] /\ result \in [Calls -> Contents]
        /\ fd \in [Calls -> Keys \cup {None}] /\ None \in Contents /\ Empty \in Contents
    BY <1>1 DEF Shape, Contents
  <2>2. pc[c] = "copy" => op[c].to \in Keys
    BY <1>1 DEF MayBe, TwoFiles
  <2>3. CASE Rename(c) \/ Erase(c)
    BY <1>4, <2>1, <2>3 DEF Rename, Erase, Put, Unlinked
  <2>4. CASE Exists(c) \/ Read(c)
    BY <1>4, <2>1, <2>4 DEF Exists, Read
  <2>5. CASE CopyNothing(c)
    BY <1>4, <2>1, <2>2, <2>5 DEF CopyNothing, Put, Unlinked
  <2>8. CASE CopyOpens(c) \/ OpenToWrite(c)
    <3>1. PICK k \in Keys, v \in Contents : OpenInPlace(c, k, v)
      BY <1>4, <2>1, <2>2, <2>8 DEF CopyOpens, OpenToWrite, Contents
    <3> QED BY <2>1, <3>1 DEF OpenInPlace, Put
  <2>6. CASE FileFills(c)
    BY <1>4, <2>1, <2>6 DEF FileFills, Put
  <2>7. CASE Move(c)
    BY <1>4, <2>1, <2>2, <2>7 DEF Move
  <2> QED BY <2>1, <2>3, <2>4, <2>5, <2>6, <2>7, <2>8
          DEF Step, ReadFree, PassCheck, Sleep, Resume, Cancel, WakeNobody,
              WakeOne, WakeRaises, WriteTemp, WriteFails, OpenFile, CloseFile
<1> QED BY <1>1, <1>2, <1>5, <1>6, <1>7 DEF Control, Shape

\* What a program begins with.
LEMMA FirstOpIs ==
  ASSUME StorageAssumption, MetaAssumption, NEW p \in Programs,
         p.kind \notin FutureKinds, turn \in DOMAIN Replicas
  PROVE  /\ FirstOp(p) \in Ops /\ TwoFiles(FirstOp(p)) /\ FirstOp(p).val # Empty
         /\ FirstOp(p).kind = "copy" => p.kind = "fscopy"
         /\ FirstOp(p).kind = "openw" => p.kind = "openw"
         /\ p.kind \in {"get", "replget", "fallback"} => FirstOp(p).kind = "get"
         /\ p.kind = "open" => FirstOp(p).kind = "open"
         /\ p.kind = "replset" => FirstOp(p) = OpSet(Replicas[1], p.val)
         /\ p.kind = "cacheget" => FirstOp(p) = OpGet(Store)
         /\ p.kind = "fieldset" => FirstOp(p) = OpGet(p.key)
<1>1. /\ p \in AllPrograms /\ None \in Contents /\ p.val \in Contents /\ p.val # Empty
      /\ Empty # None
  BY DEF MetaAssumption, StorageAssumption, AllPrograms, Contents
<1>2. /\ p.kind \in FileKinds \cup {"copy", "move", "fieldget", "fieldset"}
            => p.key \in Keys
      /\ p.kind \in {"fscopy", "fsmove", "copy", "move"}
            => p.to \in Keys /\ p.to # p.key
  BY DEF MetaAssumption
<1>3. /\ Replicas[1] \in Keys /\ Replicas[turn] \in Keys
      /\ Store \in Keys /\ Source \in Keys
  BY DEF MetaAssumption
<1>4. /\ \A k \in Keys : OpGet(k) \in Ops /\ OpGet(k).kind = "get" /\ OpGet(k).val = None
      /\ \A k \in Keys : OpSet(k, p.val) \in Ops /\ OpSet(k, p.val).kind = "set"
                           /\ OpSet(k, p.val).val = p.val
  BY <1>1 DEF OpGet, OpSet, Ops, Kinds
<1>5. p = [kind |-> p.kind, key |-> p.key, to |-> p.to, val |-> p.val]
  BY <1>1 DEF AllPrograms
<1>6. CASE p.kind \in {"set", "get", "open", "openw"}
  <2>1. FirstOp(p) = [p EXCEPT !.to = None]
    BY <1>6 DEF FirstOp
  <2>2. FirstOp(p) = [kind |-> p.kind, key |-> p.key, to |-> None, val |-> p.val]
    BY <1>1, <2>1 DEF AllPrograms
  <2>3. FirstOp(p) \in Ops
    BY <1>1, <1>2, <1>6, <2>2 DEF Ops, Kinds, FileKinds
  <2> QED BY <1>1, <1>6, <2>2, <2>3 DEF TwoFiles
<1>7. CASE p.kind = "fscopy"
  <2>1. FirstOp(p) = [p EXCEPT !.kind = "copy"]
    BY <1>7 DEF FirstOp
  <2>2. FirstOp(p) = [kind |-> "copy", key |-> p.key, to |-> p.to, val |-> p.val]
    BY <1>1, <2>1 DEF AllPrograms
  <2>3. FirstOp(p) \in Ops
    BY <1>1, <1>2, <1>7, <2>2 DEF Ops, Kinds, FileKinds
  <2> QED BY <1>1, <1>2, <1>7, <2>2, <2>3 DEF TwoFiles
<1>8. CASE p.kind = "fsmove"
  <2>1. FirstOp(p) = [p EXCEPT !.kind = "move"]
    BY <1>8 DEF FirstOp
  <2>2. FirstOp(p) = [kind |-> "move", key |-> p.key, to |-> p.to, val |-> p.val]
    BY <1>1, <2>1 DEF AllPrograms
  <2>3. FirstOp(p) \in Ops
    BY <1>1, <1>2, <1>8, <2>2 DEF Ops, Kinds, FileKinds
  <2> QED BY <1>1, <1>2, <1>8, <2>2, <2>3 DEF TwoFiles
<1>9. CASE p.kind \in {"copy", "move", "fieldget", "fieldset"}
  <2>1. FirstOp(p) = OpGet(p.key) /\ p.key \in Keys
    BY <1>2, <1>9 DEF FirstOp
  <2> QED BY <1>1, <1>4, <1>9, <2>1 DEF TwoFiles
<1>10. CASE p.kind \in {"fallback", "replget", "cacheget"}
  <2>1. PICK k \in Keys : FirstOp(p) = OpGet(k)
    BY <1>3, <1>10 DEF FirstOp
  <2>2. p.kind = "cacheget" => FirstOp(p) = OpGet(Store)
    BY DEF FirstOp
  <2> QED BY <1>1, <1>4, <1>10, <2>1, <2>2 DEF TwoFiles
<1>11. CASE p.kind \in {"replset", "cacheset"}
  <2>1. PICK k \in Keys : FirstOp(p) = OpSet(k, p.val)
    BY <1>3, <1>11 DEF FirstOp
  <2>2. p.kind = "replset" => FirstOp(p) = OpSet(Replicas[1], p.val)
    BY DEF FirstOp
  <2> QED BY <1>1, <1>4, <1>11, <2>1, <2>2 DEF TwoFiles
<1> QED BY <1>1, <1>6, <1>7, <1>8, <1>9, <1>10, <1>11
        DEF AllPrograms, FileKinds, MetaKinds

\* A call of a storage begins where its operation wants it; the others stay.
LEMMA BeginPlaces ==
  ASSUME Control, NEW c \in Calls, NEW o \in Ops, TwoFiles(o), Begin(c, o)
  PROVE  /\ pc' \in [Calls -> States] /\ op' \in [Calls -> Ops \cup {NoOp}]
         /\ op'[c] = o
         /\ pc'[c] = (IF WaitsForSpace(o) THEN "check" ELSE Work(o))
         /\ pc'[c] \in {"check", "write", "exists", "open", "copy"}
         /\ Placed(c)'
         /\ \A d \in Calls \ {c} :
              op'[d] = op[d] /\ pc'[d] = pc[d] /\ Placed(d)'
<1>1. Shape /\ \A d \in Calls : MayBe(op[d], pc[d]) /\ TwoFiles(op[d])
  BY DEF Control, Placed
<1>2. o.kind \in Kinds
  BY DEF Ops
<1>3. op'[c] = o /\ pc'[c] = (IF WaitsForSpace(o) THEN "check" ELSE Work(o))
  BY <1>1 DEF Begin, GoTo, Shape
<1>4. \A d \in Calls \ {c} : op'[d] = op[d] /\ pc'[d] = pc[d]
  BY <1>1 DEF Begin, GoTo, Shape
<1>5. pc'[c] \in {"check", "write", "exists", "open", "copy"}
  BY <1>3 DEF Work
<1>6. pc' \in [Calls -> States] /\ op' \in [Calls -> Ops \cup {NoOp}]
  BY <1>1, <1>3, <1>5 DEF Begin, GoTo, Shape, States
<1>7. MayBe(op'[c], pc'[c])
  BY <1>2, <1>3 DEF MayBe, Work, Kinds, WaitsForSpace
<1>8. Placed(c)' /\ \A d \in Calls \ {c} : Placed(d)'
  BY <1>1, <1>3, <1>4, <1>7 DEF Placed, MayBe, TwoFiles, WaitsForSpace
<1> QED BY <1>3, <1>4, <1>5, <1>6, <1>8

\* Where a program has not moved, it is where it was.
LEMMA StageKept ==
  ASSUME NEW d \in Calls, AtStage(d), prog'[d] = prog[d], stage'[d] = stage[d],
         op'[d] = op[d], waitsFor'[d] = waitsFor[d],
         waitsFor[d] # None => pc'[d] = pc[d]
  PROVE  AtStage(d)'
BY DEF AtStage, OpSet, OpGet

\* How far a program goes on.
LEMMA ContinueControl ==
  ASSUME StorageAssumption, MetaAssumption, Control, NEW c \in Calls, Continue(c)
  PROVE  Control'
<1>1. Shape /\ AtStage(c) /\ \A d \in Calls : AtStage(d) /\ Placed(d)
  BY DEF Control
<1>2. /\ UNCHANGED <<prog, turn, futureVars>>
      /\ UNCHANGED <<disk, waiters, result, fd>>
  BY DEF Continue, TryNext, ReplicateNext, AskSource, Fill, CopySet, MoveDelete,
         FieldSet, FieldFails, Then, Begin
<1>3. CASE FieldFails(c)
  <2>1. MayBe(op[c], "failed") /\ "failed" \in States
    BY DEF MayBe, States
  <2>2. pc' \in [Calls -> States] /\ \A d \in Calls : Placed(d)' /\ AtStage(d)'
    BY <1>3, <2>1, PlaceKept DEF FieldFails, futureVars
  <2> QED BY <1>1, <1>3, <2>2 DEF FieldFails, Control, Shape, futureVars
<1>4. ASSUME NEW o \in Ops, NEW kind, TwoFiles(o), Then(c, kind, o),
             carry' \in [Calls -> Contents], stage[c] < Len(Replicas) \/ stage[c] < 3,
             AtStage(c)'
      PROVE  Control'
  <2>1. Begin(c, o)
    BY <1>4 DEF Then
  <2>2. /\ pc' \in [Calls -> States] /\ op' \in [Calls -> Ops \cup {NoOp}]
        /\ \A d \in Calls : Placed(d)'
        /\ \A d \in Calls \ {c} : op'[d] = op[d] /\ pc'[d] = pc[d]
    BY <1>4, <2>1, BeginPlaces
  <2>3. stage' \in [Calls -> 0..(Len(Replicas) + 3)]
        /\ \A d \in Calls \ {c} : stage'[d] = stage[d]
    <3>1. Len(Replicas) \in Nat /\ stage \in [Calls -> 0..(Len(Replicas) + 3)]
      BY <1>1 DEF MetaAssumption, Shape
    <3> QED BY <1>4, <3>1 DEF Then
  <2>4. \A d \in Calls \ {c} : AtStage(d)'
    BY <1>1, <1>2, <2>2, <2>3, StageKept DEF futureVars
  <2>5. Shape'
    BY <1>1, <1>2, <1>4, <2>2, <2>3 DEF Shape, futureVars
  <2> QED BY <1>4, <2>2, <2>4, <2>5 DEF Control
<1>5. /\ prog[c] \in Programs \cup {NoProgram} /\ NoProgram.kind = "none"
      /\ result[c] \in Contents /\ carry \in [Calls -> Contents]
      /\ stage \in [Calls -> 0..(Len(Replicas) + 3)] /\ Len(Replicas) \in Nat
      /\ None \in Contents
  BY <1>1 DEF Shape, NoProgram, MetaAssumption, Contents
<1>6. prog[c].kind # "none" => prog[c] \in AllPrograms /\ prog[c].val \in Contents
  BY <1>5 DEF MetaAssumption, AllPrograms, Contents
<1>7. /\ \A k \in Keys : OpGet(k) \in Ops /\ TwoFiles(OpGet(k)) /\ OpGet(k).kind = "get"
      /\ \A k \in Keys, v \in Contents :
           /\ OpSet(k, v) \in Ops /\ TwoFiles(OpSet(k, v))
           /\ OpSet(k, v).kind = "set" /\ OpSet(k, v).key = k
  BY <1>5 DEF OpGet, OpSet, Ops, Kinds, TwoFiles
<1>8. ASSUME NEW o, NEW kind, Then(c, kind, o), o \in Ops, TwoFiles(o)
      PROVE  /\ op'[c] = o /\ stage'[c] = stage[c] + 1 /\ prog[c].kind = kind
             /\ prog'[c] = prog[c] /\ pc[c] = "done" /\ waitsFor'[c] = waitsFor[c]
  BY <1>2, <1>5, <1>8, BeginPlaces DEF Then, futureVars
<1>9. pc[c] = "done" => waitsFor[c] = None
  BY <1>1 DEF AtStage
<1> USE DEF AtStage
<1>10. CASE TryNext(c)
  <2> DEFINE o == OpGet(Replicas[stage[c] + 1])
  <2>1. o \in Ops /\ TwoFiles(o) /\ o.kind = "get"
    BY <1>5, <1>7, <1>10 DEF TryNext, MetaAssumption
  <2>2. Then(c, "fallback", o)
    BY <1>10 DEF TryNext
  <2> HIDE DEF o
  <2>3. AtStage(c)'
    BY <1>8, <1>9, <2>1, <2>2 DEF FutureKinds
  <2> QED BY <1>4, <1>5, <1>10, <2>1, <2>2, <2>3 DEF TryNext
<1>11. CASE ReplicateNext(c)
  <2> DEFINE o == OpSet(Replicas[stage[c] + 1], prog[c].val)
  <2>1. Then(c, "replset", o) /\ stage[c] < Len(Replicas) /\ stage[c] \in Nat
    BY <1>5, <1>11 DEF ReplicateNext
  <2>2. prog[c].kind = "replset"
    BY <2>1 DEF Then
  <2>3. o \in Ops /\ TwoFiles(o) /\ o.kind = "set"
    BY <1>5, <1>6, <1>7, <2>1, <2>2 DEF MetaAssumption
  <2>4. /\ op'[c] = o /\ stage'[c] = stage[c] + 1 /\ prog'[c] = prog[c]
        /\ waitsFor'[c] = None
    BY <1>8, <1>9, <2>1, <2>3
  <2>5. stage'[c] \in 1..Len(Replicas)
    BY <1>5, <2>1, <2>4
  <2>6. AtStage(c)'
    BY <1>1, <2>2, <2>3, <2>4, <2>5 DEF FutureKinds, OpSet
  <2> QED BY <1>4, <1>5, <1>11, <2>1, <2>3, <2>6 DEF ReplicateNext
<1>12. CASE AskSource(c)
  <2>1. Then(c, "cacheget", OpGet(Source)) /\ stage[c] = 1
    BY <1>12 DEF AskSource
  <2>2. OpGet(Source) \in Ops /\ TwoFiles(OpGet(Source)) /\ OpGet(Source).kind = "get"
    BY <1>7 DEF MetaAssumption
  <2>3. AtStage(c)'
    BY <1>8, <1>9, <2>1, <2>2 DEF FutureKinds
  <2> QED BY <1>4, <1>5, <1>12, <2>1, <2>2, <2>3 DEF AskSource
<1>13. CASE Fill(c)
  <2> DEFINE o == OpSet(Store, result[c])
  <2>1. Then(c, "cacheget", o) /\ stage[c] = 2
    BY <1>13 DEF Fill
  <2>2. o \in Ops /\ TwoFiles(o) /\ o.kind = "set" /\ o.key = Store
    BY <1>5, <1>7 DEF MetaAssumption
  <2>3. carry' \in [Calls -> Contents]
    BY <1>5, <1>13 DEF Fill
  <2> HIDE DEF o
  <2>4. AtStage(c)'
    BY <1>8, <1>9, <2>1, <2>2 DEF FutureKinds
  <2> QED BY <1>4, <2>1, <2>2, <2>3, <2>4
<1>14. ASSUME NEW kind \in {"copy", "move"}, CopySet(c, kind) PROVE Control'
  <2> DEFINE o == OpSet(prog[c].to, result[c])
  <2>1. Then(c, kind, o) /\ stage[c] = 1
    BY <1>14 DEF CopySet
  <2>2. prog[c].kind = kind
    BY <2>1 DEF Then
  <2>3. o \in Ops /\ TwoFiles(o) /\ o.kind = "set"
    BY <1>5, <1>7, <2>2 DEF MetaAssumption
  <2>4. carry' \in [Calls -> Contents]
    BY <1>5, <1>14 DEF CopySet
  <2> HIDE DEF o
  <2>5. AtStage(c)'
    BY <1>8, <1>9, <2>1, <2>2, <2>3 DEF FutureKinds
  <2> QED BY <1>4, <2>1, <2>3, <2>4, <2>5
<1>15. CASE MoveDelete(c)
  <2> DEFINE o == OpSet(prog[c].key, None)
  <2>1. Then(c, "move", o) /\ stage[c] = 2
    BY <1>15 DEF MoveDelete
  <2>2. prog[c].kind = "move"
    BY <2>1 DEF Then
  <2>3. o \in Ops /\ TwoFiles(o) /\ o.kind = "set"
    BY <1>5, <1>7, <2>2 DEF MetaAssumption
  <2> HIDE DEF o
  <2>4. AtStage(c)'
    BY <1>8, <1>9, <2>1, <2>2, <2>3 DEF FutureKinds
  <2> QED BY <1>4, <1>5, <1>15, <2>1, <2>3, <2>4 DEF MoveDelete
<1>16. CASE FieldSet(c)
  <2> DEFINE o == OpSet(prog[c].key, WithField(result[c]))
  <2>1. Then(c, "fieldset", o) /\ stage[c] = 1 /\ WithField(result[c]) \in Contents
    BY <1>16 DEF FieldSet, MetaAssumption, Contents
  <2>2. prog[c].kind = "fieldset"
    BY <2>1 DEF Then
  <2>3. o \in Ops /\ TwoFiles(o) /\ o.kind = "set" /\ o.key = prog[c].key
    BY <1>5, <1>7, <2>1, <2>2 DEF MetaAssumption
  <2>4. carry' \in [Calls -> Contents]
    BY <1>5, <1>16 DEF FieldSet
  <2> HIDE DEF o
  <2>5. AtStage(c)'
    BY <1>8, <1>9, <2>1, <2>2, <2>3 DEF FutureKinds
  <2> QED BY <1>4, <2>1, <2>3, <2>4, <2>5
<1> QED BY <1>3, <1>10, <1>11, <1>12, <1>13, <1>14, <1>15, <1>16 DEF Continue

\* The first call of a program.
LEMMA CallControl ==
  ASSUME StorageAssumption, MetaAssumption, Control, NEW c \in Calls,
         NEW p \in Programs, Call(c, p)
  PROVE  Control'
<1>1. Shape /\ \A d \in Calls : AtStage(d)
  BY DEF Control
<1>2. /\ FirstOp(p) \in Ops /\ TwoFiles(FirstOp(p))
      /\ FirstOp(p).kind = "copy" => p.kind = "fscopy"
      /\ FirstOp(p).kind = "openw" => p.kind = "openw"
      /\ p.kind \in {"get", "replget", "fallback"} => FirstOp(p).kind = "get"
      /\ p.kind = "open" => FirstOp(p).kind = "open"
      /\ p.kind = "replset" => FirstOp(p) = OpSet(Replicas[1], p.val)
      /\ p.kind = "cacheget" => FirstOp(p) = OpGet(Store)
      /\ p.kind = "fieldset" => FirstOp(p) = OpGet(p.key)
  BY <1>1, FirstOpIs DEF Call, Shape
<1>3. /\ pc' \in [Calls -> States] /\ op' \in [Calls -> Ops \cup {NoOp}]
      /\ op'[c] = FirstOp(p)
      /\ \A d \in Calls : Placed(d)'
      /\ \A d \in Calls \ {c} : op'[d] = op[d] /\ pc'[d] = pc[d]
  BY <1>2, BeginPlaces DEF Call
<1>4. /\ prog \in [Calls -> Programs \cup {NoProgram}] /\ NoProgram.kind = "none"
      /\ stage \in [Calls -> 0..(Len(Replicas) + 3)] /\ Len(Replicas) \in Nat \ {0}
      /\ turn \in 1..Len(Replicas)
  BY <1>1 DEF Shape, NoProgram, MetaAssumption
<1>5. /\ prog'[c] = p /\ stage'[c] = 1
      /\ \A d \in Calls \ {c} : prog'[d] = prog[d] /\ stage'[d] = stage[d]
      /\ waitsFor' = waitsFor /\ waitsFor[c] = None
  <2>1. prog[c].kind = "none" /\ AtStage(c)
    BY <1>1, <1>4 DEF Call
  <2> QED BY <1>4, <2>1 DEF Call, futureVars, AtStage
<1>6. AtStage(c)'
  <2>1. p.kind # "none"
    BY DEF MetaAssumption, AllPrograms, FileKinds, MetaKinds, FutureKinds
  <2>2. p.kind \notin FutureKinds /\ 1 \in 1..Len(Replicas)
    BY <1>4 DEF Call
  <2> QED BY <1>2, <1>3, <1>5, <2>1, <2>2 DEF AtStage, OpSet, OpGet
<1>7. \A d \in Calls \ {c} : AtStage(d)'
  BY <1>1, <1>3, <1>5, StageKept
<1>8. /\ prog' \in [Calls -> Programs \cup {NoProgram}]
      /\ stage' \in [Calls -> 0..(Len(Replicas) + 3)]
      /\ turn' \in DOMAIN Replicas
  BY <1>4 DEF Call, MetaAssumption
<1>9. Shape'
  BY <1>1, <1>3, <1>8 DEF Call, Begin, Shape, futureVars
<1> QED BY <1>3, <1>6, <1>7, <1>9 DEF Control

\* What happens to a future moves the calls that set or await it, and no other.
LEMMA FutureControl ==
  ASSUME StorageAssumption, MetaAssumption, Control, NEW c \in Calls,
         \/ \E p \in Programs : FutureCall(c, p)
         \/ FutureResume(c) \/ FutureCancel(c)
  PROVE  Control' /\ pc[c] = "idle" /\ pc'[c] \in {"idle", "done", "failed"}
         /\ \A d \in Calls \ {c} : pc'[d] = pc[d]
<1>1. Shape /\ AtStage(c) /\ \A d \in Calls : AtStage(d) /\ Placed(d)
  BY DEF Control
<1>2. /\ UNCHANGED <<disk, waiters, op, result, fd, stage, carry, turn>>
  BY DEF FutureCall, FutureResume, FutureCancel
<1>3. pc[c] = "idle"
  BY <1>1 DEF FutureCall, FutureResume, FutureCancel, AtStage
<1>4. /\ pc' \in [Calls -> States] /\ pc'[c] \in {"idle", "done", "failed"}
      /\ \A d \in Calls \ {c} : pc'[d] = pc[d]
  <2>1. pc \in [Calls -> States]
    BY <1>1 DEF Shape
  <2>2. CASE \E p \in Programs : FutureCall(c, p)
    BY <2>1, <2>2 DEF FutureCall, GoTo, States
  <2>3. CASE FutureResume(c)
    BY <2>1, <2>3 DEF FutureResume, GoTo, States
  <2>4. CASE FutureCancel(c)
    BY <1>3, <2>1, <2>4 DEF FutureCancel
  <2> QED BY <2>2, <2>3, <2>4
<1>5. \A d \in Calls : Placed(d)'
  BY <1>1, <1>2, <1>4 DEF Placed, MayBe, TwoFiles, WaitsForSpace
<1>6. /\ future \in [Calls -> FutureStates] /\ current \in Calls \cup {None}
      /\ waitsFor \in [Calls -> Calls \cup {None}] /\ None \notin Calls
      /\ prog \in [Calls -> Programs \cup {NoProgram}]
  BY <1>1 DEF Shape, StorageAssumption
<1>7. CASE FutureCancel(c)
  <2>1. /\ prog' = prog /\ waitsFor' = waitsFor /\ current' = current /\ pc' = pc
        /\ future' \in [Calls -> FutureStates]
    BY <1>6, <1>7 DEF FutureCancel, FutureStates
  <2>2. \A d \in Calls : AtStage(d)'
    BY <1>1, <1>2, <2>1, StageKept
  <2> QED BY <1>1, <1>2, <1>3, <1>4, <1>5, <2>1, <2>2 DEF Control, Shape
<1>8. CASE FutureResume(c)
  <2>1. /\ prog' = prog /\ future' = future
        /\ waitsFor' = [waitsFor EXCEPT ![c] = None]
        /\ current' \in Calls \cup {None}
    BY <1>6, <1>8 DEF FutureResume, Kept
  <2>2. waitsFor' \in [Calls -> Calls \cup {None}] /\ waitsFor'[c] = None
        /\ \A d \in Calls \ {c} : waitsFor'[d] = waitsFor[d]
    BY <1>6, <2>1
  <2>3. AtStage(c)'
    BY <1>1, <1>2, <2>1, <2>2 DEF AtStage, OpSet, OpGet
  <2>4. \A d \in Calls \ {c} : AtStage(d)'
    BY <1>1, <1>2, <1>4, <2>1, <2>2, StageKept
  <2> QED BY <1>1, <1>2, <1>3, <1>4, <1>5, <2>1, <2>2, <2>3, <2>4 DEF Control, Shape
<1>9. ASSUME NEW p \in Programs, FutureCall(c, p) PROVE Control'
  <2>1. /\ prog' = [prog EXCEPT ![c] = p] /\ prog[c] = NoProgram
        /\ prog' \in [Calls -> Programs \cup {NoProgram}]
        /\ prog'[c] = p /\ \A d \in Calls \ {c} : prog'[d] = prog[d]
    BY <1>6, <1>9 DEF FutureCall
  <2>2. prog[c].kind = "none" /\ op[c] = NoOp
    BY <1>1, <2>1 DEF NoProgram, AtStage
  <2>3. p.kind \in FutureKinds /\ p.val \in FutureStates /\ NoOp.kind = "none"
    BY <1>9 DEF FutureCall, FutureSet, FutureGet, FutureKinds, MetaAssumption,
                AllPrograms, FutureStates, NoOp
  <2>4. /\ future' \in [Calls -> FutureStates] /\ current' \in Calls \cup {None}
    <3>1. CASE FutureSet(c, p)
      BY <1>6, <2>3, <3>1 DEF FutureSet, Kept, Entry
    <3>2. CASE FutureGet(c, p)
      BY <1>6, <3>2 DEF FutureGet, FutureStates
    <3> QED BY <1>9, <3>1, <3>2 DEF FutureCall
  <2>5. /\ waitsFor' \in [Calls -> Calls \cup {None}]
        /\ \A d \in Calls \ {c} : waitsFor'[d] = waitsFor[d]
        /\ waitsFor'[c] # None => p.kind = "futget" /\ pc'[c] = "idle"
    <3>1. CASE FutureSet(c, p)
      <4>1. waitsFor' = waitsFor /\ waitsFor[c] = None
        BY <1>1, <2>2, <3>1 DEF FutureSet, AtStage
      <4> QED BY <1>6, <4>1
    <3>2. CASE FutureGet(c, p)
      <4>1. p.kind = "futget" /\ pc'[c] = "idle"
        BY <1>1, <1>9, <3>2 DEF FutureGet, FutureCall, GoTo, Shape
      <4> QED BY <1>6, <3>2, <4>1 DEF FutureGet
    <3> QED BY <1>9, <3>1, <3>2 DEF FutureCall
  <2>6. AtStage(c)'
    BY <1>2, <2>1, <2>2, <2>3, <2>5 DEF AtStage, FutureKinds
  <2>7. \A d \in Calls \ {c} : AtStage(d)'
    BY <1>1, <1>2, <1>4, <2>1, <2>5, StageKept
  <2> QED BY <1>1, <1>2, <1>4, <1>5, <2>1, <2>4, <2>5, <2>6, <2>7 DEF Control, Shape
<1> QED BY <1>3, <1>4, <1>7, <1>8, <1>9

LEMMA InitControl == StorageAssumption /\ MetaAssumption /\ Init => Control
<1> SUFFICES ASSUME StorageAssumption, MetaAssumption, Init PROVE Control
  OBVIOUS
<1>1. Shape
  BY DEF Init, StorageInit, Shape, Contents, States, FutureStates, MetaAssumption
<1>2. \A c \in Calls : Placed(c) /\ AtStage(c)
  BY DEF Init, StorageInit, Placed, AtStage, MayBe, TwoFiles, NoOp, NoProgram,
         FutureKinds
<1> QED BY <1>1, <1>2 DEF Control

LEMMA NextControl ==
  StorageAssumption /\ MetaAssumption /\ Control /\ [Next]_vars => Control'
<1> SUFFICES ASSUME StorageAssumption, MetaAssumption, Control, [Next]_vars
             PROVE  Control'
  OBVIOUS
<1>1. CASE UNCHANGED vars
  BY <1>1 DEF vars, storageVars, metaVars, futureVars, Control, Shape, Placed,
              AtStage, MayBe, TwoFiles, WaitsForSpace, OpSet, OpGet
<1>2. ASSUME NEW c \in Calls, NEW p \in Programs, Call(c, p) PROVE Control'
  BY <1>2, CallControl
<1>3. ASSUME NEW c \in Calls, StorageStep(c) PROVE Control'
  BY <1>3, StepControl DEF StorageStep
<1>4. ASSUME NEW c \in Calls, Continue(c) PROVE Control'
  BY <1>4, ContinueControl
<1>5. ASSUME NEW c \in Calls,
             \/ \E p \in Programs : FutureCall(c, p)
             \/ FutureResume(c) \/ FutureCancel(c)
      PROVE  Control'
  BY <1>5, FutureControl
<1> QED BY <1>1, <1>2, <1>3, <1>4, <1>5 DEF Next

-----------------------------------------------------------------------------
(* Futures                                                                 *)

\* The weak dictionary forgets a future only when nobody awaits it.
LEMMA NextWaitersReachable ==
  ASSUME StorageAssumption, MetaAssumption, Control, WaitersReachable, [Next]_vars
  PROVE  WaitersReachable'
<1>1. /\ future \in [Calls -> FutureStates] /\ current \in Calls \cup {None}
      /\ waitsFor \in [Calls -> Calls \cup {None}] /\ None \notin Calls
  BY DEF Control, Shape, StorageAssumption
<1>2. CASE UNCHANGED futureVars
  BY <1>2 DEF WaitersReachable, futureVars
<1>3. ASSUME NEW c \in Calls, NEW p \in Programs, FutureCall(c, p)
      PROVE  WaitersReachable'
  <2>1. p.val # "pending"
    BY DEF MetaAssumption, AllPrograms
  <2>2. CASE FutureSet(c, p)
    BY <1>1, <2>1, <2>2 DEF FutureSet, Entry, Kept, Awaited, WaitersReachable
  <2>3. CASE FutureGet(c, p)
    BY <1>1, <2>3 DEF FutureGet, WaitersReachable
  <2> QED BY <1>3, <2>2, <2>3 DEF FutureCall
<1>4. ASSUME NEW c \in Calls, FutureResume(c) PROVE WaitersReachable'
  BY <1>1, <1>4 DEF FutureResume, Kept, Awaited, WaitersReachable
<1>5. ASSUME NEW c \in Calls, FutureCancel(c) PROVE WaitersReachable'
  BY <1>1, <1>5 DEF FutureCancel, WaitersReachable
<1>6. ASSUME NEW c \in Calls,
             StorageStep(c) \/ Continue(c) \/ \E p \in Programs : Call(c, p)
      PROVE  UNCHANGED futureVars
  BY <1>6 DEF StorageStep, Continue, Call, TryNext, ReplicateNext, AskSource, Fill,
              CopySet, MoveDelete, FieldSet, FieldFails, Then
<1>7. UNCHANGED vars => UNCHANGED futureVars
  BY DEF vars, metaVars, futureVars
<1> QED BY <1>2, <1>3, <1>4, <1>5, <1>6, <1>7 DEF Next

-----------------------------------------------------------------------------
(* Operations                                                              *)

\* The steps of a storage leave every operation alone.
LEMMA StepOp ==
  ASSUME NEW c \in Calls, Step(c)
  PROVE  op' = op
BY DEF Step, ReadFree, PassCheck, Sleep, Resume, Cancel, WakeNobody, WakeOne,
       WakeRaises, WriteTemp, Rename, Erase, WriteFails, Exists, Read, OpenFile,
       OpenToWrite, OpenInPlace, CloseFile, CopyNothing, CopyOpens, FileFills,
       Move

\* What a program that goes on leaves alone.
LEMMA ContinueOp ==
  ASSUME Control, NEW c \in Calls, Continue(c)
  PROVE  /\ \A d \in Calls \ {c} : op'[d] = op[d]
         /\ UNCHANGED <<disk, litter, waiters, free, result, fd, outdated,
                        prog, turn, futureVars, raced>>
<1>1. op \in [Calls -> Ops \cup {NoOp}]
  BY DEF Control, Shape
<1> QED
  BY <1>1 DEF Continue, TryNext, ReplicateNext, AskSource, Fill, CopySet,
                    MoveDelete, FieldSet, FieldFails, Then, Begin

-----------------------------------------------------------------------------
(* Free space                                                              *)

LEMMA Amount ==
  ASSUME StorageAssumption, DiskAssumption, Control
  PROVE  /\ \A v \in Contents : Size(v) \in Nat
         /\ \A k \in Keys : disk[k] \in Contents /\ Used[k] = Size(disk[k])
                              /\ Used[k] \in Nat
         /\ \A c \in Calls : op[c].val \in Contents /\ Held[c] \in Nat
              /\ Held[c] = IF pc[c] = "tmp" THEN Size(op[c].val) ELSE 0
         /\ SumFunctionOnSet(Used, Keys) \in Nat
         /\ SumFunctionOnSet(Held, Calls) \in Nat
         /\ Capacity \in Nat /\ Limit \in Nat /\ Size(None) = 0
<1>1. \A v \in Contents : Size(v) \in Nat
  BY DEF StorageAssumption, Contents
<1>2. \A k \in Keys : disk[k] \in Contents /\ Used[k] = Size(disk[k])
  BY DEF Control, Shape, Used
<1>3. ASSUME NEW c \in Calls PROVE op[c].val \in Contents
  <2>1. op[c] \in Ops \/ op[c].val = None
    BY DEF Control, Shape, NoOp
  <2> QED BY <2>1 DEF Ops, Contents
<1>4. \A c \in Calls : Held[c] = IF pc[c] = "tmp" THEN Size(op[c].val) ELSE 0
  BY DEF Held
<1>5. \A k \in Keys : Used[k] \in Nat
  BY <1>1, <1>2
<1>6. \A c \in Calls : Held[c] \in Nat
  BY <1>1, <1>3, <1>4
<1>7. IsFiniteSet(Keys) /\ IsFiniteSet(Calls)
  BY DEF StorageAssumption
<1>8. SumFunctionOnSet(Used, Keys) \in Nat /\ SumFunctionOnSet(Held, Calls) \in Nat
  BY <1>5, <1>6, <1>7, SumNat
<1> QED BY <1>1, <1>2, <1>3, <1>4, <1>5, <1>6, <1>8
        DEF DiskAssumption, StorageAssumption

\* What a new content of a file takes.
LEMMA UsedPut ==
  ASSUME StorageAssumption, DiskAssumption, Control, Control',
         NEW k \in Keys, NEW v \in Contents, disk' = [disk EXCEPT ![k] = v]
  PROVE  SumFunctionOnSet(Used', Keys) =
           SumFunctionOnSet(Used, Keys) - Size(disk[k]) + Size(v)
<1>1. disk \in [Keys -> Contents]
  BY DEF Control, Shape
<1>2. Used'[k] = Size(v) /\ Used[k] = Size(disk[k])
  BY <1>1 DEF Used
<1>3. \A l \in Keys \ {k} : Used'[l] = Used[l]
  BY <1>1 DEF Used
<1>4. \A l \in Keys : Used[l] \in Nat
  BY Amount
<1>5. \A l \in Keys : Used'[l] \in Nat
  BY <1>2, <1>3, <1>4, Amount
<1>6. IsFiniteSet(Keys)
  BY DEF StorageAssumption
<1>7. PICK f, g : f = Used /\ g = Used'
  OBVIOUS
<1>8. SumFunctionOnSet(g, Keys) = SumFunctionOnSet(f, Keys) - f[k] + g[k]
  BY <1>3, <1>4, <1>5, <1>6, <1>7, SumUpdate
<1> QED BY <1>2, <1>7, <1>8

\* What a call holds in its temporary file.
LEMMA HeldMove ==
  ASSUME StorageAssumption, DiskAssumption, Control, NEW c \in Calls, NEW s,
         pc' = [pc EXCEPT ![c] = s], op' = op
  PROVE  SumFunctionOnSet(Held', Calls) =
           SumFunctionOnSet(Held, Calls)
             - (IF pc[c] = "tmp" THEN Size(op[c].val) ELSE 0)
             + (IF s = "tmp" THEN Size(op[c].val) ELSE 0)
<1>1. pc \in [Calls -> States]
  BY DEF Control, Shape
<1>2. Held'[c] = IF s = "tmp" THEN Size(op[c].val) ELSE 0
  BY <1>1 DEF Held
<1>3. \A d \in Calls \ {c} : Held'[d] = Held[d]
  BY <1>1 DEF Held
<1>4. /\ \A d \in Calls : Held[d] \in Nat /\ Size(op[c].val) \in Nat
      /\ Held[c] = IF pc[c] = "tmp" THEN Size(op[c].val) ELSE 0
  BY Amount
<1>5. \A d \in Calls : Held'[d] \in Nat
  BY <1>2, <1>3, <1>4
<1>6. IsFiniteSet(Calls)
  BY DEF StorageAssumption
<1>7. PICK f, g : f = Held /\ g = Held'
  OBVIOUS
<1>8. SumFunctionOnSet(g, Calls) = SumFunctionOnSet(f, Calls) - f[c] + g[c]
  <2>1. /\ \A d \in Calls : f[d] \in Nat /\ g[d] \in Nat
        /\ \A d \in Calls \ {c} : f[d] = g[d]
    BY <1>3, <1>4, <1>5, <1>7
  <2> QED BY <1>6, <2>1, SumUpdate
<1> QED BY <1>2, <1>4, <1>7, <1>8

\* As long as no file and no temporary file changes, there is as much.
LEMMA FreeSame ==
  ASSUME disk' = disk, litter' = litter,
         \A d \in Calls : /\ pc'[d] = "tmp" <=> pc[d] = "tmp"
                          /\ pc[d] = "tmp" => op'[d] = op[d]
  PROVE  Free' = Free
<1>1. Used' = Used
  BY DEF Used
<1>2. \A d \in Calls : (IF pc'[d] = "tmp" THEN Size(op'[d].val) ELSE 0)
                         = (IF pc[d] = "tmp" THEN Size(op[d].val) ELSE 0)
  OBVIOUS
<1>3. Held' = Held
  BY <1>2 DEF Held
<1> QED BY <1>1, <1>3 DEF Free

\* The free space after each step of a storage.
Opens(c) == CopyOpens(c) \/ OpenToWrite(c)
LEMMA FreeStep ==
  ASSUME StorageAssumption, DiskAssumption, Control, Control', Amounts,
         NEW c \in Calls, Step(c)
  PROVE  /\ \/ Free' = Free /\ litter' = litter
            \/ WriteTemp(c) \/ Rename(c) \/ Erase(c) \/ WriteFails(c)
            \/ CopyNothing(c) \/ Opens(c) \/ FileFills(c) \/ Move(c)
         /\ WriteTemp(c) => litter' = litter /\ Free' = Free - Size(op[c].val)
         /\ Rename(c) \/ Erase(c) \/ CopyNothing(c) \/ Opens(c) \/ Move(c)
              => litter' = litter /\ Free' >= Free /\ Free' \in Nat
         /\ WriteFails(c) => /\ Free' = Free - (litter' - litter)
                             /\ litter' = IF Free < Size(op[c].val)
                                          THEN litter + Free ELSE litter
         /\ FileFills(c) => litter' = litter /\ Free' \in Nat
<1>1. /\ Shape /\ TwoFiles(op[c]) /\ MayBe(op[c], pc[c])
      /\ pc \in [Calls -> States] /\ disk \in [Keys -> Contents]
  BY DEF Control, Shape, Placed
<1>2. /\ \A v \in Contents : Size(v) \in Nat
      /\ \A k \in Keys : disk[k] \in Contents
      /\ op[c].val \in Contents
      /\ None \in Contents /\ Empty \in Contents /\ Size(None) = 0 /\ Size(Empty) = 0
      /\ Capacity \in Nat /\ litter \in Nat /\ Free \in Nat
      /\ SumFunctionOnSet(Used, Keys) \in Nat /\ SumFunctionOnSet(Held, Calls) \in Nat
  BY Amount DEF Amounts, Contents, StorageAssumption
<1>3. op' = op
  BY StepOp
<1>4. Free = Capacity - litter - SumFunctionOnSet(Used, Keys)
                - SumFunctionOnSet(Held, Calls)
  BY DEF Free
<1>5. Free' = Capacity - litter' - SumFunctionOnSet(Used', Keys)
                 - SumFunctionOnSet(Held', Calls)
  BY DEF Free
<1>6. pc[c] \notin {"idle", "done", "failed", "cancelled"} => op[c].key \in Keys
  BY OpIs
<1>7. pc[c] = "copy" => op[c].to \in Keys /\ op[c].to # op[c].key
  BY <1>1 DEF MayBe, TwoFiles
<1>8. ASSUME NEW s, GoTo(c, s)
      PROVE  SumFunctionOnSet(Held', Calls) =
                SumFunctionOnSet(Held, Calls)
                  - (IF pc[c] = "tmp" THEN Size(op[c].val) ELSE 0)
                  + (IF s = "tmp" THEN Size(op[c].val) ELSE 0)
  BY <1>3, <1>8, HeldMove DEF GoTo
<1>9. ASSUME NEW k \in Keys, NEW v \in Contents, Put(k, v)
      PROVE  SumFunctionOnSet(Used', Keys) =
                SumFunctionOnSet(Used, Keys) - Size(disk[k]) + Size(v)
  BY <1>9, UsedPut DEF Put
<1>10. disk' = disk => SumFunctionOnSet(Used', Keys) = SumFunctionOnSet(Used, Keys)
  BY DEF Used
<1>11. (Free' = Free /\ litter' = litter)
         \/ WriteTemp(c) \/ Rename(c) \/ Erase(c) \/ WriteFails(c)
         \/ CopyNothing(c) \/ Opens(c) \/ FileFills(c) \/ Move(c)
  <2>1. ASSUME NEW s, GoTo(c, s), s # "tmp", pc[c] # "tmp", disk' = disk, litter' = litter
        PROVE  Free' = Free /\ litter' = litter
    BY <1>2, <1>4, <1>5, <1>8, <1>10, <2>1
  <2>2. ReadFree(c) => Free' = Free /\ litter' = litter
    <3>1. ReadFree(c) => GoTo(c, IF pc[c] = "check" THEN "checked" ELSE "notified")
            /\ pc[c] # "tmp" /\ disk' = disk /\ litter' = litter
      BY DEF ReadFree
    <3> QED BY <2>1, <3>1
  <2>3. PassCheck(c) \/ Sleep(c) \/ WakeNobody(c) \/ WakeRaises(c) \/ Cancel(c)
          => Free' = Free /\ litter' = litter
    BY <2>1 DEF PassCheck, Sleep, WakeNobody, WakeRaises, Cancel
  <2>4. Resume(c) => Free' = Free /\ litter' = litter
    BY <2>1 DEF Resume, Work
  <2>5. Exists(c) \/ Read(c) \/ OpenFile(c) => Free' = Free /\ litter' = litter
    BY <2>1 DEF Exists, Read, OpenFile
  <2>6. CloseFile(c) => Free' = Free /\ litter' = litter
    BY <2>1 DEF CloseFile, AfterWrite
  <2>7. WakeOne(c) => Free' = Free /\ litter' = litter
    <3>1. SUFFICES ASSUME WakeOne(c) PROVE Free' = Free /\ litter' = litter
      OBVIOUS
    <3>2. \A d \in Calls : (pc'[d] = "tmp" <=> pc[d] = "tmp")
      <4>1. PICK d : d = First(c)
        OBVIOUS
      <4>2. pc' = [pc EXCEPT ![c] = "done", ![d] = "woken"] /\ pc[d] = "asleep"
            /\ pc[c] = "notified"
        BY <3>1, <4>1 DEF WakeOne
      <4> QED BY <1>1, <4>2
    <3> QED BY <1>3, <3>1, <3>2, FreeSame DEF WakeOne
  <2> QED BY <2>2, <2>3, <2>4, <2>5, <2>6, <2>7 DEF Step, Opens
<1>12. WriteTemp(c) => litter' = litter /\ Free' = Free - Size(op[c].val)
  BY <1>2, <1>4, <1>5, <1>8, <1>10 DEF WriteTemp
<1>13. Rename(c) => litter' = litter /\ Free' = Free + Size(disk[op[c].key])
  <2> SUFFICES ASSUME Rename(c)
               PROVE  litter' = litter /\ Free' = Free + Size(disk[op[c].key])
    OBVIOUS
  <2>1. GoTo(c, AfterWrite(c)) /\ AfterWrite(c) # "tmp" /\ pc[c] = "tmp"
        /\ Put(op[c].key, op[c].val) /\ litter' = litter /\ op[c].key \in Keys
    BY <1>6 DEF Rename, AfterWrite
  <2>2. SumFunctionOnSet(Held', Calls) =
          SumFunctionOnSet(Held, Calls) - Size(op[c].val)
    BY <1>2, <1>8, <2>1
  <2>3. SumFunctionOnSet(Used', Keys) =
          SumFunctionOnSet(Used, Keys) - Size(disk[op[c].key]) + Size(op[c].val)
    BY <1>2, <1>9, <2>1
  <2>4. Size(disk[op[c].key]) \in Nat /\ Size(op[c].val) \in Nat
    BY <1>2, <2>1
  <2> QED BY <1>2, <1>4, <1>5, <2>1, <2>2, <2>3, <2>4
<1>14. ASSUME NEW k \in Keys, NEW v \in Contents, Size(v) = 0, Put(k, v), NEW s,
              GoTo(c, s), pc[c] # "tmp", s # "tmp", litter' = litter
       PROVE  Free' = Free + Size(disk[k])
  <2>1. SumFunctionOnSet(Held', Calls) = SumFunctionOnSet(Held, Calls)
    BY <1>2, <1>8, <1>14
  <2>2. SumFunctionOnSet(Used', Keys) = SumFunctionOnSet(Used, Keys) - Size(disk[k])
    BY <1>2, <1>9, <1>14
  <2> QED BY <1>2, <1>4, <1>5, <1>14, <2>1, <2>2
<1>15. Erase(c) => litter' = litter /\ Free' = Free + Size(disk[op[c].key])
  BY <1>2, <1>6, <1>14 DEF Erase, AfterWrite
<1>16. CopyNothing(c) => litter' = litter /\ Free' = Free + Size(disk[op[c].to])
  BY <1>2, <1>7, <1>14 DEF CopyNothing
<1>17. Opens(c) => litter' = litter /\ Free' >= Free /\ Free' \in Nat
  <2> SUFFICES ASSUME Opens(c)
               PROVE  litter' = litter /\ Free' >= Free /\ Free' \in Nat
    OBVIOUS
  <2>1. PICK k, v : k \in Keys /\ OpenInPlace(c, k, v) /\ pc[c] # "tmp"
    BY <1>6, <1>7 DEF Opens, CopyOpens, OpenToWrite
  <2>2. litter' = litter /\ Free' = Free + Size(disk[k]) /\ Size(disk[k]) \in Nat
    BY <1>2, <1>14, <2>1 DEF OpenInPlace
  <2> QED BY <1>2, <2>2
<1>18. Move(c) => litter' = litter /\ Free' = Free + Size(disk[op[c].to])
  <2> SUFFICES ASSUME Move(c)
               PROVE  litter' = litter /\ Free' = Free + Size(disk[op[c].to])
    OBVIOUS
  <2>1. PICK k, l \in Keys : k = op[c].key /\ l = op[c].to /\ k # l
    BY <1>6, <1>7 DEF Move
  <2>2. /\ disk' = [disk EXCEPT ![k] = None, ![l] = disk[k]]
        /\ GoTo(c, "done") /\ pc[c] = "copy" /\ litter' = litter
    BY <2>1 DEF Move
  <2>3. SumFunctionOnSet(Held', Calls) = SumFunctionOnSet(Held, Calls)
    BY <1>2, <1>8, <2>2
  <2>4. SumFunctionOnSet(Used', Keys) = SumFunctionOnSet(Used, Keys) - Size(disk[l])
    <3> DEFINE h == [Used EXCEPT ![k] = 0]
    <3>1. \A x \in Keys : Used[x] \in Nat /\ Used[x] = Size(disk[x])
      BY Amount
    <3>2. \A x \in Keys : h[x] = IF x = k THEN 0 ELSE Used[x]
      BY DEF Used
    <3>3. \A x \in Keys : Used'[x] = IF x = k THEN 0 ELSE IF x = l THEN Used[k] ELSE Used[x]
      BY <1>1, <1>2, <2>1, <2>2, <3>1 DEF Used
    <3>4. IsFiniteSet(Keys)
      BY DEF StorageAssumption
    <3>5. PICK f, g : f = Used /\ g = Used'
      OBVIOUS
    <3> HIDE DEF h
    <3>6. SumFunctionOnSet(h, Keys) = SumFunctionOnSet(f, Keys) - f[k] + h[k]
      <4>1. /\ \A y \in Keys : f[y] \in Nat /\ h[y] \in Nat
            /\ \A y \in Keys \ {k} : f[y] = h[y]
        BY <3>1, <3>2, <3>5
      <4> QED BY <3>4, <4>1, SumUpdate
    <3>7. SumFunctionOnSet(g, Keys) = SumFunctionOnSet(h, Keys) - h[l] + g[l]
      <4>1. \A y \in Keys : h[y] \in Nat /\ g[y] \in Nat
        BY <2>1, <3>1, <3>2, <3>3, <3>5
      <4>2. \A y \in Keys \ {l} : h[y] = g[y]
        BY <2>1, <3>2, <3>3, <3>5
      <4> QED BY <3>4, <4>1, <4>2, SumUpdate
    <3>8. SumFunctionOnSet(f, Keys) \in Nat
      BY <1>2, <3>5
    <3> QED BY <2>1, <3>1, <3>2, <3>3, <3>5, <3>6, <3>7, <3>8
  <2> QED BY <1>2, <1>4, <1>5, <2>1, <2>2, <2>3, <2>4
<1>19. WriteFails(c) => /\ Free' = Free - (litter' - litter)
                        /\ litter' = IF Free < Size(op[c].val)
                                     THEN litter + Free ELSE litter
  BY <1>2, <1>4, <1>5, <1>8, <1>10 DEF WriteFails
<1>20. FileFills(c) => litter' = litter /\ Free' \in Nat
  <2> SUFFICES ASSUME FileFills(c) PROVE litter' = litter /\ Free' \in Nat
    OBVIOUS
  <2>1. litter' = litter /\ (GoTo(c, Filled(c)) \/ GoTo(c, "failed"))
        /\ pc[c] = "filling" /\ Filled(c) # "tmp"
    BY DEF FileFills, Filled
  <2>2. SumFunctionOnSet(Held', Calls) = SumFunctionOnSet(Held, Calls)
    BY <1>2, <1>8, <2>1
  <2>3. fd[c] \in Keys \cup {None} /\ result[c] \in Contents
    BY <1>1 DEF Shape
  <2>4. CASE disk' = disk
    BY <1>2, <1>4, <1>5, <1>10, <2>1, <2>2, <2>4
  <2>5. CASE disk' # disk
    <3>1. PICK v \in {result[c], Empty} :
            /\ fd[c] \in Keys /\ Put(fd[c], v)
            /\ Free + Size(disk[fd[c]]) >= Size(result[c])
      BY <2>3, <2>5 DEF FileFills
    <3>2. SumFunctionOnSet(Used', Keys) =
            SumFunctionOnSet(Used, Keys) - Size(disk[fd[c]]) + Size(v)
      BY <1>2, <1>9, <2>3, <3>1
    <3>3. Size(disk[fd[c]]) \in Nat /\ Size(result[c]) \in Nat /\ Size(v) \in Nat
          /\ Size(v) <= Size(result[c])
      BY <1>2, <2>3, <3>1
    <3>4. Free' = Free + Size(disk[fd[c]]) - Size(v)
      BY <1>2, <1>4, <1>5, <2>1, <2>2, <3>2, <3>3
    <3> QED BY <1>2, <2>1, <3>1, <3>3, <3>4
  <2> QED BY <2>4, <2>5
<1>21. /\ Rename(c) \/ Erase(c) => Size(disk[op[c].key]) \in Nat
       /\ CopyNothing(c) \/ Move(c) => Size(disk[op[c].to]) \in Nat
  BY <1>2, <1>6, <1>7 DEF Rename, Erase, CopyNothing, Move
<1>22. Rename(c) \/ Erase(c) \/ CopyNothing(c) \/ Opens(c) \/ Move(c)
         => litter' = litter /\ Free' >= Free /\ Free' \in Nat
  BY <1>2, <1>13, <1>15, <1>16, <1>17, <1>18, <1>21
<1> QED BY <1>11, <1>12, <1>19, <1>20, <1>22

\* Whatever is no step of a storage leaves the disk alone and moves one call,
\* which was not under way.
Else(c) == \/ \E p \in Programs : Call(c, p) \/ FutureCall(c, p)
           \/ Continue(c) \/ FutureResume(c) \/ FutureCancel(c)

LEMMA ElseStep ==
  ASSUME StorageAssumption, MetaAssumption, Control, NEW c \in Calls, Else(c)
  PROVE  /\ UNCHANGED <<disk, litter, waiters, free, result, fd, outdated>>
         /\ Free' = Free
         /\ pc[c] \in {"idle", "done"}
         /\ pc'[c] \in {"check", "write", "exists", "open", "copy", "idle",
                        "done", "failed"}
         /\ pc'[c] = "write" /\ op'[c].key \in Limited => op'[c].val = None
         /\ \A d \in Calls \ {c} : pc'[d] = pc[d] /\ op'[d] = op[d]
         /\ NoteLapses \/ (UNCHANGED <<lapses, op>> /\ pc'[c] \in {"idle", "done", "failed"})
<1>1. pc \in [Calls -> States] /\ op \in [Calls -> Ops \cup {NoOp}]
  BY DEF Control, Shape
<1>2. ASSUME NEW o, Begin(c, o), pc[c] \in {"idle", "done"}
      PROVE  /\ UNCHANGED <<disk, litter, waiters, free, result, fd, outdated>>
             /\ pc'[c] \in {"check", "write", "exists", "open", "copy"}
             /\ pc'[c] = "write" /\ op'[c].key \in Limited => op'[c].val = None
             /\ \A d \in Calls \ {c} : pc'[d] = pc[d] /\ op'[d] = op[d]
             /\ NoteLapses
  BY <1>1, <1>2 DEF Begin, GoTo, Work, WaitsForSpace
<1>3. ASSUME NEW p \in Programs, Call(c, p)
      PROVE  pc[c] \in {"idle", "done"} /\ Begin(c, FirstOp(p))
  BY <1>3 DEF Call
<1>4. Continue(c) => FieldFails(c) \/ (pc[c] \in {"idle", "done"} /\ \E o : Begin(c, o))
  BY DEF Continue, TryNext, ReplicateNext, AskSource, Fill, CopySet, MoveDelete,
         FieldSet, Then
<1>5. FieldFails(c) => /\ UNCHANGED <<disk, litter, waiters, free, result, fd,
                                      outdated, lapses, op>>
                       /\ pc[c] = "done" /\ pc'[c] = "failed"
                       /\ \A d \in Calls \ {c} : pc'[d] = pc[d]
  BY <1>1 DEF FieldFails, GoTo
<1>6. \/ \E p \in Programs : FutureCall(c, p)
      \/ FutureResume(c) \/ FutureCancel(c)
      => /\ UNCHANGED <<disk, litter, waiters, free, result, fd, outdated, lapses, op>>
         /\ pc[c] = "idle" /\ pc'[c] \in {"idle", "done", "failed"}
         /\ \A d \in Calls \ {c} : pc'[d] = pc[d]
  <2>1. \/ \E p \in Programs : FutureCall(c, p)
        \/ FutureResume(c) \/ FutureCancel(c)
        => UNCHANGED <<disk, litter, waiters, free, result, fd, outdated, lapses, op>>
    BY DEF FutureCall, FutureResume, FutureCancel
  <2> QED BY <2>1, FutureControl
<1>7. /\ UNCHANGED <<disk, litter, waiters, free, result, fd, outdated>>
      /\ pc[c] \in {"idle", "done"}
      /\ pc'[c] \in {"check", "write", "exists", "open", "copy", "idle",
                     "done", "failed"}
      /\ pc'[c] = "write" /\ op'[c].key \in Limited => op'[c].val = None
      /\ \A d \in Calls \ {c} : pc'[d] = pc[d] /\ op'[d] = op[d]
      /\ NoteLapses \/ (UNCHANGED <<lapses, op>> /\ pc'[c] \in {"idle", "done", "failed"})
  BY <1>2, <1>3, <1>4, <1>5, <1>6 DEF Else
<1>8. Free' = Free
  BY <1>7, FreeSame
<1> QED BY <1>7, <1>8

\* A step of a storage moves its call, and may wake another.
LEMMA StepPc ==
  ASSUME Control, NEW c \in Calls, Step(c)
  PROVE  /\ pc[c] \notin {"idle", "done", "failed", "cancelled"}
         /\ \A d \in Calls \ {c} :
              \/ pc'[d] = pc[d]
              \/ pc[d] = "asleep" /\ pc'[d] = "woken" /\ WakeOne(c) /\ d = First(c)
<1>1. pc \in [Calls -> States]
  BY DEF Control, Shape
<1>2. pc[c] \notin {"idle", "done", "failed", "cancelled"}
  BY DEF Step, ReadFree, PassCheck, Sleep, Resume, Cancel, WakeNobody, WakeOne,
         WakeRaises, WriteTemp, Rename, Erase, WriteFails, Exists, Read,
         OpenFile, OpenToWrite, OpenInPlace, CloseFile, CopyNothing, CopyOpens,
         FileFills, Move
<1>3. WakeOne(c) \/ \E s : GoTo(c, s)
  <2>1. \A s : GoTo(c, s) => \E t : GoTo(c, t)
    OBVIOUS
  <2>2. ReadFree(c) \/ PassCheck(c) \/ Sleep(c) \/ Resume(c) \/ Cancel(c)
        \/ WakeNobody(c) \/ WakeRaises(c) => \E s : GoTo(c, s)
    BY <2>1 DEF ReadFree, PassCheck, Sleep, Resume, Cancel, WakeNobody, WakeRaises
  <2>3. WriteTemp(c) \/ Rename(c) \/ Erase(c) \/ WriteFails(c) \/ Exists(c) \/ Read(c)
        => \E s : GoTo(c, s)
    BY <2>1 DEF WriteTemp, Rename, Erase, WriteFails, Exists, Read
  <2>4. OpenFile(c) \/ OpenToWrite(c) \/ CloseFile(c) \/ CopyNothing(c)
        \/ CopyOpens(c) \/ FileFills(c) \/ Move(c) => \E s : GoTo(c, s)
    BY <2>1 DEF OpenFile, OpenToWrite, OpenInPlace, CloseFile, CopyNothing,
                CopyOpens, FileFills, Move
  <2> QED BY <2>2, <2>3, <2>4 DEF Step
<1>4. (\E s : GoTo(c, s)) => \A d \in Calls \ {c} : pc'[d] = pc[d]
  BY <1>1 DEF GoTo
<1>5. WakeOne(c) => \A d \in Calls \ {c} :
        \/ pc'[d] = pc[d]
        \/ pc[d] = "asleep" /\ pc'[d] = "woken" /\ WakeOne(c) /\ d = First(c)
  <2> SUFFICES ASSUME WakeOne(c), NEW d \in Calls \ {c}
               PROVE  \/ pc'[d] = pc[d]
                      \/ pc[d] = "asleep" /\ pc'[d] = "woken" /\ d = First(c)
    OBVIOUS
  <2>1. PICK f : f = First(c)
    OBVIOUS
  <2>2. pc' = [pc EXCEPT ![c] = "done", ![f] = "woken"] /\ pc[f] = "asleep"
    BY <2>1 DEF WakeOne
  <2> QED BY <1>1, <2>1, <2>2
<1> QED BY <1>2, <1>3, <1>4, <1>5

\* Who is woken: a call that sleeps and for which the figure leaves room.
LEMMA FirstIs ==
  ASSUME Control, NEW c \in Calls, WakeOne(c)
  PROVE  /\ Min(Roomy(c)) \in DOMAIN waiters /\ First(c) = waiters[Min(Roomy(c))]
         /\ First(c) \in Calls /\ First(c) # c /\ pc[First(c)] = "asleep"
         /\ free[c] > Size(op[First(c)].val) + Limit
         /\ pc[c] = "notified" /\ pc'[c] = "done" /\ pc'[First(c)] = "woken"
<1>1. waiters \in Seq(Calls) /\ pc \in [Calls -> States]
  BY DEF Control, Shape
<1>2. Roomy(c) # {} /\ Roomy(c) \subseteq DOMAIN waiters
  BY DEF WakeOne, Roomy
<1>3. Min(Roomy(c)) \in Roomy(c)
  BY <1>1, <1>2, MinIs
<1>4. First(c) = waiters[Min(Roomy(c))]
  BY DEF First
<1>5. First(c) \in Calls /\ free[c] > Size(op[First(c)].val) + Limit
  BY <1>1, <1>2, <1>3, <1>4 DEF Roomy
<1>6. PICK f : f = First(c)
  OBVIOUS
<1>7. /\ pc' = [pc EXCEPT ![c] = "done", ![f] = "woken"] /\ pc[f] = "asleep"
      /\ pc[c] = "notified"
  BY <1>6 DEF WakeOne
<1> QED BY <1>1, <1>2, <1>3, <1>4, <1>5, <1>6, <1>7

LEMMA NextAmounts ==
  ASSUME StorageAssumption, DiskAssumption, MetaAssumption, Control, Control',
         Amounts, [Next]_vars
  PROVE  Amounts'
<1>1. /\ litter \in Nat /\ Free \in Nat /\ free \in [Calls -> 0..Capacity]
      /\ \A d \in Calls : pc[d] = "asleep" => d \in ToSet(waiters)
      /\ pc \in [Calls -> States] /\ waiters \in Seq(Calls)
  BY DEF Amounts, Control, Shape
<1>2. Free \in 0..Capacity
  BY <1>1, Amount DEF Free
<1>3. \A c \in Calls : Size(op[c].val) \in Nat
  BY Amount
<1>4. ASSUME NEW c \in Calls, StorageStep(c) PROVE Amounts'
  <2>1. Step(c)
    BY <1>4 DEF StorageStep
  <2>2. /\ \/ Free' = Free /\ litter' = litter
           \/ WriteTemp(c) \/ Rename(c) \/ Erase(c) \/ WriteFails(c)
           \/ CopyNothing(c) \/ Opens(c) \/ FileFills(c) \/ Move(c)
        /\ WriteTemp(c) => litter' = litter /\ Free' = Free - Size(op[c].val)
        /\ Rename(c) \/ Erase(c) \/ CopyNothing(c) \/ Opens(c) \/ Move(c)
             => litter' = litter /\ Free' >= Free /\ Free' \in Nat
        /\ WriteFails(c) => /\ Free' = Free - (litter' - litter)
                            /\ litter' = IF Free < Size(op[c].val)
                                         THEN litter + Free ELSE litter
        /\ FileFills(c) => litter' = litter /\ Free' \in Nat
    BY <2>1, FreeStep
  <2>3. WriteTemp(c) => Free >= Size(op[c].val)
    BY DEF WriteTemp
  <2>4. litter' \in Nat /\ Free' \in Nat
    BY <1>1, <1>3, <2>2, <2>3
  <2>5. free' \in [Calls -> 0..Capacity]
    <3>1. ReadFree(c) => free' = [free EXCEPT ![c] = Free]
      BY DEF ReadFree
    <3>2. ~ReadFree(c) => free' = free
      BY <2>1 DEF Step, PassCheck, Sleep, Resume, Cancel, WakeNobody, WakeOne,
                  WakeRaises, WriteTemp, Rename, Erase, WriteFails, Exists,
                  Read, OpenFile, OpenToWrite, OpenInPlace, CloseFile,
                  CopyNothing, CopyOpens, FileFills, Move
    <3> QED BY <1>1, <1>2, <3>1, <3>2
  <2>6. ASSUME NEW d \in Calls, pc'[d] = "asleep" PROVE d \in ToSet(waiters')
    <3>1. CASE Sleep(c)
      <4>1. waiters' = Append(waiters, c)
        BY <3>1 DEF Sleep
      <4>2. pc[d] = "asleep" \/ d = c
        BY <1>1, <2>6, <3>1 DEF Sleep, GoTo
      <4>3. \A i \in DOMAIN waiters : waiters'[i] = waiters[i] /\ i \in DOMAIN waiters'
        BY <1>1, <4>1
      <4>4. waiters'[Len(waiters) + 1] = c /\ Len(waiters) + 1 \in DOMAIN waiters'
        BY <1>1, <4>1
      <4> QED BY <1>1, <4>2, <4>3, <4>4 DEF ToSet
    <3>2. CASE WakeOne(c)
      <4>1. /\ waiters' = RemoveAt(waiters, Min(Roomy(c)))
            /\ Min(Roomy(c)) \in DOMAIN waiters
            /\ waiters[Min(Roomy(c))] = First(c) /\ pc'[First(c)] = "woken"
            /\ pc'[c] = "done"
        BY <3>2, FirstIs DEF WakeOne
      <4>2. d # First(c) /\ d # c
        BY <2>6, <4>1
      <4>3. pc[d] = "asleep"
        BY <2>1, <2>6, <4>2, StepPc
      <4>4. PICK i \in DOMAIN waiters : waiters[i] = d
        BY <1>1, <4>3 DEF ToSet
      <4> QED BY <1>1, <4>1, <4>2, <4>4, RemoveAtIs
    <3>3. CASE ~Sleep(c) /\ ~WakeOne(c)
      <4>1. waiters' = waiters
        BY <2>1, <3>3
           DEF Step, ReadFree, PassCheck, Resume, Cancel, WakeNobody,
               WakeRaises, WriteTemp, Rename, Erase, WriteFails, Exists, Read,
               OpenFile, OpenToWrite, OpenInPlace, CloseFile, CopyNothing,
               CopyOpens, FileFills, Move
      <4>2. pc'[c] # "asleep"
        BY <1>1, <2>1, <3>3
           DEF Step, ReadFree, PassCheck, Resume, Cancel, WakeNobody, Work,
               WakeRaises, WriteTemp, Rename, Erase, WriteFails, Exists, Read,
               OpenFile, OpenToWrite, OpenInPlace, CloseFile, CopyNothing,
               CopyOpens, FileFills, Filled, Move, GoTo, AfterWrite
      <4>3. pc[d] = "asleep"
        BY <2>1, <2>6, <4>2, StepPc
      <4> QED BY <1>1, <4>1, <4>3
    <3> QED BY <3>1, <3>2, <3>3
  <2> QED BY <2>4, <2>5, <2>6 DEF Amounts
<1>5. ASSUME NEW c \in Calls, Else(c) PROVE Amounts'
  <2>1. /\ UNCHANGED <<litter, waiters, free>> /\ Free' = Free
        /\ pc'[c] # "asleep" /\ \A d \in Calls \ {c} : pc'[d] = pc[d]
    BY <1>5, ElseStep
  <2> QED BY <1>1, <2>1 DEF Amounts
<1>6. CASE UNCHANGED vars
  <2>1. UNCHANGED <<disk, litter, waiters, pc, op, free>>
    BY <1>6 DEF vars, storageVars
  <2>2. Free' = Free
    BY <2>1, FreeSame
  <2> QED BY <1>1, <2>1, <2>2 DEF Amounts
<1>7. Next => \E c \in Calls : StorageStep(c) \/ Else(c)
  BY DEF Next, Else
<1> QED BY <1>4, <1>5, <1>6, <1>7

\* A call whose operation is limited can be unlimited only in name.
LEMMA LimitedIs ==
  ASSUME NEW c \in Calls, Placed(c),
         pc[c] \in {"check", "checked", "asleep", "woken", "notify", "notified"}
  PROVE  ~Unlimited(c) /\ op[c].key \in Limited
BY DEF Placed, MayBe, WaitsForSpace, Unlimited

\* What a step that has not made a crowd leaves behind.
LEMMA NotCrowded ==
  ASSUME StorageAssumption, NoteLapses, "crowded" \notin lapses'
  PROVE  /\ "crowded" \notin lapses
         /\ \A c, d \in Calls : Limiting(c)' /\ Limiting(d)' => c = d
         /\ \A c \in Calls : Unasked(c)' =>
              /\ pc'[c] \notin {"tmp", "filling"}
              /\ litter' # litter => pc'[c] = pc[c]
<1>1. ~Crowded /\ "crowded" \notin lapses
  BY DEF NoteLapses
<1> DEFINE S == {c \in Calls : Acting(pc'[c]) /\ ~Unlimited(c)'}
<1>2. ~(Cardinality(S) > 1) /\ S \subseteq Calls
  BY <1>1 DEF Crowded
<1>3. \A c \in Calls : Unasked(c)' =>
              /\ pc'[c] \notin {"tmp", "filling"}
              /\ litter' # litter => pc'[c] = pc[c]
  BY <1>1 DEF Crowded
<1>4. \A c \in Calls : Limiting(c)' => c \in S
  BY DEF Limiting, Acting
<1>5. IsFiniteSet(S)
  BY <1>2, FS_Subset DEF StorageAssumption
<1> HIDE DEF S
<1>6. ASSUME NEW c \in S, NEW d \in S, c # d PROVE FALSE
  <2>1. /\ IsFiniteSet(S \ {c}) /\ Cardinality(S \ {c}) = Cardinality(S) - 1
        /\ Cardinality(S) \in Nat
    BY <1>5, FS_RemoveElement, FS_CardinalityType
  <2>2. S \ {c} # {}
    BY <1>6
  <2>3. Cardinality(S \ {c}) # 0 /\ Cardinality(S \ {c}) \in Nat
    BY <2>1, <2>2, FS_EmptySet, FS_CardinalityType
  <2> QED BY <1>2, <2>1, <2>3
<1> QED BY <1>1, <1>3, <1>4, <1>6

\* The limit: whoever acts on a figure acts alone, so the figure holds.
LEMMA StepRoomKept ==
  ASSUME StorageAssumption, DiskAssumption, Control, Control', Amounts, RoomKept,
         NEW c \in Calls, Step(c)
  PROVE  RoomKept'
<1> SUFFICES ASSUME "crowded" \notin lapses'
             PROVE  /\ Free' >= Limit
                    /\ \A d, e \in Calls : Limiting(d)' /\ Limiting(e)' => d = e
                    /\ \A d \in Calls :
                         /\ pc'[d] \in {"tmp", "filling"} => ~Unasked(d)'
                         /\ pc'[d] \in {"checked", "notified"} => free'[d] <= Free'
                         /\ pc'[d] \in {"woken", "write"} /\ ~Unlimited(d)'
                              /\ op'[d].val # None
                              => Free' >= Size(op'[d].val) + Limit
  BY DEF RoomKept
<1>1. NoteLapses \/ lapses' = lapses
  BY DEF Step, ReadFree, PassCheck, Sleep, Resume, Cancel, WakeNobody, WakeOne,
         WakeRaises, WriteTemp, Rename, Erase, WriteFails, Exists, Read,
         OpenFile, OpenToWrite, OpenInPlace, CloseFile, CopyNothing, CopyOpens,
         FileFills, Move
<1>2. "crowded" \notin lapses
  BY <1>1, NotCrowded
<1>3. /\ Free >= Limit
      /\ \A d, e \in Calls : Limiting(d) /\ Limiting(e) => d = e
      /\ \A d \in Calls :
           /\ pc[d] \in {"tmp", "filling"} => ~Unasked(d)
           /\ pc[d] \in {"checked", "notified"} => free[d] <= Free
           /\ pc[d] \in {"woken", "write"} /\ ~Unlimited(d) /\ op[d].val # None
                => Free >= Size(op[d].val) + Limit
  BY <1>2 DEF RoomKept
<1>4. /\ op' = op
      /\ \A d \in Calls : (Unlimited(d)' <=> Unlimited(d)) /\ (Unasked(d)' <=> Unasked(d))
      /\ \A d \in Calls : Placed(d) /\ Placed(d)'
      /\ pc \in [Calls -> States]
  BY StepOp DEF Unasked, Unlimited, Control, Shape
<1>5. /\ \/ Free' = Free /\ litter' = litter
         \/ WriteTemp(c) \/ Rename(c) \/ Erase(c) \/ WriteFails(c)
         \/ CopyNothing(c) \/ Opens(c) \/ FileFills(c) \/ Move(c)
      /\ WriteTemp(c) => litter' = litter /\ Free' = Free - Size(op[c].val)
      /\ Rename(c) \/ Erase(c) \/ CopyNothing(c) \/ Opens(c) \/ Move(c)
           => litter' = litter /\ Free' >= Free /\ Free' \in Nat
      /\ WriteFails(c) => /\ Free' = Free - (litter' - litter)
                          /\ litter' = IF Free < Size(op[c].val)
                                       THEN litter + Free ELSE litter
      /\ FileFills(c) => litter' = litter /\ Free' \in Nat
  BY FreeStep
<1>6. /\ \A d \in Calls : Size(op[d].val) \in Nat /\ free[d] \in Int
      /\ Limit \in Nat /\ Free \in Nat /\ litter \in Nat /\ Size(None) = 0
  BY Amount DEF Amounts
<1>7. \A d \in Calls \ {c} :
        \/ pc'[d] = pc[d]
        \/ pc[d] = "asleep" /\ pc'[d] = "woken" /\ WakeOne(c) /\ d = First(c)
  BY StepPc
<1>8. \A d \in Calls : pc[d] \in {"checked", "woken", "notified"} => ~Unlimited(d)
  BY <1>4, LimitedIs
<1>9. \A d, e \in Calls : Limiting(d)' /\ Limiting(e)' => d = e
  <2>1. CASE NoteLapses
    BY <2>1, NotCrowded
  <2>2. CASE ~NoteLapses
    <3>1. \A d \in Calls : Limiting(d)' => Limiting(d)
      <4>1. ~WakeOne(c)
        BY <2>2 DEF WakeOne
      <4>2. \A d \in Calls \ {c} : pc'[d] = pc[d]
        BY <1>7, <4>1
      <4>3. Acting(pc'[c]) => pc[c] \in {"checked", "woken"}
        BY <1>4, <2>2
           DEF Step, ReadFree, PassCheck, Sleep, Resume, Cancel, WakeNobody,
               WakeOne, WakeRaises, WriteTemp, Rename, Erase, WriteFails,
               Exists, Read, OpenFile, OpenToWrite, OpenInPlace, CloseFile,
               CopyNothing, CopyOpens, FileFills, Filled, Move, GoTo, Acting,
               Work, AfterWrite
      <4> QED BY <1>4, <4>2, <4>3 DEF Limiting, Acting
    <3> QED BY <1>3, <3>1
  <2> QED BY <2>1, <2>2
<1>10. \A d \in Calls : pc'[d] \in {"tmp", "filling"} => ~Unasked(d)'
  <2>1. CASE NoteLapses
    BY <2>1, NotCrowded
  <2>2. CASE ~NoteLapses
    <3>1. pc'[c] \notin {"tmp", "filling"}
      BY <1>4, <2>2
         DEF Step, ReadFree, PassCheck, Sleep, Resume, Cancel, WakeNobody,
             WakeOne, WakeRaises, WriteTemp, Rename, Erase, WriteFails, Exists,
             Read, OpenFile, OpenToWrite, OpenInPlace, CloseFile, CopyNothing,
             CopyOpens, FileFills, Filled, Move, GoTo, Work, AfterWrite
    <3> QED BY <1>3, <1>4, <1>7, <3>1
  <2> QED BY <2>1, <2>2
<1>11. ~FileFills(c)
  BY <1>3, <1>4 DEF FileFills, Placed, MayBe, Unlimited, Unasked
<1>12. WriteFails(c) => Free' = Free /\ litter' = litter
  <2> SUFFICES ASSUME WriteFails(c) PROVE Free' = Free /\ litter' = litter
    OBVIOUS
  <2>1. pc[c] = "write" /\ pc'[c] = "failed" /\ NoteLapses
    BY <1>4 DEF WriteFails, GoTo
  <2>2. CASE Unlimited(c)
    <3>1. litter' = litter
      BY <1>4, <2>1, <2>2, NotCrowded DEF Unasked
    <3> QED BY <1>5, <1>6, <3>1
  <2>3. CASE ~Unlimited(c)
    <3>1. Free >= Size(op[c].val)
      BY <1>3, <1>6, <2>1, <2>3
    <3> QED BY <1>5, <1>6, <3>1
  <2> QED BY <2>2, <2>3
<1>13. WriteTemp(c) => /\ Free >= Size(op[c].val) + Limit /\ ~Unlimited(c)
                       /\ \A d \in Calls \ {c} : ~Limiting(d)
                       /\ pc'[c] = "tmp"
  <2> SUFFICES ASSUME WriteTemp(c)
               PROVE  /\ Free >= Size(op[c].val) + Limit /\ ~Unlimited(c)
                      /\ \A d \in Calls \ {c} : ~Limiting(d)
                      /\ pc'[c] = "tmp"
    OBVIOUS
  <2>1. pc[c] = "write" /\ pc'[c] = "tmp" /\ op[c].val # None
    BY <1>4 DEF WriteTemp, GoTo
  <2>2. ~Unlimited(c)
    BY <1>4, <1>10, <2>1 DEF Unasked
  <2> QED BY <1>3, <2>1, <2>2 DEF Limiting, Acting
<1>14. Free' >= Limit /\ (WriteTemp(c) \/ Free' >= Free) /\ Free' \in Int
  BY <1>3, <1>5, <1>6, <1>11, <1>12, <1>13
<1>15. ASSUME NEW d \in Calls, pc'[d] \in {"checked", "notified"}
       PROVE  free'[d] <= Free'
  <2>1. CASE ReadFree(c) /\ d = c
    BY <1>6, <1>14, <2>1 DEF ReadFree, WriteTemp, Amounts
  <2>2. CASE ~(ReadFree(c) /\ d = c)
    <3>1. d # c
      <4> SUFFICES ASSUME d = c PROVE FALSE
        OBVIOUS
      <4> QED
        BY <1>4, <1>15, <2>2
           DEF Step, ReadFree, PassCheck, Sleep, Resume, Cancel, WakeNobody,
               WakeOne, WakeRaises, WriteTemp, Rename, Erase, WriteFails,
               Exists, Read, OpenFile, OpenToWrite, OpenInPlace, CloseFile,
               CopyNothing, CopyOpens, FileFills, Filled, Move, GoTo, Work,
               AfterWrite
    <3>2. pc[d] = pc'[d]
      BY <1>7, <1>15, <3>1
    <3>3. ~WriteTemp(c)
      BY <1>8, <1>13, <1>15, <3>1, <3>2 DEF Limiting, Acting
    <3>4. free'[d] = free[d]
      BY <3>1 DEF Step, ReadFree, PassCheck, Sleep, Resume, Cancel, WakeNobody,
                  WakeOne, WakeRaises, WriteTemp, Rename, Erase, WriteFails,
                  Exists, Read, OpenFile, OpenToWrite, OpenInPlace, CloseFile,
                  CopyNothing, CopyOpens, FileFills, Filled, Move, Amounts
    <3> QED BY <1>3, <1>6, <1>14, <1>15, <3>2, <3>3, <3>4
  <2> QED BY <2>1, <2>2
<1>16. ASSUME NEW d \in Calls, pc'[d] \in {"woken", "write"}, ~Unlimited(d)',
              op'[d].val # None
       PROVE  Free' >= Size(op'[d].val) + Limit
  <2>1. CASE d = c
    <3>1. PassCheck(c) \/ Resume(c)
      BY <1>4, <1>16, <2>1
         DEF Step, ReadFree, Sleep, Cancel, WakeNobody, WakeOne, WakeRaises,
             WriteTemp, Rename, Erase, WriteFails, Exists, Read, OpenFile,
             OpenToWrite, OpenInPlace, CloseFile, CopyNothing, CopyOpens,
             FileFills, Filled, Move, GoTo, AfterWrite
    <3>2. ~WriteTemp(c)
      BY <3>1 DEF PassCheck, Resume, WriteTemp
    <3>3. CASE PassCheck(c)
      <4>1. free[c] >= Size(op[c].val) + Limit /\ free[c] <= Free
        BY <1>3, <3>3 DEF PassCheck, Fits
      <4> QED BY <1>4, <1>6, <1>14, <2>1, <3>2, <4>1
    <3>4. CASE Resume(c)
      <4>1. Free >= Size(op[c].val) + Limit
        BY <1>3, <1>4, <1>16, <2>1, <3>4 DEF Resume
      <4> QED BY <1>4, <1>6, <1>14, <2>1, <3>2, <4>1
    <3> QED BY <3>1, <3>3, <3>4
  <2>2. CASE d # c /\ pc'[d] = pc[d]
    <3>1. ~WriteTemp(c)
      BY <1>4, <1>13, <1>16, <2>2 DEF Limiting, Acting
    <3>2. Free >= Size(op[d].val) + Limit
      BY <1>3, <1>4, <1>16, <2>2
    <3> QED BY <1>4, <1>6, <1>14, <3>1, <3>2
  <2>3. CASE d # c /\ pc'[d] # pc[d]
    <3>1. WakeOne(c) /\ d = First(c)
      BY <1>7, <2>3
    <3>2. free[c] > Size(op[d].val) + Limit /\ pc[c] = "notified"
      BY <3>1, FirstIs
    <3>3. free[c] <= Free /\ ~WriteTemp(c)
      BY <1>3, <3>2 DEF WriteTemp
    <3> QED BY <1>4, <1>6, <1>14, <3>2, <3>3
  <2> QED BY <2>1, <2>2, <2>3
<1> QED BY <1>9, <1>10, <1>14, <1>15, <1>16

LEMMA NextRoomKept ==
  ASSUME StorageAssumption, DiskAssumption, MetaAssumption, Control, Control',
         Amounts, RoomKept, [Next]_vars
  PROVE  RoomKept'
<1>1. ASSUME NEW c \in Calls, Else(c) PROVE RoomKept'
  <2> SUFFICES ASSUME "crowded" \notin lapses'
             PROVE  /\ Free' >= Limit
                    /\ \A d, e \in Calls : Limiting(d)' /\ Limiting(e)' => d = e
                    /\ \A d \in Calls :
                         /\ pc'[d] \in {"tmp", "filling"} => ~Unasked(d)'
                         /\ pc'[d] \in {"checked", "notified"} => free'[d] <= Free'
                         /\ pc'[d] \in {"woken", "write"} /\ ~Unlimited(d)'
                              /\ op'[d].val # None
                              => Free' >= Size(op'[d].val) + Limit
    BY DEF RoomKept
  <2>1. /\ free' = free /\ Free' = Free /\ pc[c] \in {"idle", "done"}
        /\ pc'[c] \in {"check", "write", "exists", "open", "copy", "idle",
                       "done", "failed"}
        /\ pc'[c] = "write" /\ op'[c].key \in Limited => op'[c].val = None
        /\ \A d \in Calls \ {c} : pc'[d] = pc[d] /\ op'[d] = op[d]
        /\ NoteLapses \/ (UNCHANGED <<lapses, op>> /\ pc'[c] \in {"idle", "done", "failed"})
    BY <1>1, ElseStep
  <2>2. "crowded" \notin lapses
    BY <2>1, NotCrowded
  <2>3. /\ Free >= Limit
        /\ \A d, e \in Calls : Limiting(d) /\ Limiting(e) => d = e
        /\ \A d \in Calls :
             /\ pc[d] \in {"tmp", "filling"} => ~Unasked(d)
             /\ pc[d] \in {"checked", "notified"} => free[d] <= Free
             /\ pc[d] \in {"woken", "write"} /\ ~Unlimited(d) /\ op[d].val # None
                  => Free >= Size(op[d].val) + Limit
    BY <2>2 DEF RoomKept
  <2>4. \A d \in Calls \ {c} :
          (Unlimited(d)' <=> Unlimited(d)) /\ (Unasked(d)' <=> Unasked(d))
    BY <2>1 DEF Unlimited, Unasked
  <2>5. \A d, e \in Calls : Limiting(d)' /\ Limiting(e)' => d = e
    <3>1. CASE NoteLapses
      BY <3>1, NotCrowded
    <3>2. CASE ~NoteLapses
      <4>1. \A d \in Calls : Limiting(d)' => Limiting(d)
        BY <2>1, <2>4, <3>2 DEF Limiting, Acting
      <4> QED BY <2>3, <4>1
    <3> QED BY <3>1, <3>2
  <2>6. \A d \in Calls : pc'[d] \in {"tmp", "filling"} => ~Unasked(d)'
    BY <2>1, <2>3, <2>4
  <2>7. \A d \in Calls : pc'[d] \in {"checked", "notified"} => free'[d] <= Free'
    BY <2>1, <2>3
  <2>8. ASSUME NEW d \in Calls, pc'[d] \in {"woken", "write"}, ~Unlimited(d)',
              op'[d].val # None
        PROVE  Free' >= Size(op'[d].val) + Limit
    <3>1. d # c
      BY <2>1, <2>8 DEF Unlimited
    <3> QED BY <2>1, <2>3, <2>4, <2>8, <3>1
  <2> QED BY <2>1, <2>3, <2>5, <2>6, <2>7, <2>8
<1>2. ASSUME NEW c \in Calls, StorageStep(c) PROVE RoomKept'
  BY <1>2, StepRoomKept DEF StorageStep
<1>3. CASE UNCHANGED vars
  <2>1. UNCHANGED <<disk, litter, pc, op, free, lapses>>
    BY <1>3 DEF vars, storageVars
  <2>2. Free' = Free
    BY <2>1, FreeSame
  <2> QED BY <2>1, <2>2 DEF RoomKept, Limiting, Unlimited, Unasked
<1>4. Next => \E c \in Calls : StorageStep(c) \/ Else(c)
  BY DEF Next, Else
<1> QED BY <1>1, <1>2, <1>3, <1>4

\* Who sleeps beside enough room is told of it, in the end.
Excused == "silent" \in lapses \/ \E c \in Calls : pc[c] \in {"failed", "cancelled"}
Teller(d, c) == \/ WillTell(d)
                \/ pc[d] = "notified" /\ free[d] > Size(op[c].val) + Limit

LEMMA ToldIs ==
  ToBeTold <=> \/ Excused
               \/ \A c \in Calls : pc[c] = "asleep" /\ op[c].kind = "set" =>
                    \/ c \in outdated
                    \/ Free <= Size(op[c].val) + Limit
                    \/ \E d \in Calls : Teller(d, c)
BY DEF ToBeTold, Excused, Teller

LEMMA StepToBeTold ==
  ASSUME StorageAssumption, DiskAssumption, Control, Control', Amounts, Amounts',
         ToBeTold, NEW c \in Calls, Step(c)
  PROVE  ToBeTold'
<1> SUFFICES ASSUME ~Excused', NEW x \in Calls, pc'[x] = "asleep",
                    op'[x].kind = "set", x \notin outdated',
                    Free' > Size(op'[x].val) + Limit
             PROVE  \E d \in Calls : Teller(d, x)'
  <2>1. /\ Free' \in Nat /\ Limit \in Nat
        /\ \A y \in Calls : Size(op'[y].val) \in Nat
    <3>1. \A y \in Calls : Size(op[y].val) \in Nat /\ op' = op
      BY Amount, StepOp
    <3> QED BY <3>1, Amount DEF Amounts
  <2>2. \/ Excused'
        \/ \A y \in Calls : pc'[y] = "asleep" /\ op'[y].kind = "set" =>
              \/ y \in outdated'
              \/ Free' <= Size(op'[y].val) + Limit
              \/ \E d \in Calls : Teller(d, y)'
    BY <2>1
  <2> QED BY <2>2 DEF ToBeTold, Excused, Teller
<1>1. /\ op' = op /\ pc \in [Calls -> States]
      /\ \A d \in Calls : Placed(d) /\ Placed(d)' /\ Size(op[d].val) \in Nat
      /\ free \in [Calls -> Nat] /\ Free \in Nat /\ Limit \in Nat /\ Free' \in Nat
  <2>1. \A n \in 0..Capacity : n \in Nat
    BY DEF DiskAssumption
  <2> QED BY <2>1, StepOp, Amount DEF Control, Shape, Amounts
<1>2. /\ pc[c] \notin {"idle", "done", "failed", "cancelled"}
      /\ \A d \in Calls \ {c} :
              \/ pc'[d] = pc[d]
              \/ pc[d] = "asleep" /\ pc'[d] = "woken" /\ WakeOne(c) /\ d = First(c)
  BY StepPc
<1>3. /\ "silent" \notin lapses' /\ pc'[c] \notin {"failed", "cancelled"}
      /\ "silent" \notin lapses /\ ~Excused
  <2>1. NoteLapses \/ lapses' = lapses
    BY DEF Step, ReadFree, PassCheck, Sleep, Resume, Cancel, WakeNobody,
           WakeOne, WakeRaises, WriteTemp, Rename, Erase, WriteFails, Exists,
           Read, OpenFile, OpenToWrite, OpenInPlace, CloseFile, CopyNothing,
           CopyOpens, FileFills, Move
  <2>2. lapses \subseteq lapses'
    BY <2>1 DEF NoteLapses
  <2> QED BY <1>2, <2>2 DEF Excused
<1>4. \/ x \in outdated \/ pc[x] # "asleep" \/ Free <= Size(op[x].val) + Limit
      \/ \E d \in Calls : Teller(d, x)
  BY <1>1, <1>3, ToldIs
<1>5. outdated \subseteq outdated'
  BY DEF Step, ReadFree, PassCheck, Sleep, Resume, Cancel, WakeNobody, WakeOne,
         WakeRaises, WriteTemp, Rename, Erase, WriteFails, Exists, Read,
         OpenFile, OpenToWrite, OpenInPlace, CloseFile, CopyNothing, CopyOpens,
         FileFills, Move
<1>6. Silent => ~NoteLapses
  BY <1>3 DEF NoteLapses
<1>7. ASSUME pc[c] \in {"write", "tmp", "copy", "filling"}, NoteLapses,
             pc'[c] \in {"done", "opened"}
      PROVE  op[c].key \in Limited /\ op[c].kind \notin {"copy", "move"}
  BY <1>6, <1>7 DEF Silent, Unlimited
<1>8. ~WriteFails(c) /\ ~WakeRaises(c) /\ ~Cancel(c)
  BY <1>1, <1>3 DEF WriteFails, WakeRaises, Cancel, GoTo
<1>9. ~CopyNothing(c) /\ ~Move(c)
  BY <1>1, <1>3, <1>7 DEF CopyNothing, Move, GoTo, Placed, MayBe
<1>13. CASE FileFills(c)
  <2>1. pc'[c] = Filled(c) /\ NoteLapses /\ pc[c] = "filling"
    BY <1>1, <1>3, <1>13 DEF FileFills, GoTo
  <2>2. op[c].key \in Limited /\ op[c].kind # "copy"
    BY <1>7, <2>1 DEF Filled
  <2>3. pc'[c] = "opened"
    BY <2>1, <2>2 DEF Filled
  <2> QED BY <1>1, <2>2, <2>3 DEF Teller, WillTell
<1>10. CASE Rename(c) \/ Erase(c)
  <2>1. pc'[c] = "notify" /\ op[c].key \in Limited
    BY <1>1, <1>7, <1>10 DEF Rename, Erase, AfterWrite, GoTo
  <2> QED BY <1>1, <2>1 DEF Teller, WillTell
<1>11. CASE Opens(c)
  <2>1. pc'[c] = "filling"
    BY <1>1, <1>11 DEF Opens, CopyOpens, OpenToWrite, OpenInPlace, GoTo
  <2> QED BY <1>1, <2>1 DEF Teller, WillTell
<1>12. CASE ~(Rename(c) \/ Erase(c) \/ Opens(c) \/ FileFills(c))
  <2>1. Free' = Free \/ (WriteTemp(c) /\ Free' = Free - Size(op[c].val))
    BY <1>8, <1>9, <1>12, FreeStep
  <2>2. Free > Size(op[x].val) + Limit
    BY <1>1, <2>1
  <2>3. pc[x] = "asleep"
    <3>1. CASE x # c
      BY <1>2, <3>1
    <3>2. CASE x = c
      <4>1. Sleep(c)
        BY <1>1, <1>8, <1>9, <1>12, <3>2
           DEF Step, ReadFree, PassCheck, Resume, WakeNobody, WakeOne, WriteTemp,
               Exists, Read, OpenFile, CloseFile, Opens, GoTo, Work, AfterWrite
      <4>2. free[c] = Free /\ ~Fits(c)
        BY <3>2, <4>1 DEF Sleep
      <4>3. ~(free[c] >= Size(op[c].val) + Limit)
        BY <1>1, <3>2, <4>2 DEF Fits
      <4> QED BY <1>1, <2>2, <3>2, <4>2, <4>3
    <3> QED BY <3>1, <3>2
  <2>4. PICK e \in Calls : Teller(e, x)
    BY <1>1, <1>4, <1>5, <2>2, <2>3
  <2>5. free' = free \/ ReadFree(c)
    BY DEF Step, ReadFree, PassCheck, Sleep, Resume, Cancel, WakeNobody,
           WakeOne, WakeRaises, WriteTemp, Rename, Erase, WriteFails, Exists,
           Read, OpenFile, OpenToWrite, OpenInPlace, CloseFile, CopyNothing,
           CopyOpens, FileFills, Move
  <2>6. CASE e # c
    <3>1. pc'[e] = pc[e]
      BY <1>2, <2>4, <2>6 DEF Teller, WillTell
    <3>2. free'[e] = free[e]
      BY <1>1, <2>5, <2>6 DEF ReadFree
    <3> QED BY <1>1, <2>4, <3>1, <3>2 DEF Teller, WillTell
  <2>7. CASE e = c
    <3>1. /\ pc[c] = "filling" \/ op[c].key \in Limited \/ pc[c] = "notified"
          /\ pc[c] \in {"filling", "woken", "write", "tmp", "open", "opened",
                        "notify", "notified"}
          /\ pc[c] = "notified" => free[c] > Size(op[x].val) + Limit
      BY <2>4, <2>7 DEF Teller, WillTell
    <3>2. CASE ReadFree(c)
      BY <1>1, <2>1, <2>2, <3>1, <3>2 DEF ReadFree, GoTo, Teller, WriteTemp
    <3>3. CASE WakeNobody(c)
      <4>1. x \in ToSet(waiters) /\ Roomy(c) = {} /\ pc[c] = "notified"
        BY <2>3, <3>3 DEF Amounts, WakeNobody
      <4>2. PICK i \in DOMAIN waiters : waiters[i] = x
        BY <4>1 DEF ToSet, Control, Shape
      <4> QED BY <3>1, <4>1, <4>2 DEF Roomy
    <3>4. CASE WakeOne(c)
      <4>1. /\ First(c) \in Calls /\ pc[First(c)] = "asleep"
            /\ pc'[First(c)] = "woken"
        BY <3>4, FirstIs
      <4>2. op[First(c)].key \in Limited
        BY <1>1, <4>1, LimitedIs
      <4> QED BY <1>1, <4>1, <4>2 DEF Teller, WillTell
    <3>5. CASE Resume(c)
      <4>1. pc'[c] \in {"write", "open"} /\ op[c].key \in Limited
        BY <1>1, <3>1, <3>5 DEF Resume, GoTo, Work, Placed, MayBe, WaitsForSpace
      <4> QED BY <1>1, <4>1 DEF Teller, WillTell
    <3>6. CASE WriteTemp(c) \/ OpenFile(c) \/ CloseFile(c)
      <4>1. op[c].key \in Limited
        BY <3>1, <3>6 DEF WriteTemp, OpenFile, CloseFile
      <4>2. pc'[c] \in {"tmp", "opened", "notify"}
        BY <1>1, <1>3, <3>6, <4>1 DEF WriteTemp, OpenFile, CloseFile, GoTo,
                                      AfterWrite
      <4> QED BY <1>1, <4>1, <4>2 DEF Teller, WillTell
    <3>7. ~PassCheck(c) /\ ~Sleep(c) /\ ~Exists(c) /\ ~Read(c)
      BY <3>1 DEF PassCheck, Sleep, Exists, Read
    <3> QED BY <1>8, <1>9, <1>12, <3>2, <3>3, <3>4, <3>5, <3>6, <3>7 DEF Step, Opens
  <2> QED BY <2>6, <2>7
<1> QED BY <1>10, <1>11, <1>12, <1>13

LEMMA NextToBeTold ==
  ASSUME StorageAssumption, DiskAssumption, MetaAssumption, Control, Control',
         Amounts, Amounts', ToBeTold, [Next]_vars
  PROVE  ToBeTold'
<1>1. ASSUME NEW c \in Calls, Else(c) PROVE ToBeTold'
  <2>1. /\ free' = free /\ Free' = Free /\ pc[c] \in {"idle", "done"}
        /\ outdated' = outdated
        /\ pc'[c] \in {"check", "write", "exists", "open", "copy", "idle",
                       "done", "failed"}
        /\ \A d \in Calls \ {c} : pc'[d] = pc[d] /\ op'[d] = op[d]
        /\ NoteLapses \/ (UNCHANGED <<lapses, op>> /\ pc'[c] \in {"idle", "done", "failed"})
    BY <1>1, ElseStep
  <2>2. lapses \subseteq lapses'
    BY <2>1 DEF NoteLapses
  <2>3. Excused => Excused'
    BY <2>1, <2>2 DEF Excused
  <2>4. ASSUME NEW x \in Calls, pc'[x] = "asleep" PROVE x # c
    BY <2>1, <2>4
  <2>5. ASSUME NEW x \in Calls \ {c}, NEW d \in Calls, Teller(d, x) PROVE Teller(d, x)'
    BY <2>1, <2>5 DEF Teller, WillTell
  <2>6. ~Excused' => \A x \in Calls : pc'[x] = "asleep" /\ op'[x].kind = "set" =>
              \/ x \in outdated'
              \/ Free' <= Size(op'[x].val) + Limit
              \/ \E d \in Calls : Teller(d, x)'
    BY <2>1, <2>3, <2>4, <2>5, ToldIs
  <2> QED BY <2>6 DEF ToBeTold, Excused, Teller
<1>2. ASSUME NEW c \in Calls, StorageStep(c) PROVE ToBeTold'
  BY <1>2, StepToBeTold DEF StorageStep
<1>3. CASE UNCHANGED vars
  <2>1. UNCHANGED <<disk, litter, pc, op, free, outdated, lapses>>
    BY <1>3 DEF vars, storageVars
  <2>2. Free' = Free
    BY <2>1, FreeSame
  <2> QED BY <2>1, <2>2 DEF ToBeTold, WillTell
<1>4. Next => \E c \in Calls : StorageStep(c) \/ Else(c)
  BY DEF Next, Else
<1> QED BY <1>1, <1>2, <1>3, <1>4

-----------------------------------------------------------------------------
(* Whole values                                                            *)

\* No step that is recorded so tears a value.
LEMMA NotTorn ==
  ASSUME NoteLapses, "torn" \notin lapses'
  PROVE  "torn" \notin lapses /\ ~Torn
BY DEF NoteLapses

\* Who has a file open is a copy or has opened it for writing.
LEMMA WriterIs ==
  ASSUME StorageAssumption, Control,
         \A c \in Calls : fd[c] # None => pc[c] = "filling",
         NEW k \in Keys, NEW c \in Calls, fd[c] = k
  PROVE  InPlace(k)
<1>1. k # None
  BY DEF StorageAssumption
<1> QED BY <1>1 DEF Control, Placed, MayBe, InPlace

\* What opening a file in place does.
LEMMA OpenedIs ==
  ASSUME Control, NEW c \in Calls, NEW k, NEW v, OpenInPlace(c, k, v)
  PROVE  /\ disk' = [disk EXCEPT ![k] = Empty] /\ fd' = [fd EXCEPT ![c] = k]
         /\ pc' = [pc EXCEPT ![c] = "filling"] /\ result'[c] = v /\ NoteLapses
         /\ Copying(k) = {} => \A d \in Calls \ {c} : result'[d] = result[d]
BY DEF OpenInPlace, Put, GoTo

LEMMA StepWhole ==
  ASSUME StorageAssumption, Control, Control', Whole, NEW c \in Calls, StorageStep(c)
  PROVE  Whole'
<1>1. /\ Step(c) /\ op' = op /\ carry' = carry
      /\ disk \in [Keys -> Contents] /\ fd \in [Calls -> Keys \cup {None}]
      /\ result \in [Calls -> Contents] /\ pc \in [Calls -> States]
      /\ None \notin Keys /\ Empty # None /\ Empty \notin Values
      /\ MayBe(op[c], pc[c]) /\ TwoFiles(op[c])
  BY StepOp DEF StorageStep, Control, Shape, Placed, StorageAssumption
<1>2. /\ pc[c] \notin {"idle", "done", "failed", "cancelled"}
      /\ \A d \in Calls \ {c} : pc[d] = "filling" => pc'[d] = "filling"
  BY <1>1, StepPc
<1>3. op[c].key \in Keys /\ (pc[c] = "copy" => op[c].to \in Keys /\ op[c].to # op[c].key)
  BY <1>1, <1>2, OpIs DEF MayBe, TwoFiles
<1>4. \A d \in Calls : fd[d] # None => pc[d] = "filling"
  BY DEF Whole
<1>5. lapses' = lapses \/ NoteLapses
  BY <1>1 DEF Step, ReadFree, PassCheck, Sleep, Resume, Cancel, WakeNobody,
              WakeOne, WakeRaises, WriteTemp, Rename, Erase, WriteFails, Exists,
              Read, OpenFile, OpenToWrite, OpenInPlace, CloseFile, CopyNothing,
              CopyOpens, FileFills, Move
<1> DEFINE Old == /\ \A d \in Calls : result[d] # Empty /\ carry[d] # Empty
                                         /\ op[d].val # Empty
                  /\ \A d \in Calls : fd[d] # None => disk[fd[d]] = Empty
                  /\ \A d, e \in Calls : fd[d] # None /\ fd[d] = fd[e] => d = e
                  /\ \A k \in Keys : disk[k] = Empty => \E d \in Calls : fd[d] = k
           New == /\ \A d \in Calls : result'[d] # Empty
                  /\ \A d \in Calls : fd'[d] # None => disk'[fd'[d]] = Empty
                  /\ \A d, e \in Calls : fd'[d] # None /\ fd'[d] = fd'[e] => d = e
                  /\ \A k \in Keys : disk'[k] = Empty => \E d \in Calls : fd'[d] = k
           Filling == \A d \in Calls : fd'[d] # None => pc'[d] = "filling"
<1>6. "torn" \notin lapses' => "torn" \notin lapses /\ Old
  BY <1>5, NotTorn DEF Whole
<1>7. NoteLapses /\ "torn" \notin lapses' => ~Torn
  BY NotTorn
<1>8. SUFFICES Filling /\ ("torn" \notin lapses' => New)
  BY <1>1, <1>6 DEF Whole
<1>9. ASSUME pc[c] # "filling", \A d \in Calls : fd'[d] = None \/ fd[d] # None
      PROVE  Filling
  BY <1>2, <1>4, <1>9
<1>10. ASSUME NEW k \in Keys, NEW v \in Contents, v # Empty, Put(k, v),
              fd' = Unlinked(k), result' = result, Old
       PROVE  New
  BY <1>1, <1>10 DEF Put, Unlinked
<1>11. CASE Rename(c) \/ Erase(c) \/ CopyNothing(c)
  <2>1. pc[c] # "filling" /\ \A d \in Calls : fd'[d] = None \/ fd[d] # None
    BY <1>1, <1>11 DEF Rename, Erase, CopyNothing, Unlinked
  <2>2. Filling
    BY <1>9, <2>1
  <2>3. op[c].val \in Contents /\ None \in Contents
    BY <1>2, OpIs DEF Contents
  <2>4. ASSUME Old PROVE New
    <3>1. op[c].val # Empty
      BY <2>4
    <3> HIDE DEF Old, New
    <3>2. Rename(c) => New
      BY <1>3, <1>10, <2>3, <2>4, <3>1 DEF Rename
    <3>3. Erase(c) => New
      BY <1>1, <1>3, <1>10, <2>3, <2>4 DEF Erase
    <3>4. CopyNothing(c) => New
      BY <1>1, <1>3, <1>10, <2>3, <2>4 DEF CopyNothing
    <3> QED BY <1>11, <3>2, <3>3, <3>4
  <2> HIDE DEF Old, New, Filling
  <2> QED BY <1>6, <2>2, <2>4
<1>12. CASE Exists(c) \/ Read(c)
  <2>1. pc[c] # "filling" /\ fd' = fd /\ disk' = disk /\ Filling
    BY <1>9, <1>12 DEF Exists, Read
  <2>2. ASSUME "torn" \notin lapses' PROVE result'[c] # Empty
    <3>1. CASE Exists(c)
      BY <1>1, <3>1 DEF Exists
    <3>2. CASE Read(c)
      <4>1. /\ NoteLapses /\ pc[c] = "read" /\ pc'[c] # "read"
            /\ result'[c] = disk[op[c].key]
        BY <1>1, <3>2 DEF Read, GoTo
      <4>2. ~InPlace(op[c].key)
        BY <1>7, <2>2, <4>1 DEF Torn
      <4> QED BY <1>3, <1>4, <1>6, <2>2, <4>1, <4>2, WriterIs
    <3> QED BY <1>12, <3>1, <3>2
  <2>3. \A d \in Calls \ {c} : result'[d] = result[d]
    BY <1>1, <1>12 DEF Exists, Read
  <2>4. ASSUME Old, result'[c] # Empty PROVE New
    BY <2>1, <2>3, <2>4
  <2> HIDE DEF Old, New, Filling
  <2> QED BY <1>6, <2>1, <2>2, <2>4
<1>13. CASE CopyOpens(c) \/ OpenToWrite(c)
  <2>1. PICK k, v : /\ k \in Keys /\ OpenInPlace(c, k, v) /\ pc[c] # "filling"
                    /\ CopyOpens(c) => v = disk[op[c].key]
                    /\ OpenToWrite(c) => v \in Values
    BY <1>3, <1>13 DEF CopyOpens, OpenToWrite
  <2>2. /\ disk' = [disk EXCEPT ![k] = Empty] /\ fd' = [fd EXCEPT ![c] = k]
        /\ pc' = [pc EXCEPT ![c] = "filling"] /\ result'[c] = v /\ NoteLapses
        /\ Copying(k) = {} => \A d \in Calls \ {c} : result'[d] = result[d]
    BY <2>1, OpenedIs
  <2>3. pc'[c] = "filling" /\ fd'[c] = k /\ fd[c] = None
    BY <1>1, <1>4, <2>1, <2>2
  <2>4. Filling
    BY <1>1, <1>2, <1>4, <2>2, <2>3
  <2>5. ASSUME "torn" \notin lapses' PROVE New
    <3>1. /\ ~InPlace(k) /\ Copying(k) = {}
          /\ op[c].kind = "copy" => ~InPlace(op[c].key)
      BY <1>7, <2>1, <2>2, <2>3, <2>5 DEF Torn
    <3>2. \A d \in Calls : fd[d] # k
      BY <1>4, <2>1, <3>1, WriterIs
    <3>3. v # Empty
      <4>1. CASE CopyOpens(c)
        BY <1>3, <1>4, <1>6, <2>1, <2>5, <3>1, <4>1, WriterIs DEF CopyOpens
      <4>2. CASE OpenToWrite(c)
        BY <1>1, <2>1, <4>2
      <4> QED BY <1>13, <4>1, <4>2
    <3>4. Old
      BY <1>6, <2>5
    <3>5. \A d \in Calls : result'[d] # Empty
      BY <2>2, <3>1, <3>3, <3>4
    <3>6. \A d \in Calls : fd'[d] = IF d = c THEN k ELSE fd[d]
      BY <1>1, <2>2
    <3>7. \A x \in Keys : disk'[x] = IF x = k THEN Empty ELSE disk[x]
      BY <1>1, <2>2
    <3>8. \A d \in Calls : fd'[d] # None => disk'[fd'[d]] = Empty
      BY <1>1, <2>1, <3>2, <3>4, <3>6, <3>7
    <3>9. \A d, e \in Calls : fd'[d] # None /\ fd'[d] = fd'[e] => d = e
      BY <3>2, <3>4, <3>6
    <3>10. \A x \in Keys : disk'[x] = Empty => \E d \in Calls : fd'[d] = x
      BY <2>3, <3>4, <3>6, <3>7
    <3> QED BY <3>5, <3>8, <3>9, <3>10
  <2> QED BY <2>4, <2>5
<1>14. CASE FileFills(c)
  <2>1. /\ pc[c] = "filling" /\ NoteLapses /\ result' = [result EXCEPT ![c] = None]
        /\ fd' = [fd EXCEPT ![c] = None]
    BY <1>14 DEF FileFills
  <2>2. Filling
    BY <1>1, <1>2, <1>4, <2>1
  <2>3. ASSUME "torn" \notin lapses' PROVE New
    <3>1. pc'[c] # "failed"
      BY <1>7, <2>1, <2>3 DEF Torn
    <3>2. Old
      BY <1>6, <2>3
    <3>3. CASE fd[c] = None
      <4>1. disk' = disk
        BY <3>3, <1>14 DEF FileFills
      <4>2. fd' = fd
        BY <1>1, <2>1, <3>3
      <4> QED BY <1>1, <2>1, <3>2, <4>1, <4>2
    <3>4. CASE fd[c] # None
      <4>1. PICK k \in Keys : k = fd[c]
        BY <1>1, <3>4
      <4>2. disk[k] = Empty /\ Size(Empty) = 0 /\ Size(result[c]) \in Nat
        BY <1>1, <3>2, <3>4, <4>1 DEF StorageAssumption, Contents
      <4>3. ~(Size(result[c]) < Size(disk[k]))
        BY <4>2
      <4>4. Put(k, result[c])
        BY <1>1, <1>14, <3>1, <3>4, <4>1, <4>3 DEF FileFills, GoTo
      <4>5. result[c] # Empty /\ disk' = [disk EXCEPT ![k] = result[c]]
        BY <3>2, <4>4 DEF Put
      <4>6. \A d \in Calls \ {c} : fd[d] # k
        BY <3>2, <3>4, <4>1
      <4> QED BY <1>1, <2>1, <3>2, <4>1, <4>5, <4>6
    <3> QED BY <3>3, <3>4
  <2> QED BY <2>2, <2>3
<1>15. CASE Move(c)
  <2>1. PICK k, l \in Keys : k = op[c].key /\ l = op[c].to /\ k # l
    BY <1>3, <1>15 DEF Move
  <2>2. /\ disk' = [disk EXCEPT ![k] = None, ![l] = disk[k]] /\ result' = result
        /\ pc[c] # "filling"
        /\ fd' = [d \in Calls |-> CASE fd[d] = l -> None
                                    [] fd[d] = k -> l
                                    [] OTHER -> fd[d]]
    BY <1>15, <2>1 DEF Move
  <2>3. \A d \in Calls : fd'[d] = IF fd[d] = l THEN None
                                  ELSE IF fd[d] = k THEN l ELSE fd[d]
    BY <2>1, <2>2
  <2>4. \A x \in Keys : disk'[x] = IF x = k THEN None ELSE IF x = l THEN disk[k]
                                   ELSE disk[x]
    BY <1>1, <2>1, <2>2
  <2>5. Filling
    BY <1>1, <1>2, <1>4, <2>1, <2>2, <2>3
  <2>6. ASSUME Old PROVE New
    BY <1>1, <2>1, <2>2, <2>3, <2>4, <2>6
  <2> QED BY <1>6, <2>5, <2>6
<1>16. CASE ~(\/ Rename(c) \/ Erase(c) \/ CopyNothing(c) \/ Exists(c) \/ Read(c)
              \/ CopyOpens(c) \/ OpenToWrite(c) \/ FileFills(c) \/ Move(c))
  <2>1. UNCHANGED <<disk, result, fd>> /\ pc[c] # "filling"
    BY <1>1, <1>16 DEF Step, ReadFree, PassCheck, Sleep, Resume, Cancel, WakeNobody,
           WakeOne, WakeRaises, WriteTemp, WriteFails, OpenFile, CloseFile
  <2> QED BY <1>2, <1>4, <1>6, <2>1
<1> QED BY <1>11, <1>12, <1>13, <1>14, <1>15, <1>16

LEMMA NextWhole ==
  ASSUME StorageAssumption, MetaAssumption, Control, Control', Whole, [Next]_vars
  PROVE  Whole'
<1>1. Shape /\ \A c \in Calls : Placed(c) /\ AtStage(c)
  BY DEF Control
<1>2. /\ op \in [Calls -> Ops \cup {NoOp}] /\ carry \in [Calls -> Contents]
      /\ Empty # None /\ Empty \notin Values
      /\ \A p \in Programs : p.val # Empty
      /\ \A c \in Calls : prog[c].val # Empty
  <2>1. NoProgram.val = None /\ Empty # None /\ Empty \notin Values
        /\ \A p \in Programs : p.val # Empty
    BY DEF NoProgram, StorageAssumption, MetaAssumption, AllPrograms
  <2> QED BY <1>1, <2>1 DEF Shape
<1>3. ASSUME UNCHANGED <<disk, result, carry, op, fd>>, lapses \subseteq lapses',
             \A d \in Calls : pc[d] = "filling" => pc'[d] = "filling"
      PROVE  Whole'
  BY <1>3 DEF Whole
<1>4. ASSUME NEW c \in Calls, Else(c)
      PROVE  /\ UNCHANGED <<disk, result, fd>> /\ lapses \subseteq lapses'
             /\ \A d \in Calls : pc[d] = "filling" => pc'[d] = "filling"
             /\ \A d \in Calls \ {c} : op'[d] = op[d]
  <2>1. /\ UNCHANGED <<disk, result, fd>> /\ pc[c] \in {"idle", "done"}
        /\ \A d \in Calls \ {c} : pc'[d] = pc[d] /\ op'[d] = op[d]
        /\ NoteLapses \/ lapses' = lapses
    BY <1>4, ElseStep
  <2> QED BY <2>1 DEF NoteLapses
<1>5. ASSUME NEW c \in Calls, Else(c),
             "torn" \notin lapses => carry'[c] # Empty /\ op'[c].val # Empty,
             \A d \in Calls \ {c} : carry'[d] = carry[d]
      PROVE  Whole'
  BY <1>4, <1>5 DEF Whole
<1>6. ASSUME NEW c \in Calls, Continue(c) PROVE Whole'
  <2>1. carry' = carry \/ carry' = [carry EXCEPT ![c] = result[c]]
    BY <1>6 DEF Continue, TryNext, ReplicateNext, AskSource, Fill, CopySet,
                MoveDelete, FieldSet, FieldFails
  <2>2. ASSUME "torn" \notin lapses PROVE carry'[c] # Empty /\ op'[c].val # Empty
    <3>1. prog[c].val # Empty /\ result[c] # Empty /\ op[c].val # Empty
          /\ carry[c] # Empty
      BY <1>2, <2>2 DEF Whole
    <3>2. result[c] \in Values => WithField(result[c]) # Empty
      BY <1>2 DEF MetaAssumption
    <3>3. op'[c].val # Empty
      BY <1>2, <1>6, <3>1, <3>2
         DEF Continue, TryNext, ReplicateNext, AskSource, Fill, CopySet, MoveDelete,
             FieldSet, FieldFails, Then, Begin, OpGet, OpSet
    <3> QED BY <1>2, <2>1, <3>1, <3>3
  <2> QED BY <1>2, <1>5, <1>6, <2>1, <2>2 DEF Else
<1>7. ASSUME NEW c \in Calls, NEW p \in Programs, Call(c, p) PROVE Whole'
  <2>1. FirstOp(p).val # Empty
    BY <1>1, <1>7, FirstOpIs DEF Call, Shape
  <2>2. op' = [op EXCEPT ![c] = FirstOp(p)] /\ carry' = carry
    BY <1>7 DEF Call, Begin
  <2>3. "torn" \notin lapses => carry'[c] # Empty /\ op'[c].val # Empty
    BY <1>2, <2>1, <2>2 DEF Whole
  <2> QED BY <1>5, <1>7, <2>2, <2>3 DEF Else
<1>8. ASSUME NEW c \in Calls,
             \/ \E p \in Programs : FutureCall(c, p)
             \/ FutureResume(c) \/ FutureCancel(c)
      PROVE  Whole'
  <2>1. UNCHANGED <<carry, op>>
    BY <1>8 DEF FutureCall, FutureResume, FutureCancel
  <2> QED BY <1>3, <1>4, <1>8, <2>1 DEF Else
<1>9. UNCHANGED vars => Whole'
  BY <1>3 DEF vars, storageVars, metaVars
<1>10. ASSUME NEW c \in Calls, StorageStep(c) PROVE Whole'
  BY <1>10, StepWhole
<1> QED BY <1>6, <1>7, <1>8, <1>9, <1>10 DEF Next

-----------------------------------------------------------------------------
(* Replicas                                                                *)

\* What a step may change of the programs and of who has raced.
LEMMA ProgKept ==
  ASSUME Control, NEW c \in Calls, StorageStep(c) \/ Else(c)
  PROVE  /\ raced \subseteq raced'
         /\ \A d \in Calls : prog[d].kind # "none" => prog'[d] = prog[d]
         /\ \A d \in Calls \ {c} : prog'[d] = prog[d]
<1>1. prog \in [Calls -> Programs \cup {NoProgram}] /\ NoProgram.kind = "none"
  BY DEF Control, Shape, NoProgram
<1>2. CASE StorageStep(c)
  BY <1>2 DEF StorageStep
<1>3. CASE Continue(c)
  BY <1>3, ContinueOp
<1>4. ASSUME NEW p \in Programs, Call(c, p) \/ FutureCall(c, p)
      PROVE  /\ raced \subseteq raced'
             /\ \A d \in Calls : prog[d].kind # "none" => prog'[d] = prog[d]
             /\ \A d \in Calls \ {c} : prog'[d] = prog[d]
  BY <1>1, <1>4 DEF Call, FutureCall
<1>5. CASE FutureResume(c) \/ FutureCancel(c)
  BY <1>5 DEF FutureResume, FutureCancel
<1> QED BY <1>2, <1>3, <1>4, <1>5 DEF Else

LEMMA DisturbedStays ==
  ASSUME Control, NEW c \in Calls, StorageStep(c) \/ Else(c), Disturbed
  PROVE  Disturbed'
<1>1. PICK d \in Calls : Meddled(d) \/ (prog[d].kind = "replset" /\ d \in raced)
  BY DEF Disturbed
<1>2. prog'[d] = prog[d] /\ raced \subseteq raced'
  BY <1>1, ProgKept DEF Meddled
<1> QED BY <1>1, <1>2 DEF Disturbed, Meddled

\* Nothing that matters to the replicas has happened.
LEMMA OneSame ==
  ASSUME OneAtATime, disk' = disk,
         \A d \in Calls : Replicating(d)' <=> Replicating(d),
         \A d \in Calls : Replicating(d) =>
           Written(d)' = Written(d) /\ prog'[d] = prog[d]
  PROVE  OneAtATime'
BY DEF OneAtATime, SameOn

\* A call that is no set of the Replicator and does not meddle writes nothing.
LEMMA HarmlessStep ==
  ASSUME Control, NEW c \in Calls, Step(c), ~Meddled(c), prog[c].kind # "replset"
  PROVE  disk' = disk
<1>1. op[c].kind \in {"none", "get", "open"}
  BY DEF Control, AtStage, Meddled, FutureKinds, NoOp
<1>2. pc[c] \notin {"write", "tmp", "copy", "filling"}
  BY <1>1 DEF Control, Placed, MayBe
<1> QED BY <1>1, <1>2 DEF Step, ReadFree, PassCheck, Sleep, Resume, Cancel,
                          WakeNobody, WakeOne, WakeRaises, WriteTemp, Rename,
                          Erase, WriteFails, Exists, Read, OpenFile,
                          OpenToWrite, OpenInPlace, CloseFile, CopyNothing,
                          CopyOpens, FileFills, Move

\* A step of a call leaves the sets of the others where they are.
LEMMA OthersReplicating ==
  ASSUME NEW d \in Calls, prog'[d] = prog[d], stage'[d] = stage[d],
         pc'[d] = pc[d] \/ (pc[d] = "asleep" /\ pc'[d] = "woken")
  PROVE  (Replicating(d)' <=> Replicating(d)) /\ Written(d)' = Written(d)
BY DEF Replicating, Written

LEMMA StepOneReplicating ==
  ASSUME StorageAssumption, MetaAssumption, Control, Control', OneAtATime,
         ~Disturbed', NEW c \in Calls, StorageStep(c)
  PROVE  OneAtATime'
<1>1. /\ Step(c) /\ prog' = prog /\ stage' = stage /\ op' = op
      /\ raced' = raced \cup Races(c)
      /\ pc \in [Calls -> States] /\ disk \in [Keys -> Contents]
      /\ Placed(c) /\ AtStage(c)
  BY StepOp DEF StorageStep, Control, Shape
<1>2. /\ pc[c] \notin {"idle", "done", "failed", "cancelled"}
      /\ \A d \in Calls \ {c} :
              \/ pc'[d] = pc[d]
              \/ pc[d] = "asleep" /\ pc'[d] = "woken"
  BY <1>1, StepPc
<1>3. \A d \in Calls \ {c} : (Replicating(d)' <=> Replicating(d)) /\ Written(d)' = Written(d)
  BY <1>1, <1>2, OthersReplicating
<1>4. CASE prog[c].kind # "replset"
  <2>1. ~Meddled(c)
    BY <1>1 DEF Disturbed, Meddled
  <2>2. disk' = disk
    BY <1>1, <1>4, <2>1, HarmlessStep
  <2>3. ~Replicating(c) /\ ~Replicating(c)'
    BY <1>1, <1>4 DEF Replicating
  <2> QED BY <1>1, <1>3, <2>2, <2>3, OneSame
<1>5. CASE prog[c].kind = "replset"
  <2>1. Replicating(c)
    BY <1>2, <1>5 DEF Replicating
  <2>2. pc'[c] \notin {"failed", "cancelled"}
    <3>1. pc'[c] \in {"failed", "cancelled"} => c \in Races(c)
      BY <2>1 DEF Races
    <3> QED BY <1>1, <1>5, <3>1 DEF Disturbed
  <2>3. PICK r \in Keys, v \in {prog[c].val} : /\ r = Replicas[stage[c]] /\ v = prog[c].val
                             /\ op[c] = OpSet(r, v) /\ stage[c] \in 1..Len(Replicas)
    BY <1>1, <1>5 DEF AtStage, MetaAssumption
  <2>4. op[c].kind = "set" /\ op[c].key = r /\ op[c].val = v
    BY <2>3 DEF OpSet
  <2>5. \A d \in Calls : Replicating(d) => d = c
    BY <2>1 DEF OneAtATime
  <2>6. /\ \A k \in Written(c) : disk[k] = v
        /\ SameOn(ToSet(Replicas) \ Written(c))
    BY <2>1, <2>3 DEF OneAtATime
  <2>7. /\ \A k \in Written(c)' : disk'[k] = v
        /\ \A k, l \in ToSet(Replicas) \ Written(c)' : disk'[k] = disk'[l]
    <3>1. CASE Rename(c) \/ Erase(c)
      <4>1. Put(r, v) /\ pc'[c] \in {"notify", "done"}
        BY <1>1, <2>4, <3>1 DEF Rename, Erase, AfterWrite, GoTo
      <4>2. \A k \in Keys : disk'[k] = IF k = r THEN v ELSE disk[k]
        BY <1>1, <4>1 DEF Put
      <4>3. pc[c] \in {"write", "tmp"}
        BY <3>1 DEF Rename, Erase
      <4>4. Written(c)' = Written(c) \cup {r}
        BY <1>1, <2>3, <4>1, <4>3 DEF Written
      <4>5. ToSet(Replicas) \subseteq Keys /\ Written(c) \subseteq Keys
        BY <2>3, <4>3 DEF Written, ToSet, MetaAssumption
      <4> QED BY <2>6, <4>2, <4>4, <4>5 DEF SameOn
    <3>2. CASE ~Rename(c) /\ ~Erase(c)
      <4>1. pc[c] \notin {"exists", "read", "open", "opened", "copy", "filling"}
        BY <1>1, <2>4 DEF Placed, MayBe
      <4>2. /\ disk' = disk
            /\ pc'[c] \in {"done", "notify", "notified"} <=>
                 pc[c] \in {"done", "notify", "notified"}
        BY <1>1, <1>2, <2>2, <2>4, <3>2, <4>1
           DEF Step, ReadFree, PassCheck, Sleep, Resume, Cancel, WakeNobody,
               WakeOne, WakeRaises, WriteTemp, WriteFails, Exists, Read,
               OpenFile, OpenToWrite, OpenInPlace, CloseFile, CopyNothing,
               CopyOpens, FileFills, Filled, Move, GoTo, Work
      <4>3. Written(c)' = Written(c)
        BY <1>1, <4>2 DEF Written
      <4> QED BY <2>6, <4>2, <4>3 DEF SameOn
    <3> QED BY <3>1, <3>2
  <2>8. \A d \in Calls : Replicating(d)' => d = c
    BY <1>3, <2>5
  <2>9. ASSUME ~Replicating(c)'
        PROVE  \A k, l \in ToSet(Replicas) : disk'[k] = disk'[l]
    <3>1. pc'[c] = "done" /\ ~(stage[c] < Len(Replicas))
      BY <1>1, <1>5, <2>2, <2>9 DEF Replicating
    <3>2. stage[c] = Len(Replicas)
      BY <2>3, <3>1 DEF MetaAssumption
    <3>3. ToSet(Replicas) \subseteq Written(c)'
      <4>1. SUFFICES ASSUME NEW i \in DOMAIN Replicas
                     PROVE  Replicas[i] \in Written(c)'
        BY DEF ToSet
      <4>2. i \in 1..(stage[c] - 1) \/ i = stage[c]
        BY <3>2 DEF MetaAssumption
      <4> QED BY <1>1, <3>1, <4>2 DEF Written
    <3> QED BY <2>7, <3>3
  <2> QED BY <1>1, <2>3, <2>7, <2>8, <2>9 DEF OneAtATime, SameOn
<1> QED BY <1>4, <1>5

LEMMA ElseOneReplicating ==
  ASSUME StorageAssumption, MetaAssumption, Control, Control', OneAtATime,
         ~Disturbed', NEW c \in Calls, Else(c)
  PROVE  OneAtATime'
<1>1. /\ disk' = disk /\ pc[c] \in {"idle", "done"}
      /\ pc'[c] \in {"check", "write", "exists", "open", "copy", "idle",
                     "done", "failed"}
      /\ \A d \in Calls \ {c} : pc'[d] = pc[d]
  BY ElseStep
<1>2. /\ \A d \in Calls \ {c} : prog'[d] = prog[d]
      /\ AtStage(c) /\ prog \in [Calls -> Programs \cup {NoProgram}]
      /\ stage \in [Calls -> 0..(Len(Replicas) + 3)] /\ Len(Replicas) \in Nat \ {0}
      /\ NoProgram.kind = "none"
  BY ProgKept DEF Control, Shape, NoProgram, MetaAssumption
<1>3. \A d \in Calls \ {c} : stage'[d] = stage[d]
  BY <1>2 DEF Else, Call, FutureCall, FutureResume, FutureCancel, Continue,
              TryNext, ReplicateNext, AskSource, Fill, CopySet, MoveDelete,
              FieldSet, FieldFails, Then
<1>4. \A d \in Calls \ {c} : (Replicating(d)' <=> Replicating(d)) /\ Written(d)' = Written(d)
  BY <1>1, <1>2, <1>3, OthersReplicating
<1>5. CASE ReplicateNext(c)
  <2>1. /\ prog[c].kind = "replset" /\ prog' = prog /\ stage[c] < Len(Replicas)
        /\ pc[c] = "done" /\ stage'[c] = stage[c] + 1 /\ stage[c] \in 1..Len(Replicas)
        /\ Begin(c, OpSet(Replicas[stage[c] + 1], prog[c].val))
    BY <1>2, <1>5 DEF ReplicateNext, Then, AtStage
  <2>2. pc'[c] \in {"check", "write"}
    <3>1. OpSet(Replicas[stage[c] + 1], prog[c].val).kind = "set"
      BY DEF OpSet
    <3> QED BY <2>1, <3>1 DEF Begin, GoTo, Work, Control, Shape
  <2>3. Replicating(c) /\ Replicating(c)'
    BY <2>1, <2>2 DEF Replicating
  <2>4. Written(c)' = Written(c)
    <3>1. stage'[c] - 1 = stage[c]
      BY <2>1
    <3>2. Written(c)' = {Replicas[i] : i \in 1..stage[c]}
      BY <2>2, <3>1 DEF Written
    <3>3. Written(c) = {Replicas[i] : i \in 1..(stage[c] - 1)} \cup {Replicas[stage[c]]}
      BY <2>1 DEF Written
    <3>4. 1..stage[c] = (1..(stage[c] - 1)) \cup {stage[c]}
      BY <2>1
    <3> QED BY <3>2, <3>3, <3>4
  <2> QED BY <1>1, <1>4, <2>1, <2>3, <2>4, OneSame
<1>6. ASSUME NEW p \in Programs, Call(c, p), p.kind = "replset" PROVE OneAtATime'
  <2>1. /\ prog[c].kind = "none" /\ prog'[c].kind = "replset" /\ stage'[c] = 1
        /\ (\E d \in Calls : Replicating(d)) => c \in raced'
    BY <1>2, <1>6 DEF Call
  <2>2. ~\E d \in Calls : Replicating(d)
    BY <2>1 DEF Disturbed
  <2>3. pc'[c] \in {"check", "write"}
    <3>1. FirstOp(p).kind = "set" /\ Begin(c, FirstOp(p))
      BY <1>6 DEF FirstOp, OpSet, Call
    <3> QED BY <3>1 DEF Begin, GoTo, Work, Control, Shape
  <2>4. Replicating(c)' /\ \A d \in Calls : Replicating(d)' => d = c
    BY <1>4, <2>1, <2>2, <2>3 DEF Replicating
  <2>5. Written(c)' = {}
    BY <2>1, <2>3 DEF Written
  <2> QED BY <1>1, <2>2, <2>4, <2>5 DEF OneAtATime, SameOn
<1>7. ASSUME prog[c].kind # "replset", prog'[c].kind # "replset" PROVE OneAtATime'
  <2>1. ~Replicating(c) /\ ~Replicating(c)'
    BY <1>7 DEF Replicating
  <2> QED BY <1>1, <1>2, <1>4, <2>1, OneSame
<1>8. ASSUME ~ReplicateNext(c), \A p \in Programs : Call(c, p) => p.kind # "replset"
      PROVE  prog[c].kind # "replset" /\ prog'[c].kind # "replset"
  <2>1. ASSUME NEW p \in Programs, Call(c, p) \/ FutureCall(c, p)
        PROVE  prog[c].kind # "replset" /\ prog'[c].kind # "replset"
    <3>1. prog[c].kind = "none" /\ prog'[c] = p
      BY <1>2, <2>1 DEF Call, FutureCall
    <3>2. FutureCall(c, p) => p.kind \in {"futset", "futget"}
      BY DEF FutureCall, FutureSet, FutureGet
    <3> QED BY <1>8, <2>1, <3>1, <3>2
  <2>2. CASE Continue(c)
    <3>1. prog' = prog
      BY <2>2, ContinueOp
    <3> QED BY <1>8, <2>2, <3>1 DEF Continue, TryNext, AskSource, Fill, CopySet,
               MoveDelete, FieldSet, FieldFails, Then
  <2>3. CASE FutureResume(c) \/ FutureCancel(c)
    <3>1. waitsFor[c] # None /\ prog' = prog
      BY <2>3 DEF FutureResume, FutureCancel
    <3> QED BY <1>2, <3>1 DEF AtStage
  <2> QED BY <2>1, <2>2, <2>3 DEF Else
<1> QED BY <1>5, <1>6, <1>7, <1>8

LEMMA NextOneReplicating ==
  ASSUME StorageAssumption, MetaAssumption, Control, Control', OneReplicating,
         [Next]_vars
  PROVE  OneReplicating'
<1>1. CASE UNCHANGED vars
  BY <1>1 DEF vars, storageVars, metaVars, OneReplicating, Disturbed, Meddled,
              OneAtATime, Replicating, Written, SameOn
<1>2. ASSUME NEW c \in Calls, StorageStep(c) \/ Else(c) PROVE OneReplicating'
  BY <1>2, DisturbedStays, StepOneReplicating, ElseOneReplicating DEF OneReplicating
<1>3. Next => \E c \in Calls : StorageStep(c) \/ Else(c)
  BY DEF Next, Else
<1> QED BY <1>1, <1>2, <1>3

-----------------------------------------------------------------------------
(* Writing back                                                            *)

LEMMA StepStillSeen ==
  ASSUME StorageAssumption, MetaAssumption, Control, Control', StillSeen,
         NEW c \in Calls, StorageStep(c)
  PROVE  StillSeen'
<1>1. /\ Step(c) /\ prog' = prog /\ stage' = stage /\ carry' = carry /\ op' = op
      /\ raced' = raced \cup Races(c)
      /\ pc \in [Calls -> States] /\ disk \in [Keys -> Contents]
      /\ result \in [Calls -> Contents]
      /\ Placed(c) /\ AtStage(c)
  BY StepOp DEF StorageStep, Control, Shape
<1>2. /\ pc[c] \notin {"idle", "done", "failed", "cancelled"}
      /\ \A d \in Calls \ {c} :
              \/ pc'[d] = pc[d]
              \/ pc[d] = "asleep" /\ pc'[d] = "woken"
  BY <1>1, StepPc
<1>3. \A d \in Calls \ {c} : result'[d] = result[d] \/ pc[d] = "filling"
  BY <1>1 DEF Step, ReadFree, PassCheck, Sleep, Resume, Cancel, WakeNobody,
              WakeOne, WakeRaises, WriteTemp, Rename, Erase, WriteFails, Exists,
              Read, OpenFile, OpenToWrite, OpenInPlace, CloseFile, CopyNothing,
              CopyOpens, FileFills, Move, Copying
<1>4. \A d \in Calls : BackKey(d)' = BackKey(d)
  BY <1>1 DEF BackKey
<1>5. ASSUME NEW d \in Calls, d # c, Between(d)'
      PROVE  d \in raced' \/ disk'[BackKey(d)] = Seen(d)'
  <2>1. Between(d) /\ Seen(d)' = Seen(d)
    BY <1>1, <1>2, <1>3, <1>5 DEF Between, Seen
  <2>2. d \in raced \/ disk[BackKey(d)] = Seen(d)
    BY <2>1 DEF StillSeen
  <2>3. disk'[BackKey(d)] # disk[BackKey(d)] => d \in Races(c)
    BY <1>4, <1>5, <2>1 DEF Races
  <2> QED BY <1>1, <2>1, <2>2, <2>3
<1>6. ASSUME Between(c)'
      PROVE  c \in raced' \/ disk'[BackKey(c)] = Seen(c)'
  <2>1. CASE op[c].kind = "get"
    <3>1. pc[c] \in {"exists", "read"}
      BY <1>1, <1>2, <2>1 DEF Placed, MayBe, States, WaitsForSpace
    <3>2. Exists(c) \/ Read(c)
      BY <1>1, <3>1
         DEF Step, ReadFree, PassCheck, Sleep, Resume, Cancel, WakeNobody,
             WakeOne, WakeRaises, WriteTemp, Rename, Erase, WriteFails,
             OpenFile, OpenToWrite, OpenInPlace, CloseFile, CopyNothing,
             CopyOpens, FileFills, Move
    <3>3. /\ disk' = disk
          /\ pc'[c] = "done" => result'[c] = disk[op[c].key]
      BY <1>1, <3>2 DEF Exists, Read, GoTo
    <3>4. CASE stage[c] = 1
      <4>1. op[c] = OpGet(BackKey(c)) /\ pc'[c] = "done"
            /\ (prog[c].kind = "cacheget" => result'[c] = None)
        BY <1>1, <1>6, <3>4 DEF Between, AtStage, BackKey
      <4>2. op[c].key = BackKey(c)
        BY <4>1 DEF OpGet
      <4> QED BY <1>1, <3>3, <3>4, <4>1, <4>2 DEF Seen
    <3>5. CASE stage[c] # 1
      <4>1. prog[c].kind = "cacheget" /\ stage[c] = 2
        BY <1>1, <1>6, <2>1, <3>5 DEF Between, AtStage
      <4>2. Between(c) /\ Seen(c) = None /\ Seen(c)' = None
        BY <1>1, <4>1 DEF Between, Seen
      <4> QED BY <1>1, <3>3, <4>2 DEF StillSeen
    <3> QED BY <3>4, <3>5
  <2>2. CASE op[c].kind # "get"
    <3>1. /\ \/ prog[c].kind = "cacheget" /\ stage[c] = 3
             \/ prog[c].kind = "fieldset" /\ stage[c] = 2
          /\ op[c].kind = "set"
      BY <1>1, <1>6, <2>2 DEF Between, AtStage, OpGet
    <3>2. pc'[c] \in {"check", "checked", "asleep", "woken", "write", "tmp"}
      BY <1>1, <1>6, <3>1 DEF Between
    <3>3. /\ disk' = disk
          /\ pc[c] \in {"check", "checked", "asleep", "woken", "write", "tmp"}
      BY <1>1, <3>1, <3>2
         DEF Step, ReadFree, PassCheck, Sleep, Resume, Cancel, WakeNobody,
             WakeOne, WakeRaises, WriteTemp, Rename, Erase, WriteFails, Exists,
             Read, OpenFile, OpenToWrite, OpenInPlace, CloseFile, CopyNothing,
             CopyOpens, FileFills, Filled, Move, GoTo, AfterWrite, Placed, MayBe
    <3>4. Between(c) /\ Seen(c)' = Seen(c)
      BY <1>1, <3>1, <3>3 DEF Between, Seen
    <3> QED BY <1>1, <3>3, <3>4 DEF StillSeen
  <2> QED BY <2>1, <2>2
<1> QED BY <1>4, <1>5, <1>6 DEF StillSeen

LEMMA ElseStillSeen ==
  ASSUME StorageAssumption, MetaAssumption, Control, Control', StillSeen,
         NEW c \in Calls, Else(c)
  PROVE  StillSeen'
<1>1. /\ disk' = disk /\ result' = result /\ pc[c] \in {"idle", "done"}
      /\ pc'[c] \in {"check", "write", "exists", "open", "copy", "idle",
                     "done", "failed"}
      /\ \A d \in Calls \ {c} : pc'[d] = pc[d]
  BY ElseStep
<1>2. /\ \A d \in Calls \ {c} : prog'[d] = prog[d]
      /\ raced \subseteq raced'
      /\ AtStage(c) /\ prog \in [Calls -> Programs \cup {NoProgram}]
      /\ stage \in [Calls -> 0..(Len(Replicas) + 3)] /\ Len(Replicas) \in Nat \ {0}
      /\ carry \in [Calls -> Contents] /\ pc \in [Calls -> States]
      /\ NoProgram.kind = "none"
  BY ProgKept DEF Control, Shape, NoProgram, MetaAssumption
<1>3. \A d \in Calls \ {c} : stage'[d] = stage[d] /\ carry'[d] = carry[d]
  BY <1>2 DEF Else, Call, FutureCall, FutureResume, FutureCancel, Continue,
              TryNext, ReplicateNext, AskSource, Fill, CopySet, MoveDelete,
              FieldSet, FieldFails, Then
<1>4. ASSUME NEW d \in Calls, d # c, Between(d)'
      PROVE  d \in raced' \/ disk'[BackKey(d)'] = Seen(d)'
  <2>1. Between(d) /\ Seen(d)' = Seen(d) /\ BackKey(d)' = BackKey(d)
    BY <1>1, <1>2, <1>3, <1>4 DEF Between, Seen, BackKey
  <2> QED BY <1>1, <1>2, <2>1 DEF StillSeen
<1>5. ASSUME Between(c)'
      PROVE  c \in raced' \/ disk'[BackKey(c)'] = Seen(c)'
  <2>1. ASSUME NEW p \in Programs PROVE ~Call(c, p) /\ ~FutureCall(c, p)
    <3>1. Call(c, p) => stage'[c] = 1 /\ pc'[c] # "done" /\ prog'[c] = p
      BY <1>1, <1>2 DEF Call, Begin, GoTo, Work
    <3>2. FutureCall(c, p) => prog'[c] = p /\ p.kind \in {"futset", "futget"}
      BY <1>2 DEF FutureCall, FutureSet, FutureGet
    <3> QED BY <1>5, <3>1, <3>2 DEF Between
  <2>2. ~FutureResume(c) /\ ~FutureCancel(c)
    <3>1. FutureResume(c) \/ FutureCancel(c) => waitsFor[c] # None /\ prog' = prog
      BY DEF FutureResume, FutureCancel
    <3> QED BY <1>2, <1>5, <3>1 DEF AtStage, Between
  <2>3. Continue(c)
    BY <2>1, <2>2 DEF Else
  <2>4. prog' = prog /\ BackKey(c)' = BackKey(c) /\ pc[c] = "done"
    BY <2>3, ContinueOp
       DEF BackKey, Continue, TryNext, ReplicateNext, AskSource, Fill, CopySet,
           MoveDelete, FieldSet, FieldFails, Then
  <2>5. prog[c].kind \in {"cacheget", "fieldset"}
    BY <1>5, <2>4 DEF Between
  <2>6. ~FieldFails(c)
    <3>1. FieldFails(c) => pc'[c] = "failed" /\ stage'[c] = 1 /\ prog[c].kind = "fieldset"
      BY <1>2, <2>5 DEF FieldFails, GoTo
    <3> QED BY <1>5, <2>4, <3>1 DEF Between
  <2>7. AskSource(c) \/ Fill(c) \/ FieldSet(c)
    BY <2>3, <2>5, <2>6 DEF Continue, TryNext, ReplicateNext, CopySet,
                            MoveDelete, Then
  <2>8. Between(c) /\ Seen(c)' = Seen(c)
    BY <1>1, <1>2, <2>4, <2>7
       DEF AskSource, Fill, FieldSet, Then, Between, Seen
  <2> QED BY <1>1, <1>2, <2>4, <2>8 DEF StillSeen
<1> QED BY <1>4, <1>5 DEF StillSeen

LEMMA NextStillSeen ==
  ASSUME StorageAssumption, MetaAssumption, Control, Control', StillSeen, [Next]_vars
  PROVE  StillSeen'
<1>1. CASE UNCHANGED vars
  BY <1>1 DEF vars, storageVars, metaVars, StillSeen, Between, BackKey, Seen
<1>2. ASSUME NEW c \in Calls, StorageStep(c) \/ Else(c) PROVE StillSeen'
  BY <1>2, StepStillSeen, ElseStillSeen
<1>3. Next => \E c \in Calls : StorageStep(c) \/ Else(c)
  BY DEF Next, Else
<1> QED BY <1>1, <1>2, <1>3

-----------------------------------------------------------------------------
(* The invariant and what follows from it                                  *)

LEMMA InitInv ==
  StorageAssumption /\ DiskAssumption /\ MetaAssumption /\ Init => StorageInv
<1> SUFFICES ASSUME StorageAssumption, DiskAssumption, MetaAssumption, Init
             PROVE  StorageInv
  OBVIOUS
<1> USE DEF Init, StorageInit
<1>1. Control
  BY InitControl
<1>2. Free = Capacity /\ Capacity \in Nat /\ Limit \in 1..Capacity
  <2>1. \A k \in Keys : Used[k] = 0
    BY DEF Used, StorageAssumption
  <2>2. \A c \in Calls : Held[c] = 0
    BY DEF Held
  <2>3. SumFunctionOnSet(Used, Keys) = 0 /\ SumFunctionOnSet(Held, Calls) = 0
    BY <2>1, <2>2, SumZero DEF StorageAssumption
  <2> QED BY <2>3 DEF Free, DiskAssumption
<1>3. Amounts
  BY <1>2 DEF Amounts
<1>4. Whole
  BY DEF Whole, NoOp, StorageAssumption
<1>5. RoomKept
  BY <1>2 DEF RoomKept, Limiting, Acting
<1>6. ToBeTold
  BY DEF ToBeTold
<1>7. OneReplicating
  <2>1. ToSet(Replicas) \subseteq Keys
    BY DEF MetaAssumption, ToSet
  <2>2. \A c \in Calls : ~Replicating(c)
    BY DEF Replicating, NoProgram
  <2> QED BY <2>1, <2>2 DEF OneReplicating, OneAtATime, SameOn
<1>8. StillSeen
  BY DEF StillSeen, Between, NoProgram
<1>9. WaitersReachable
  BY DEF WaitersReachable
<1> QED BY <1>1, <1>3, <1>4, <1>5, <1>6, <1>7, <1>8, <1>9 DEF StorageInv

LEMMA NextInv ==
  StorageAssumption /\ DiskAssumption /\ MetaAssumption /\ StorageInv /\ [Next]_vars
    => StorageInv'
<1> SUFFICES ASSUME StorageAssumption, DiskAssumption, MetaAssumption, StorageInv,
                    [Next]_vars
             PROVE  StorageInv'
  OBVIOUS
<1>1. /\ Control /\ Amounts /\ Whole /\ RoomKept /\ ToBeTold
      /\ OneReplicating /\ StillSeen /\ WaitersReachable
  BY DEF StorageInv
<1>2. Control'
  BY <1>1, NextControl
<1>3. Amounts'
  BY <1>1, <1>2, NextAmounts
<1>4. Whole' /\ WaitersReachable'
  BY <1>1, <1>2, NextWhole, NextWaitersReachable
<1>5. RoomKept'
  BY <1>1, <1>2, NextRoomKept
<1>6. ToBeTold'
  BY <1>1, <1>2, <1>3, NextToBeTold
<1>7. OneReplicating' /\ StillSeen'
  BY <1>1, <1>2, NextOneReplicating, NextStillSeen
<1> QED BY <1>2, <1>3, <1>4, <1>5, <1>6, <1>7 DEF StorageInv

\* Every state that calls of storages can reach satisfies the invariant.
THEOREM StorageInvHolds == Spec => []StorageInv
<1>1. Init => StorageInv
  BY InitInv, StorageAssumption, DiskAssumption, MetaAssumption
<1>2. StorageInv /\ [Next]_vars => StorageInv'
  BY NextInv, StorageAssumption, DiskAssumption, MetaAssumption
<1> QED BY <1>1, <1>2, PTL DEF Spec

\* Every state has the shape it is read with: the disk is never overfull, and
\* whoever sleeps is on the list of waiters (filesystem.py 381-402).
THEOREM TypeCorrect == Spec => []TypeOK
<1>1. StorageInv => TypeOK
  <2> SUFFICES ASSUME StorageInv PROVE TypeOK
    OBVIOUS
  <2>1. Shape /\ Amounts /\ Control
    BY DEF StorageInv, Control
  <2>2. Free \in 0..Capacity /\ litter \in 0..Capacity
    <3>1. Free \in Nat /\ litter \in Nat
      BY <2>1 DEF Amounts
    <3> QED BY <2>1, <3>1, Amount, StorageAssumption, DiskAssumption DEF Free
  <2> QED BY <2>1, <2>2 DEF TypeOK, StorageTypeOK, Shape, Amounts
<1> QED BY <1>1, StorageInvHolds, PTL

\* No set that fits sleeps for ever beside the room it waits for: unless the
\* figure it acted on was old, or a call failed, was cancelled or freed space
\* of which nobody tells, there is not more than it asked for once everything
\* is quiet (filesystem.py 384-402, 443-446).
THEOREM RoomOfferedHolds == Spec => []RoomOffered
<1>1. StorageInv => RoomOffered
  BY DEF StorageInv, ToBeTold, RoomOffered, Quiet, WillTell
<1> QED BY <1>1, StorageInvHolds, PTL

\* As long as no two calls act on the free space at once and nobody writes
\* without asking, the limit of free space is kept, through the check, the
\* wake-up and the temporary file (filesystem.py 367-446).
THEOREM LimitKeptHolds == Spec => []LimitKept
<1>1. StorageInv => LimitKept
  BY DEF StorageInv, RoomKept, LimitKept
<1> QED BY <1>1, StorageInvHolds, PTL

\* Whoever reads, gets a value, and a file is without one only while a copy or a
\* user of open(key, 'wb') is about to fill it, as long as no file was read,
\* copied or opened again while it was written so and no such write failed: set
\* and move never show less, whatever file a descriptor still belongs to
\* (filesystem.py 104-113, 404-429, 459-468).
THEOREM WholeValuesHolds == Spec => []WholeValues
<1>1. StorageInv => WholeValues
  <2> SUFFICES ASSUME StorageInv, "torn" \notin lapses
               PROVE  /\ \A c \in Calls : result[c] # Empty
                      /\ \A k \in Keys : disk[k] = Empty => InPlace(k)
    BY DEF WholeValues
  <2>1. /\ \A c \in Calls : result[c] # Empty
        /\ \A k \in Keys : disk[k] = Empty => \E c \in Calls : fd[c] = k
    BY DEF StorageInv, Whole
  <2>2. Control /\ \A c \in Calls : fd[c] # None => pc[c] = "filling"
    BY DEF StorageInv, Whole
  <2> QED BY <2>1, <2>2, StorageAssumption, WriterIs
<1> QED BY <1>1, StorageInvHolds, PTL

\* Sets of the Replicator that neither overlap nor raise leave all storages
\* with the same value, for any number of storages (meta.py 38-41).
THEOREM ReplicasAgreeHolds == Spec => []ReplicasAgree
<1>1. StorageInv => ReplicasAgree
  <2> SUFFICES ASSUME StorageInv, ~\E c \in Calls : Replicating(c), ~Disturbed
               PROVE  \A i, j \in DOMAIN Replicas : disk[Replicas[i]] = disk[Replicas[j]]
    BY DEF ReplicasAgree, Disturbed
  <2>1. SameOn(ToSet(Replicas))
    BY DEF StorageInv, OneReplicating, OneAtATime
  <2>2. \A i \in DOMAIN Replicas : Replicas[i] \in ToSet(Replicas)
    BY DEF ToSet
  <2> QED BY <2>1, <2>2 DEF SameOn
<1> QED BY <1>1, StorageInvHolds, PTL

\* The next set of a FutureStorage reaches everybody whose future is pending
\* (meta.py 85-103).
THEOREM WaitersReachableHolds == Spec => []WaitersReachable
<1>1. StorageInv => WaitersReachable
  BY DEF StorageInv
<1> QED BY <1>1, StorageInvHolds, PTL

\* A Cache.get and a set of a field overwrite what they have seen, unless
\* somebody wrote in between (meta.py 56-63, base.py 74-83).
THEOREM WritesBackRacedHolds == Spec => WritesBackRaced
<1> DEFINE Back ==
      \A c \in Calls :
        prog[c].kind \in {"cacheget", "fieldset"}
          /\ pc[c] \in {"write", "tmp"} /\ pc'[c] \in {"notify", "done"}
          => \/ disk[BackKey(c)] =
                  IF prog[c].kind = "cacheget" THEN None ELSE carry[c]
             \/ c \in raced
<1>1. StorageInv => Back
  <2> SUFFICES ASSUME StorageInv, NEW c \in Calls,
                      prog[c].kind \in {"cacheget", "fieldset"},
                      pc[c] \in {"write", "tmp"}
               PROVE  \/ disk[BackKey(c)] =
                           IF prog[c].kind = "cacheget" THEN None ELSE carry[c]
                      \/ c \in raced
    OBVIOUS
  <2>1. op[c].kind = "set" /\ AtStage(c)
    BY DEF StorageInv, Control, Placed, MayBe
  <2>2. \/ prog[c].kind = "cacheget" /\ stage[c] = 3
        \/ prog[c].kind = "fieldset" /\ stage[c] = 2
    BY <2>1 DEF AtStage, OpGet
  <2>3. Between(c) /\ Seen(c) = IF prog[c].kind = "cacheget" THEN None ELSE carry[c]
    BY <2>2 DEF Between, Seen
  <2> QED BY <2>3 DEF StorageInv, StillSeen
<1>2. StorageInv /\ [Next]_vars => [Back]_vars
  BY <1>1
<1> QED BY <1>2, StorageInvHolds, PTL DEF Spec, WritesBackRaced
=============================================================================
