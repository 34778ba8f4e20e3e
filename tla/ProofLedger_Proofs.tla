-------------------------- MODULE ProofLedger_Proofs --------------------------
(***************************************************************************)
(* Theorems about ProofLedger, for any number of office processes and      *)
(* monitors, any signatures and any number of appends, crashes and failed  *)
(* writes: types, the choice of the chain against its definition, and that *)
(* nothing leaves the file unrecorded.                                     *)
(***************************************************************************)
EXTENDS ProofLedger, FiniteSetTheorems, SequenceTheorems, TLAPS

-----------------------------------------------------------------------------
(* Least and greatest elements *)

\* A set of naturals that is not empty has a least element.
LEMMA LeastNumber ==
    ASSUME NEW T \in SUBSET Nat, T # {}
    PROVE  \E x \in T : \A y \in T : x <= y
<1>1. IsWellFoundedOn(OpToRel(<, Nat), Nat)
  BY NatLessThanWellFounded
<1>2. PICK x \in T : \A y \in T : <<y, x>> \notin OpToRel(<, Nat)
  BY ONLY <1>1, WFMin, T \in SUBSET Nat, T # {}
<1>3. \A y \in T : ~(y < x)
  BY <1>2 DEF OpToRel
<1> QED BY <1>3

\* A finite set that is not empty has an element that is maximal in a strict
\* order: one with the fewest elements above it.
LEMMA MaximalElement ==
    ASSUME NEW S, IsFiniteSet(S), S # {}, NEW R,
           \A x \in S : <<x, x>> \notin R,
           \A x, y, z \in S : <<x, y>> \in R /\ <<y, z>> \in R => <<x, z>> \in R
    PROVE  \E x \in S : \A y \in S : <<x, y>> \notin R
<1> DEFINE Above(x) == {y \in S : <<x, y>> \in R}
           T == {Cardinality(Above(x)) : x \in S}
<1>1. \A x \in S : IsFiniteSet(Above(x)) /\ Cardinality(Above(x)) \in Nat
  BY FS_Subset, FS_CardinalityType
<1>2. PICK n \in T : \A m \in T : n <= m
  <2>1. T \in SUBSET Nat /\ T # {}
    <3> HIDE DEF Above
    <3> QED BY <1>1
  <2> HIDE DEF T
  <2> QED BY <2>1, LeastNumber
<1>3. PICK x \in S : n = Cardinality(Above(x))
  BY <1>2
<1> SUFFICES ASSUME NEW y \in S, <<x, y>> \in R PROVE FALSE
  OBVIOUS
<1>4. Above(y) \in SUBSET Above(x) /\ y \in Above(x) /\ y \notin Above(y)
  OBVIOUS
<1>5. Above(y) # Above(x)
  BY <1>4
<1>6. Cardinality(Above(x)) <= Cardinality(Above(y))
  <2> HIDE DEF Above
  <2> QED BY <1>2, <1>3
<1>7. Cardinality(Above(y)) <= Cardinality(Above(x))
      /\ (Cardinality(Above(x)) = Cardinality(Above(y)) => Above(x) = Above(y))
  <2> HIDE DEF Above
  <2> QED BY <1>1, <1>4, FS_Subset
<1> HIDE DEF Above
<1> QED BY <1>1, <1>5, <1>6, <1>7

-----------------------------------------------------------------------------
(* Keys *)

Key4 == Nat \X Nat \X Nat \X Nat

Above4(k, l) ==
    \/ k[1] > l[1]
    \/ k[1] = l[1] /\ k[2] > l[2]
    \/ k[1] = l[1] /\ k[2] = l[2] /\ k[3] > l[3]
    \/ k[1] = l[1] /\ k[2] = l[2] /\ k[3] = l[3] /\ k[4] > l[4]

LEMMA KeyAboveIs ==
    ASSUME NEW k \in Key4, NEW l \in Key4
    PROVE  KeyAbove(k, l) <=> Above4(k, l)
<1>1. DOMAIN k = {1, 2, 3, 4}
  BY DEF Key4
<1>2. 1..(1 - 1) = {} /\ 1..(2 - 1) = {1} /\ 1..(3 - 1) = {1, 2} /\ 1..(4 - 1) = {1, 2, 3}
  OBVIOUS
<1> QED BY <1>1, <1>2 DEF KeyAbove, Above4

LEMMA KeysOrdered ==
    ASSUME NEW k \in Key4, NEW l \in Key4, NEW m \in Key4
    PROVE  /\ ~Above4(k, k)
           /\ Above4(k, l) /\ Above4(l, m) => Above4(k, m)
           /\ k[4] # l[4] => Above4(k, l) \/ Above4(l, k)
           /\ Above4(k, l) => ~Above4(l, k)
BY DEF Key4, Above4

-----------------------------------------------------------------------------
(* Chains *)

\* Hashes identify blocks: what a fresh hash per block gives.
HashUnique(V) == \A a, b \in V : a.hash = b.hash => a = b

\* The chains of i + 1 blocks of V.
Level(V, i) == {c \in Seq(V) : Len(c) = i + 1 /\ Linked(c)}

\* One more block at the end of a chain.
LEMMA LinkedAppend ==
    ASSUME NEW V \in SUBSET Blocks, NEW p \in Seq(V), p # <<>>, NEW b \in V
    PROVE  /\ Append(p, b) \in Seq(V) /\ Len(Append(p, b)) = Len(p) + 1
           /\ Linked(Append(p, b)) <=>
                 Linked(p) /\ b.index = Len(p) /\ b.prev = p[Len(p)].hash
<1> DEFINE c == Append(p, b)
<1>1. c \in Seq(V) /\ Len(c) = Len(p) + 1 /\ c[Len(p) + 1] = b
      /\ \A i \in 1..Len(p) : c[i] = p[i]
  BY AppendProperties
<1>2. DOMAIN c = 1..(Len(p) + 1) /\ DOMAIN p = 1..Len(p) /\ Len(p) \in Nat \ {0}
  BY <1>1
<1> HIDE DEF c
<1>3. ASSUME Linked(c) PROVE Linked(p) /\ b.index = Len(p) /\ b.prev = p[Len(p)].hash
  <2>1. \A i \in 1..Len(p) : i \in DOMAIN c /\ (i # 1 => i - 1 \in 1..Len(p))
    BY <1>2
  <2>2. Linked(p)
    BY <1>1, <1>2, <1>3, <2>1 DEF Linked
  <2>3. Len(p) + 1 \in DOMAIN c /\ Len(p) + 1 # 1 /\ (Len(p) + 1) - 1 = Len(p) /\ Len(p) \in 1..Len(p)
    BY <1>2
  <2>4. b.index = Len(p) /\ b.prev = p[Len(p)].hash
    BY <1>1, <1>3, <2>3 DEF Linked
  <2> QED BY <2>2, <2>4
<1>4. ASSUME Linked(p), b.index = Len(p), b.prev = p[Len(p)].hash PROVE Linked(c)
  <2> SUFFICES ASSUME NEW i \in DOMAIN c
               PROVE  /\ c[i].index = i - 1
                      /\ c[i].prev = IF i = 1 THEN 0 ELSE c[i - 1].hash
    BY DEF Linked
  <2>1. CASE i \in 1..Len(p)
    <3>1. i # 1 => i - 1 \in 1..Len(p)
      BY <1>2, <2>1
    <3> QED BY <1>1, <1>2, <1>4, <2>1, <3>1 DEF Linked
  <2>2. CASE i = Len(p) + 1
    <3>1. i # 1 /\ i - 1 = Len(p) /\ Len(p) \in 1..Len(p)
      BY <1>2, <2>2
    <3> QED BY <1>1, <1>4, <2>2, <3>1
  <2> QED BY <1>2, <2>1, <2>2
<1> QED BY <1>1, <1>3, <1>4 DEF c

\* A chain of more than one block is a chain and one more block.
LEMMA LinkedFront ==
    ASSUME NEW V \in SUBSET Blocks, NEW c \in Seq(V), NEW i \in Nat \ {0}, Len(c) = i + 1
    PROVE  \E p \in Seq(V) : Len(p) = i /\ p # <<>> /\ c = Append(p, c[i + 1])
<1> DEFINE p == SubSeq(c, 1, i)
<1>1. \A j \in 1..i : c[j] \in V
  BY ElementOfSeq
<1>2. p \in Seq(V) /\ Len(p) = i /\ \A j \in 1..i : p[j] = c[j]
  BY <1>1, SubSeqProperties
<1>3. c[i + 1] \in V
  BY ElementOfSeq
<1> HIDE DEF p
<1> DEFINE d == Append(p, c[i + 1])
<1>4. d \in Seq(V) /\ Len(d) = i + 1 /\ d[i + 1] = c[i + 1] /\ \A j \in 1..i : d[j] = p[j]
  BY <1>2, <1>3, AppendProperties
<1> HIDE DEF d
<1>5. ASSUME NEW j \in 1..Len(c) PROVE c[j] = d[j]
  <2>1. j \in 1..i \/ j = i + 1
    OBVIOUS
  <2> QED BY <1>2, <1>4, <2>1
<1>6. c = d
  BY <1>4, <1>5, SeqEqual
<1> QED BY <1>2, <1>6 DEF d

\* What the search of _best_chain computes at each length.
Extend(V, L, i) ==
    UNION {{Append(p, b) : p \in {q \in L : b.prev = q[Len(q)].hash}} :
             b \in {c \in V : c.index = i}}

LEMMA LevelZero ==
    ASSUME NEW V \in SUBSET Blocks
    PROVE  Level(V, 0) = {<<b>> : b \in {c \in V : c.index = 0 /\ c.prev = 0}}
<1>1. ASSUME NEW c \in Level(V, 0)
      PROVE  c \in {<<b>> : b \in {d \in V : d.index = 0 /\ d.prev = 0}}
  <2>1. c \in Seq(V) /\ Len(c) = 1 /\ Linked(c)
    BY <1>1 DEF Level
  <2>2. c = <<c[1]>> /\ c[1] \in V /\ 1 \in DOMAIN c
    <3>1. DOMAIN c = 1..1 /\ c[1] \in V
      BY <2>1
    <3>2. <<c[1]>> \in Seq(V) /\ Len(<<c[1]>>) = 1 /\ \A j \in 1..1 : <<c[1]>>[j] = c[j]
      BY <3>1
    <3>3. c = <<c[1]>>
      BY <2>1, <3>2, SeqEqual
    <3> QED BY <3>1, <3>3
  <2>3. c[1].index = 0 /\ c[1].prev = 0
    BY <2>1, <2>2 DEF Linked
  <2> QED BY <2>2, <2>3
<1>2. ASSUME NEW b \in V, b.index = 0, b.prev = 0 PROVE <<b>> \in Level(V, 0)
  BY <1>2 DEF Level, Linked
<1> QED BY <1>1, <1>2

LEMMA LevelExtends ==
    ASSUME NEW V \in SUBSET Blocks, NEW i \in Nat \ {0}
    PROVE  Level(V, i) = Extend(V, Level(V, i - 1), i)
<1>1. ASSUME NEW c \in Level(V, i) PROVE c \in Extend(V, Level(V, i - 1), i)
  <2>1. c \in Seq(V) /\ Len(c) = i + 1 /\ Linked(c)
    BY <1>1 DEF Level
  <2>2. PICK p \in Seq(V) : Len(p) = i /\ p # <<>> /\ c = Append(p, c[i + 1])
    BY <2>1, LinkedFront
  <2> DEFINE b == c[i + 1]
  <2>3. b \in V
    BY <2>1, ElementOfSeq
  <2> HIDE DEF b
  <2>4. c = Append(p, b)
    BY <2>2 DEF b
  <2>5. Linked(p) /\ b.index = i /\ b.prev = p[Len(p)].hash
    BY <2>1, <2>2, <2>3, <2>4, LinkedAppend
  <2>6. p \in Level(V, i - 1)
    BY <2>2, <2>5 DEF Level
  <2> QED BY <2>3, <2>4, <2>5, <2>6 DEF Extend
<1>2. ASSUME NEW c \in Extend(V, Level(V, i - 1), i) PROVE c \in Level(V, i)
  <2>1. PICK b \in V, p \in Level(V, i - 1) :
            b.index = i /\ b.prev = p[Len(p)].hash /\ c = Append(p, b)
    BY <1>2 DEF Extend
  <2>2. p \in Seq(V) /\ Len(p) = i /\ Linked(p) /\ p # <<>>
    BY <2>1 DEF Level
  <2>3. c \in Seq(V) /\ Len(c) = i + 1 /\ Linked(c)
    BY <2>1, <2>2, LinkedAppend
  <2> QED BY <2>3 DEF Level
<1> QED BY <1>1, <1>2

\* The search of _best_chain finds every chain of valid blocks: a chain has
\* distinct indexes, so none is longer than the number of blocks.
LEMMA PathsAreChains ==
    ASSUME NEW V \in SUBSET Blocks, Cardinality(V) \in Nat
    PROVE  PathTo(V) = UNION {Level(V, i) : i \in 0..Cardinality(V)}
<1> DEFINE top == Cardinality(V)
           F(g) == [i \in 0..top |->
                      IF i = 0 THEN {<<b>> : b \in {c \in V : c.index = 0 /\ c.prev = 0}}
                      ELSE Extend(V, g[i - 1], i)]
           u == CHOOSE g : g = F(g)
           lv == [i \in 0..top |-> Level(V, i)]
<1>1. lv = F(lv)
  <2>1. ASSUME NEW i \in 0..top
        PROVE  lv[i] = IF i = 0 THEN {<<b>> : b \in {c \in V : c.index = 0 /\ c.prev = 0}}
                       ELSE Extend(V, lv[i - 1], i)
    <3>1. CASE i = 0
      BY <3>1, LevelZero
    <3>2. CASE i # 0
      <4>1. i \in Nat \ {0} /\ i - 1 \in 0..top
        BY <3>2
      <4>2. lv[i - 1] = Level(V, i - 1) /\ lv[i] = Level(V, i)
        BY <4>1
      <4> QED BY <3>2, <4>1, <4>2, LevelExtends
    <3> QED BY <3>1, <3>2
  <2>2. \E W : lv \in [0..top -> W]
    <3> DEFINE W == {Level(V, i) : i \in 0..top}
    <3>1. lv \in [0..top -> W]
      OBVIOUS
    <3> QED BY <3>1
  <2> HIDE DEF lv
  <2> QED BY <2>1, <2>2
<1>2. u = F(u)
  <2> HIDE DEF lv, F
  <2> QED BY <1>1
<1>3. u[0] = Level(V, 0)
      /\ \A i \in 1..top : u[i] = Extend(V, u[i - 1], i)
  <2> HIDE DEF u
  <2>1. 0 \in 0..top /\ \A i \in 1..top : i \in 0..top /\ i # 0
    OBVIOUS
  <2> QED BY <1>2, <2>1, LevelZero
<1>4. \A i \in 0..top : u[i] = Level(V, i)
  <2> DEFINE T == {i \in 0..top : u[i] # Level(V, i)}
  <2> HIDE DEF u
  <2> SUFFICES ASSUME T # {} PROVE FALSE
    OBVIOUS
  <2>1. PICK i \in T : \A y \in T : i <= y
    <3>1. T \in SUBSET Nat
      OBVIOUS
    <3> HIDE DEF T
    <3> QED BY <3>1, LeastNumber
  <2>2. i # 0
    BY <1>3
  <2>3. i \in 1..top /\ i - 1 \in 0..top /\ i - 1 \notin T
    BY <2>1, <2>2
  <2>4. u[i - 1] = Level(V, i - 1)
    BY <2>3
  <2>5. u[i] = Level(V, i)
    BY <1>3, <2>3, <2>4, LevelExtends
  <2> QED BY <2>1, <2>5
<1>5. PathTo(V) = UNION {u[i] : i \in 0..top}
  BY DEF PathTo, Extend
<1> HIDE DEF u
<1> QED BY <1>4, <1>5

LEMMA PathMember ==
    ASSUME NEW V \in SUBSET Blocks, Cardinality(V) \in Nat, NEW c
    PROVE  c \in PathTo(V) <=>
             c \in Seq(V) /\ c # <<>> /\ Linked(c) /\ Len(c) <= Cardinality(V) + 1
<1>1. ASSUME c \in PathTo(V)
      PROVE  c \in Seq(V) /\ c # <<>> /\ Linked(c) /\ Len(c) <= Cardinality(V) + 1
  <2>1. PICK i \in 0..Cardinality(V) : c \in Level(V, i)
    BY <1>1, PathsAreChains
  <2> QED BY <2>1 DEF Level
<1>2. ASSUME c \in Seq(V), c # <<>>, Linked(c), Len(c) <= Cardinality(V) + 1
      PROVE  c \in PathTo(V)
  <2>1. Len(c) - 1 \in 0..Cardinality(V) /\ (Len(c) - 1) + 1 = Len(c)
    BY <1>2
  <2>2. c \in Level(V, Len(c) - 1)
    BY <1>2, <2>1 DEF Level
  <2> QED BY <2>1, <2>2, PathsAreChains
<1> QED BY <1>1, <1>2

\* The hash of its last block determines a chain.
LEMMA LastDeterminesChain ==
    ASSUME NEW V \in SUBSET Blocks, HashUnique(V),
           NEW c \in Seq(V), c # <<>>, Linked(c),
           NEW d \in Seq(V), d # <<>>, Linked(d),
           c[Len(c)].hash = d[Len(d)].hash
    PROVE  c = d
<1>1. Len(c) \in Nat \ {0} /\ Len(d) \in Nat \ {0} /\ DOMAIN c = 1..Len(c) /\ DOMAIN d = 1..Len(d)
  OBVIOUS
<1>2. c[Len(c)] = d[Len(d)]
  <2>1. c[Len(c)] \in V /\ d[Len(d)] \in V
    BY <1>1
  <2> QED BY <2>1 DEF HashUnique
<1>3. Len(c) = Len(d)
  <2>1. c[Len(c)].index = Len(c) - 1 /\ d[Len(d)].index = Len(d) - 1
    BY <1>1 DEF Linked
  <2>2. Len(c) - 1 = Len(d) - 1
    BY ONLY <1>2, <2>1, Zenon
  <2>3. \A a, b \in Nat : a - 1 = b - 1 => a = b
    OBVIOUS
  <2> QED BY ONLY <1>1, <2>2, <2>3
<1> DEFINE n == Len(c)
           T == {k \in 0..(n - 1) : c[n - k] # d[n - k]}
<1>4. T = {}
  <2> SUFFICES ASSUME T # {} PROVE FALSE
    OBVIOUS
  <2>1. PICK k \in T : \A y \in T : k <= y
    <3>1. T \in SUBSET Nat
      OBVIOUS
    <3> HIDE DEF T
    <3> QED BY <3>1, LeastNumber
  <2>2. k # 0
    BY <1>1, <1>2, <1>3
  <2>3. k - 1 \in 0..(n - 1) /\ k - 1 \notin T
    <3>1. k \in 0..(n - 1) /\ k - 1 < k
      BY <1>1
    <3> HIDE DEF T
    <3> QED BY <1>1, <2>1, <2>2, <3>1
  <2> DEFINE j == n - (k - 1)
  <2>4. j \in 1..n /\ j # 1 /\ j - 1 = n - k /\ n - k \in 1..n
    BY <1>1, <2>1, <2>2
  <2>5. c[j] = d[j]
    BY <2>3
  <2> HIDE DEF j
  <2>6. c[j].prev = c[j - 1].hash /\ d[j].prev = d[j - 1].hash
    BY <1>1, <1>3, <2>4 DEF Linked
  <2>7. c[j - 1] \in V /\ d[j - 1] \in V
    BY <1>1, <1>3, <2>4
  <2>8. c[n - k] = d[n - k]
    BY <2>4, <2>5, <2>6, <2>7 DEF HashUnique
  <2> QED BY <2>1, <2>8
<1>5. ASSUME NEW i \in 1..n PROVE c[i] = d[i]
  <2>1. n - i \in 0..(n - 1) /\ n - (n - i) = i
    BY <1>1
  <2>2. n - i \notin T
    BY <1>4
  <2> QED BY <2>1, <2>2
<1> QED BY <1>3, <1>5, SeqEqual

LEMMA PathsFinite ==
    ASSUME NEW V \in SUBSET Blocks, IsFiniteSet(V), HashUnique(V)
    PROVE  IsFiniteSet(PathTo(V))
<1> DEFINE last == [c \in PathTo(V) |-> c[Len(c)]]
<1>1. Cardinality(V) \in Nat
  BY FS_CardinalityType
<1>2. ASSUME NEW c \in PathTo(V) PROVE c[Len(c)] \in V
  <2>1. c \in Seq(V) /\ c # <<>>
    BY <1>1, PathMember
  <2> QED BY <2>1
<1>3. ASSUME NEW c \in PathTo(V), NEW d \in PathTo(V), last[c] = last[d] PROVE c = d
  <2>1. c \in Seq(V) /\ c # <<>> /\ Linked(c) /\ d \in Seq(V) /\ d # <<>> /\ Linked(d)
    BY <1>1, PathMember
  <2>2. c[Len(c)].hash = d[Len(d)].hash
    BY <1>3
  <2> QED BY <2>1, <2>2, LastDeterminesChain
<1>4. last \in Injection(PathTo(V), V)
  <2>1. last \in [PathTo(V) -> V]
    BY <1>2
  <2> HIDE DEF last
  <2>2. \A a, b \in PathTo(V) : last[a] = last[b] => a = b
    BY <1>3
  <2>3. DOMAIN last = PathTo(V)
    BY <2>1
  <2> QED BY <2>1, <2>2, <2>3, Zenon DEF Injection, IsInjective
<1> HIDE DEF last
<1> QED BY <1>4, FS_Injection

LEMMA TipKeyType ==
    ASSUME NEW V \in SUBSET Blocks, Cardinality(V) \in Nat, NEW fork, NEW c \in PathTo(V)
    PROVE  /\ TipKey(fork, c) \in Key4
           /\ TipKey(fork, c)[1] = Len(c)
           /\ TipKey(fork, c)[2] = IF PassedAfterFork(fork, c) THEN 1 ELSE 0
           /\ TipKey(fork, c)[3] = c[Len(c)].signature
           /\ TipKey(fork, c)[4] = c[Len(c)].hash
           /\ c[Len(c)] \in V
<1>1. c \in Seq(V) /\ c # <<>>
  BY PathMember
<1>2. Len(c) \in Nat /\ c[Len(c)] \in V /\ c[Len(c)] \in Blocks
  BY <1>1
<1>3. c[Len(c)].signature \in Nat /\ c[Len(c)].hash \in Nat
  BY <1>2, LedgerAssumption DEF Blocks
<1>4. (IF PassedAfterFork(fork, c) THEN 1 ELSE 0) \in Nat
  OBVIOUS
<1> DEFINE m == IF PassedAfterFork(fork, c) THEN 1 ELSE 0
<1> HIDE DEF m
<1>5. TipKey(fork, c) = <<Len(c), m, c[Len(c)].signature, c[Len(c)].hash>>
  BY DEF TipKey, m
<1>6. m \in Nat
  BY <1>4 DEF m
<1>7. TipKey(fork, c) \in Key4 /\ TipKey(fork, c)[2] = m
  BY <1>2, <1>3, <1>5, <1>6 DEF Key4
<1> QED BY <1>2, <1>5, <1>7 DEF m

\* Some chain beats every other one by length, quorum, signature or hash, so
\* that max() in _best_chain has exactly one answer.
LEMMA BestExists ==
    ASSUME NEW V \in SUBSET Blocks, IsFiniteSet(V), HashUnique(V), NEW fork, PathTo(V) # {}
    PROVE  \E c \in PathTo(V) : \A d \in PathTo(V) \ {c} :
              KeyAbove(TipKey(fork, c), TipKey(fork, d))
<1> DEFINE P == PathTo(V)
           K(c) == TipKey(fork, c)
           R == {x \in P \X P : Above4(K(x[2]), K(x[1]))}
<1>1. Cardinality(V) \in Nat
  BY FS_CardinalityType
<1>2. \A c \in P : K(c) \in Key4
  BY <1>1, TipKeyType
<1> HIDE DEF K
<1>3. ASSUME NEW c \in P, NEW d \in P, c # d PROVE K(c)[4] # K(d)[4]
  <2>1. c \in Seq(V) /\ c # <<>> /\ Linked(c) /\ d \in Seq(V) /\ d # <<>> /\ Linked(d)
    BY <1>1, PathMember
  <2>2. K(c)[4] = c[Len(c)].hash /\ K(d)[4] = d[Len(d)].hash
    BY <1>1, TipKeyType DEF K
  <2> QED BY <1>3, <2>1, <2>2, LastDeterminesChain
<1>4. IsFiniteSet(P)
  BY PathsFinite
<1> HIDE DEF P
<1>5. \A x, y \in P : <<x, y>> \in R <=> Above4(K(y), K(x))
  OBVIOUS
<1> HIDE DEF R
<1>6. \A x \in P : <<x, x>> \notin R
  BY <1>2, <1>5, KeysOrdered
<1>7. ASSUME NEW x \in P, NEW y \in P, NEW z \in P, <<x, y>> \in R, <<y, z>> \in R
      PROVE  <<x, z>> \in R
  <2>1. Above4(K(y), K(x)) /\ Above4(K(z), K(y))
    BY <1>5, <1>7
  <2>2. Above4(K(z), K(x))
    BY <1>2, <2>1, KeysOrdered
  <2> QED BY <1>5, <2>2
<1>8. PICK c \in P : \A d \in P : <<c, d>> \notin R
  <2>1. P # {}
    BY DEF P
  <2> QED BY ONLY <1>4, <1>6, <1>7, <2>1, MaximalElement
<1>9. ASSUME NEW d \in P \ {c} PROVE KeyAbove(K(c), K(d))
  <2>1. ~Above4(K(d), K(c)) /\ K(c)[4] # K(d)[4]
    BY <1>3, <1>5, <1>8
  <2>2. Above4(K(c), K(d))
    BY <1>2, <2>1, KeysOrdered
  <2> QED BY <1>2, <2>2, KeyAboveIs
<1> QED BY <1>9 DEF P, K

-----------------------------------------------------------------------------
(* Files *)

\* A file as the writers leave it: lines, and a line that parses is one block.
WellFormed(f) ==
    /\ f \in Seq(Lines)
    /\ \A i \in DOMAIN f : f[i].state = "ok" => \E b \in f[i].holds : f[i].holds = {b}

\* A file whose valid blocks have hashes of their own, none above n.
HashesUpTo(V, n) == HashUnique(V) /\ \A b \in V : b.hash <= n

LEMMA TheBlockIs ==
    ASSUME NEW f, WellFormed(f), NEW i \in DOMAIN f, f[i].state = "ok"
    PROVE  /\ f[i].holds = {TheBlock(f[i])}
           /\ TheBlock(f[i]) \in Blocks
           /\ TheBlock(f[i]) \in ValidBlocks(f)
<1>1. PICK b \in f[i].holds : f[i].holds = {b}
  BY DEF WellFormed
<1>2. TheBlock(f[i]) = b
  BY <1>1 DEF TheBlock
<1>3. f[i] \in Lines
  BY DEF WellFormed
<1>4. b \in Blocks
  BY <1>1, <1>3 DEF Lines
<1>5. b \in ValidBlocks(f)
  BY <1>1 DEF ValidBlocks, LineSet
<1> QED BY <1>1, <1>2, <1>4, <1>5

LEMMA ValidBlockOfLine ==
    ASSUME NEW f, WellFormed(f), NEW b \in ValidBlocks(f)
    PROVE  \E i \in DOMAIN f : f[i].state = "ok" /\ b = TheBlock(f[i])
<1>1. PICK i \in DOMAIN f : f[i].state = "ok" /\ b \in f[i].holds
  BY DEF ValidBlocks, LineSet
<1>2. f[i].holds = {TheBlock(f[i])}
  BY <1>1, TheBlockIs
<1> QED BY <1>1, <1>2

LEMMA ValidBlocksType ==
    ASSUME NEW f, WellFormed(f)
    PROVE  ValidBlocks(f) \in SUBSET Blocks /\ IsFiniteSet(ValidBlocks(f))
<1>1. ValidBlocks(f) \in SUBSET Blocks
  BY TheBlockIs, ValidBlockOfLine
<1> DEFINE ok == {i \in DOMAIN f : f[i].state = "ok"}
           g == [i \in ok |-> TheBlock(f[i])]
<1>2. IsFiniteSet(ok)
  <2>1. DOMAIN f = 1..Len(f) /\ Len(f) \in Int
    BY DEF WellFormed
  <2>2. IsFiniteSet(DOMAIN f)
    BY <2>1, FS_Interval
  <2>3. ok \in SUBSET DOMAIN f
    OBVIOUS
  <2> HIDE DEF ok
  <2> QED BY <2>2, <2>3, FS_Subset
<1>3. g \in Surjection(ok, ValidBlocks(f))
  <2>1. g \in [ok -> ValidBlocks(f)]
    BY TheBlockIs
  <2>2. \A b \in ValidBlocks(f) : \E i \in ok : g[i] = b
    BY ValidBlockOfLine
  <2> HIDE DEF ok, g
  <2> QED BY <2>1, <2>2, Zenon DEF Surjection
<1> HIDE DEF ok, g
<1> QED BY <1>1, <1>2, <1>3, FS_Surjection

\* _best_chain on a file with fresh hashes: its answer beats every other chain.
LEMMA BestChainIs ==
    ASSUME NEW f, WellFormed(f), HashUnique(ValidBlocks(f)), PathTo(ValidBlocks(f)) # {}
    PROVE  /\ BestChain(f) \in PathTo(ValidBlocks(f))
           /\ \A d \in PathTo(ValidBlocks(f)) \ {BestChain(f)} :
                 KeyAbove(TipKey(ForkPoint(ValidBlocks(f)), BestChain(f)),
                          TipKey(ForkPoint(ValidBlocks(f)), d))
<1> DEFINE V == ValidBlocks(f)
           P == PathTo(V)
           fork == ForkPoint(V)
           Wins(c) == \A d \in P \ {c} : KeyAbove(TipKey(fork, c), TipKey(fork, d))
<1>1. V \in SUBSET Blocks /\ IsFiniteSet(V)
  BY ValidBlocksType
<1>2. BestChain(f) = CHOOSE c \in P : Wins(c)
  BY DEF BestChain
<1>3. \E c \in P : Wins(c)
  <2> HIDE DEF V, fork
  <2>1. HashUnique(V) /\ PathTo(V) # {}
    BY DEF V
  <2> QED BY <1>1, <2>1, BestExists
<1> HIDE DEF Wins, P
<1>4. BestChain(f) \in P /\ Wins(BestChain(f))
  BY <1>2, <1>3
<1> QED BY <1>4 DEF Wins, P

\* _best_chain has an answer exactly when there is a genesis block.
LEMMA HasChainIs ==
    ASSUME NEW f, WellFormed(f)
    PROVE  HasChain(f) <=> PathTo(ValidBlocks(f)) # {}
<1> DEFINE V == ValidBlocks(f)
<1>1. V \in SUBSET Blocks /\ Cardinality(V) \in Nat
  BY ValidBlocksType, FS_CardinalityType
<1>2. HasChain(f) <=> \E b \in V : b.index = 0 /\ b.prev = 0
  BY DEF HasChain
<1> HIDE DEF V
<1>3. ASSUME NEW b \in V, b.index = 0, b.prev = 0 PROVE PathTo(V) # {}
  <2>1. <<b>> \in Level(V, 0)
    BY <1>1, <1>3, LevelZero
  <2> QED BY <1>1, <2>1, PathsAreChains
<1>4. ASSUME NEW c \in PathTo(V) PROVE \E b \in V : b.index = 0 /\ b.prev = 0
  <2>1. c \in Seq(V) /\ c # <<>> /\ Linked(c)
    BY <1>1, PathMember
  <2>2. 1 \in DOMAIN c /\ c[1] \in V
    BY <2>1
  <2>3. c[1].index = 0 /\ c[1].prev = 0
    BY <2>1, <2>2 DEF Linked
  <2> QED BY <2>2, <2>3
<1> QED BY <1>2, <1>3, <1>4 DEF V

\* The blocks of a chain.
BlocksOf(c) == {c[i] : i \in DOMAIN c}

\* A rewritten file holds the chain, no more and no less.
LEMMA AsLinesIs ==
    ASSUME NEW c \in Seq(Blocks)
    PROVE  /\ WellFormed(AsLines(c))
           /\ ValidBlocks(AsLines(c)) = BlocksOf(c)
           /\ HashesIn(AsLines(c)) = ChainHashes(c)
           /\ DOMAIN AsLines(c) = DOMAIN c
           /\ \A i \in DOMAIN c : AsLines(c)[i].state = "ok" /\ TheBlock(AsLines(c)[i]) = c[i]
<1> DEFINE f == AsLines(c)
<1>1. DOMAIN c = 1..Len(c) /\ Len(c) \in Nat /\ \A i \in DOMAIN c : c[i] \in Blocks
  OBVIOUS
<1>2. DOMAIN f = DOMAIN c /\ \A i \in DOMAIN c : f[i] = [state |-> "ok", holds |-> {c[i]}]
  BY DEF AsLines
<1>3. \A i \in DOMAIN c : f[i] \in Lines /\ f[i].state = "ok" /\ f[i].holds = {c[i]}
  BY <1>1, <1>2 DEF Lines
<1>4. f = [i \in 1..Len(c) |-> f[i]]
  BY <1>1 DEF AsLines
<1> HIDE DEF f
<1>5. f \in Seq(Lines)
  BY <1>1, <1>3, <1>4, IsASeq
<1>6. WellFormed(f)
  BY <1>2, <1>3, <1>5 DEF WellFormed
<1>7. \A i \in DOMAIN c : TheBlock(f[i]) = c[i]
  BY <1>3 DEF TheBlock
<1>8. ValidBlocks(f) = BlocksOf(c)
  BY <1>2, <1>3 DEF ValidBlocks, LineSet, BlocksOf
<1>9. HashesIn(f) = ChainHashes(c)
  BY <1>2, <1>3 DEF HashesIn, LineSet, ChainHashes
<1> QED BY <1>2, <1>3, <1>6, <1>7, <1>8, <1>9 DEF f

\* A line more at the end of a file.
LEMMA LineAdded ==
    ASSUME NEW f, WellFormed(f), NEW l \in Lines,
           l.state = "ok" => \E b \in l.holds : l.holds = {b}
    PROVE  /\ WellFormed(Append(f, l))
           /\ ValidBlocks(Append(f, l)) \subseteq
                 ValidBlocks(f) \cup (IF l.state = "ok" THEN l.holds ELSE {})
           /\ HashesIn(f) \subseteq HashesIn(Append(f, l))
<1> DEFINE g == Append(f, l)
<1>0. f \in Seq(Lines)
  BY DEF WellFormed
<1>1. g \in Seq(Lines) /\ Len(g) = Len(f) + 1 /\ g[Len(f) + 1] = l
      /\ (\A i \in 1..Len(f) : g[i] = f[i])
  BY <1>0, AppendProperties
<1> HIDE DEF g
<1>2. DOMAIN f = 1..Len(f) /\ DOMAIN g = 1..(Len(f) + 1) /\ Len(f) \in Nat
  BY <1>0, <1>1
<1>3. \A i \in DOMAIN g : i \in DOMAIN f \/ i = Len(f) + 1
  BY <1>2
<1>4. \A i \in DOMAIN f : i \in DOMAIN g /\ g[i] = f[i]
  BY <1>1, <1>2
<1>5. WellFormed(g)
  BY <1>1, <1>3, <1>4 DEF WellFormed
<1>6. LineSet(g) = LineSet(f) \cup {l}
  <2>1. Len(f) + 1 \in DOMAIN g
    BY <1>2
  <2> QED BY <1>1, <1>3, <1>4, <2>1 DEF LineSet
<1>7. ValidBlocks(g) \subseteq ValidBlocks(f) \cup (IF l.state = "ok" THEN l.holds ELSE {})
  BY <1>6 DEF ValidBlocks
<1>8. HashesIn(f) \subseteq HashesIn(g)
  BY <1>6 DEF HashesIn
<1> QED BY <1>5, <1>7, <1>8 DEF g

\* An append keeps every block the file holds, whole or not.
LEMMA WithBlockIs ==
    ASSUME NEW f, WellFormed(f), NEW b \in Blocks
    PROVE  /\ WellFormed(WithBlock(f, b))
           /\ ValidBlocks(WithBlock(f, b)) \subseteq ValidBlocks(f) \cup {b}
           /\ HashesIn(f) \subseteq HashesIn(WithBlock(f, b))
<1>1. CASE ~EndsTorn(f)
  <2> DEFINE l == [state |-> "ok", holds |-> {b}]
  <2>1. l \in Lines /\ l.state = "ok" /\ l.holds = {b}
    BY DEF Lines
  <2> HIDE DEF l
  <2>2. WithBlock(f, b) = Append(f, l)
    BY <1>1 DEF WithBlock, l
  <2>3. /\ WellFormed(Append(f, l))
        /\ ValidBlocks(Append(f, l)) \subseteq
                 ValidBlocks(f) \cup (IF l.state = "ok" THEN l.holds ELSE {})
        /\ HashesIn(f) \subseteq HashesIn(Append(f, l))
    BY <2>1, LineAdded
  <2> QED BY <2>1, <2>2, <2>3
<1>2. CASE EndsTorn(f)
  <2> DEFINE n == Len(f)
             l == [state |-> "garbage", holds |-> f[n].holds \cup {b}]
             g == WithBlock(f, b)
  <2>0. f \in Seq(Lines) /\ n \in Nat \ {0} /\ DOMAIN f = 1..n /\ n \in DOMAIN f /\ f[n] \in Lines
    BY <1>2 DEF WellFormed, EndsTorn
  <2>1. l \in Lines /\ l.state = "garbage" /\ l.holds = f[n].holds \cup {b}
    BY <2>0 DEF Lines
  <2>2. g = [f EXCEPT ![n] = l]
    BY <1>2 DEF WithBlock
  <2> HIDE DEF l, g, n
  <2>3. g \in Seq(Lines) /\ DOMAIN g = DOMAIN f /\ g[n] = l
        /\ \A i \in DOMAIN f : i # n => g[i] = f[i]
    BY <2>0, <2>1, <2>2
  <2>4. WellFormed(g)
    BY <2>1, <2>3 DEF WellFormed
  <2>5. ValidBlocks(g) \subseteq ValidBlocks(f)
    <3> SUFFICES ASSUME NEW x \in ValidBlocks(g) PROVE x \in ValidBlocks(f)
      OBVIOUS
    <3>1. PICK i \in DOMAIN g : g[i].state = "ok" /\ x \in g[i].holds
      BY DEF ValidBlocks, LineSet
    <3>2. i # n
      BY <2>1, <2>3, <3>1
    <3>3. i \in DOMAIN f /\ f[i] = g[i]
      BY <2>3, <3>2
    <3> QED BY <3>1, <3>3 DEF ValidBlocks, LineSet
  <2>6. HashesIn(f) \subseteq HashesIn(g)
    <3> SUFFICES ASSUME NEW i \in DOMAIN f, NEW x \in f[i].holds
                 PROVE  \E j \in DOMAIN g : x \in g[j].holds
      BY DEF HashesIn, LineSet
    <3> QED BY <2>1, <2>3
  <2> QED BY <2>4, <2>5, <2>6 DEF g
<1> QED BY <1>1, <1>2

\* A block with the next hash keeps the hashes apart.
LEMMA FreshMore ==
    ASSUME NEW n \in Nat, NEW W \in SUBSET Blocks, HashesUpTo(W, n),
           NEW b, b.hash = n + 1, NEW V \in SUBSET (W \cup {b})
    PROVE  HashesUpTo(V, n + 1)
<1>1. \A x \in W : x.hash \in Nat /\ x.hash <= n
  BY DEF HashesUpTo, Blocks
<1>2. \A x \in V : x.hash <= n + 1
  BY <1>1
<1>3. \A x, y \in V : x.hash = y.hash => x = y
  <2> SUFFICES ASSUME NEW x \in V, NEW y \in V, x.hash = y.hash PROVE x = y
    OBVIOUS
  <2>1. CASE x \in W /\ y \in W
    BY <2>1 DEF HashesUpTo, HashUnique
  <2>2. CASE x = b \/ y = b
    <3>1. n + 1 > n
      OBVIOUS
    <3> QED BY <1>1, <2>2, <3>1
  <2> QED BY <2>1, <2>2
<1> QED BY <1>2, <1>3 DEF HashesUpTo, HashUnique

LEMMA FreshLater ==
    ASSUME NEW n \in Nat, NEW W \in SUBSET Blocks, HashesUpTo(W, n)
    PROVE  HashesUpTo(W, n + 1)
<1>1. \A x \in W : x.hash \in Nat /\ x.hash <= n
  BY DEF HashesUpTo, Blocks
<1>2. \A x \in W : x.hash <= n + 1
  BY <1>1
<1> QED BY <1>2 DEF HashesUpTo

LEMMA FreshSubset ==
    ASSUME NEW n, NEW W, HashesUpTo(W, n), NEW V \in SUBSET W
    PROVE  HashesUpTo(V, n)
BY DEF HashesUpTo, HashUnique

LEMMA HydrateTailType ==
    ASSUME NEW f, WellFormed(f)
    PROVE  HydrateTail(f) \in [next : Nat, prev : Nat]
<1> DEFINE ok == {i \in DOMAIN f : f[i].state = "ok"}
           last == CHOOSE i \in ok : \A j \in ok : j <= i
<1>1. CASE ok = {}
  BY <1>1 DEF HydrateTail, Genesis
<1>2. CASE ok # {}
  <2>1. DOMAIN f = 1..Len(f) /\ Len(f) \in Nat
    BY DEF WellFormed
  <2>2. \E i \in ok : \A j \in ok : j <= i
    <3> DEFINE T == {Len(f) - i : i \in ok}
    <3>1. T \in SUBSET Nat /\ T # {}
      BY <1>2, <2>1
    <3>2. PICK x \in T : \A y \in T : x <= y
      <4> HIDE DEF T
      <4> QED BY <3>1, LeastNumber
    <3>3. PICK i \in ok : x = Len(f) - i
      BY <3>2
    <3>4. ASSUME NEW j \in ok PROVE j <= i
      <4>1. Len(f) - i <= Len(f) - j
        BY <3>2, <3>3
      <4> QED BY <2>1, <4>1
    <3> QED BY <3>4
  <2>3. last \in ok
    <3> HIDE DEF ok
    <3> QED BY <2>2
  <2> DEFINE b == TheBlock(f[last])
  <2>4. b \in Blocks
    <3>1. last \in DOMAIN f /\ f[last].state = "ok"
      BY <2>3
    <3> HIDE DEF last
    <3> QED BY <3>1, TheBlockIs
  <2>5. HydrateTail(f) = [next |-> b.index + 1, prev |-> b.hash]
    BY <1>2 DEF HydrateTail
  <2> HIDE DEF b
  <2> QED BY <2>4, <2>5 DEF Blocks
<1> QED BY <1>1, <1>2

-----------------------------------------------------------------------------
(* The invariant *)

\* What holds of the auditor of process p: its chain is made of blocks with
\* hashes of their own, there is one once it has been chosen, and what the
\* rewrite will prune has been recorded.
AuditorInv(p) ==
    /\ HashesUpTo(BlocksOf(chain[p]), created)
    /\ at[p] \in {"prune", "rewrite"} => chain[p] # <<>>
    /\ at[p] = "rewrite" => Pruned(p) \subseteq orphans

LedgerInv ==
    /\ LedgerTypeOK
    /\ HashesUpTo(ValidBlocks(file), created)
    /\ \A p \in Processes : AuditorInv(p)

\* The blocks of a typed chain.
LEMMA BlocksOfType ==
    ASSUME NEW V, NEW c \in Seq(V)
    PROVE  BlocksOf(c) \in SUBSET V
BY DEF BlocksOf

LEMMA LedgerInitInv == LedgerInit => LedgerInv
<1> SUFFICES ASSUME LedgerInit PROVE LedgerInv
  OBVIOUS
<1>1. ValidBlocks(file) = {}
  BY DEF LedgerInit, ValidBlocks, LineSet
<1>2. \A p \in Processes : chain[p] = <<>> /\ BlocksOf(chain[p]) = {}
  BY DEF LedgerInit, BlocksOf
<1>3. LedgerTypeOK
  BY DEF LedgerInit, LedgerTypeOK, Genesis
<1>4. \A p \in Processes : at[p] = "off"
  BY DEF LedgerInit
<1> QED BY <1>1, <1>2, <1>3, <1>4 DEF LedgerInv, AuditorInv, HashesUpTo, HashUnique

\* What the type invariant says of the file.
LEMMA FileWellFormed ==
    ASSUME LedgerTypeOK
    PROVE  WellFormed(file)
BY DEF LedgerTypeOK, WellFormed

\* A step that changes only what the process p holds keeps the invariant if it
\* keeps it for p; the file may grow by blocks with the next hash.
LEMMA ProcessStep ==
    ASSUME LedgerInv, LedgerTypeOK', NEW p \in Processes,
           created' = created \/ created' = created + 1,
           HashesUpTo(ValidBlocks(file)', created'),
           orphans \subseteq orphans',
           \A q \in Processes \ {p} : at'[q] = at[q] /\ snap'[q] = snap[q] /\ chain'[q] = chain[q],
           AuditorInv(p)'
    PROVE  LedgerInv'
<1> SUFFICES ASSUME NEW q \in Processes \ {p} PROVE AuditorInv(q)'
  BY DEF LedgerInv
<1>1. AuditorInv(q) /\ created \in Nat /\ chain[q] \in Seq(Blocks)
  BY DEF LedgerInv, LedgerTypeOK
<1>2. at'[q] = at[q] /\ snap'[q] = snap[q] /\ chain'[q] = chain[q]
  OBVIOUS
<1>3. Pruned(q)' = Pruned(q) /\ BlocksOf(chain[q])' = BlocksOf(chain[q])
  BY <1>2 DEF Pruned, BlocksOf
<1>4. HashesUpTo(BlocksOf(chain[q]), created')
  BY <1>1, BlocksOfType, FreshLater DEF AuditorInv
<1> QED BY <1>1, <1>2, <1>3, <1>4 DEF AuditorInv

\* A step of p that leaves the file, the hashes and the auditor's data alone.
LEMMA QuietStep ==
    ASSUME LedgerInv, LedgerTypeOK', NEW p \in Processes,
           UNCHANGED <<file, orphans, snap, chain, created>>,
           \A q \in Processes \ {p} : at'[q] = at[q],
           at'[p] \notin {"prune", "rewrite"}
    PROVE  LedgerInv'
<1>1. AuditorInv(p)'
  BY DEF LedgerInv, AuditorInv, Pruned
<1>2. HashesUpTo(ValidBlocks(file)', created')
  BY DEF LedgerInv
<1> QED BY <1>1, <1>2, ProcessStep

LEMMA AuditDoneInv ==
    ASSUME LedgerInv, NEW p \in Processes, AuditDone(p)
    PROVE  LedgerInv'
<1>1. at' = [at EXCEPT ![p] = AfterAudit(p)] /\ AfterAudit(p) \in {"attach", "off"}
  BY DEF AuditDone, AfterAudit
<1>2. LedgerTypeOK'
  BY <1>1 DEF LedgerInv, LedgerTypeOK, AuditDone
<1>3. at \in [Processes -> {"off", "prune", "rewrite", "attach", "up", "writing"}]
  BY DEF LedgerInv, LedgerTypeOK
<1> QED BY <1>1, <1>2, <1>3, QuietStep DEF AuditDone

LEMMA AuditFailsInv ==
    ASSUME LedgerInv, NEW p \in Processes, AuditFails(p)
    PROVE  LedgerInv'
<1> DEFINE V == ValidBlocks(file)
           c == BestChain(file)
<1>1. WellFormed(file) /\ HashesUpTo(V, created) /\ created \in Nat
  BY FileWellFormed DEF LedgerInv, LedgerTypeOK
<1>2. V \in SUBSET Blocks /\ IsFiniteSet(V) /\ Cardinality(V) \in Nat
  BY <1>1, ValidBlocksType, FS_CardinalityType
<1>3. c \in PathTo(V)
  BY <1>1, HasChainIs, BestChainIs DEF AuditFails, HashesUpTo
<1> HIDE DEF V, c
<1>4. c \in Seq(V) /\ c # <<>>
  BY <1>2, <1>3, PathMember
<1>5. c \in Seq(Blocks)
  BY <1>2, <1>4
<1>6. at' = [at EXCEPT ![p] = "prune"] /\ snap' = [snap EXCEPT ![p] = file]
      /\ chain' = [chain EXCEPT ![p] = c]
      /\ UNCHANGED <<file, inode, orphans, fd, tail, created, appends, faults>>
  BY DEF AuditFails, c
<1>7. LedgerTypeOK'
  BY <1>5, <1>6 DEF LedgerInv, LedgerTypeOK
<1>8. at'[p] = "prune" /\ chain'[p] = c
      /\ \A q \in Processes \ {p} : at'[q] = at[q] /\ snap'[q] = snap[q] /\ chain'[q] = chain[q]
  BY <1>6 DEF LedgerInv, LedgerTypeOK
<1>9. HashesUpTo(BlocksOf(c), created)
  BY <1>1, <1>4, BlocksOfType, FreshSubset
<1>10. AuditorInv(p)'
  BY <1>4, <1>6, <1>8, <1>9 DEF AuditorInv
<1>11. HashesUpTo(ValidBlocks(file)', created')
  BY <1>1, <1>6 DEF V
<1>12. created' = created /\ orphans \subseteq orphans'
  BY <1>6
<1> QED BY ONLY LedgerInv, <1>7, <1>8, <1>10, <1>11, <1>12, ProcessStep

LEMMA WriteOrphanedInv ==
    ASSUME LedgerInv, NEW p \in Processes, WriteOrphaned(p)
    PROVE  LedgerInv'
<1>1. at' = [at EXCEPT ![p] = "rewrite"] /\ at[p] = "prune" /\ orphans' = orphans \cup Pruned(p)
      /\ UNCHANGED <<file, inode, snap, chain, fd, tail, created, appends, faults>>
  BY DEF WriteOrphaned
<1>2. Pruned(p) \subseteq Nat
  <2>1. snap[p] \in Seq(Lines)
    BY DEF LedgerInv, LedgerTypeOK
  <2>2. ASSUME NEW i \in DOMAIN snap[p], NEW b \in snap[p][i].holds PROVE b.hash \in Nat
    <3>1. snap[p][i] \in Lines
      BY <2>1
    <3>2. b \in Blocks
      BY <3>1 DEF Lines
    <3> QED BY <3>2 DEF Blocks
  <2> QED BY <2>2 DEF Pruned, HashesIn, LineSet
<1>3. LedgerTypeOK'
  BY <1>1, <1>2 DEF LedgerInv, LedgerTypeOK
<1>4. at'[p] = "rewrite" /\ \A q \in Processes \ {p} : at'[q] = at[q]
  BY <1>1 DEF LedgerInv, LedgerTypeOK
<1>5. Pruned(p)' = Pruned(p)
  BY <1>1 DEF Pruned
<1>6. AuditorInv(p)'
  BY <1>1, <1>4, <1>5 DEF LedgerInv, AuditorInv
<1>7. HashesUpTo(ValidBlocks(file)', created')
  BY <1>1 DEF LedgerInv
<1> QED BY <1>1, <1>3, <1>4, <1>6, <1>7, ProcessStep

\* What the rewrite leaves: the chain, and the reconciliation block after it.
LEMMA Rewritten ==
    ASSUME LedgerInv, NEW p \in Processes, AtomicRewrite(p)
    PROVE  /\ WellFormed(file')
           /\ HashesUpTo(ValidBlocks(file'), created')
           /\ ChainHashes(chain[p]) \subseteq HashesIn(file')
<1> DEFINE c == chain[p]
<1>1. c \in Seq(Blocks) /\ c # <<>> /\ HashesUpTo(BlocksOf(c), created) /\ created \in Nat
  BY DEF LedgerInv, LedgerTypeOK, AuditorInv, AtomicRewrite
<1>2. PICK sig \in Signatures : file' = AsLines(Append(c, Reconciliation(c, sig)))
  BY DEF AtomicRewrite
<1> DEFINE r == Reconciliation(c, sig)
<1> HIDE DEF c
<1>3. r \in Blocks /\ r.hash = created + 1
  <2>1. c[Len(c)] \in Blocks
    BY <1>1
  <2> QED BY <1>1, <2>1 DEF Blocks, Kinds, Reconciliation
<1> HIDE DEF r
<1> DEFINE d == Append(c, r)
<1>4. d \in Seq(Blocks) /\ Len(d) = Len(c) + 1 /\ d[Len(c) + 1] = r
      /\ (\A i \in 1..Len(c) : d[i] = c[i])
  BY <1>1, <1>3, AppendProperties
<1>5. file' = AsLines(d) /\ created' = created + 1
  BY <1>2 DEF AtomicRewrite, r
<1> HIDE DEF d
<1>6. DOMAIN c = 1..Len(c) /\ DOMAIN d = 1..(Len(c) + 1) /\ Len(c) \in Nat
  BY <1>1, <1>4
<1>7. BlocksOf(d) \in SUBSET (BlocksOf(c) \cup {r})
  <2>1. \A i \in DOMAIN d : i \in DOMAIN c \/ i = Len(c) + 1
    BY <1>6
  <2> QED BY <1>4, <1>6, <2>1 DEF BlocksOf
<1>8. ChainHashes(c) \subseteq ChainHashes(d)
  <2>1. \A i \in DOMAIN c : i \in DOMAIN d /\ d[i] = c[i]
    BY <1>4, <1>6
  <2> QED BY <2>1 DEF ChainHashes
<1>9. HashesUpTo(BlocksOf(d), created + 1)
  BY <1>1, <1>3, <1>7, BlocksOfType, FreshMore
<1>10. WellFormed(AsLines(d)) /\ ValidBlocks(AsLines(d)) = BlocksOf(d)
       /\ HashesIn(AsLines(d)) = ChainHashes(d)
  BY <1>4, AsLinesIs
<1> QED BY <1>5, <1>8, <1>9, <1>10 DEF c

LEMMA AtomicRewriteInv ==
    ASSUME LedgerInv, NEW p \in Processes, AtomicRewrite(p)
    PROVE  LedgerInv'
<1>1. at' = [at EXCEPT ![p] = AfterAudit(p)] /\ AfterAudit(p) \in {"attach", "off"}
      /\ snap' = [snap EXCEPT ![p] = <<>>] /\ chain' = [chain EXCEPT ![p] = <<>>]
      /\ inode' = inode + 1 /\ created' = created + 1
      /\ UNCHANGED <<orphans, fd, tail, appends, faults>>
  BY DEF AtomicRewrite, AfterAudit
<1>2. WellFormed(file') /\ HashesUpTo(ValidBlocks(file'), created')
  BY Rewritten
<1>3. LedgerTypeOK'
  <2>1. at' \in [Processes -> {"off", "prune", "rewrite", "attach", "up", "writing"}]
        /\ snap' \in [Processes -> Seq(Lines)] /\ chain' \in [Processes -> Seq(Blocks)]
    BY <1>1 DEF LedgerInv, LedgerTypeOK
  <2>2. inode' \in Nat /\ created' \in Nat
    BY <1>1 DEF LedgerInv, LedgerTypeOK
  <2>3. file' \in Seq(Lines) /\ \A i \in DOMAIN file' :
           file'[i].state = "ok" => \E b \in file'[i].holds : file'[i].holds = {b}
    BY <1>2 DEF WellFormed
  <2> QED BY ONLY LedgerInv, <1>1, <2>1, <2>2, <2>3 DEF LedgerInv, LedgerTypeOK
<1>4. at'[p] = AfterAudit(p) /\ chain'[p] = <<>>
      /\ \A q \in Processes \ {p} : at'[q] = at[q] /\ snap'[q] = snap[q] /\ chain'[q] = chain[q]
  BY <1>1 DEF LedgerInv, LedgerTypeOK
<1>5. HashesUpTo(BlocksOf(<<>>), created')
  BY DEF BlocksOf, HashesUpTo, HashUnique
<1>6. AuditorInv(p)'
  BY <1>1, <1>4, <1>5 DEF AuditorInv
<1> QED BY <1>1, <1>2, <1>3, <1>4, <1>6, ProcessStep

LEMMA AttachInv ==
    ASSUME LedgerInv, NEW p \in Processes, Attach(p)
    PROVE  LedgerInv'
<1>1. HydrateTail(file) \in [next : Nat, prev : Nat]
  BY FileWellFormed, HydrateTailType DEF LedgerInv
<1>2. LedgerTypeOK'
  BY <1>1 DEF LedgerInv, LedgerTypeOK, Attach
<1>3. at'[p] = "up" /\ \A q \in Processes \ {p} : at'[q] = at[q]
  BY DEF LedgerInv, LedgerTypeOK, Attach
<1> QED BY <1>2, <1>3, QuietStep DEF Attach

LEMMA OpenLedgerInv ==
    ASSUME LedgerInv, NEW p \in Processes, OpenLedger(p)
    PROVE  LedgerInv'
<1>1. at' = [at EXCEPT ![p] = "writing"] /\ fd' = [fd EXCEPT ![p] = inode] /\ appends' = appends + 1
      /\ UNCHANGED <<file, inode, orphans, snap, chain, tail, created, faults>>
  BY DEF OpenLedger
<1>2. LedgerTypeOK'
  <2>1. at' \in [Processes -> {"off", "prune", "rewrite", "attach", "up", "writing"}]
        /\ fd' \in [Processes -> Nat] /\ appends' \in Nat
    BY <1>1 DEF LedgerInv, LedgerTypeOK
  <2> QED BY ONLY LedgerInv, <1>1, <2>1 DEF LedgerInv, LedgerTypeOK
<1>3. at'[p] = "writing" /\ \A q \in Processes \ {p} : at'[q] = at[q]
  BY DEF LedgerInv, LedgerTypeOK, OpenLedger
<1> QED BY <1>2, <1>3, QuietStep DEF OpenLedger

\* What an append leaves: everything there was, and perhaps the new block.
LEMMA Appended ==
    ASSUME LedgerInv, NEW p \in Processes, AppendBlock(p)
    PROVE  /\ WellFormed(file')
           /\ HashesUpTo(ValidBlocks(file'), created')
           /\ HashesIn(file) \subseteq HashesIn(file')
<1>1. WellFormed(file) /\ HashesUpTo(ValidBlocks(file), created) /\ created \in Nat
  BY FileWellFormed DEF LedgerInv, LedgerTypeOK
<1>2. ValidBlocks(file) \in SUBSET Blocks
  BY <1>1, ValidBlocksType
<1>3. PICK kind \in Kinds, sig \in Signatures :
          file' = IF fd[p] = inode
                  THEN WithBlock(file, [index |-> tail[p].next, prev |-> tail[p].prev,
                                        hash |-> created + 1, kind |-> kind, signature |-> sig])
                  ELSE file
  BY DEF AppendBlock
<1> DEFINE b == [index |-> tail[p].next, prev |-> tail[p].prev,
                 hash |-> created + 1, kind |-> kind, signature |-> sig]
<1>4. b \in Blocks /\ b.hash = created + 1
  <2>1. tail[p].next \in Nat /\ tail[p].prev \in Nat
    BY DEF LedgerInv, LedgerTypeOK
  <2> QED BY <1>1, <2>1 DEF Blocks
<1>5. file' = WithBlock(file, b) \/ file' = file
  BY <1>3
<1>6. created' = created + 1
  BY DEF AppendBlock
<1> HIDE DEF b
<1>7. CASE file' = file
  BY <1>1, <1>2, <1>6, <1>7, FreshLater
<1>8. CASE file' = WithBlock(file, b)
  <2>1. /\ WellFormed(file')
        /\ ValidBlocks(file') \in SUBSET (ValidBlocks(file) \cup {b})
        /\ HashesIn(file) \subseteq HashesIn(file')
    BY <1>1, <1>4, <1>8, WithBlockIs
  <2>2. HashesUpTo(ValidBlocks(file'), created + 1)
    BY <1>1, <1>2, <1>4, <2>1, FreshMore
  <2> QED BY <1>6, <2>1, <2>2
<1> QED BY <1>5, <1>7, <1>8

LEMMA AppendBlockInv ==
    ASSUME LedgerInv, NEW p \in Processes, AppendBlock(p)
    PROVE  LedgerInv'
<1>1. /\ at' = [at EXCEPT ![p] = "up"]
      /\ tail' = [tail EXCEPT ![p] = [next |-> @.next + 1, prev |-> created + 1]]
      /\ created' = created + 1
      /\ UNCHANGED <<inode, orphans, snap, chain, fd, appends, faults>>
  BY DEF AppendBlock
<1>2. WellFormed(file') /\ HashesUpTo(ValidBlocks(file'), created')
  BY Appended
<1>3. LedgerTypeOK'
  <2>1. at' \in [Processes -> {"off", "prune", "rewrite", "attach", "up", "writing"}]
        /\ created' \in Nat
    BY <1>1 DEF LedgerInv, LedgerTypeOK
  <2>2. tail' \in [Processes -> [next : Nat, prev : Nat]]
    BY <1>1 DEF LedgerInv, LedgerTypeOK
  <2>3. file' \in Seq(Lines) /\ \A i \in DOMAIN file' :
           file'[i].state = "ok" => \E b \in file'[i].holds : file'[i].holds = {b}
    BY <1>2 DEF WellFormed
  <2> QED BY ONLY LedgerInv, <1>1, <2>1, <2>2, <2>3 DEF LedgerInv, LedgerTypeOK
<1>4. at'[p] = "up" /\ \A q \in Processes \ {p} : at'[q] = at[q]
  BY <1>1 DEF LedgerInv, LedgerTypeOK
<1>5. HashesUpTo(BlocksOf(chain[p]), created + 1)
  <2>1. chain[p] \in Seq(Blocks) /\ HashesUpTo(BlocksOf(chain[p]), created) /\ created \in Nat
    BY DEF LedgerInv, LedgerTypeOK, AuditorInv
  <2> QED BY <2>1, BlocksOfType, FreshLater
<1>6. AuditorInv(p)'
  BY <1>1, <1>4, <1>5 DEF AuditorInv
<1> QED BY <1>1, <1>2, <1>3, <1>4, <1>6, ProcessStep

\* A write that breaks off adds no block and takes none away.
LEMMA Torn ==
    ASSUME LedgerInv,
           file' \in {file, Append(file, [state |-> "torn", holds |-> {}])}
    PROVE  /\ WellFormed(file')
           /\ HashesUpTo(ValidBlocks(file'), created)
           /\ HashesIn(file) \subseteq HashesIn(file')
<1>1. WellFormed(file) /\ HashesUpTo(ValidBlocks(file), created)
  BY FileWellFormed DEF LedgerInv
<1> DEFINE l == [state |-> "torn", holds |-> {}]
<1>2. l \in Lines /\ l.state # "ok"
  BY DEF Lines
<1>3. CASE file' = Append(file, l)
  <2> HIDE DEF l
  <2>1. WellFormed(file') /\ ValidBlocks(file') \in SUBSET ValidBlocks(file)
        /\ HashesIn(file) \subseteq HashesIn(file')
    BY <1>1, <1>2, <1>3, LineAdded
  <2> QED BY <1>1, <2>1, FreshSubset
<1> QED BY <1>1, <1>3

LEMMA AppendFailsInv ==
    ASSUME LedgerInv, NEW p \in Processes, AppendFails(p)
    PROVE  LedgerInv'
<1>1. /\ at' = [at EXCEPT ![p] = "up"]
      /\ faults' = faults + 1
      /\ UNCHANGED <<inode, orphans, snap, chain, fd, tail, created, appends>>
      /\ file' \in {file, Append(file, [state |-> "torn", holds |-> {}])}
  BY DEF AppendFails
<1>2. WellFormed(file') /\ HashesUpTo(ValidBlocks(file'), created')
  BY <1>1, Torn
<1>3. LedgerTypeOK'
  <2>1. at' \in [Processes -> {"off", "prune", "rewrite", "attach", "up", "writing"}]
        /\ faults' \in Nat
    BY <1>1 DEF LedgerInv, LedgerTypeOK
  <2>3. file' \in Seq(Lines) /\ \A i \in DOMAIN file' :
           file'[i].state = "ok" => \E b \in file'[i].holds : file'[i].holds = {b}
    BY <1>2 DEF WellFormed
  <2> QED BY ONLY LedgerInv, <1>1, <2>1, <2>3 DEF LedgerInv, LedgerTypeOK
<1>4. at'[p] = "up" /\ \A q \in Processes \ {p} : at'[q] = at[q]
  BY <1>1 DEF LedgerInv, LedgerTypeOK
<1>6. AuditorInv(p)'
  BY <1>1, <1>4 DEF LedgerInv, AuditorInv
<1> QED BY <1>1, <1>2, <1>3, <1>4, <1>6, ProcessStep

LEMMA LedgerCrashInv ==
    ASSUME LedgerInv, NEW p \in Processes, LedgerCrash(p)
    PROVE  LedgerInv'
<1>1. /\ at' = [at EXCEPT ![p] = "off"]
      /\ snap' = [snap EXCEPT ![p] = <<>>] /\ chain' = [chain EXCEPT ![p] = <<>>]
      /\ tail' = [tail EXCEPT ![p] = Genesis]
      /\ faults' = faults + 1
      /\ UNCHANGED <<inode, orphans, fd, created, appends>>
      /\ file' \in {file, Append(file, [state |-> "torn", holds |-> {}])}
  BY DEF LedgerCrash
<1>2. WellFormed(file') /\ HashesUpTo(ValidBlocks(file'), created')
  BY <1>1, Torn
<1>3. LedgerTypeOK'
  <2>1. at' \in [Processes -> {"off", "prune", "rewrite", "attach", "up", "writing"}]
        /\ snap' \in [Processes -> Seq(Lines)] /\ chain' \in [Processes -> Seq(Blocks)]
        /\ faults' \in Nat
    BY <1>1 DEF LedgerInv, LedgerTypeOK
  <2>2. tail' \in [Processes -> [next : Nat, prev : Nat]]
    BY <1>1 DEF LedgerInv, LedgerTypeOK, Genesis
  <2>3. file' \in Seq(Lines) /\ \A i \in DOMAIN file' :
           file'[i].state = "ok" => \E b \in file'[i].holds : file'[i].holds = {b}
    BY <1>2 DEF WellFormed
  <2> QED BY ONLY LedgerInv, <1>1, <2>1, <2>2, <2>3 DEF LedgerInv, LedgerTypeOK
<1>4. at'[p] = "off" /\ chain'[p] = <<>>
      /\ \A q \in Processes \ {p} : at'[q] = at[q] /\ snap'[q] = snap[q] /\ chain'[q] = chain[q]
  BY <1>1 DEF LedgerInv, LedgerTypeOK
<1>5. HashesUpTo(BlocksOf(<<>>), created')
  BY DEF BlocksOf, HashesUpTo, HashUnique
<1>6. AuditorInv(p)'
  BY <1>1, <1>4, <1>5 DEF AuditorInv
<1> QED BY <1>1, <1>2, <1>3, <1>4, <1>6, ProcessStep

LEMMA LedgerStepInv == LedgerInv /\ [LedgerNext]_ledgerVars => LedgerInv'
<1> SUFFICES ASSUME LedgerInv, [LedgerNext]_ledgerVars PROVE LedgerInv'
  OBVIOUS
<1>1. CASE UNCHANGED ledgerVars
  BY <1>1 DEF ledgerVars, LedgerInv, LedgerTypeOK, AuditorInv, Pruned
<1>2. ASSUME NEW p \in Processes, AuditorStep(p) \/ LedgerCrash(p) PROVE LedgerInv'
  BY <1>2, AuditDoneInv, AuditFailsInv, WriteOrphanedInv, AtomicRewriteInv, LedgerCrashInv
  DEF AuditorStep
<1>3. ASSUME NEW w \in Writers, WriterStep(w) PROVE LedgerInv'
  <2>1. w \in Processes
    BY DEF Processes
  <2> QED
    BY <1>3, <2>1, AttachInv, OpenLedgerInv, AppendBlockInv, AppendFailsInv DEF WriterStep
<1> QED BY <1>1, <1>2, <1>3 DEF LedgerNext

\* The ledger, its orphan log, the auditors and the writers keep their types,
\* a parsed line is one block, no two valid blocks of the file share a hash,
\* and an auditor about to rewrite the file has recorded what it will prune.
THEOREM LedgerInvariant == LedgerSpec => []LedgerInv
BY LedgerInitInv, LedgerStepInv, PTL DEF LedgerSpec

\* Types of the ledger, for any number of processes, appends and crashes.
THEOREM LedgerTypeCorrect == LedgerSpec => []LedgerTypeOK
<1>1. LedgerInv => LedgerTypeOK
  BY DEF LedgerInv
<1> QED BY <1>1, LedgerInvariant, PTL

-----------------------------------------------------------------------------
(* What a rewrite takes out of the file *)

\* The step that NothingPrunedSilently allows.
PruneRecorded ==
    \A h \in HashesIn(file) \ HashesIn(file)' :
       \/ h \in orphans'
       \/ \E p \in Processes : /\ at[p] = "rewrite" /\ at'[p] # "rewrite"
                               /\ h \notin HashesIn(snap[p])

\* Only a rewrite takes a block out of the file, and only one that it had
\* recorded or had not read.
LEMMA PruneStep ==
    ASSUME LedgerInv, [LedgerNext]_ledgerVars
    PROVE  PruneRecorded \/ UNCHANGED ledgerVars
<1>1. CASE HashesIn(file) \subseteq HashesIn(file)'
  BY <1>1 DEF PruneRecorded
<1>2. ASSUME NEW p \in Processes, AtomicRewrite(p) PROVE PruneRecorded
  <2> SUFFICES ASSUME NEW h \in HashesIn(file), h \notin HashesIn(file)', h \in HashesIn(snap[p])
               PROVE  h \in orphans'
    <3>1. at[p] = "rewrite" /\ at'[p] # "rewrite"
      BY <1>2 DEF AtomicRewrite, AfterAudit, LedgerInv, LedgerTypeOK
    <3> QED BY <3>1 DEF PruneRecorded
  <2>1. h \notin ChainHashes(chain[p])
    BY <1>2, Rewritten
  <2>2. h \in Pruned(p)
    BY <2>1 DEF Pruned
  <2>3. Pruned(p) \subseteq orphans /\ orphans' = orphans
    BY <1>2 DEF LedgerInv, AuditorInv, AtomicRewrite
  <2> QED BY <2>2, <2>3
<1>3. ASSUME NEW p \in Processes, AuditorStep(p) \/ LedgerCrash(p)
      PROVE  HashesIn(file) \subseteq HashesIn(file)' \/ AtomicRewrite(p)
  <2>1. CASE LedgerCrash(p)
    <3>1. file' \in {file, Append(file, [state |-> "torn", holds |-> {}])}
      BY <2>1 DEF LedgerCrash
    <3> QED BY <3>1, Torn
  <2>2. CASE AuditDone(p) \/ AuditFails(p) \/ WriteOrphaned(p)
    <3>1. file' = file
      BY <2>2 DEF AuditDone, AuditFails, WriteOrphaned
    <3> QED BY <3>1
  <2> QED BY <1>3, <2>1, <2>2 DEF AuditorStep
<1>4. ASSUME NEW w \in Writers, WriterStep(w) PROVE HashesIn(file) \subseteq HashesIn(file)'
  <2>0. w \in Processes
    BY DEF Processes
  <2>1. CASE AppendBlock(w)
    BY <2>0, <2>1, Appended
  <2>2. CASE AppendFails(w)
    <3>1. file' \in {file, Append(file, [state |-> "torn", holds |-> {}])}
      BY <2>2 DEF AppendFails
    <3> QED BY <3>1, Torn
  <2>3. CASE Attach(w) \/ OpenLedger(w)
    <3>1. file' = file
      BY <2>3 DEF Attach, OpenLedger
    <3> QED BY <3>1
  <2> QED BY <1>4, <2>1, <2>2, <2>3 DEF WriterStep
<1> QED BY <1>1, <1>2, <1>3, <1>4 DEF LedgerNext

\* Whatever _atomic_rewrite_ledger takes out of the file is in
\* ORPHANED_FORKS.jsonl, or came after this auditor had read the file: for any
\* number of auditors and writers over one log directory, and any crashes.
THEOREM OrphansAreRecorded == LedgerSpec => NothingPrunedSilently
<1>1. LedgerInv /\ [LedgerNext]_ledgerVars => [PruneRecorded]_ledgerVars
  BY PruneStep
<1> QED BY <1>1, LedgerInvariant, PTL DEF LedgerSpec, NothingPrunedSilently, PruneRecorded

-----------------------------------------------------------------------------
(* The longest-chain rule *)

\* A linked sequence is a chain of as many blocks as it is long.
LEMMA LinkedIsChain ==
    ASSUME NEW c \in Seq(Blocks), Linked(c)
    PROVE  /\ IsFiniteSet(BlocksOf(c)) /\ Cardinality(BlocksOf(c)) = Len(c)
           /\ IsChain(BlocksOf(c))
<1> DEFINE n == Len(c)
           S == BlocksOf(c)
           g == [i \in 1..n |-> c[i]]
<1>1. n \in Nat /\ DOMAIN c = 1..n
  OBVIOUS
<1>2. \A i \in 1..n : c[i] \in S /\ c[i].index = i - 1
                      /\ c[i].prev = IF i = 1 THEN 0 ELSE c[i - 1].hash
  BY <1>1 DEF BlocksOf, Linked
<1>3. \A b \in S : \E i \in 1..n : b = c[i]
  BY <1>1 DEF BlocksOf
<1> HIDE DEF S
<1>4. IsFiniteSet(S) /\ Cardinality(S) = n
  <2>1. g \in [1..n -> S]
    BY <1>2
  <2>2. \A i, j \in 1..n : g[i] = g[j] => i = j
    <3> SUFFICES ASSUME NEW i \in 1..n, NEW j \in 1..n, g[i] = g[j] PROVE i = j
      OBVIOUS
    <3>1. c[i] = c[j]
      OBVIOUS
    <3>2. i - 1 = j - 1
      BY ONLY <1>2, <3>1, i \in 1..n, j \in 1..n
    <3> QED BY <1>1, <3>2
  <2>3. \A b \in S : \E i \in 1..n : g[i] = b
    BY <1>3
  <2> HIDE DEF g
  <2>4. DOMAIN g = 1..n
    BY <2>1
  <2>5. g \in Bijection(1..n, S)
    BY <2>1, <2>2, <2>3, <2>4, Zenon DEF Bijection, Injection, IsInjective, Surjection
  <2>6. IsFiniteSet(1..n) /\ Cardinality(1..n) = n
    BY <1>1, FS_Interval
  <2>7. ExistsBijection(1..n, S)
    BY <2>5 DEF ExistsBijection
  <2> QED BY <2>6, <2>7, FS_Bijection
<1>5. {b.index : b \in S} = 0..(n - 1)
  <2>1. ASSUME NEW b \in S PROVE b.index \in 0..(n - 1)
    <3>1. PICK i \in 1..n : b = c[i]
      BY <1>3
    <3>2. b.index = i - 1
      BY <1>2, <3>1
    <3> QED BY <1>1, <3>2
  <2>2. ASSUME NEW k \in 0..(n - 1) PROVE \E b \in S : b.index = k
    <3>1. k + 1 \in 1..n /\ (k + 1) - 1 = k
      BY <1>1
    <3> QED BY <1>2, <3>1
  <2> QED BY <2>1, <2>2
<1>6. ASSUME NEW b \in S
      PROVE  IF b.index = 0 THEN b.prev = 0 ELSE \E a \in S : a.index = b.index - 1 /\ a.hash = b.prev
  <2>1. PICK i \in 1..n : b = c[i]
    BY <1>3
  <2>2. b.index = i - 1 /\ b.prev = IF i = 1 THEN 0 ELSE c[i - 1].hash
    BY <1>2, <2>1
  <2>3. CASE i = 1
    BY <2>2, <2>3
  <2>4. CASE i # 1
    <3>1. i - 1 \in 1..n /\ i - 1 # 0
      BY <1>1, <2>4
    <3>2. c[i - 1] \in S /\ c[i - 1].index = (i - 1) - 1
      BY <1>2, <3>1
    <3> QED BY <2>2, <2>4, <3>1, <3>2
  <2> QED BY <2>3, <2>4
<1>7. IsChain(S)
  BY <1>4, <1>5, <1>6 DEF IsChain
<1> QED BY <1>4, <1>7 DEF S

\* A set of blocks that is a chain can be laid out as one.
LEMMA ChainIsLinked ==
    ASSUME NEW V \in SUBSET Blocks, IsFiniteSet(V), NEW S \in SUBSET V, IsChain(S), S # {}
    PROVE  \E c \in PathTo(V) : Len(c) = Cardinality(S) /\ BlocksOf(c) = S
<1> DEFINE n == Cardinality(S)
           g == [b \in S |-> b.index]
           c == [i \in 1..n |-> CHOOSE b \in S : b.index = i - 1]
<1>1. IsFiniteSet(S) /\ n \in Nat \ {0} /\ Cardinality(V) \in Nat /\ n <= Cardinality(V)
  BY FS_Subset, FS_CardinalityType, FS_EmptySet
<1> HIDE DEF n
<1>2. {b.index : b \in S} = 0..(n - 1)
  BY DEF IsChain, n
<1>3. \A a, b \in S : a.index = b.index => a = b
  <2>1. g \in [S -> 0..(n - 1)] /\ \A k \in 0..(n - 1) : \E b \in S : g[b] = k
    BY <1>2
  <2>2. \A b \in S : g[b] = b.index
    OBVIOUS
  <2> HIDE DEF g
  <2>3. g \in Surjection(S, 0..(n - 1))
    BY <2>1, Zenon DEF Surjection
  <2>4. Cardinality(0..(n - 1)) = Cardinality(S)
    <3>1. Cardinality(0..(n - 1)) = n
      BY <1>1, FS_Interval
    <3> QED BY <3>1 DEF n
  <2>5. g \in Injection(S, 0..(n - 1))
    BY <1>1, <2>3, <2>4, FS_SurjSameCardinalityImpliesInj
  <2>6. DOMAIN g = S
    BY <2>1
  <2> QED BY <2>2, <2>5, <2>6 DEF Injection, IsInjective
<1>4. \A i \in 1..n : c[i] \in S /\ c[i].index = i - 1
  <2> SUFFICES ASSUME NEW i \in 1..n PROVE c[i] \in S /\ c[i].index = i - 1
    OBVIOUS
  <2>1. i - 1 \in 0..(n - 1)
    BY <1>1
  <2>2. \E b \in S : b.index = i - 1
    BY <1>2, <2>1
  <2> QED BY <2>2
<1>5. c = [i \in 1..n |-> c[i]]
  OBVIOUS
<1> HIDE DEF c
<1>6. c \in Seq(V) /\ Len(c) = n /\ DOMAIN c = 1..n
  <2>1. \A i \in 1..n : c[i] \in V
    BY <1>4
  <2>2. c \in Seq(V)
    BY <1>1, <1>5, <2>1, IsASeq
  <2>3. DOMAIN c = 1..n
    BY <1>5
  <2> QED BY <1>1, <2>2, <2>3
<1>7. BlocksOf(c) = S
  <2>1. ASSUME NEW b \in S PROVE b \in BlocksOf(c)
    <3>1. b.index \in 0..(n - 1)
      BY <1>2
    <3>2. b.index + 1 \in 1..n /\ (b.index + 1) - 1 = b.index
      BY <1>1, <3>1
    <3>3. c[b.index + 1] \in S /\ c[b.index + 1].index = b.index
      BY <1>4, <3>2
    <3>4. c[b.index + 1] = b
      BY <1>3, <3>3
    <3> QED BY <1>6, <3>2, <3>4 DEF BlocksOf
  <2>2. ASSUME NEW b \in BlocksOf(c) PROVE b \in S
    BY <1>4, <1>6 DEF BlocksOf
  <2> QED BY <2>1, <2>2
<1>8. Linked(c)
  <2> SUFFICES ASSUME NEW i \in 1..n
               PROVE  c[i].prev = IF i = 1 THEN 0 ELSE c[i - 1].hash
    BY <1>4, <1>6 DEF Linked
  <2>1. c[i] \in S /\ c[i].index = i - 1
    BY <1>4
  <2>2. IF c[i].index = 0 THEN c[i].prev = 0
        ELSE \E a \in S : a.index = c[i].index - 1 /\ a.hash = c[i].prev
    BY <2>1 DEF IsChain
  <2>3. CASE i = 1
    BY <2>1, <2>2, <2>3
  <2>4. CASE i # 1
    <3>1. i - 1 # 0 /\ i - 1 \in 1..n
      BY <1>1, <2>4
    <3>2. PICK a \in S : a.index = (i - 1) - 1 /\ a.hash = c[i].prev
      BY <2>1, <2>2, <3>1
    <3>3. c[i - 1] \in S /\ c[i - 1].index = (i - 1) - 1
      BY <1>4, <3>1
    <3>4. a = c[i - 1]
      BY <1>3, <3>2, <3>3
    <3> QED BY <2>4, <3>2, <3>4
  <2> QED BY <2>3, <2>4
<1>9. c # <<>> /\ Len(c) <= Cardinality(V) + 1
  BY <1>1, <1>6
<1>10. c \in PathTo(V)
  BY <1>1, <1>6, <1>8, <1>9, PathMember
<1> QED BY <1>6, <1>7, <1>10 DEF n

\* The chosen chain is as long as any, and lost no quorum to one as long.
LEMMA BestIsLongest ==
    ASSUME NEW f, WellFormed(f), HashUnique(ValidBlocks(f)), NEW d \in PathTo(ValidBlocks(f))
    PROVE  /\ BestChain(f) \in PathTo(ValidBlocks(f))
           /\ Len(d) <= Len(BestChain(f))
           /\ Len(d) = Len(BestChain(f)) /\ PassedAfterFork(ForkPoint(ValidBlocks(f)), d)
                => PassedAfterFork(ForkPoint(ValidBlocks(f)), BestChain(f))
           /\ d # BestChain(f) /\ Len(d) = Len(BestChain(f))
                 /\ (PassedAfterFork(ForkPoint(ValidBlocks(f)), BestChain(f))
                       => PassedAfterFork(ForkPoint(ValidBlocks(f)), d))
                => \/ BestChain(f)[Len(BestChain(f))].signature > d[Len(d)].signature
                   \/ /\ BestChain(f)[Len(BestChain(f))].signature = d[Len(d)].signature
                      /\ BestChain(f)[Len(BestChain(f))].hash > d[Len(d)].hash
<1> DEFINE V == ValidBlocks(f)
           fork == ForkPoint(V)
           b == BestChain(f)
           k == TipKey(fork, b)
           l == TipKey(fork, d)
<1>1. b \in PathTo(V) /\ (d # b => KeyAbove(k, l))
  BY BestChainIs
<1>2. V \in SUBSET Blocks /\ Cardinality(V) \in Nat
  BY ValidBlocksType, FS_CardinalityType
<1>3. d \in PathTo(V)
  OBVIOUS
<1> HIDE DEF V, fork, b
<1>4. /\ k \in Key4 /\ k[1] = Len(b) /\ k[3] = b[Len(b)].signature /\ k[4] = b[Len(b)].hash
      /\ k[2] = IF PassedAfterFork(fork, b) THEN 1 ELSE 0
  BY <1>1, <1>2, TipKeyType
<1>5. /\ l \in Key4 /\ l[1] = Len(d) /\ l[3] = d[Len(d)].signature /\ l[4] = d[Len(d)].hash
      /\ l[2] = IF PassedAfterFork(fork, d) THEN 1 ELSE 0
  BY <1>2, <1>3, TipKeyType
<1> HIDE DEF k, l
<1>6. d # b => Above4(k, l)
  BY <1>1, <1>4, <1>5, KeyAboveIs
<1>7. d = b => k = l
  BY DEF k, l
<1>8. /\ k[1] \in Nat /\ k[2] \in Nat /\ k[3] \in Nat /\ k[4] \in Nat
      /\ l[1] \in Nat /\ l[2] \in Nat /\ l[3] \in Nat /\ l[4] \in Nat
  BY <1>4, <1>5 DEF Key4
<1>9. /\ l[1] <= k[1]
      /\ l[1] = k[1] => l[2] <= k[2]
      /\ d # b /\ l[1] = k[1] /\ k[2] <= l[2] => k[3] > l[3] \/ (k[3] = l[3] /\ k[4] > l[4])
  BY ONLY <1>6, <1>7, <1>8 DEF Above4
<1>10. Len(d) <= Len(b)
  BY <1>4, <1>5, <1>9
<1>11. Len(d) = Len(b) /\ PassedAfterFork(fork, d) => PassedAfterFork(fork, b)
  BY <1>4, <1>5, <1>9
<1>12. d # b /\ Len(d) = Len(b) /\ (PassedAfterFork(fork, b) => PassedAfterFork(fork, d))
         => \/ b[Len(b)].signature > d[Len(d)].signature
            \/ b[Len(b)].signature = d[Len(d)].signature /\ b[Len(b)].hash > d[Len(d)].hash
  <2> SUFFICES ASSUME d # b, Len(d) = Len(b), PassedAfterFork(fork, b) => PassedAfterFork(fork, d)
               PROVE  k[3] > l[3] \/ (k[3] = l[3] /\ k[4] > l[4])
    BY <1>4, <1>5
  <2>1. l[1] = k[1] /\ k[2] <= l[2]
    BY <1>4, <1>5
  <2> QED BY <1>9, <2>1
<1> QED BY <1>1, <1>10, <1>11, <1>12 DEF V, fork, b

\* Comparing signature and hash.
LEMMA PairAbove ==
    ASSUME NEW a \in Nat, NEW b \in Nat, NEW c \in Nat, NEW d \in Nat
    PROVE  KeyAbove(<<a, b>>, <<c, d>>) <=> a > c \/ (a = c /\ b > d)
<1>1. DOMAIN <<a, b>> = {1, 2} /\ 1..(1 - 1) = {} /\ 1..(2 - 1) = {1}
  OBVIOUS
<1>2. KeyAbove(<<a, b>>, <<c, d>>)
        <=> \E i \in {1, 2} : /\ <<a, b>>[i] > <<c, d>>[i]
                              /\ \A j \in 1..(i - 1) : <<a, b>>[j] = <<c, d>>[j]
  BY <1>1 DEF KeyAbove
<1>3. (\A j \in 1..(1 - 1) : <<a, b>>[j] = <<c, d>>[j])
      /\ ((\A j \in 1..(2 - 1) : <<a, b>>[j] = <<c, d>>[j]) <=> a = c)
  BY <1>1
<1> QED BY <1>2, <1>3

\* _select_candidate_by_replay and _best_chain choose the same chain.
LEMMA ReplayAgrees ==
    ASSUME NEW f, WellFormed(f), HashUnique(ValidBlocks(f))
    PROVE  ChainByReplay(f) = BestChain(f)
<1> DEFINE V == ValidBlocks(f)
           P == PathTo(V)
           fork == ForkPoint(V)
           b == BestChain(f)
           longest == {c \in P : \A d \in P : Len(d) <= Len(c)}
           quorum == {c \in longest : Linked(c) /\ PassedAfterFork(fork, c)}
           left == IF quorum = {} THEN longest ELSE quorum
           key(c) == <<c[Len(c)].signature, c[Len(c)].hash>>
           Wins(c) == \A d \in left \ {c} : KeyAbove(key(c), key(d))
<1>1. ChainByReplay(f) = IF left = {} THEN <<>> ELSE CHOOSE c \in left : Wins(c)
  BY DEF ChainByReplay
<1>2. b = IF P = {} THEN <<>> ELSE b
  BY DEF BestChain
<1>3. CASE P = {}
  <2>1. left = {}
    BY <1>3
  <2> HIDE DEF left
  <2> QED BY <1>1, <1>2, <1>3, <2>1
<1>4. CASE P # {}
  <2>1. b \in P /\ \A d \in P : Len(d) <= Len(b)
    BY <1>4, BestIsLongest
  <2>2. \A d \in P : Len(d) = Len(b) /\ PassedAfterFork(fork, d) => PassedAfterFork(fork, b)
    BY BestIsLongest
  <2>3. \A d \in P : d # b /\ Len(d) = Len(b)
                        /\ (PassedAfterFork(fork, b) => PassedAfterFork(fork, d))
           => \/ b[Len(b)].signature > d[Len(d)].signature
              \/ b[Len(b)].signature = d[Len(d)].signature /\ b[Len(b)].hash > d[Len(d)].hash
    BY BestIsLongest
  <2>4. V \in SUBSET Blocks /\ Cardinality(V) \in Nat
    BY ValidBlocksType, FS_CardinalityType
  <2> HIDE DEF V, b, fork
  <2>5. \A c \in P : c \in Seq(V) /\ c # <<>> /\ Linked(c) /\ Len(c) \in Nat /\ c[Len(c)] \in V
    BY <2>4, PathMember
  <2>6. \A c \in P : c[Len(c)].signature \in Nat /\ c[Len(c)].hash \in Nat
    BY <2>4, <2>5, LedgerAssumption DEF Blocks
  <2> HIDE DEF P
  <2>7. b \in longest /\ \A d \in longest : d \in P /\ Len(d) = Len(b)
    BY <2>1, <2>5
  <2> HIDE DEF longest
  <2>8. b \in left /\ \A d \in left : d \in longest /\ (PassedAfterFork(fork, b) => PassedAfterFork(fork, d))
    <3>1. CASE quorum = {}
      <4>1. left = longest /\ ~PassedAfterFork(fork, b)
        BY <2>5, <2>7, <3>1
      <4> QED BY <2>7, <4>1
    <3>2. CASE quorum # {}
      <4>1. left = quorum
        BY <3>2
      <4>2. PICK d \in longest : PassedAfterFork(fork, d)
        BY <3>2
      <4>3. PassedAfterFork(fork, b)
        BY <2>2, <2>7, <4>2
      <4> QED BY <2>5, <2>7, <4>1, <4>3
    <3> QED BY <3>1, <3>2
  <2> HIDE DEF left
  <2>9. ASSUME NEW d \in left \ {b} PROVE KeyAbove(key(b), key(d)) /\ ~KeyAbove(key(d), key(b))
    <3>1. d \in P /\ d # b /\ Len(d) = Len(b) /\ (PassedAfterFork(fork, b) => PassedAfterFork(fork, d))
      BY <2>7, <2>8
    <3>2. \/ b[Len(b)].signature > d[Len(d)].signature
          \/ b[Len(b)].signature = d[Len(d)].signature /\ b[Len(b)].hash > d[Len(d)].hash
      BY ONLY <2>3, <3>1
    <3>3. b[Len(b)].signature \in Nat /\ b[Len(b)].hash \in Nat
          /\ d[Len(d)].signature \in Nat /\ d[Len(d)].hash \in Nat
      BY <2>1, <2>6, <3>1
    <3>4. KeyAbove(key(b), key(d))
      BY ONLY <3>2, <3>3, PairAbove
    <3>5. ~(d[Len(d)].signature > b[Len(b)].signature
            \/ (d[Len(d)].signature = b[Len(b)].signature /\ d[Len(d)].hash > b[Len(b)].hash))
      BY ONLY <3>2, <3>3
    <3>6. ~KeyAbove(key(d), key(b))
      BY ONLY <3>3, <3>5, PairAbove
    <3> QED BY ONLY <3>4, <3>6
  <2> HIDE DEF key
  <2>10. Wins(b)
    BY <2>9
  <2>11. ASSUME NEW c \in left, Wins(c) PROVE c = b
    BY <2>8, <2>9, <2>11
  <2> HIDE DEF Wins
  <2>12. (CHOOSE c \in left : Wins(c)) = b
    BY <2>8, <2>10, <2>11
  <2> QED BY <1>1, <2>8, <2>12 DEF b
<1> QED BY <1>3, <1>4

\* The blocks a file holds, line by line.
LineBlocks(f) == [i \in DOMAIN f |-> TheBlock(f[i])]

\* When every line parses, replay reads them all, in order.
LEMMA ReplayReadsAll ==
    ASSUME NEW f, WellFormed(f), \A i \in DOMAIN f : f[i].state = "ok"
    PROVE  /\ ReplayableBlocks(f) = LineBlocks(f)
           /\ LineBlocks(f) \in Seq(ValidBlocks(f))
           /\ BlocksOf(LineBlocks(f)) = ValidBlocks(f)
           /\ DOMAIN LineBlocks(f) = DOMAIN f
<1> DEFINE n == Len(f)
           ok == {i \in DOMAIN f : f[i].state = "ok"}
           nth(k) == CHOOSE i \in ok : Cardinality({j \in ok : j <= i}) = k
<1>1. DOMAIN f = 1..n /\ n \in Nat
  BY DEF WellFormed
<1>2. ok = 1..n
  BY <1>1
<1>3. ReplayableBlocks(f) = [k \in 1..Cardinality(ok) |-> TheBlock(f[nth(k)])]
  BY DEF ReplayableBlocks
<1> HIDE DEF n, ok
<1>4. Cardinality(ok) = n
  BY <1>1, <1>2, FS_Interval
<1>5. ASSUME NEW i \in ok PROVE Cardinality({j \in ok : j <= i}) = i
  <2>1. i \in Nat /\ i >= 1 /\ {j \in ok : j <= i} = 1..i
    BY <1>1, <1>2
  <2>2. Cardinality(1..i) = i
    BY <2>1, FS_Interval
  <2> QED BY <2>1, <2>2
<1>6. ASSUME NEW k \in 1..n PROVE nth(k) = k
  BY <1>2, <1>5
<1> HIDE DEF nth
<1>7. ReplayableBlocks(f) = LineBlocks(f)
  BY <1>1, <1>3, <1>4, <1>6 DEF LineBlocks
<1>8. \A i \in 1..n : TheBlock(f[i]) \in ValidBlocks(f)
  BY <1>1, TheBlockIs
<1>9. LineBlocks(f) \in Seq(ValidBlocks(f))
  BY <1>1, <1>8, IsASeq DEF LineBlocks
<1>10. BlocksOf(LineBlocks(f)) = ValidBlocks(f)
  <2>1. ASSUME NEW b \in ValidBlocks(f) PROVE \E i \in DOMAIN f : b = TheBlock(f[i])
    BY ValidBlockOfLine
  <2> QED BY <1>1, <1>8, <2>1 DEF BlocksOf, LineBlocks
<1> QED BY <1>7, <1>9, <1>10 DEF LineBlocks

\* A chain written out passes audit_or_raise and verify_ledger_blocks.
LEMMA ChainPasses ==
    ASSUME NEW c \in Seq(Blocks), Linked(c)
    PROVE  AuditPasses(AsLines(c)) /\ ReplayVerifies(AsLines(c))
<1> DEFINE f == AsLines(c)
<1>1. WellFormed(f) /\ DOMAIN f = DOMAIN c
      /\ \A i \in DOMAIN c : f[i].state = "ok" /\ TheBlock(f[i]) = c[i]
  BY AsLinesIs
<1> HIDE DEF f
<1>2. LineBlocks(f) = [i \in DOMAIN c |-> c[i]]
  BY <1>1 DEF LineBlocks
<1>3. [i \in DOMAIN c |-> c[i]] = c
  OBVIOUS
<1>4. AuditPasses(f)
  BY <1>1, <1>2, <1>3 DEF AuditPasses, LineBlocks
<1>5. ReplayableBlocks(f) = LineBlocks(f)
  BY <1>1, ReplayReadsAll
<1>6. ReplayVerifies(f)
  BY <1>2, <1>3, <1>5 DEF ReplayVerifies
<1> QED BY <1>4, <1>6 DEF f

\* What is there to say of a file that passes the audit: replay verifies it,
\* and the chosen chain is the whole of it.
LEMMA AuditedIsChosen ==
    ASSUME NEW f, WellFormed(f), HashUnique(ValidBlocks(f)), AuditPasses(f),
           BestChain(f) = <<>> \/ BestChain(f) \in PathTo(ValidBlocks(f)),
           NEW B, B = BlocksOf(BestChain(f))
    PROVE  ReplayVerifies(f) /\ B = ValidBlocks(f)
<1> DEFINE V == ValidBlocks(f)
           c == LineBlocks(f)
           b == BestChain(f)
<1>1. ReplayableBlocks(f) = c /\ c \in Seq(V) /\ BlocksOf(c) = V
  BY ReplayReadsAll DEF AuditPasses
<1>2. Linked(c)
  BY DEF AuditPasses, LineBlocks
<1>3. ReplayVerifies(f)
  BY <1>1, <1>2 DEF ReplayVerifies
<1>4. V \in SUBSET Blocks /\ IsFiniteSet(V) /\ Cardinality(V) \in Nat
  BY ValidBlocksType, FS_CardinalityType
<1> HIDE DEF c
<1>5. c \in Seq(Blocks)
  BY <1>1, <1>4
<1>6. Cardinality(V) = Len(c)
  BY <1>1, <1>2, <1>5, LinkedIsChain
<1>7. CASE c = <<>>
  <2>1. V = {}
    BY <1>1, <1>7 DEF BlocksOf
  <2>2. b = <<>> \/ b \in Seq(V)
    BY <1>4, PathMember
  <2>3. BlocksOf(b) = {}
    BY <2>1, <2>2 DEF BlocksOf
  <2> QED BY <1>3, <2>1, <2>3
<1>8. CASE c # <<>>
  <2>1. c \in PathTo(V)
    BY <1>1, <1>2, <1>4, <1>6, <1>8, PathMember
  <2>2. b \in PathTo(V) /\ Len(c) <= Len(b)
    BY <2>1, BestIsLongest
  <2> HIDE DEF V, b
  <2>3. b \in Seq(V) /\ Linked(b)
    BY <1>4, <2>2, PathMember
  <2>4. b \in Seq(Blocks) /\ BlocksOf(b) \in SUBSET V
    BY <1>4, <2>3, BlocksOfType
  <2>5. Cardinality(BlocksOf(b)) = Len(b) /\ Len(b) \in Nat
    BY <2>3, <2>4, LinkedIsChain
  <2>6. Cardinality(BlocksOf(b)) <= Cardinality(V)
        /\ (Cardinality(V) = Cardinality(BlocksOf(b)) => V = BlocksOf(b))
    BY <1>4, <2>4, FS_Subset
  <2>7. Cardinality(V) = Cardinality(BlocksOf(b))
    BY <1>4, <1>6, <2>2, <2>5, <2>6
  <2>8. BlocksOf(b) = V
    BY <2>6, <2>7
  <2> QED BY <1>3, <2>8 DEF V, b
<1> QED BY <1>7, <1>8

\* On every file of well-formed lines with hashes of their own, the choice of
\* _best_chain is what its definition says.
LEMMA InvImpliesBest == LedgerInv => ChosenIsBest
<1> SUFFICES ASSUME LedgerInv PROVE ChosenIsBest
  OBVIOUS
<1> DEFINE best == BestChain(file)
           valid == ValidBlocks(file)
           chosen == {best[i] : i \in DOMAIN best}
           passed(S) == \E b \in S : b.kind = "QUORUM_PASSED" /\ b.index >= ForkPoint(valid)
<1>1. WellFormed(file) /\ HashUnique(valid)
  BY FileWellFormed DEF LedgerInv, HashesUpTo
<1>2. valid \in SUBSET Blocks /\ IsFiniteSet(valid) /\ Cardinality(valid) \in Nat
  BY <1>1, ValidBlocksType, FS_CardinalityType
<1>3. HasChain(file) <=> PathTo(valid) # {}
  BY <1>1, HasChainIs
<1>4. PathTo(valid) = {} => best = <<>>
  BY DEF BestChain
<1>5. PathTo(valid) # {} => best \in PathTo(valid)
  BY <1>1, BestChainIs
<1>6. chosen = BlocksOf(best)
  BY DEF BlocksOf
<1>7. ChainByReplay(file) = best
  BY <1>1, ReplayAgrees
<1>8. AuditPasses(file) => ReplayVerifies(file) /\ chosen = valid
  BY <1>1, <1>4, <1>5, <1>6, AuditedIsChosen
<1>9. \A d \in PathTo(valid) :
         /\ Len(d) <= Len(best)
         /\ Len(d) = Len(best) /\ PassedAfterFork(ForkPoint(valid), d)
               => PassedAfterFork(ForkPoint(valid), best)
  BY <1>1, BestIsLongest
<1>10. \A c : PassedAfterFork(ForkPoint(valid), c) <=> passed(BlocksOf(c))
  BY DEF PassedAfterFork, BlocksOf
<1> HIDE DEF best, valid, chosen, passed
<1>11. best \in Seq(valid) /\ Linked(best) /\ (best # <<>> <=> PathTo(valid) # {})
  <2>1. CASE PathTo(valid) = {}
    <3>1. best = <<>>
      BY <1>4, <2>1
    <3> QED BY <2>1, <3>1 DEF Linked
  <2>2. CASE PathTo(valid) # {}
    BY <1>2, <1>5, <2>2, PathMember
  <2> QED BY <2>1, <2>2
<1>12. best \in Seq(Blocks) /\ chosen \subseteq valid
  BY <1>2, <1>6, <1>11, BlocksOfType
<1>13. IsChain(chosen) /\ Cardinality(chosen) = Len(best)
  BY <1>6, <1>11, <1>12, LinkedIsChain
<1>14. chosen # {} <=> HasChain(file)
  <2>1. chosen # {} <=> best # <<>>
    BY <1>6, <1>12 DEF BlocksOf
  <2> QED BY <1>3, <1>11, <2>1
<1>15. AuditPasses(AsLines(best)) /\ ReplayVerifies(AsLines(best))
  BY <1>11, <1>12, ChainPasses
<1>16. ASSUME NEW S \in SUBSET valid, IsChain(S)
       PROVE  /\ Cardinality(S) <= Len(best)
              /\ Cardinality(S) = Len(best) /\ passed(S) => passed(chosen)
  <2>1. CASE S = {}
    <3>1. Cardinality(S) = 0 /\ ~passed(S)
      BY <2>1, FS_EmptySet DEF passed
    <3>2. Len(best) \in Nat
      BY <1>12
    <3> QED BY <3>1, <3>2
  <2>2. CASE S # {}
    <3>1. PICK d \in PathTo(valid) : Len(d) = Cardinality(S) /\ BlocksOf(d) = S
      BY <1>2, <1>16, <2>2, ChainIsLinked
    <3> QED BY <1>6, <1>9, <1>10, <3>1
  <2> QED BY <2>1, <2>2
<1> QED
  BY <1>7, <1>8, <1>12, <1>13, <1>14, <1>15, <1>16, Zenon
  DEF ChosenIsBest, best, valid, chosen, passed

\* The longest-chain rule of _best_chain, for every ledger that any number of
\* writers, auditors and crashes can produce, of any length: the search finds
\* a longest chain of valid blocks, never one that lost a quorum to another as
\* long, the audit and the replay accept it, choosing by replay agrees, and an
\* audited file is chosen whole.
THEOREM ChoiceIsBest == LedgerSpec => []ChosenIsBest
BY InvImpliesBest, LedgerInvariant, PTL
===============================================================================
