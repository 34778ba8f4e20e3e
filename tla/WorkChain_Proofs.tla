--------------------------- MODULE WorkChain_Proofs ---------------------------
(***************************************************************************)
(* The chain from findings to dossiers, for every source tree, every       *)
(* limit, every number of refreshes and every order of the commands: the   *)
(* queue can be followed, no finding is lost on the way to the refined     *)
(* packages, a dossier is of the package its queue item was planned for,   *)
(* and every report passes its own checks.                                 *)
(*                                                                         *)
(* Sorted lists, recursive functions and concatenations are first shown to *)
(* be what they should; then the operators of the chain, one by one; then  *)
(* an inductive invariant with a part for each report.                     *)
(***************************************************************************)
EXTENDS WorkChain, FiniteSetTheorems, SequenceTheorems, WellFoundedInduction, TLAPS

-----------------------------------------------------------------------------
(* Sets in an order, and sequences of some elements of others *)

\* A set of naturals that is not empty has a least element.
LEMMA LeastNat ==
    ASSUME NEW T \in SUBSET Nat, T # {}
    PROVE  \E x \in T : \A y \in T : x <= y
<1>1. IsWellFoundedOn(OpToRel(<, Nat), Nat)
  BY NatLessThanWellFounded
<1>2. PICK x \in T : \A y \in T : <<y, x>> \notin OpToRel(<, Nat)
  BY ONLY <1>1, WFMin, T \in SUBSET Nat, T # {}
<1>3. \A y \in T : ~(y < x)
  BY <1>2 DEF OpToRel
<1> QED BY <1>3

\* R orders S strictly and totally.
Orders(R, S) ==
    /\ \A x \in S : <<x, x>> \notin R
    /\ \A x, y, z \in S : <<x, y>> \in R /\ <<y, z>> \in R => <<x, z>> \in R
    /\ \A x, y \in S : x # y => <<x, y>> \in R \/ <<y, x>> \in R

\* q is the elements of S, each once.
Lists(q, S) ==
    /\ Cardinality(S) \in Nat
    /\ q \in [1..Cardinality(S) -> S]
    /\ \A x \in S : \E i \in 1..Cardinality(S) : q[i] = x
    /\ \A i, j \in 1..Cardinality(S) : i # j => q[i] # q[j]

\* Each element of a finite ordered set has a place of its own.
LEMMA PlacesAre ==
    ASSUME NEW S, IsFiniteSet(S), NEW R, Orders(R, S),
           NEW q, q = Sorted(S, R)
    PROVE  Lists(q, S) /\ \A i, j \in 1..Cardinality(S) : i < j => <<q[i], q[j]>> \in R
<1> USE DEF Sorted
<1> DEFINE n == Cardinality(S)
           rank == [x \in S |-> Cardinality(Below(R, S, x)) + 1]
<1>1. n \in Nat
  BY FS_CardinalityType
<1>2. ASSUME NEW x \in S
      PROVE  IsFiniteSet(Below(R, S, x)) /\ Cardinality(Below(R, S, x)) \in Nat /\ rank[x] \in 1..n
  <2>1. Below(R, S, x) \in SUBSET S /\ x \notin Below(R, S, x) /\ Below(R, S, x) \cup {x} \in SUBSET S
    BY DEF Below, Orders
  <2>2. IsFiniteSet(Below(R, S, x)) /\ Cardinality(Below(R, S, x)) \in Nat
    BY <2>1, FS_Subset, FS_CardinalityType
  <2>3. Cardinality(Below(R, S, x) \cup {x}) = Cardinality(Below(R, S, x)) + 1
    BY <2>1, <2>2, FS_AddElement
  <2>4. Cardinality(Below(R, S, x) \cup {x}) <= n
    BY <2>1, FS_Subset
  <2> QED BY <1>1, <2>2, <2>3, <2>4
<1>3. ASSUME NEW x \in S, NEW y \in S, <<x, y>> \in R
      PROVE  rank[x] < rank[y]
  <2>1. x \notin Below(R, S, x) /\ Below(R, S, x) \cup {x} \in SUBSET Below(R, S, y)
    BY <1>3 DEF Below, Orders
  <2>2. Cardinality(Below(R, S, x) \cup {x}) = Cardinality(Below(R, S, x)) + 1
    BY <2>1, <1>2, FS_AddElement
  <2>3. Cardinality(Below(R, S, x) \cup {x}) <= Cardinality(Below(R, S, y))
    BY <2>1, <1>2, FS_Subset
  <2> QED BY <1>2, <2>2, <2>3
<1>4. \A x, y \in S : x # y => rank[x] # rank[y]
  <2> SUFFICES ASSUME NEW x \in S, NEW y \in S, x # y PROVE rank[x] # rank[y]
    OBVIOUS
  <2>1. <<x, y>> \in R \/ <<y, x>> \in R
    BY DEF Orders
  <2>2. rank[x] \in Nat /\ rank[y] \in Nat
    BY <1>2
  <2> HIDE DEF rank
  <2> QED BY <2>1, <2>2, <1>3
<1>5. rank \in Injection(S, 1..n)
  <2>1. rank \in [S -> 1..n]
    BY <1>2
  <2> HIDE DEF rank
  <2> QED BY <2>1, <1>4 DEF Injection, IsInjective
<1>6. rank \in Surjection(S, 1..n)
  <2>1. IsFiniteSet(1..n) /\ Cardinality(1..n) = n
    BY <1>1, FS_Interval
  <2> HIDE DEF rank
  <2> QED BY <2>1, <1>5, FS_Injection
<1>7. ASSUME NEW i \in 1..n
      PROVE  q[i] \in S /\ rank[q[i]] = i
  <2>1. PICK x \in S : rank[x] = i
    BY <1>6 DEF Surjection
  <2>2. Cardinality(Below(R, S, x)) = i - 1
    BY <2>1, <1>2
  <2>3. q[i] = CHOOSE y \in S : Cardinality(Below(R, S, y)) = i - 1
    OBVIOUS
  <2>4. q[i] \in S /\ Cardinality(Below(R, S, q[i])) = i - 1
    BY <2>2, <2>3
  <2> QED BY <2>4, <1>1
<1>8. \A x \in S : \E i \in 1..n : q[i] = x
  <2> SUFFICES ASSUME NEW x \in S PROVE q[rank[x]] = x
    BY <1>2
  <2>1. rank[x] \in 1..n
    BY <1>2
  <2> HIDE DEF rank
  <2>2. q[rank[x]] \in S /\ rank[q[rank[x]]] = rank[x]
    BY <2>1, <1>7
  <2> QED BY <2>2, <1>4
<1>9. \A i, j \in 1..n : i < j => <<q[i], q[j]>> \in R
  <2> SUFFICES ASSUME NEW i \in 1..n, NEW j \in 1..n, i < j PROVE <<q[i], q[j]>> \in R
    OBVIOUS
  <2> HIDE DEF rank
  <2>1. q[i] \in S /\ q[j] \in S /\ rank[q[i]] = i /\ rank[q[j]] = j
    BY <1>7
  <2>2. q[i] # q[j]
    <3>1. i # j
      BY <1>1
    <3> QED BY ONLY <2>1, <3>1
  <2>3. <<q[j], q[i]>> \in R => rank[q[j]] < rank[q[i]]
    BY <2>1, <1>3
  <2>4. <<q[j], q[i]>> \notin R
    BY <2>1, <2>3, <1>1
  <2> QED BY <2>1, <2>2, <2>4 DEF Orders
<1>10. q \in [1..n -> S]
  BY <1>7
<1>11. \A i, j \in 1..n : i # j => q[i] # q[j]
  <2> SUFFICES ASSUME NEW i \in 1..n, NEW j \in 1..n, i # j PROVE q[i] # q[j]
    OBVIOUS
  <2> HIDE DEF rank
  <2>1. rank[q[i]] = i /\ rank[q[j]] = j
    BY <1>7
  <2> QED BY ONLY <2>1, i # j
<1> QED BY <1>1, <1>8, <1>9, <1>10, <1>11 DEF Lists

\* Numbers by size.
LEMMA NumbersInOrder ==
    ASSUME NEW P \in SUBSET Nat, IsFiniteSet(P)
    PROVE  /\ Lists(Increasing(P), P)
           /\ \A i, j \in 1..Cardinality(P) : i < j => Increasing(P)[i] < Increasing(P)[j]
<1> DEFINE R == {e \in P \X P : e[1] < e[2]}
           q == Increasing(P)
<1>1. Orders(R, P)
  BY DEF Orders
<1>2. q = Sorted(P, R)
  BY DEF Increasing
<1>3. Lists(q, P) /\ \A i, j \in 1..Cardinality(P) : i < j => <<q[i], q[j]>> \in R
  <2> HIDE DEF q, R
  <2> QED BY <1>1, <1>2, PlacesAre
<1>4. \A i, j \in 1..Cardinality(P) : <<q[i], q[j]>> \in R => q[i] < q[j]
  OBVIOUS
<1> HIDE DEF q, R
<1>5. Lists(q, P) /\ \A i, j \in 1..Cardinality(P) : i < j => q[i] < q[j]
  BY <1>3, <1>4
<1> QED BY <1>5 DEF q

\* A function on 1..n is a sequence.
List(s) == s \in Seq(ToSet(s))

\* A function on 1..n is a list.
LEMMA ListIs ==
    ASSUME NEW n \in Nat, NEW s, DOMAIN s = 1..n, s = [i \in 1..n |-> s[i]]
    PROVE  List(s) /\ Len(s) = n
<1>1. s \in [1..n -> ToSet(s)]
  BY DEF ToSet
<1>2. s \in Seq(ToSet(s))
  BY <1>1
<1> QED BY <1>1, <1>2, LenProperties DEF List

\* What a list has: a length, a domain, its set.
LEMMA ListHas ==
    ASSUME NEW s, List(s)
    PROVE  /\ Len(s) \in Nat /\ DOMAIN s = 1..Len(s)
           /\ ToSet(s) = {s[i] : i \in 1..Len(s)}
           /\ s = [i \in 1..Len(s) |-> s[i]]
           /\ s = <<>> <=> Len(s) = 0
           /\ s = <<>> <=> ToSet(s) = {}
<1>1. s \in Seq(ToSet(s))
  BY DEF List
<1>2. Len(s) \in Nat /\ DOMAIN s = 1..Len(s) /\ s \in [1..Len(s) -> ToSet(s)]
  BY <1>1, LenProperties
<1>3. s = <<>> <=> Len(s) = 0
  BY <1>1, EmptySeq, LenProperties
<1>4. ToSet(s) = {s[i] : i \in 1..Len(s)}
  BY <1>2 DEF ToSet
<1>5. s = <<>> <=> ToSet(s) = {}
  <2>1. Len(s) = 0 => ToSet(s) = {}
    BY <1>2, <1>4
  <2>2. Len(s) # 0 => s[1] \in ToSet(s)
    BY <1>2, <1>4
  <2> QED BY <2>1, <2>2, <1>3
<1> QED BY <1>2, <1>3, <1>4, <1>5

\* The selected elements are those at the selected positions.
LEMMA SelectIs ==
    ASSUME NEW s, List(s), NEW P \in SUBSET DOMAIN s
    PROVE  /\ List(Select(s, P))
           /\ ToSet(Select(s, P)) = {s[i] : i \in P}
           /\ Select(s, P) = <<>> <=> P = {}
           /\ Len(Select(s, P)) = Cardinality(P)
<1> DEFINE q == Increasing(P)
           t == Select(s, P)
<1>1. DOMAIN s = 1..Len(s) /\ Len(s) \in Nat
  BY ListHas
<1>2. IsFiniteSet(P) /\ P \in SUBSET Nat
  <2>1. IsFiniteSet(1..Len(s))
    BY <1>1, FS_Interval
  <2> QED BY <2>1, <1>1, FS_Subset
<1>3. Lists(q, P)
  BY <1>2, NumbersInOrder
<1>4. t = [k \in DOMAIN q |-> s[q[k]]]
  BY DEF Select
<1> HIDE DEF q, t
<1>5. Cardinality(P) \in Nat /\ DOMAIN q = 1..Cardinality(P)
  BY <1>3 DEF Lists
<1>6. List(t) /\ Len(t) = Cardinality(P)
  BY <1>4, <1>5, ListIs
<1>7. ToSet(t) = {s[i] : i \in P}
  <2>1. ToSet(t) = {t[k] : k \in 1..Cardinality(P)}
    BY <1>6, ListHas
  <2>2. \A k \in 1..Cardinality(P) : t[k] = s[q[k]] /\ q[k] \in P
    BY <1>3, <1>4, <1>5 DEF Lists
  <2>3. \A i \in P : \E k \in 1..Cardinality(P) : q[k] = i
    BY <1>3 DEF Lists
  <2> QED BY <2>1, <2>2, <2>3
<1>8. t = <<>> <=> P = {}
  BY <1>6, <1>2, ListHas, FS_EmptySet
<1> QED BY <1>6, <1>7, <1>8 DEF t

\* The first entries of a list.
LEMMA CutIs ==
    ASSUME NEW s, List(s), NEW limit \in Nat
    PROVE  /\ List(Cut(s, limit)) /\ Len(Cut(s, limit)) <= Len(s)
           /\ \A i \in 1..Len(Cut(s, limit)) : Cut(s, limit)[i] = s[i]
           /\ ToSet(Cut(s, limit)) \subseteq ToSet(s)
           /\ s # <<>> => Cut(s, limit) # <<>>
<1>1. Len(s) \in Nat /\ s \in Seq(ToSet(s)) /\ ToSet(s) = {s[i] : i \in 1..Len(s)}
  BY ListHas DEF List
<1>2. CASE limit > 0 /\ limit < Len(s)
  <2> DEFINE t == SubSeq(s, 1, limit)
  <2>1. t \in Seq(ToSet(s)) /\ Len(t) = limit /\ \A i \in 1..limit : t[i] = s[i]
    BY <1>1, <1>2, SubSeqProperties
  <2>2. DOMAIN t = 1..limit /\ t = [i \in 1..limit |-> t[i]]
    BY <2>1, LenProperties
  <2> HIDE DEF t
  <2>3. List(t)
    BY <2>2, ListIs
  <2>4. ToSet(t) = {t[i] : i \in 1..limit} /\ t # <<>>
    BY <2>1, <2>3, <1>2, ListHas
  <2>5. t = Cut(s, limit)
    BY <1>2 DEF Cut, t
  <2>6. ToSet(t) \subseteq ToSet(s)
    <3>1. \A i \in 1..limit : i \in 1..Len(s)
      BY ONLY <1>1, <1>2, limit \in Nat
    <3>2. \A i \in 1..limit : t[i] = s[i]
      BY ONLY <2>1
    <3> QED BY ONLY <1>1, <2>4, <3>1, <3>2
  <2>7. /\ List(t) /\ Len(t) <= Len(s)
        /\ \A i \in 1..Len(t) : t[i] = s[i]
        /\ ToSet(t) \subseteq ToSet(s)
        /\ t # <<>>
    <3>1. Len(t) <= Len(s)
      BY <1>1, <1>2, <2>1
    <3>2. \A i \in 1..Len(t) : t[i] = s[i]
      BY ONLY <2>1
    <3> QED BY ONLY <3>1, <3>2, <2>3, <2>4, <2>6
  <2> QED BY ONLY <2>5, <2>7
<1>3. CASE ~(limit > 0 /\ limit < Len(s))
  BY <1>1, <1>3 DEF Cut
<1> QED BY <1>2, <1>3

\* The first of the equal entries stay.
LEMMA DedupeIs ==
    ASSUME NEW s, List(s)
    PROVE  List(Dedupe(s)) /\ ToSet(Dedupe(s)) = ToSet(s) /\ (Dedupe(s) = <<>> <=> s = <<>>)
<1> DEFINE P == {i \in DOMAIN s : \A j \in 1..(i - 1) : s[j] # s[i]}
<1>1. Len(s) \in Nat /\ DOMAIN s = 1..Len(s) /\ ToSet(s) = {s[i] : i \in 1..Len(s)}
  BY ListHas
<1>2. ASSUME NEW i \in 1..Len(s)
      PROVE  \E k \in P : s[k] = s[i]
  <2> DEFINE T == {k \in 1..Len(s) : s[k] = s[i]}
  <2>1. PICK k \in T : \A m \in T : k <= m
    <3>1. T \in SUBSET Nat /\ T # {}
      OBVIOUS
    <3> HIDE DEF T
    <3> QED BY <3>1, LeastNat
  <2>2. \A j \in 1..(k - 1) : s[j] # s[k]
    BY <2>1, <1>1
  <2> QED BY <1>1, <2>1, <2>2
<1>3. {s[i] : i \in P} = ToSet(s)
  BY <1>1, <1>2
<1>4. Dedupe(s) = Select(s, P)
  BY DEF Dedupe
<1> HIDE DEF P
<1>5. List(Select(s, P)) /\ ToSet(Select(s, P)) = {s[i] : i \in P}
  <2>1. P \in SUBSET DOMAIN s
    BY DEF P
  <2> QED BY <2>1, SelectIs
<1> QED BY <1>3, <1>4, <1>5, ListHas

\* f holds the first m + 1 values of the recursion that starts with b.
Runs(f, m, W, b, g) ==
    f \in [0..m -> W] /\ f[0] = b /\ \A k \in 0..(m - 1) : f[k + 1] = g[k][f[k]]

\* A recursion over the naturals has its function.
RunsOn(f, W, b, g) ==
    f \in [Nat -> W] /\ f[0] = b /\ \A k \in Nat : f[k + 1] = g[k][f[k]]

\* Glued from the finite runs, which agree where they overlap.
LEMMA RecursionExists ==
    ASSUME NEW W, NEW b \in W, NEW g \in [Nat -> [W -> W]]
    PROVE  \E f : RunsOn(f, W, b, g)
<1>1. \A m \in Nat : \E f : Runs(f, m, W, b, g)
  <2> DEFINE T == {m \in Nat : ~\E f : Runs(f, m, W, b, g)}
  <2> SUFFICES ASSUME T # {} PROVE FALSE
    OBVIOUS
  <2>1. PICK m \in T : \A y \in T : m <= y
    <3>1. T \in SUBSET Nat
      OBVIOUS
    <3> HIDE DEF T
    <3> QED BY <3>1, LeastNat
  <2>2. m # 0
    <3> DEFINE z == [i \in 0..0 |-> b]
    <3>1. Runs(z, 0, W, b, g)
      BY DEF Runs
    <3> QED BY <3>1
  <2>3. PICK f : Runs(f, m - 1, W, b, g)
    <3>1. m - 1 \in Nat /\ m - 1 \notin T
      <4>1. m \in Nat
        OBVIOUS
      <4> HIDE DEF T
      <4> QED BY ONLY <2>1, <2>2, <4>1
    <3> QED BY <3>1
  <2> DEFINE h == [i \in 0..m |-> IF i = m THEN g[m - 1][f[m - 1]] ELSE f[i]]
  <2>4. m \in Nat /\ m - 1 \in Nat /\ f \in [0..(m - 1) -> W] /\ f[0] = b
    BY <2>2, <2>3 DEF Runs
  <2>5. g[m - 1][f[m - 1]] \in W
    BY <2>4
  <2>6. h \in [0..m -> W] /\ h[0] = b
    BY <2>2, <2>4, <2>5
  <2>7. ASSUME NEW k \in 0..(m - 1) PROVE h[k + 1] = g[k][h[k]]
    <3>1. h[k] = f[k]
      BY <2>4
    <3>2. CASE k + 1 = m
      <4>1. k = m - 1 /\ m \in 0..m
        BY <2>4, <3>2
      <4>2. h[m] = g[m - 1][f[m - 1]]
        BY <4>1
      <4> HIDE DEF h
      <4> QED BY ONLY <3>1, <3>2, <4>1, <4>2
    <3>3. CASE k + 1 # m
      <4>1. k \in 0..((m - 1) - 1) /\ h[k + 1] = f[k + 1]
        BY <2>4, <3>3
      <4>2. f[k + 1] = g[k][f[k]]
        BY <4>1, <2>3 DEF Runs
      <4> QED BY <4>1, <4>2, <3>1
    <3> QED BY <3>2, <3>3
  <2>8. Runs(h, m, W, b, g)
    <3> HIDE DEF h
    <3> QED BY <2>6, <2>7 DEF Runs
  <2> QED BY <2>8
<1>2. ASSUME NEW f, NEW h, NEW m \in Nat, NEW l \in Nat, m <= l,
             Runs(f, m, W, b, g), Runs(h, l, W, b, g)
      PROVE  \A k \in 0..m : f[k] = h[k]
  <2> DEFINE T == {k \in 0..m : f[k] # h[k]}
  <2> SUFFICES ASSUME T # {} PROVE FALSE
    OBVIOUS
  <2>1. PICK k \in T : \A y \in T : k <= y
    <3>1. T \in SUBSET Nat
      OBVIOUS
    <3> HIDE DEF T
    <3> QED BY <3>1, LeastNat
  <2>2. k # 0
    BY <1>2, <2>1 DEF Runs
  <2>3. k - 1 \in 0..(m - 1) /\ k - 1 \in 0..(l - 1) /\ k - 1 \in 0..m /\ (k - 1) + 1 = k
    BY <1>2, <2>1, <2>2
  <2>4. f[k - 1] = h[k - 1]
    BY <2>1, <2>3
  <2>5. f[(k - 1) + 1] = g[k - 1][f[k - 1]] /\ h[(k - 1) + 1] = g[k - 1][h[k - 1]]
    BY <1>2, <2>3 DEF Runs
  <2>6. f[k] = h[k]
    BY ONLY <2>3, <2>4, <2>5
  <2> QED BY <2>1, <2>6
<1> DEFINE F == [m \in Nat |-> CHOOSE f : Runs(f, m, W, b, g)]
           r == [k \in Nat |-> F[k][k]]
<1>3. \A m \in Nat : Runs(F[m], m, W, b, g)
  BY <1>1
<1>4. r \in [Nat -> W] /\ r[0] = b
  <2> HIDE DEF F
  <2> QED BY <1>3 DEF Runs
<1>5. ASSUME NEW k \in Nat PROVE r[k + 1] = g[k][r[k]]
  <2> HIDE DEF F
  <2>1. k + 1 \in Nat /\ k <= k + 1 /\ k \in 0..k /\ k \in 0..((k + 1) - 1)
    OBVIOUS
  <2>2. Runs(F[k], k, W, b, g) /\ Runs(F[k + 1], k + 1, W, b, g)
    BY <1>3, <2>1
  <2>3. F[k][k] = F[k + 1][k]
    BY <1>2, <2>1, <2>2
  <2>4. F[k + 1][k + 1] = g[k][F[k + 1][k]]
    BY <2>1, <2>2 DEF Runs
  <2>5. r[k] = F[k][k] /\ r[k + 1] = F[k + 1][k + 1]
    BY <2>1
  <2> QED BY ONLY <2>3, <2>4, <2>5
<1>6. RunsOn(r, W, b, g)
  <2> HIDE DEF r
  <2> QED BY <1>4, <1>5 DEF RunsOn
<1> QED BY <1>6

\* at tells of each entry of s which entry of which of the first k parts it is.
Traces(at, s, parts, k) ==
    /\ \A m \in 1..Len(s) :
          /\ at[m][1] \in 1..k /\ at[m][2] \in 1..Len(parts[at[m][1]])
          /\ s[m] = parts[at[m][1]][at[m][2]] /\ at[m] = <<at[m][1], at[m][2]>>
    /\ \A m, l \in 1..Len(s) : m # l => at[m] # at[l]
    /\ \A i \in 1..k : \A j \in 1..Len(parts[i]) : \E m \in 1..Len(s) : at[m] = <<i, j>>

\* One more part.
LEMMA TraceGrows ==
    ASSUME NEW X, NEW s \in Seq(X), NEW parts, NEW k \in Nat, parts[k + 1] \in Seq(X),
           NEW at, Traces(at, s, parts, k)
    PROVE  \E new : Traces(new, s \o parts[k + 1], parts, k + 1)
<1> DEFINE t == parts[k + 1]
           n == Len(s)
           u == s \o t
           new == [m \in 1..(n + Len(t)) |-> IF m <= n THEN at[m] ELSE <<k + 1, m - n>>]
<1>1. t \in Seq(X)
  OBVIOUS
<1> HIDE DEF t
<1>2. n \in Nat /\ Len(t) \in Nat
  BY <1>1
<1>3. Len(u) = n + Len(t) /\ \A m \in 1..Len(u) : u[m] = IF m <= n THEN s[m] ELSE t[m - n]
  BY <1>1, ConcatProperties
<1>4. ASSUME NEW m \in 1..(n + Len(t)), m <= n
      PROVE  new[m] = at[m] /\ u[m] = s[m] /\ m \in 1..n
  <2> HIDE DEF u
  <2> QED BY <1>2, <1>3, <1>4
<1>5. ASSUME NEW m \in 1..(n + Len(t)), ~(m <= n)
      PROVE  new[m] = <<k + 1, m - n>> /\ u[m] = t[m - n] /\ m - n \in 1..Len(t)
  <2> HIDE DEF u
  <2> QED BY <1>2, <1>3, <1>5
<1> HIDE DEF u, new
<1>6. ASSUME NEW m \in 1..(n + Len(t))
      PROVE  /\ new[m][1] \in 1..(k + 1) /\ new[m][2] \in 1..Len(parts[new[m][1]])
             /\ u[m] = parts[new[m][1]][new[m][2]] /\ new[m] = <<new[m][1], new[m][2]>>
  <2>1. CASE m <= n
    <3>1. m \in 1..n /\ new[m] = at[m] /\ u[m] = s[m]
      BY <1>4, <2>1
    <3>2. at[m][1] \in 1..k /\ at[m][2] \in 1..Len(parts[at[m][1]]) /\ s[m] = parts[at[m][1]][at[m][2]] /\ at[m] = <<at[m][1], at[m][2]>>
      BY <3>1 DEF Traces
    <3>3. 1..k \subseteq 1..(k + 1)
      OBVIOUS
    <3> QED BY <3>1, <3>2, <3>3
  <2>2. CASE ~(m <= n)
    <3>1. new[m] = <<k + 1, m - n>> /\ u[m] = t[m - n] /\ m - n \in 1..Len(t)
      BY <1>5, <2>2
    <3>2. new[m][1] = k + 1 /\ new[m][2] = m - n /\ k + 1 \in 1..(k + 1)
      BY <3>1
    <3> QED BY <3>1, <3>2 DEF t
  <2> QED BY <2>1, <2>2
<1>7. ASSUME NEW m \in 1..(n + Len(t)), NEW l \in 1..(n + Len(t)), m # l
      PROVE  new[m] # new[l]
  <2>1. CASE m <= n /\ l <= n
    <3>1. new[m] = at[m] /\ new[l] = at[l] /\ m \in 1..n /\ l \in 1..n
      BY <1>4, <2>1
    <3> QED BY <1>7, <3>1 DEF Traces
  <2>2. CASE ~(m <= n) /\ ~(l <= n)
    <3>1. new[m] = <<k + 1, m - n>> /\ new[l] = <<k + 1, l - n>>
      BY <1>5, <2>2
    <3>2. m - n # l - n
      BY <1>2, <1>7
    <3> QED BY <3>1, <3>2
  <2>3. ASSUME NEW x \in 1..(n + Len(t)), NEW y \in 1..(n + Len(t)), x <= n, ~(y <= n)
        PROVE  new[x] # new[y]
    <3>1. new[x] = at[x] /\ x \in 1..n /\ new[y] = <<k + 1, y - n>>
      BY <1>4, <1>5, <2>3
    <3>2. new[x][1] \in 1..k
      BY <3>1 DEF Traces
    <3>3. new[y][1] = k + 1
      BY <3>1
    <3>4. k + 1 \notin 1..k
      OBVIOUS
    <3> QED BY <3>2, <3>3, <3>4
  <2> QED BY <2>1, <2>2, <2>3
<1>8. ASSUME NEW i \in 1..(k + 1), NEW j \in 1..Len(parts[i])
      PROVE  \E m \in 1..(n + Len(t)) : new[m] = <<i, j>>
  <2>1. CASE i = k + 1
    <3>1. j \in 1..Len(t)
      BY <2>1 DEF t
    <3>2. n + j \in 1..(n + Len(t)) /\ ~(n + j <= n) /\ (n + j) - n = j
      BY <1>2, <3>1
    <3>3. new[n + j] = <<k + 1, j>>
      BY <1>5, <3>2
    <3> QED BY <2>1, <3>2, <3>3
  <2>2. CASE i # k + 1
    <3>1. i \in 1..k
      BY <2>2
    <3>2. PICK m \in 1..n : at[m] = <<i, j>>
      BY <3>1 DEF Traces
    <3>3. m \in 1..(n + Len(t)) /\ m <= n
      BY <1>2, <3>2
    <3>4. new[m] = at[m]
      BY <1>4, <3>3
    <3> QED BY <3>2, <3>3, <3>4
  <2> QED BY <2>1, <2>2
<1>9. Traces(new, u, parts, k + 1)
  <2>1. 1..Len(u) = 1..(n + Len(t))
    BY <1>3
  <2>2. \A m \in 1..Len(u) :
          /\ new[m][1] \in 1..(k + 1) /\ new[m][2] \in 1..Len(parts[new[m][1]])
          /\ u[m] = parts[new[m][1]][new[m][2]] /\ new[m] = <<new[m][1], new[m][2]>>
    BY <1>6, <2>1
  <2>3. \A m, l \in 1..Len(u) : m # l => new[m] # new[l]
    BY <1>7, <2>1
  <2>4. \A i \in 1..(k + 1) : \A j \in 1..Len(parts[i]) : \E m \in 1..Len(u) : new[m] = <<i, j>>
    BY <1>8, <2>1
  <2> QED BY ONLY <2>2, <2>3, <2>4 DEF Traces
<1> QED BY <1>9 DEF u, t

\* Every entry of every part, each once.
LEMMA FlattenIs ==
    ASSUME NEW parts, List(parts), \A i \in 1..Len(parts) : List(parts[i])
    PROVE  List(FlattenSeq(parts)) /\ \E at : Traces(at, FlattenSeq(parts), parts, Len(parts))
<1> DEFINE n == Len(parts)
           X == UNION {ToSet(parts[i]) : i \in 1..n}
<1>1. n \in Nat /\ DOMAIN parts = 1..n /\ (parts = <<>> <=> n = 0)
  BY ListHas
<1>2. \A i \in 1..n : parts[i] \in Seq(X)
  <2> SUFFICES ASSUME NEW i \in 1..n PROVE parts[i] \in Seq(X)
    OBVIOUS
  <2>1. parts[i] \in Seq(ToSet(parts[i]))
    BY DEF List
  <2>2. ToSet(parts[i]) \subseteq X
    OBVIOUS
  <2> HIDE DEF X
  <2> QED BY <2>1, <2>2, SeqMonotonic
<1> HIDE DEF X
<1>3. CASE n = 0
  <2>1. FlattenSeq(parts) = <<>> /\ parts = <<>>
    BY <1>1, <1>3 DEF FlattenSeq
  <2>2. Traces(<<>>, <<>>, parts, n)
    BY <1>3 DEF Traces
  <2>3. List(<<>>)
    BY DEF List
  <2> QED BY <2>1, <2>2, <2>3
<1>4. CASE n # 0
  <2> DEFINE F(h) == [i \in 1..n |-> IF i = 1 THEN parts[i] ELSE h[i - 1] \o parts[i]]
             u == CHOOSE h : h = F(h)
             g == [k \in Nat |-> [a \in Seq(X) |-> IF k + 2 \in 1..n THEN a \o parts[k + 2] ELSE a]]
  <2>1. parts[1] \in Seq(X) /\ 1 \in 1..n
    BY <1>1, <1>2, <1>4
  <2>2. g \in [Nat -> [Seq(X) -> Seq(X)]]
    <3>1. \A k \in Nat, a \in Seq(X) : (IF k + 2 \in 1..n THEN a \o parts[k + 2] ELSE a) \in Seq(X)
      BY <1>2
    <3> QED BY ONLY <3>1
  <2>3. \A k \in Nat, a \in Seq(X) : k + 2 \in 1..n => g[k][a] = a \o parts[k + 2]
    OBVIOUS
  <2> HIDE DEF g
  <2>4. PICK r \in [Nat -> Seq(X)] : r[0] = parts[1] /\ \A k \in Nat : r[k + 1] = g[k][r[k]]
    <3> DEFINE W == Seq(X)
               b == parts[1]
    <3>1. b \in W /\ g \in [Nat -> [W -> W]]
      BY <2>1, <2>2
    <3> HIDE DEF W, b
    <3>2. \E r : RunsOn(r, W, b, g)
      BY ONLY <3>1, RecursionExists
    <3>3. \E r \in [Nat -> W] : r[0] = b /\ \A k \in Nat : r[k + 1] = g[k][r[k]]
      BY ONLY <3>2 DEF RunsOn
    <3> QED BY <3>3 DEF W, b
  <2> DEFINE h == [i \in 1..n |-> r[i - 1]]
  <2>5. \A i \in 1..n : h[i] \in Seq(X) /\ h[i] = IF i = 1 THEN parts[i] ELSE h[i - 1] \o parts[i]
    <3> SUFFICES ASSUME NEW i \in 1..n
                 PROVE  h[i] \in Seq(X) /\ h[i] = IF i = 1 THEN parts[i] ELSE h[i - 1] \o parts[i]
      OBVIOUS
    <3>1. CASE i = 1
      BY <2>1, <2>4, <3>1
    <3>2. CASE i # 1
      <4>1. i - 1 \in 1..n /\ i - 2 \in Nat /\ (i - 2) + 1 = i - 1 /\ (i - 2) + 2 = i /\ (i - 1) - 1 = i - 2
            /\ i - 1 \in Nat
        BY <1>1, <3>2
      <4>2. r[(i - 2) + 1] = g[i - 2][r[i - 2]] /\ r[i - 2] \in Seq(X) /\ r[i - 1] \in Seq(X)
        BY <2>4, <4>1
      <4>3. g[i - 2][r[i - 2]] = r[i - 2] \o parts[i]
        BY <2>3, <4>1, <4>2
      <4>4. h[i] = r[i - 1] /\ h[i - 1] = r[i - 2]
        BY <4>1
      <4> HIDE DEF h
      <4> QED BY ONLY <3>2, <4>1, <4>2, <4>3, <4>4
    <3> QED BY <3>1, <3>2
  <2>6. h = F(h)
    <3>1. h = [i \in 1..n |-> h[i]]
      OBVIOUS
    <3> HIDE DEF h
    <3>2. F(h) = [i \in 1..n |-> h[i]]
      BY <2>5
    <3> QED BY <3>1, <3>2
  <2>7. u = F(u)
    <3> HIDE DEF F, h
    <3> QED BY <2>6
  <2>8. u[1] = parts[1] /\ \A i \in 1..n : i # 1 => u[i] = u[i - 1] \o parts[i]
    <3> HIDE DEF u
    <3> QED BY <2>1, <2>7
  <2>9. FlattenSeq(parts) = u[n]
    BY <1>1, <1>4 DEF FlattenSeq
  <2> HIDE DEF u, h, F
  <2>10. \A k \in 1..n : u[k] \in Seq(X) /\ \E at : Traces(at, u[k], parts, k)
    <3> DEFINE T == {k \in 1..n : ~(u[k] \in Seq(X) /\ \E at : Traces(at, u[k], parts, k))}
    <3> SUFFICES ASSUME T # {} PROVE FALSE
      OBVIOUS
    <3>1. PICK k \in T : \A y \in T : k <= y
      <4>1. T \in SUBSET Nat
        BY <1>1
      <4> HIDE DEF T
      <4> QED BY <4>1, LeastNat
    <3>2. CASE k = 1
      <4> DEFINE at == [m \in 1..Len(parts[1]) |-> <<1, m>>]
      <4>1. Traces(at, parts[1], parts, 1)
        <5>1. \A m \in 1..Len(parts[1]) : at[m] = <<1, m>> /\ at[m][1] = 1 /\ at[m][2] = m
          OBVIOUS
        <5>2. \A i \in 1..1 : i = 1
          OBVIOUS
        <5>3. 1 \in 1..1
          OBVIOUS
        <5> HIDE DEF at
        <5>4. \A m \in 1..Len(parts[1]) :
                /\ at[m][1] \in 1..1 /\ at[m][2] \in 1..Len(parts[at[m][1]])
                /\ parts[1][m] = parts[at[m][1]][at[m][2]] /\ at[m] = <<at[m][1], at[m][2]>>
          BY <5>1, <5>3
        <5>5. \A m, l \in 1..Len(parts[1]) : m # l => at[m] # at[l]
          BY <5>1
        <5>6. \A i \in 1..1 : \A j \in 1..Len(parts[i]) : \E m \in 1..Len(parts[1]) : at[m] = <<i, j>>
          BY <5>1, <5>2
        <5> QED BY ONLY <5>4, <5>5, <5>6 DEF Traces
      <4> HIDE DEF at
      <4> QED BY <2>1, <2>8, <3>1, <3>2, <4>1
    <3>3. CASE k # 1
      <4>1. k - 1 \in 1..n /\ k - 1 \in Nat /\ k - 1 \notin T /\ (k - 1) + 1 = k
        <5>1. k \in 1..n
          BY <3>1
        <5> HIDE DEF T
        <5>2. k - 1 \in 1..n /\ k - 1 \in Nat /\ (k - 1) + 1 = k /\ ~(k <= k - 1)
          BY ONLY <1>1, <3>3, <5>1
        <5> QED BY ONLY <3>1, <5>2
      <4>2. u[k - 1] \in Seq(X) /\ \E at : Traces(at, u[k - 1], parts, k - 1)
        BY <4>1
      <4>3. parts[k] \in Seq(X) /\ u[k] = u[k - 1] \o parts[k]
        BY <1>2, <2>8, <3>1, <3>3
      <4>4. PICK at : Traces(at, u[k - 1], parts, k - 1)
        BY <4>2
      <4>5. \E new : Traces(new, u[k - 1] \o parts[(k - 1) + 1], parts, (k - 1) + 1)
        BY <4>1, <4>2, <4>3, <4>4, TraceGrows
      <4>6. \E new : Traces(new, u[k], parts, k)
        BY <4>1, <4>3, <4>5
      <4>7. u[k] \in Seq(X)
        BY <4>2, <4>3
      <4> QED BY <3>1, <4>6, <4>7
    <3> QED BY <3>2, <3>3
  <2>11. u[n] \in Seq(X) /\ \E at : Traces(at, u[n], parts, n)
    BY <1>1, <1>4, <2>10
  <2>12. List(u[n])
    <3> DEFINE t == u[n]
    <3> HIDE DEF t
    <3>1. t \in Seq(X)
      BY <2>11 DEF t
    <3>2. Len(t) \in Nat /\ DOMAIN t = 1..Len(t) /\ t = [i \in 1..Len(t) |-> t[i]]
      BY <3>1, LenProperties
    <3>3. List(t)
      BY <3>2, ListIs
    <3> QED BY <3>3 DEF t
  <2> QED BY <2>9, <2>11, <2>12
<1> QED BY <1>3, <1>4

-----------------------------------------------------------------------------
(* Findings and their order *)

\* What the analyzer can find to be missing, and for which modules.
GapKinds == {TitleOrder[i] : i \in 1..8}
ModuleNames == {""} \cup {ModuleOrder[i] : i \in DOMAIN ModuleOrder}
Gaps == [kind : GapKinds, module : ModuleNames]

\* The kinds, one by one.
LEMMA KindsAre ==
    GapKinds = {"cli", "config", "lifecycle", "memory", "release", "compat", "tests", "docs"}
<1>1. 1..8 = {1, 2, 3, 4, 5, 6, 7, 8}
  OBVIOUS
<1> QED BY <1>1 DEF GapKinds, TitleOrder

\* There are finitely many gaps.
LEMMA GapsFinite == IsFiniteSet(Gaps)
<1>1. IsFiniteSet(GapKinds)
  <2> DEFINE f == [i \in 1..8 |-> TitleOrder[i]]
  <2>1. f \in Surjection(1..8, GapKinds)
    BY DEF GapKinds, Surjection
  <2>2. IsFiniteSet(1..8)
    <3>1. 1 \in Int /\ 8 \in Int
      OBVIOUS
    <3> QED BY ONLY <3>1, FS_Interval
  <2> HIDE DEF f
  <2> QED BY <2>1, <2>2, FS_Surjection
<1>2. IsFiniteSet(ModuleNames)
  <2> DEFINE n == Len(ModuleOrder)
             f == [i \in 0..n |-> IF i = 0 THEN "" ELSE ModuleOrder[i]]
  <2>1. n \in Nat /\ DOMAIN ModuleOrder = 1..n
    BY WorkAssumption, LenProperties
  <2>2. f \in [0..n -> ModuleNames]
    <3>1. \A i \in 0..n : i = 0 \/ i \in DOMAIN ModuleOrder
      BY <2>1
    <3>2. \A i \in DOMAIN ModuleOrder : ModuleOrder[i] \in ModuleNames
      BY DEF ModuleNames
    <3>3. \A i \in 0..n : (IF i = 0 THEN "" ELSE ModuleOrder[i]) \in ModuleNames
      BY <3>1, <3>2 DEF ModuleNames
    <3> QED BY ONLY <3>3
  <2>3. ASSUME NEW m \in ModuleNames PROVE \E i \in 0..n : f[i] = m
    <3>1. CASE m = ""
      <4>1. 0 \in 0..n
        BY <2>1
      <4>2. f[0] = ""
        BY <4>1
      <4> HIDE DEF f
      <4> QED BY <3>1, <4>1, <4>2
    <3>2. CASE m # ""
      <4>1. PICK i \in DOMAIN ModuleOrder : ModuleOrder[i] = m
        BY <3>2 DEF ModuleNames
      <4>2. i \in 0..n /\ i # 0
        BY <2>1, <4>1
      <4>3. f[i] = m
        BY <4>1, <4>2
      <4> HIDE DEF f
      <4> QED BY <4>2, <4>3
    <3> QED BY <3>1, <3>2
  <2>4. f \in Surjection(0..n, ModuleNames)
    <3> HIDE DEF f
    <3> QED BY <2>2, <2>3 DEF Surjection
  <2>5. IsFiniteSet(0..n)
    BY <2>1, FS_Interval
  <2> HIDE DEF f
  <2> QED BY <2>4, <2>5, FS_Surjection
<1>3. IsFiniteSet(GapKinds \X ModuleNames)
  BY <1>1, <1>2, FS_Product
<1> DEFINE h == [e \in GapKinds \X ModuleNames |-> Gap(e[1], e[2])]
<1>4. h \in [GapKinds \X ModuleNames -> Gaps]
  BY DEF Gap, Gaps
<1>5. ASSUME NEW g \in Gaps PROVE \E e \in GapKinds \X ModuleNames : h[e] = g
  <2>1. g = Gap(g.kind, g.module) /\ g.kind \in GapKinds /\ g.module \in ModuleNames
    BY DEF Gap, Gaps
  <2>2. <<g.kind, g.module>> \in GapKinds \X ModuleNames
    BY <2>1
  <2>3. h[<<g.kind, g.module>>] = Gap(g.kind, g.module)
    BY <2>2
  <2> QED BY <2>1, <2>2, <2>3
<1>6. h \in Surjection(GapKinds \X ModuleNames, Gaps)
  <2> HIDE DEF h
  <2> QED BY <1>4, <1>5 DEF Surjection
<1> HIDE DEF h
<1> QED BY <1>3, <1>6, FS_Surjection

\* What the analyzer finds are gaps.
LEMMA FindingsAre ==
    ASSUME NEW r \in Repositories
    PROVE  Findings(r) \subseteq Gaps /\ IsFiniteSet(Findings(r))
<1>1. r.modules \cup r.clis \subseteq ModuleNames /\ "" \in ModuleNames
  BY WorkAssumption DEF ModuleNames
<1>2. \A m \in r.modules : r.area[m] \in {"none", "lifecycle", "release", "memory"}
  BY WorkAssumption
<1>3. r.untested \subseteq {"config", "compat"}
  BY WorkAssumption
<1>4. \A k \in GapKinds, m \in ModuleNames : Gap(k, m) \in Gaps
  BY DEF Gap, Gaps
<1>5. {r.area[m] : m \in r.modules} \ ({"none"} \cup {r.area[m] : m \in r.documented}) \subseteq GapKinds
  BY <1>2, KindsAre
<1>6. Findings(r) \subseteq Gaps
  <2>1. \A m \in r.modules \cup r.clis : Gap("tests", m) \in Gaps /\ Gap("docs", m) \in Gaps /\ Gap("cli", m) \in Gaps
    BY <1>1, <1>4, KindsAre
  <2>2. \A a \in {r.area[m] : m \in r.modules} \ ({"none"} \cup {r.area[m] : m \in r.documented}) : Gap(a, "") \in Gaps
    BY <1>1, <1>4, <1>5
  <2>3. \A k \in r.untested : Gap(k, "") \in Gaps
    BY <1>1, <1>3, <1>4, KindsAre
  <2> QED BY <2>1, <2>2, <2>3 DEF Findings
<1> QED BY <1>6, GapsFinite, FS_Subset

\* An entry of a sequence has a position.
LEMMA PosInIs ==
    ASSUME NEW s, NEW x, \E i \in DOMAIN s : s[i] = x
    PROVE  PosIn(x, s) \in DOMAIN s /\ s[PosIn(x, s)] = x
BY DEF PosIn

\* The sort key is four numbers, and a gap is told by its key.
LEMMA KeysAre ==
    ASSUME NEW f \in Gaps, NEW g \in Gaps
    PROVE  /\ \A i \in 1..4 : KeyOf(f)[i] \in Int
           /\ (\A i \in 1..4 : KeyOf(f)[i] = KeyOf(g)[i]) => f = g
<1>1. ASSUME NEW e \in Gaps
      PROVE  /\ PriorityOf(e) \in Int /\ RankOf(e) \in Int
             /\ TitleOf(e)[1] \in 1..8 /\ TitleOrder[TitleOf(e)[1]] = e.kind
             /\ TitleOf(e)[2] \in Nat
             /\ e.module = IF TitleOf(e)[2] = 0 THEN "" ELSE ModuleOrder[TitleOf(e)[2]]
  <2>1. Severity(e) \in {"high", "medium", "low"} /\ EffortScore(e) \in Nat
    BY DEF Severity, EffortScore
  <2>2. RiskScore[Severity(e)] \in Nat /\ ConfidenceScore[Severity(e)] \in Nat
    BY <2>1 DEF RiskScore, ConfidenceScore
  <2>3. PriorityOf(e) \in Int
    BY DEF PriorityOf
  <2>4. RankOf(e) \in Int
    BY <2>1, <2>2 DEF RankOf
  <2>5. e.kind \in GapKinds /\ e.module \in ModuleNames
    BY DEF Gaps
  <2>6. PosIn(e.kind, TitleOrder) \in 1..8 /\ TitleOrder[PosIn(e.kind, TitleOrder)] = e.kind
    <3>1. DOMAIN TitleOrder = 1..8
      BY DEF TitleOrder
    <3>2. \E i \in DOMAIN TitleOrder : TitleOrder[i] = e.kind
      BY <2>5, <3>1 DEF GapKinds
    <3> QED BY <3>1, <3>2, PosInIs
  <2>7. CASE e.module = ""
    BY <2>3, <2>4, <2>6, <2>7 DEF TitleOf
  <2>8. CASE e.module # ""
    <3>1. \E i \in DOMAIN ModuleOrder : ModuleOrder[i] = e.module
      BY <2>5, <2>8 DEF ModuleNames
    <3>2. PosIn(e.module, ModuleOrder) \in DOMAIN ModuleOrder /\ ModuleOrder[PosIn(e.module, ModuleOrder)] = e.module
      BY <3>1, PosInIs
    <3>3. PosIn(e.module, ModuleOrder) \in Nat \ {0}
      <4>1. DOMAIN ModuleOrder = 1..Len(ModuleOrder) /\ Len(ModuleOrder) \in Nat
        BY WorkAssumption, LenProperties
      <4> QED BY <3>2, <4>1
    <3> QED BY <2>3, <2>4, <2>6, <2>8, <3>2, <3>3 DEF TitleOf
  <2> QED BY <2>7, <2>8
<1>2. ASSUME NEW e \in Gaps
      PROVE  /\ KeyOf(e)[1] = PriorityOf(e) /\ KeyOf(e)[2] = 300 - RankOf(e)
             /\ KeyOf(e)[3] = TitleOf(e)[1] /\ KeyOf(e)[4] = TitleOf(e)[2]
  BY DEF KeyOf
<1>3. \A i \in 1..4 : KeyOf(f)[i] \in Int
  <2>1. 300 - RankOf(f) \in Int /\ TitleOf(f)[1] \in Int /\ TitleOf(f)[2] \in Int /\ PriorityOf(f) \in Int
    <3>1. RankOf(f) \in Int /\ PriorityOf(f) \in Int
      BY <1>1
    <3>2. TitleOf(f)[1] \in 1..8 /\ TitleOf(f)[2] \in Nat
      BY <1>1
    <3> QED BY ONLY <3>1, <3>2
  <2>2. \A i \in 1..4 : i = 1 \/ i = 2 \/ i = 3 \/ i = 4
    OBVIOUS
  <2> QED BY <2>1, <2>2, <1>2
<1>4. ASSUME \A i \in 1..4 : KeyOf(f)[i] = KeyOf(g)[i]
      PROVE  f = g
  <2>1. TitleOf(f)[1] = TitleOf(g)[1] /\ TitleOf(f)[2] = TitleOf(g)[2]
    <3>1. 3 \in 1..4 /\ 4 \in 1..4
      OBVIOUS
    <3> QED BY <1>2, <1>4, <3>1
  <2>2. f.kind = g.kind /\ f.module = g.module
    BY <2>1, <1>1
  <2> QED BY <2>2 DEF Gaps
<1> QED BY <1>3, <1>4

\* The order of keys, written out.
LEMMA BeforeIs ==
    ASSUME NEW f, NEW g
    PROVE  LET a == KeyOf(f)
               b == KeyOf(g)
           IN  Before(f, g) <=>
                 \/ a[1] < b[1]
                 \/ a[1] = b[1] /\ a[2] < b[2]
                 \/ a[1] = b[1] /\ a[2] = b[2] /\ a[3] < b[3]
                 \/ a[1] = b[1] /\ a[2] = b[2] /\ a[3] = b[3] /\ a[4] < b[4]
<1> DEFINE L(i) == KeyOf(f)[i] < KeyOf(g)[i]
           E(i) == KeyOf(f)[i] = KeyOf(g)[i]
<1>1. 1..4 = {1, 2, 3, 4} /\ 1..(1 - 1) = {} /\ 1..(2 - 1) = {1} /\ 1..(3 - 1) = {1, 2} /\ 1..(4 - 1) = {1, 2, 3}
  OBVIOUS
<1> DEFINE P(i) == L(i) /\ \A j \in 1..(i - 1) : E(j)
<1>2. Before(f, g) <=> \E i \in 1..4 : P(i)
  BY DEF Before
<1>3. Before(f, g) <=> P(1) \/ P(2) \/ P(3) \/ P(4)
  <2>1. (\E i \in {1, 2, 3, 4} : P(i)) <=> P(1) \/ P(2) \/ P(3) \/ P(4)
    <3> HIDE DEF P
    <3> QED OBVIOUS
  <2>2. (\E i \in 1..4 : P(i)) <=> (\E i \in {1, 2, 3, 4} : P(i))
    <3> HIDE DEF P
    <3> QED BY <1>1
  <2> HIDE DEF P
  <2> QED BY <1>2, <2>1, <2>2
<1>4. P(1) <=> L(1)
  <2> HIDE DEF L, E
  <2> QED BY <1>1
<1>5. P(2) <=> L(2) /\ E(1)
  <2> HIDE DEF L, E
  <2> QED BY <1>1
<1>6. P(3) <=> L(3) /\ E(1) /\ E(2)
  <2> HIDE DEF L, E
  <2> QED BY <1>1
<1>7. P(4) <=> L(4) /\ E(1) /\ E(2) /\ E(3)
  <2> HIDE DEF L, E
  <2> QED BY <1>1
<1>8. Before(f, g) <=> L(1) \/ (E(1) /\ L(2)) \/ (E(1) /\ E(2) /\ L(3)) \/ (E(1) /\ E(2) /\ E(3) /\ L(4))
  <2> HIDE DEF P, L, E
  <2> QED BY <1>3, <1>4, <1>5, <1>6, <1>7
<1> QED BY <1>8

\* The sort key of the plan, as a relation.
BeforeIn(S) == {e \in S \X S : Before(e[1], e[2])}

\* The sort key orders the findings strictly and totally, so the sort of
\* generate_remediation_plan_report has one result.
LEMMA BeforeOrders ==
    ASSUME NEW S \in SUBSET Gaps
    PROVE  Orders(BeforeIn(S), S)
<1> DEFINE k1(f) == KeyOf(f)[1]
           k2(f) == KeyOf(f)[2]
           k3(f) == KeyOf(f)[3]
           k4(f) == KeyOf(f)[4]
<1>1. ASSUME NEW f \in S PROVE k1(f) \in Int /\ k2(f) \in Int /\ k3(f) \in Int /\ k4(f) \in Int
  BY KeysAre
<1>2. ASSUME NEW f \in S, NEW g \in S,
             k1(f) = k1(g), k2(f) = k2(g), k3(f) = k3(g), k4(f) = k4(g)
      PROVE  f = g
  <2>1. \A i \in 1..4 : i = 1 \/ i = 2 \/ i = 3 \/ i = 4
    OBVIOUS
  <2>2. \A i \in 1..4 : KeyOf(f)[i] = KeyOf(g)[i]
    BY <1>2, <2>1
  <2> QED BY <2>2, KeysAre
<1>3. ASSUME NEW f \in S, NEW g \in S
      PROVE  <<f, g>> \in BeforeIn(S) <=>
                 \/ k1(f) < k1(g)
                 \/ k1(f) = k1(g) /\ k2(f) < k2(g)
                 \/ k1(f) = k1(g) /\ k2(f) = k2(g) /\ k3(f) < k3(g)
                 \/ k1(f) = k1(g) /\ k2(f) = k2(g) /\ k3(f) = k3(g) /\ k4(f) < k4(g)
  BY BeforeIs DEF BeforeIn
<1> HIDE DEF k1, k2, k3, k4
<1>4. \A x \in S : <<x, x>> \notin BeforeIn(S)
  BY <1>1, <1>3
<1>5. ASSUME NEW x \in S, NEW y \in S, NEW z \in S,
             <<x, y>> \in BeforeIn(S), <<y, z>> \in BeforeIn(S)
      PROVE  <<x, z>> \in BeforeIn(S)
  BY <1>1, <1>3, <1>5
<1>6. ASSUME NEW x \in S, NEW y \in S, x # y
      PROVE  <<x, y>> \in BeforeIn(S) \/ <<y, x>> \in BeforeIn(S)
  BY <1>1, <1>2, <1>3, <1>6
<1> QED BY <1>4, <1>5, <1>6 DEF Orders

\* The plan's items are the findings, or the one item of continuity.
LEMMA ItemsAre ==
    ASSUME NEW S \in SUBSET Gaps, IsFiniteSet(S)
    PROVE  List(Items(S)) /\ Items(S) # <<>>
<1>1. CASE S = {}
  <2>1. Items(S) = <<Continuity>>
    BY <1>1 DEF Items
  <2>2. <<Continuity>> = [i \in 1..1 |-> <<Continuity>>[i]] /\ DOMAIN <<Continuity>> = 1..1 /\ <<Continuity>> # <<>>
    OBVIOUS
  <2> QED BY <2>1, <2>2, ListIs
<1>2. CASE S # {}
  <2>1. Items(S) = Sorted(S, BeforeIn(S))
    BY <1>2 DEF Items, BeforeIn
  <2>2. Lists(Items(S), S)
    BY <2>1, BeforeOrders, PlacesAre
  <2>3. List(Items(S)) /\ Len(Items(S)) = Cardinality(S)
    <3> DEFINE q == Items(S)
    <3> HIDE DEF q
    <3>1. Lists(q, S)
      BY <2>2 DEF q
    <3>2. List(q) /\ Len(q) = Cardinality(S)
      BY <3>1, ListIs DEF Lists
    <3> QED BY <3>2 DEF q
  <2>4. Cardinality(S) # 0
    BY <1>2, FS_EmptySet
  <2> QED BY <2>3, <2>4, ListHas
<1> QED BY <1>1, <1>2

\* What the batches of a plan hold, and that no two have one identifier.
BatchOK(b) ==
    /\ b.id[2] \in 0..4
    /\ List(b.items) /\ b.items # <<>>

\* Each batch under an identifier of its own.
BatchesOK(bs) ==
    /\ List(bs)
    /\ \A i \in 1..Len(bs) : BatchOK(bs[i])
    /\ \A i, j \in 1..Len(bs) : i # j => bs[i].id # bs[j].id

\* All items of all batches.
ItemsOf(bs) == UNION {ToSet(bs[i].items) : i \in 1..Len(bs)}

\* derive_priority yields P0 to P4.
LEMMA PrioritiesAre ==
    ASSUME NEW f
    PROVE  BatchPriority(f) \in 0..4
BY DEF BatchPriority, PriorityOf

\* Every item is in the batch of its priority.
LEMMA BatchesAre ==
    ASSUME NEW n, NEW items, List(items)
    PROVE  BatchesOK(Batches(n, items)) /\ ItemsOf(Batches(n, items)) = ToSet(items)
<1> DEFINE At(p) == {i \in DOMAIN items : BatchPriority(items[i]) = p}
           used == {p \in 0..4 : Select(items, At(p)) # <<>>}
           q == Increasing(used)
           bs == [i \in 1..Cardinality(used) |-> [id |-> <<n, q[i]>>, items |-> Select(items, At(q[i]))]]
<1>1. Batches(n, items) = bs
  BY DEF Batches
<1>2. IsFiniteSet(used) /\ used \in SUBSET Nat
  <2>1. IsFiniteSet(0..4)
    <3>1. 0 \in Int /\ 4 \in Int
      OBVIOUS
    <3> QED BY ONLY <3>1, FS_Interval
  <2> HIDE DEF At
  <2> QED BY <2>1, FS_Subset
<1>3. \A p : At(p) \in SUBSET DOMAIN items
  OBVIOUS
<1>4. DOMAIN items = 1..Len(items) /\ ToSet(items) = {items[i] : i \in 1..Len(items)} /\ Len(items) \in Nat
  BY ListHas
<1>5. \A p : List(Select(items, At(p))) /\ ToSet(Select(items, At(p))) = {items[i] : i \in At(p)}
  <2> HIDE DEF At
  <2> QED BY <1>3, SelectIs
<1>6. \A i \in DOMAIN items : BatchPriority(items[i]) \in used
  <2> SUFFICES ASSUME NEW i \in DOMAIN items PROVE BatchPriority(items[i]) \in used
    OBVIOUS
  <2>1. i \in At(BatchPriority(items[i]))
    OBVIOUS
  <2> HIDE DEF At
  <2>2. Select(items, At(BatchPriority(items[i]))) # <<>>
    BY <1>3, <2>1, SelectIs
  <2> QED BY <2>2, PrioritiesAre
<1>7. Lists(q, used)
  <2> HIDE DEF used
  <2> QED BY <1>2, NumbersInOrder
<1>8. \A i \in 1..Cardinality(used) : q[i] \in used /\ q[i] \in 0..4 /\ Select(items, At(q[i])) # <<>>
  <2> HIDE DEF At, q
  <2>1. \A i \in 1..Cardinality(used) : q[i] \in used
    BY <1>7 DEF Lists
  <2> QED BY <2>1
<1>9. \A i, j \in 1..Cardinality(used) : i # j => q[i] # q[j]
  <2> HIDE DEF used, q
  <2> QED BY <1>7 DEF Lists
<1>10. \A p \in used : \E i \in 1..Cardinality(used) : q[i] = p
  <2> HIDE DEF used, q
  <2> QED BY <1>7 DEF Lists
<1>11. Cardinality(used) \in Nat
  <2> HIDE DEF used
  <2> QED BY <1>2, FS_CardinalityType
<1> HIDE DEF At, used, q
<1>12. List(bs) /\ Len(bs) = Cardinality(used)
  BY <1>11, ListIs
<1>13. \A i \in 1..Cardinality(used) :
          bs[i].id = <<n, q[i]>> /\ bs[i].items = Select(items, At(q[i]))
  OBVIOUS
<1> HIDE DEF bs
<1>14. BatchesOK(bs)
  <2>1. \A i \in 1..Cardinality(used) : BatchOK(bs[i])
    BY <1>5, <1>8, <1>13 DEF BatchOK
  <2>2. \A i, j \in 1..Cardinality(used) : i # j => bs[i].id # bs[j].id
    BY <1>9, <1>13
  <2> QED BY <1>12, <2>1, <2>2 DEF BatchesOK
<1>15. ItemsOf(bs) = ToSet(items)
  <2>1. ItemsOf(bs) = UNION {ToSet(bs[i].items) : i \in 1..Cardinality(used)}
    BY <1>12 DEF ItemsOf
  <2>2. \A i \in 1..Cardinality(used) : ToSet(bs[i].items) = {items[k] : k \in At(q[i])}
    BY <1>5, <1>13
  <2>3. \A i \in 1..Cardinality(used) : ToSet(bs[i].items) \subseteq ToSet(items)
    BY <1>3, <1>4, <2>2
  <2>4. ASSUME NEW k \in DOMAIN items
        PROVE  \E i \in 1..Cardinality(used) : items[k] \in ToSet(bs[i].items)
    <3>1. PICK i \in 1..Cardinality(used) : q[i] = BatchPriority(items[k])
      BY <1>6, <1>10
    <3>2. k \in At(q[i])
      BY <3>1 DEF At
    <3> QED BY <2>2, <3>2
  <2> QED BY <1>4, <2>1, <2>3, <2>4
<1> QED BY <1>1, <1>14, <1>15

-----------------------------------------------------------------------------
(* Packages *)

\* A test file comes with the command that runs it.
Tested(p) == \A f \in ToSet(p.files) : f.kind \in {"tests", "cli"} => f \in ToSet(p.commands)

\* A package of the handoff: one that names compatibility work has a file that
\* is no plain test.
PackageOK(p) ==
    /\ List(p.files) /\ p.files # <<>> /\ List(p.commands) /\ p.commands # <<>>
    /\ Tested(p)
    /\ p.compat => \E f \in ToSet(p.files) : ChangeType(f) # "add_test"

\* The targets of a batch, and the commands for them.
LEMMA PackageIs ==
    ASSUME NEW batch, BatchOK(batch)
    PROVE  /\ PackageOK(Package(batch)) /\ Package(batch).batch = batch.id
           /\ ToSet(Package(batch).files) = {TargetOf(f) : f \in ToSet(batch.items)}
<1> DEFINE items == batch.items
           targets == [i \in DOMAIN items |-> TargetOf(items[i])]
           P == {i \in DOMAIN items : items[i].kind \in {"cli", "tests", "docs"}}
           named == Select(items, P)
           Of(f) == IF f.kind = "docs" THEN AnalyzerTests ELSE f
           called == [i \in DOMAIN named |-> Of(named[i])]
           p == Package(batch)
<1>1. List(items) /\ items # <<>>
  BY DEF BatchOK
<1>2. Len(items) \in Nat /\ DOMAIN items = 1..Len(items) /\ ToSet(items) = {items[i] : i \in 1..Len(items)}
      /\ 1 \in DOMAIN items
  BY <1>1, ListHas
<1>3. List(targets) /\ Len(targets) = Len(items)
  <2> HIDE DEF items
  <2> QED BY <1>2, ListIs
<1>4. ToSet(targets) = {TargetOf(f) : f \in ToSet(items)} /\ targets # <<>>
  <2>1. ToSet(targets) = {targets[i] : i \in 1..Len(items)} /\ targets # <<>>
    <3> HIDE DEF targets, items
    <3> QED BY <1>1, <1>3, ListHas
  <2>2. \A i \in 1..Len(items) : targets[i] = TargetOf(items[i])
    BY <1>2
  <2> HIDE DEF targets, items
  <2> QED BY <1>2, <2>1, <2>2
<1>5. p.files = Dedupe(targets) /\ p.commands = Commands(items) /\ p.batch = batch.id
      /\ p.compat = (items[1].kind = "compat" \/ items[1].module \in Naming["compat"])
  BY DEF Package
<1>6. List(named) /\ ToSet(named) = {items[i] : i \in P}
  <2>1. P \in SUBSET DOMAIN items
    OBVIOUS
  <2> HIDE DEF P, items
  <2> QED BY <1>1, <2>1, SelectIs
<1>7. Commands(items) = IF named = <<>> THEN <<AllTests>> ELSE Dedupe(called)
  BY DEF Commands
<1> HIDE DEF p
<1>8. List(p.files) /\ ToSet(p.files) = {TargetOf(f) : f \in ToSet(items)} /\ p.files # <<>>
  <2> HIDE DEF targets, items
  <2> QED BY <1>3, <1>4, <1>5, DedupeIs
<1>9. List(called) /\ Len(called) = Len(named) /\ ToSet(called) = {Of(f) : f \in ToSet(named)}
  <2> HIDE DEF P
  <2>1. Len(named) \in Nat /\ DOMAIN named = 1..Len(named) /\ ToSet(named) = {named[i] : i \in 1..Len(named)}
    BY <1>6, ListHas
  <2> HIDE DEF named
  <2>2. List(called) /\ Len(called) = Len(named)
    <3> HIDE DEF Of
    <3> QED BY <2>1, ListIs
  <2>3. \A i \in 1..Len(named) : called[i] = Of(named[i])
    BY <2>1
  <2>4. ToSet(called) = {called[i] : i \in 1..Len(named)}
    <3> HIDE DEF called
    <3> QED BY <2>2, ListHas
  <2> HIDE DEF called, Of
  <2> QED BY <2>1, <2>2, <2>3, <2>4
<1>10. List(p.commands) /\ p.commands # <<>>
  <2>1. CASE named = <<>>
    <3>1. p.commands = <<AllTests>>
      BY <1>5, <1>7, <2>1
    <3>2. <<AllTests>> = [i \in 1..1 |-> <<AllTests>>[i]] /\ DOMAIN <<AllTests>> = 1..1 /\ <<AllTests>> # <<>>
      OBVIOUS
    <3> QED BY <3>1, <3>2, ListIs
  <2>2. CASE named # <<>>
    <3> HIDE DEF called, named
    <3>1. p.commands = Dedupe(called)
      BY <1>5, <1>7, <2>2
    <3>2. called # <<>>
      BY <1>6, <1>9, <2>2, ListHas
    <3> QED BY <1>9, <3>1, <3>2, DedupeIs
  <2> QED BY <2>1, <2>2
<1>11. Tested(p)
  <2> SUFFICES ASSUME NEW f \in ToSet(p.files), f.kind \in {"tests", "cli"} PROVE f \in ToSet(p.commands)
    BY DEF Tested
  <2>1. PICK i \in DOMAIN items : f = TargetOf(items[i])
    <3> HIDE DEF items
    <3> QED BY <1>2, <1>8
  <2>2. items[i].kind \in {"cli", "tests", "docs"} /\ f = items[i]
    BY <2>1 DEF TargetOf, SourceTree, Gap
  <2>3. i \in P /\ Of(f) = f
    BY <2>2
  <2>4. f \in ToSet(named)
    <3> HIDE DEF P, items, named
    <3> QED BY <1>6, <2>2, <2>3
  <2>5. named # <<>>
    <3> HIDE DEF named
    <3> QED BY <1>6, <2>4, ListHas
  <2>6. f \in ToSet(called)
    <3> HIDE DEF named, called, Of
    <3> QED BY <1>9, <2>3, <2>4
  <2>7. p.commands = Dedupe(called)
    <3> HIDE DEF named, called
    <3> QED BY <1>5, <1>7, <2>5
  <2> HIDE DEF called
  <2> QED BY <1>9, <2>6, <2>7, DedupeIs
<1>12. ASSUME p.compat PROVE ChangeType(TargetOf(items[1])) # "add_test"
  <2> DEFINE f == items[1]
  <2> HIDE DEF f
  <2>1. f.kind = "compat" \/ f.module \in Naming["compat"]
    BY <1>5, <1>12 DEF f
  <2>2. ChangeType(TargetOf(f)) # "add_test"
    BY <2>1 DEF ChangeType, TargetOf, SourceTree, Gap
  <2> QED BY <2>2 DEF f
<1>13. TargetOf(items[1]) \in ToSet(p.files)
  <2> HIDE DEF items
  <2> QED BY <1>2, <1>8
<1>14. PackageOK(p)
  <2> HIDE DEF items
  <2> QED BY <1>8, <1>10, <1>11, <1>12, <1>13 DEF PackageOK
<1>15. p.batch = batch.id /\ ToSet(p.files) = {TargetOf(f) : f \in ToSet(batch.items)}
  BY <1>5, <1>8
<1> QED BY <1>14, <1>15 DEF p

-----------------------------------------------------------------------------
(* Refinement *)

\* The names infer_subsystem and infer_change_type give.
Subsystems == {SubsystemOrder[i] : i \in 1..9}
Changes == {ChangeOrder[i] : i \in 1..6}

\* The names, one by one.
LEMMA NamesAre ==
    /\ Subsystems = {"docs", "mission_engine", "orchastrator", "orchestrator", "routers",
                     "strategic_missions", "system", "tools", "ui"}
    /\ Changes = {"add_cli_test", "add_contract_test", "add_docs", "add_runtime_compat_test",
                  "add_test", "add_update"}
<1>1. 1..9 = {1, 2, 3, 4, 5, 6, 7, 8, 9} /\ 1..6 = {1, 2, 3, 4, 5, 6}
  OBVIOUS
<1> QED BY <1>1 DEF Subsystems, Changes, SubsystemOrder, ChangeOrder

\* The groups of a package are finitely many, and GroupBefore orders them.
GroupBeforeIn(p) == {e \in GroupsOf(p) \X GroupsOf(p) : GroupBefore(e[1], e[2])}

\* The groups of _split_package can be sorted.
LEMMA GroupsAre ==
    ASSUME NEW p, List(p.files)
    PROVE  /\ IsFiniteSet(GroupsOf(p))
           /\ GroupsOf(p) = {GroupOf(f) : f \in ToSet(p.files)}
           /\ Orders(GroupBeforeIn(p), GroupsOf(p))
<1>1. Len(p.files) \in Nat /\ DOMAIN p.files = 1..Len(p.files)
      /\ ToSet(p.files) = {p.files[i] : i \in 1..Len(p.files)}
  BY ListHas
<1>2. IsFiniteSet(GroupsOf(p))
  <2> DEFINE n == Len(p.files)
             f == [i \in 1..n |-> GroupOf(p.files[i])]
  <2>1. GroupsOf(p) = {f[i] : i \in 1..n}
    BY <1>1 DEF GroupsOf
  <2>2. f \in Surjection(1..n, GroupsOf(p))
    <3>1. f = [i \in 1..n |-> f[i]]
      OBVIOUS
    <3> HIDE DEF f, n
    <3> QED BY <2>1, <3>1 DEF Surjection
  <2>3. IsFiniteSet(1..n)
    BY <1>1, FS_Interval
  <2> HIDE DEF f, n
  <2> QED BY <2>2, <2>3, FS_Surjection
<1>3. GroupsOf(p) = {GroupOf(f) : f \in ToSet(p.files)}
  BY <1>1 DEF GroupsOf
<1>4. ASSUME NEW f
      PROVE  Subsystem(f) \in Subsystems /\ ChangeType(f) \in Changes
  BY NamesAre DEF Subsystem, ChangeType
<1> DEFINE s(g) == PosIn(g[1], SubsystemOrder)
           c(g) == PosIn(g[2], ChangeOrder)
<1>5. ASSUME NEW g \in GroupsOf(p)
      PROVE  /\ s(g) \in Int /\ SubsystemOrder[s(g)] = g[1]
             /\ c(g) \in Int /\ ChangeOrder[c(g)] = g[2]
             /\ g = <<g[1], g[2]>>
  <2>1. PICK f : g = <<Subsystem(f), ChangeType(f)>>
    BY DEF GroupsOf, GroupOf
  <2>2. g[1] \in Subsystems /\ g[2] \in Changes /\ g = <<g[1], g[2]>>
    BY <1>4, <2>1
  <2>3. DOMAIN SubsystemOrder = 1..9 /\ DOMAIN ChangeOrder = 1..6
    BY DEF SubsystemOrder, ChangeOrder
  <2>4. s(g) \in 1..9 /\ SubsystemOrder[s(g)] = g[1]
    <3>1. \E i \in DOMAIN SubsystemOrder : SubsystemOrder[i] = g[1]
      BY <2>2, <2>3 DEF Subsystems
    <3> QED BY <2>3, <3>1, PosInIs
  <2>5. c(g) \in 1..6 /\ ChangeOrder[c(g)] = g[2]
    <3>1. \E i \in DOMAIN ChangeOrder : ChangeOrder[i] = g[2]
      BY <2>2, <2>3 DEF Changes
    <3> QED BY <2>3, <3>1, PosInIs
  <2> HIDE DEF s, c
  <2> QED BY <2>2, <2>4, <2>5
<1>6. ASSUME NEW g \in GroupsOf(p), NEW h \in GroupsOf(p)
      PROVE  <<g, h>> \in GroupBeforeIn(p) <=> s(g) < s(h) \/ (s(g) = s(h) /\ c(g) < c(h))
  BY DEF GroupBeforeIn, GroupBefore
<1> HIDE DEF s, c
<1>7. \A x \in GroupsOf(p) : <<x, x>> \notin GroupBeforeIn(p)
  BY <1>5, <1>6
<1>8. ASSUME NEW x \in GroupsOf(p), NEW y \in GroupsOf(p), NEW z \in GroupsOf(p),
             <<x, y>> \in GroupBeforeIn(p), <<y, z>> \in GroupBeforeIn(p)
      PROVE  <<x, z>> \in GroupBeforeIn(p)
  BY <1>5, <1>6, <1>8
<1>9. ASSUME NEW x \in GroupsOf(p), NEW y \in GroupsOf(p), x # y
      PROVE  <<x, y>> \in GroupBeforeIn(p) \/ <<y, x>> \in GroupBeforeIn(p)
  <2>1. s(x) # s(y) \/ c(x) # c(y)
    BY <1>5, <1>9
  <2> QED BY <1>5, <1>6, <2>1
<1>10. Orders(GroupBeforeIn(p), GroupsOf(p))
  BY <1>7, <1>8, <1>9 DEF Orders
<1> QED BY <1>2, <1>3, <1>10

\* A refined package: plain tests are never part of compatibility work.
RefinedOK(q) ==
    /\ List(q.files) /\ q.files # <<>> /\ List(q.commands) /\ q.commands # <<>>
    /\ Tested(q)
    /\ q.change = "add_test" => ~q.compat
    /\ q.risk \in {"low", "medium", "high"}
    /\ q.scope \in {"tiny", "small", "medium", "large"}

\* A test file's command matches the group of the file.
LEMMA OwnCommandMatches ==
    ASSUME NEW f, f.kind \in {"tests", "cli"}
    PROVE  Matches(f, GroupOf(f))
BY WorkAssumption DEF Matches, GroupOf, ChangeType

\* The parts of a package share its batch and divide its files.
DividesOK(qs, p) ==
    /\ List(qs)
    /\ \A i \in 1..Len(qs) : RefinedOK(qs[i]) /\ qs[i].batch = p.batch
    /\ UNION {ToSet(qs[i].files) : i \in 1..Len(qs)} = ToSet(p.files)
    /\ \A i, j \in 1..Len(qs) : i # j => ToSet(qs[i].files) \cap ToSet(qs[j].files) = {}

\* The risk and the scope of a refined package are of their tables.
LEMMA RiskIs ==
    ASSUME NEW files, NEW commands
    PROVE  /\ RiskLevel(files, commands, TRUE) \in {"low", "medium", "high"}
           /\ RiskLevel(files, commands, FALSE) \in {"low", "medium", "high"}
           /\ EstimatedScope(files, commands) \in {"tiny", "small", "medium", "large"}
BY DEF RiskLevel, EstimatedScope

\* _split_package loses no file and puts none into two parts, and sends the
\* command of a test file to the part of that file.
LEMMA SplitDivides ==
    ASSUME NEW p, PackageOK(p)
    PROVE  DividesOK(Split(p), p)
<1> DEFINE q == Sorted(GroupsOf(p), GroupBeforeIn(p))
           At(g) == {i \in DOMAIN p.files : GroupOf(p.files[i]) = g}
           files(g) == Select(p.files, At(g))
           commands(g) == IF CommandsFor(p, g) = <<>> THEN <<AllTests>> ELSE CommandsFor(p, g)
           part(g) == Refined(p, g, files(g), commands(g), TRUE)
           n == Cardinality(GroupsOf(p))
           qs == [i \in 1..n |-> part(q[i])]
<1>1. /\ List(p.files) /\ List(p.commands) /\ Tested(p)
      /\ DOMAIN p.files = 1..Len(p.files) /\ DOMAIN p.commands = 1..Len(p.commands)
      /\ ToSet(p.files) = {p.files[i] : i \in 1..Len(p.files)}
      /\ ToSet(p.commands) = {p.commands[i] : i \in 1..Len(p.commands)}
  BY ListHas DEF PackageOK
<1>2. Lists(q, GroupsOf(p))
  <2>1. IsFiniteSet(GroupsOf(p)) /\ Orders(GroupBeforeIn(p), GroupsOf(p))
    BY <1>1, GroupsAre
  <2> QED BY <2>1, PlacesAre
<1>3. Split(p) = qs
  <2>1. DOMAIN q = 1..n
    BY DEF Sorted
  <2> QED BY <2>1 DEF Split, GroupBeforeIn
<1>4. n \in Nat
  BY <1>2 DEF Lists
<1> HIDE DEF q
<1>5. ASSUME NEW g \in GroupsOf(p)
      PROVE  /\ List(files(g)) /\ files(g) # <<>>
             /\ ToSet(files(g)) = {f \in ToSet(p.files) : GroupOf(f) = g}
  <2>1. At(g) \in SUBSET DOMAIN p.files /\ At(g) # {}
    BY DEF GroupsOf
  <2>2. {p.files[i] : i \in At(g)} = {f \in ToSet(p.files) : GroupOf(f) = g}
    BY <1>1
  <2> HIDE DEF At
  <2> QED BY <1>1, <2>1, <2>2, SelectIs
<1>6. ASSUME NEW g \in GroupsOf(p)
      PROVE  /\ List(commands(g)) /\ commands(g) # <<>>
             /\ \A c \in ToSet(p.commands) : Matches(c, g) => c \in ToSet(commands(g))
  <2> DEFINE C == {i \in DOMAIN p.commands :
                    \/ Matches(p.commands[i], g)
                    \/ \A h \in GroupsOf(p) : ~Matches(p.commands[i], h) /\ ~GroupBefore(h, g)}
  <2>1. CommandsFor(p, g) = Select(p.commands, C)
    BY DEF CommandsFor
  <2>2. \A i \in DOMAIN p.commands : Matches(p.commands[i], g) => i \in C
    OBVIOUS
  <2>3. List(CommandsFor(p, g)) /\ ToSet(CommandsFor(p, g)) = {p.commands[i] : i \in C}
    <3>1. C \in SUBSET DOMAIN p.commands
      OBVIOUS
    <3> HIDE DEF C
    <3> QED BY <1>1, <2>1, <3>1, SelectIs
  <2> HIDE DEF C
  <2>4. \A c \in ToSet(p.commands) : Matches(c, g) => c \in ToSet(CommandsFor(p, g))
    BY <1>1, <2>2, <2>3
  <2>5. CASE CommandsFor(p, g) = <<>>
    <3>1. commands(g) = <<AllTests>> /\ ToSet(CommandsFor(p, g)) = {}
      BY <2>3, <2>5, ListHas
    <3>2. <<AllTests>> = [i \in 1..1 |-> <<AllTests>>[i]] /\ DOMAIN <<AllTests>> = 1..1 /\ <<AllTests>> # <<>>
      OBVIOUS
    <3>3. List(<<AllTests>>)
      BY <3>2, ListIs
    <3> HIDE DEF commands
    <3> QED BY <2>4, <3>1, <3>2, <3>3
  <2>6. CASE CommandsFor(p, g) # <<>>
    BY <2>3, <2>4, <2>6
  <2> QED BY <2>5, <2>6
<1>7. ASSUME NEW g \in GroupsOf(p)
      PROVE  RefinedOK(part(g)) /\ part(g).batch = p.batch /\ part(g).files = files(g)
  <2> HIDE DEF files, commands
  <2>1. /\ part(g).batch = p.batch /\ part(g).files = files(g) /\ part(g).commands = commands(g)
        /\ part(g).change = g[2] /\ part(g).compat = (g[2] = "add_runtime_compat_test")
        /\ part(g).risk \in {"low", "medium", "high"}
        /\ part(g).scope \in {"tiny", "small", "medium", "large"}
    <3>1. RiskLevel(files(g), commands(g), TRUE) \in {"low", "medium", "high"}
          /\ EstimatedScope(files(g), commands(g)) \in {"tiny", "small", "medium", "large"}
      BY RiskIs DEF RiskLevel
    <3>2. part(g) = [batch |-> p.batch, subsystem |-> g[1], change |-> g[2],
                     files |-> files(g), commands |-> commands(g),
                     compat |-> g[2] = "add_runtime_compat_test",
                     risk |-> RiskLevel(files(g), commands(g), TRUE),
                     scope |-> EstimatedScope(files(g), commands(g))]
      BY DEF Refined
    <3> HIDE DEF part
    <3>3. /\ part(g).batch = p.batch /\ part(g).files = files(g) /\ part(g).commands = commands(g)
          /\ part(g).change = g[2]
      BY ONLY <3>2
    <3>4. part(g).compat = (g[2] = "add_runtime_compat_test")
      BY ONLY <3>2
    <3>5. part(g).risk = RiskLevel(files(g), commands(g), TRUE)
      BY ONLY <3>2
    <3>6. part(g).scope = EstimatedScope(files(g), commands(g))
      BY ONLY <3>2
    <3> QED BY ONLY <3>1, <3>3, <3>4, <3>5, <3>6
  <2> HIDE DEF part
  <2>2. Tested(part(g))
    <3> SUFFICES ASSUME NEW f \in ToSet(files(g)), f.kind \in {"tests", "cli"} PROVE f \in ToSet(commands(g))
      BY <2>1 DEF Tested
    <3>1. f \in ToSet(p.files) /\ GroupOf(f) = g
      BY <1>5
    <3>2. f \in ToSet(p.commands)
      BY <1>1, <3>1 DEF Tested
    <3> QED BY <1>6, <3>1, <3>2, OwnCommandMatches
  <2> QED BY <1>5, <1>6, <2>1, <2>2 DEF RefinedOK
<1> HIDE DEF part
<1>8. List(qs) /\ Len(qs) = n
  <2> HIDE DEF n
  <2> QED BY <1>4, ListIs
<1>9. \A i \in 1..n : qs[i] = part(q[i]) /\ q[i] \in GroupsOf(p)
  BY <1>2 DEF Lists
<1> HIDE DEF qs, files
<1>10. \A i \in 1..n : RefinedOK(qs[i]) /\ qs[i].batch = p.batch /\ ToSet(qs[i].files) = {f \in ToSet(p.files) : GroupOf(f) = q[i]}
  BY <1>5, <1>7, <1>9
<1>11. UNION {ToSet(qs[i].files) : i \in 1..n} = ToSet(p.files)
  <2>1. \A f \in ToSet(p.files) : \E i \in 1..n : q[i] = GroupOf(f)
    <3>1. \A f \in ToSet(p.files) : GroupOf(f) \in GroupsOf(p)
      BY <1>1, GroupsAre
    <3> QED BY <1>2, <3>1 DEF Lists
  <2> QED BY <1>10, <2>1
<1>12. \A i, j \in 1..n : i # j => ToSet(qs[i].files) \cap ToSet(qs[j].files) = {}
  <2>1. \A i, j \in 1..n : i # j => q[i] # q[j]
    BY <1>2 DEF Lists
  <2> QED BY <1>10, <2>1
<1>13. DividesOK(qs, p)
  BY <1>8, <1>10, <1>11, <1>12 DEF DividesOK
<1> QED BY <1>3, <1>13

\* A package that is not broad has one group, and so its own first file's.
LEMMA RefineDivides ==
    ASSUME NEW p, PackageOK(p)
    PROVE  DividesOK(Refine(p), p)
<1>1. CASE Broad(p)
  BY <1>1, SplitDivides DEF Refine
<1>2. CASE ~Broad(p)
  <2> DEFINE g == CHOOSE x \in GroupsOf(p) : TRUE
             q == Refined(p, g, p.files, p.commands, FALSE)
  <2>1. Refine(p) = <<q>>
    BY <1>2 DEF Refine
  <2>2. q.batch = p.batch /\ q.files = p.files /\ q.commands = p.commands /\ q.change = g[2]
        /\ q.compat = p.compat /\ q.risk \in {"low", "medium", "high"}
        /\ q.scope \in {"tiny", "small", "medium", "large"}
    <3>1. RiskLevel(p.files, p.commands, FALSE) \in {"low", "medium", "high"}
          /\ EstimatedScope(p.files, p.commands) \in {"tiny", "small", "medium", "large"}
      BY RiskIs DEF RiskLevel
    <3> HIDE DEF g
    <3>2. q = [batch |-> p.batch, subsystem |-> g[1], change |-> g[2],
               files |-> p.files, commands |-> p.commands, compat |-> p.compat,
               risk |-> RiskLevel(p.files, p.commands, FALSE),
               scope |-> EstimatedScope(p.files, p.commands)]
      BY DEF Refined
    <3> HIDE DEF q
    <3> QED BY ONLY <3>1, <3>2
  <2>3. List(p.files) /\ p.files # <<>> /\ IsFiniteSet(GroupsOf(p))
        /\ GroupsOf(p) = {GroupOf(f) : f \in ToSet(p.files)} /\ ToSet(p.files) # {}
    BY GroupsAre, ListHas DEF PackageOK
  <2>4. g \in GroupsOf(p)
    BY <2>3
  <2> HIDE DEF g, q
  <2>5. \A f \in ToSet(p.files) : ChangeType(f) = g[2]
    <3> DEFINE M == {h[2] : h \in GroupsOf(p)}
               f2 == [h \in GroupsOf(p) |-> h[2]]
    <3>1. IsFiniteSet(M)
      <4>1. f2 \in Surjection(GroupsOf(p), M)
        <5>1. f2 \in [GroupsOf(p) -> M] /\ \A m \in M : \E h \in GroupsOf(p) : f2[h] = m
          OBVIOUS
        <5> HIDE DEF f2, M
        <5> QED BY <5>1 DEF Surjection
      <4> HIDE DEF f2, M
      <4> QED BY <2>3, <4>1, FS_Surjection
    <3>2. ~(Cardinality(M) > 1)
      BY <1>2 DEF Broad
    <3>3. M # {}
      BY <2>4
    <3>4. Cardinality(M) \in Nat /\ Cardinality(M) # 0
      <4> HIDE DEF M
      <4> QED BY <3>1, <3>3, FS_CardinalityType, FS_EmptySet
    <3>5. Cardinality(M) = 1
      <4> HIDE DEF M
      <4> QED BY <3>2, <3>4
    <3>6. PICK m : M = {m}
      <4> HIDE DEF M
      <4> QED BY <3>1, <3>5, FS_Singleton
    <3>7. g[2] \in M
      BY <2>4
    <3>8. \A f \in ToSet(p.files) : ChangeType(f) \in M
      <4>1. \A f \in ToSet(p.files) : GroupOf(f) \in GroupsOf(p) /\ GroupOf(f)[2] = ChangeType(f)
        BY <2>3 DEF GroupOf
      <4> QED BY <4>1
    <3> HIDE DEF M
    <3> QED BY <3>6, <3>7, <3>8
  <2>6. RefinedOK(q)
    <3>1. Tested(q)
      BY <2>2 DEF Tested, PackageOK
    <3>2. q.change = "add_test" => ~q.compat
      BY <2>2, <2>5 DEF PackageOK
    <3> QED BY <2>2, <3>1, <3>2 DEF RefinedOK, PackageOK
  <2>7. DividesOK(<<q>>, p)
    <3> DEFINE qs == <<q>>
    <3>1. qs = [i \in 1..1 |-> qs[i]] /\ DOMAIN qs = 1..1 /\ qs[1] = q
      OBVIOUS
    <3> HIDE DEF qs
    <3>2. List(qs) /\ Len(qs) = 1
      BY <3>1, ListIs
    <3>3. \A i \in 1..Len(qs) : i = 1
      BY <3>2
    <3>4. \A i \in 1..Len(qs) : RefinedOK(qs[i]) /\ qs[i].batch = p.batch
      BY <2>2, <2>6, <3>1, <3>3
    <3>5. UNION {ToSet(qs[i].files) : i \in 1..Len(qs)} = ToSet(p.files)
      <4>1. 1 \in 1..Len(qs)
        BY <3>2
      <4> QED BY <2>2, <3>1, <3>3, <4>1
    <3>6. DividesOK(qs, p)
      BY <3>2, <3>3, <3>4, <3>5 DEF DividesOK
    <3> QED BY <3>6 DEF qs
  <2> QED BY <2>1, <2>7
<1> QED BY <1>1, <1>2

-----------------------------------------------------------------------------
(* The topological order *)

\* Plain tests wait for nothing, contract tests for updates, all others for
\* plain tests.
Rank(change) == IF change = "add_test" THEN 0 ELSE IF change = "add_contract_test" THEN 2 ELSE 1

RankAt(ps, i) == Rank(ps[i].package.change)

\* A list of tagged packages that the queue is planned from.
TaggedOK(ps) == List(ps) /\ \A i \in 1..Len(ps) : RefinedOK(ps[i].package)

\* No package waits, over others, for itself.
LEMMA NeedsDown ==
    ASSUME NEW ps, TaggedOK(ps), NEW i \in 1..Len(ps), NEW j \in 1..Len(ps), Needs(ps, i, j)
    PROVE  RankAt(ps, j) < RankAt(ps, i) /\ RankAt(ps, i) \in 0..2 /\ RankAt(ps, j) \in 0..2
<1> DEFINE p == ps[i].package
           c == p.change
           d == ps[j].package.change
<1>1. c = "add_test" => ~p.compat
  BY DEF TaggedOK, RefinedOK
<1>2. d \in WaitsFor(p)
  BY DEF Needs
<1> HIDE DEF d
<1>3. CASE c = "add_test"
  BY <1>1, <1>2, <1>3 DEF WaitsFor
<1>4. CASE c = "add_contract_test"
  BY <1>2, <1>4 DEF WaitsFor, Rank, RankAt, d
<1>5. CASE c # "add_test" /\ c # "add_contract_test"
  BY <1>2, <1>5 DEF WaitsFor, Rank, RankAt, d
<1> QED BY <1>3, <1>4, <1>5

\* infer_dependencies lists the packages that are needed, never the package
\* itself.
LEMMA DependsIs ==
    ASSUME NEW ps, List(ps), NEW i \in 1..Len(ps)
    PROVE  LET ds == DependsOn(ps, i)
           IN  /\ ds \in Seq(1..Len(ps)) /\ Len(ds) <= Len(ps) - 1
               /\ ToSet(ds) = {j \in 1..Len(ps) : Needs(ps, i, j)}
<1> DEFINE n == Len(ps)
           all == [j \in DOMAIN ps |-> j]
           P(change) == {j \in DOMAIN ps : Needs(ps, i, j) /\ ps[j].package.change = change}
           U == P("add_update")
           T == P("add_test")
           us == Select(all, U)
           ts == Select(all, T)
           ds == DependsOn(ps, i)
<1>1. n \in Nat /\ DOMAIN ps = 1..n
  BY ListHas
<1>2. DOMAIN all = 1..n /\ all = [j \in 1..n |-> all[j]] /\ \A j \in 1..n : all[j] = j
  BY <1>1
<1>3. ds = us \o ts
  BY DEF DependsOn
<1>4. U \in SUBSET 1..n /\ T \in SUBSET 1..n /\ i \notin U \cup T /\ U \cap T = {}
  BY <1>1 DEF Needs
<1>5. U \cup T = {j \in 1..Len(ps) : Needs(ps, i, j)}
  BY <1>1 DEF Needs, WaitsFor
<1> HIDE DEF all, U, T, us, ts, ds
<1>6. List(all)
  <2> HIDE DEF n
  <2> QED BY <1>1, <1>2, ListIs
<1>7. List(us) /\ ToSet(us) = U /\ Len(us) = Cardinality(U)
  <2>1. List(us) /\ ToSet(us) = {all[j] : j \in U} /\ Len(us) = Cardinality(U)
    BY <1>2, <1>4, <1>6, SelectIs DEF us
  <2> QED BY <1>2, <1>4, <2>1
<1>8. List(ts) /\ ToSet(ts) = T /\ Len(ts) = Cardinality(T)
  <2>1. List(ts) /\ ToSet(ts) = {all[j] : j \in T} /\ Len(ts) = Cardinality(T)
    BY <1>2, <1>4, <1>6, SelectIs DEF ts
  <2> QED BY <1>2, <1>4, <2>1
<1>9. us \in Seq(1..n) /\ ts \in Seq(1..n)
  BY <1>4, <1>7, <1>8, SeqMonotonic DEF List
<1>10. ds \in Seq(1..n) /\ Len(ds) = Len(us) + Len(ts) /\ ToSet(ds) = U \cup T
  <2> HIDE DEF n
  <2>1. /\ ds \in Seq(1..n) /\ Len(ds) = Len(us) + Len(ts)
        /\ \A k \in 1..Len(us) + Len(ts) : ds[k] = IF k <= Len(us) THEN us[k] ELSE ts[k - Len(us)]
    BY <1>3, <1>9, ConcatProperties
  <2>2. /\ Len(us) \in Nat /\ ToSet(us) = {us[k] : k \in 1..Len(us)}
        /\ Len(ts) \in Nat /\ ToSet(ts) = {ts[k] : k \in 1..Len(ts)}
    BY <1>7, <1>8, ListHas
  <2>3. ToSet(ds) = {ds[k] : k \in 1..Len(us) + Len(ts)}
    <3>1. DOMAIN ds = 1..Len(us) + Len(ts)
      BY ONLY <2>1, LenProperties
    <3> QED BY ONLY <3>1 DEF ToSet
  <2>4. \A k \in 1..Len(us) : k \in 1..Len(us) + Len(ts) /\ ds[k] = us[k]
    BY <2>1, <2>2
  <2>5. \A k \in 1..Len(ts) : Len(us) + k \in 1..Len(us) + Len(ts) /\ ds[Len(us) + k] = ts[k]
    BY <2>1, <2>2
  <2>6. \A k \in 1..Len(us) + Len(ts) : ds[k] \in ToSet(us) \cup ToSet(ts)
    BY <2>1, <2>2
  <2>7. ToSet(us) \cup ToSet(ts) \subseteq ToSet(ds)
    BY <2>2, <2>3, <2>4, <2>5
  <2>8. ToSet(ds) = ToSet(us) \cup ToSet(ts)
    BY <2>3, <2>6, <2>7
  <2> QED BY <1>7, <1>8, <2>1, <2>8
<1>11. Cardinality(U) + Cardinality(T) <= n - 1
  <2>1. IsFiniteSet(1..n) /\ Cardinality(1..n) = n
    <3> HIDE DEF n
    <3> QED BY ONLY <1>1, FS_Interval
  <2>2. IsFiniteSet((1..n) \ {i}) /\ Cardinality((1..n) \ {i}) = n - 1
    BY <2>1, FS_RemoveElement
  <2>3. U \cup T \in SUBSET ((1..n) \ {i})
    BY <1>4
  <2>4. Cardinality(U \cup T) <= Cardinality((1..n) \ {i})
    BY ONLY <2>2, <2>3, FS_Subset
  <2>5. IsFiniteSet(U) /\ IsFiniteSet(T)
    BY <1>4, <2>1, FS_Subset
  <2>6. Cardinality(U \cup T) = Cardinality(U) + Cardinality(T) - Cardinality({})
    BY <1>4, <2>5, FS_Union
  <2>7. Cardinality({}) = 0 /\ Cardinality(U) \in Nat /\ Cardinality(T) \in Nat
    BY <2>5, FS_EmptySet, FS_CardinalityType
  <2> QED BY ONLY <1>1, <2>2, <2>4, <2>6, <2>7
<1> QED BY <1>5, <1>7, <1>8, <1>10, <1>11 DEF ds

\* The calls of visit, and the states of the walk.
Calls(n) == [step : {"visit", "append"}, node : 1..n]

Walks(ps) == [calls : Seq(Calls(Len(ps))), seen : SUBSET (1..Len(ps)), order : Seq(1..Len(ps))]

\* Entry a of the stack is the end of an open visit; package i is put down.
IsEnd(w, a) == w.calls[a].step = "append"

IsPut(w, i) == \E k \in 1..Len(w.order) : w.order[k] = i

\* What a package waits for is put before it.
OrderOK(ps, w) ==
    \A k \in 1..Len(w.order) : \A d \in 1..Len(ps) :
        Needs(ps, w.order[k], d) => \E l \in 1..(k - 1) : w.order[l] = d

\* What an open visit waits for is put, or above it on the stack.
EndsOK(ps, w) ==
    \A a \in 1..Len(w.calls) : IsEnd(w, a) =>
        \A d \in 1..Len(ps) : Needs(ps, w.calls[a].node, d) =>
            IsPut(w, d) \/ \E b \in 1..(a - 1) : w.calls[b].node = d

\* What was seen is put or open, and only that.
SeenOK(ps, w) ==
    \A i \in 1..Len(ps) :
        i \in w.seen <=> IsPut(w, i) \/ \E a \in 1..Len(w.calls) : IsEnd(w, a) /\ w.calls[a].node = i

\* Ranks fall from an open visit upwards.
DownOK(ps, w) ==
    \A b \in 1..Len(w.calls) : IsEnd(w, b) =>
        \A a \in 1..(b - 1) : RankAt(ps, w.calls[a].node) < RankAt(ps, w.calls[b].node)

\* No package is forgotten, and none is put twice.
ReachOK(ps, w) ==
    \A i \in 1..Len(ps) : IsPut(w, i) \/ \E a \in 1..Len(w.calls) : w.calls[a].node = i

\* Nothing is put down twice.
OnceOK(w) ==
    /\ \A k, l \in 1..Len(w.order) : k # l => w.order[k] # w.order[l]
    /\ \A a \in 1..Len(w.calls) : IsEnd(w, a) => ~IsPut(w, w.calls[a].node)

\* The invariant of the walk.
WalkOK(ps, w) ==
    /\ w \in Walks(ps) /\ OrderOK(ps, w) /\ EndsOK(ps, w) /\ SeenOK(ps, w) /\ DownOK(ps, w)
    /\ ReachOK(ps, w) /\ OnceOK(w)

RanksAre(ps) == \A i \in 1..Len(ps) : RankAt(ps, i) \in Int

\* The stack without its first entry.
LEMMA TailIs ==
    ASSUME NEW X, NEW c \in Seq(X), c # <<>>
    PROVE  /\ Tail(c) \in Seq(X) /\ Len(Tail(c)) = Len(c) - 1 /\ Len(c) \in Nat /\ 1 \in 1..Len(c)
           /\ Head(c) = c[1] /\ c[1] \in X
           /\ \A a \in 1..Len(Tail(c)) : Tail(c)[a] = c[a + 1] /\ a + 1 \in 1..Len(c)
           /\ \A a \in 1..Len(c) : a # 1 => a - 1 \in 1..Len(Tail(c)) /\ Tail(c)[a - 1] = c[a]
<1>1. Len(c) \in Nat /\ Len(c) # 0 /\ Head(c) = c[1]
  BY EmptySeq, LenProperties
<1>2. Tail(c) \in Seq(X) /\ Len(Tail(c)) = Len(c) - 1 /\ \A a \in 1..Len(Tail(c)) : Tail(c)[a] = c[a + 1]
  BY HeadTailProperties
<1> DEFINE t == Tail(c)
<1> HIDE DEF t
<1>3. \A a \in 1..Len(t) : t[a] = c[a + 1] /\ a + 1 \in 1..Len(c)
  BY <1>1, <1>2 DEF t
<1>4. ASSUME NEW a \in 1..Len(c), a # 1
      PROVE  a - 1 \in 1..Len(t) /\ t[a - 1] = c[a]
  <2>1. a - 1 \in 1..Len(t) /\ (a - 1) + 1 = a
    BY <1>1, <1>2, <1>4 DEF t
  <2> QED BY <1>3, <2>1
<1>5. c[1] \in X /\ 1 \in 1..Len(c)
  BY <1>1, ElementOfSeq
<1> QED BY <1>1, <1>2, <1>3, <1>4, <1>5 DEF t

\* The end of a visit: the package is put.
LEMMA EndStep ==
    ASSUME NEW ps, RanksAre(ps), NEW w, WalkOK(ps, w), w.calls # <<>>, IsEnd(w, 1),
           NEW v, v = [w EXCEPT !.calls = Tail(w.calls), !.order = Append(w.order, w.calls[1].node)]
    PROVE  WalkOK(ps, v)
<1> DEFINE c == w.calls
           o == w.order
           i == c[1].node
           n == Len(ps)
           m == Len(o)
<1>1. c \in Seq(Calls(n)) /\ o \in Seq(1..n) /\ w.seen \in SUBSET (1..n)
  BY DEF WalkOK, Walks
<1>2. /\ Tail(c) \in Seq(Calls(n)) /\ Len(Tail(c)) = Len(c) - 1 /\ Len(c) \in Nat /\ 1 \in 1..Len(c)
      /\ c[1] \in Calls(n)
      /\ \A a \in 1..Len(Tail(c)) : Tail(c)[a] = c[a + 1] /\ a + 1 \in 1..Len(c)
      /\ \A a \in 1..Len(c) : a # 1 => a - 1 \in 1..Len(Tail(c)) /\ Tail(c)[a - 1] = c[a]
  BY <1>1, TailIs
<1>3. i \in 1..n /\ m \in Nat
  BY <1>1, <1>2 DEF Calls
<1>4. v = [calls |-> Tail(c), seen |-> w.seen, order |-> Append(o, i)]
  BY DEF WalkOK, Walks
<1>5. v.calls = Tail(c) /\ v.seen = w.seen /\ v.order = Append(o, i)
  BY <1>4
<1>6. /\ Append(o, i) \in Seq(1..n) /\ Len(Append(o, i)) = m + 1
      /\ \A k \in 1..m : Append(o, i)[k] = o[k]
      /\ Append(o, i)[m + 1] = i
  BY <1>1, <1>3, AppendProperties
<1>7. v \in Walks(ps)
  BY <1>1, <1>2, <1>4, <1>6 DEF Walks
<1>8. \A x : IsPut(v, x) <=> IsPut(w, x) \/ x = i
  <2>1. \A k \in 1..(m + 1) : k \in 1..m \/ k = m + 1
    BY <1>3
  <2>2. 1..m \subseteq 1..(m + 1) /\ m + 1 \in 1..(m + 1)
    BY <1>3
  <2> HIDE DEF i, m, o
  <2> QED BY <1>5, <1>6, <2>1, <2>2 DEF IsPut, o, m
<1>9. \A a \in 1..Len(v.calls) : v.calls[a] = c[a + 1] /\ a + 1 \in 1..Len(c) /\ (IsEnd(v, a) <=> IsEnd(w, a + 1))
  BY <1>2, <1>5 DEF IsEnd
<1>10. \A a \in 1..Len(c) : a # 1 => a - 1 \in 1..Len(v.calls) /\ v.calls[a - 1] = c[a] /\ (IsEnd(v, a - 1) <=> IsEnd(w, a))
  BY <1>2, <1>5 DEF IsEnd
<1>11. OrderOK(ps, v)
  <2> SUFFICES ASSUME NEW k \in 1..(m + 1), NEW d \in 1..n, Needs(ps, v.order[k], d)
               PROVE  \E l \in 1..(k - 1) : v.order[l] = d
    BY <1>5, <1>6 DEF OrderOK
  <2>1. CASE k = m + 1
    <3>1. Needs(ps, c[1].node, d)
      BY <1>5, <1>6, <2>1
    <3>2. IsPut(w, d) \/ \E b \in 1..(1 - 1) : c[b].node = d
      BY <1>2, <3>1 DEF WalkOK, EndsOK
    <3>3. PICK l \in 1..m : o[l] = d
      BY <3>2 DEF IsPut
    <3>4. l \in 1..(k - 1) /\ v.order[l] = d
      BY <1>3, <1>5, <1>6, <2>1, <3>3
    <3> QED BY <3>4
  <2>2. CASE k # m + 1
    <3>1. k \in 1..m
      BY <1>3, <2>2
    <3>2. v.order[k] = o[k]
      BY <1>5, <1>6, <3>1
    <3>3. PICK l \in 1..(k - 1) : o[l] = d
      BY <3>1, <3>2 DEF WalkOK, OrderOK
    <3>4. l \in 1..m
      BY <1>3, <3>1, <3>3
    <3>5. v.order[l] = d
      BY <1>5, <1>6, <3>3, <3>4
    <3> QED BY <3>5
  <2> QED BY <2>1, <2>2
<1>12. EndsOK(ps, v)
  <2> SUFFICES ASSUME NEW a \in 1..Len(v.calls), IsEnd(v, a), NEW d \in 1..n, Needs(ps, v.calls[a].node, d)
               PROVE  IsPut(v, d) \/ \E b \in 1..(a - 1) : v.calls[b].node = d
    BY DEF EndsOK
  <2>1. IsPut(w, d) \/ \E b \in 1..((a + 1) - 1) : c[b].node = d
    BY <1>9 DEF WalkOK, EndsOK
  <2>2. CASE IsPut(w, d)
    BY <1>8, <2>2
  <2>3. ASSUME NEW b \in 1..((a + 1) - 1), c[b].node = d
        PROVE  IsPut(v, d) \/ \E e \in 1..(a - 1) : v.calls[e].node = d
    <3>1. CASE b = 1
      BY <1>8, <2>3, <3>1
    <3>2. CASE b # 1
      <4>1. b \in 1..Len(c) /\ b - 1 \in 1..(a - 1)
        <5>1. a \in Int /\ a + 1 \in 1..Len(c)
          BY <1>9
        <5> QED BY ONLY <1>2, <3>2, <5>1, b \in 1..((a + 1) - 1)
      <4>2. v.calls[b - 1].node = d
        BY <1>10, <2>3, <3>2, <4>1
      <4> QED BY <4>1, <4>2
    <3> QED BY <3>1, <3>2
  <2> QED BY <2>1, <2>2, <2>3
<1>13. \A x \in 1..n : (\E a \in 1..Len(c) : IsEnd(w, a) /\ c[a].node = x)
                         <=> x = i \/ \E a \in 1..Len(v.calls) : IsEnd(v, a) /\ v.calls[a].node = x
  BY <1>2, <1>9, <1>10
<1>14. SeenOK(ps, v)
  BY <1>5, <1>8, <1>13 DEF WalkOK, SeenOK
<1>15. DownOK(ps, v)
  <2> SUFFICES ASSUME NEW b \in 1..Len(v.calls), IsEnd(v, b), NEW a \in 1..(b - 1)
               PROVE  RankAt(ps, v.calls[a].node) < RankAt(ps, v.calls[b].node)
    BY DEF DownOK
  <2>1. a \in 1..Len(v.calls) /\ a + 1 \in 1..((b + 1) - 1)
    <3>1. Len(v.calls) \in Nat
      BY <1>2, <1>5
    <3> QED BY ONLY <3>1, b \in 1..Len(v.calls), a \in 1..(b - 1)
  <2>2. RankAt(ps, c[a + 1].node) < RankAt(ps, c[b + 1].node)
    BY <1>9, <2>1 DEF WalkOK, DownOK
  <2> QED BY <1>9, <2>1, <2>2
<1>16. ReachOK(ps, v)
  <2> SUFFICES ASSUME NEW x \in 1..n PROVE IsPut(v, x) \/ \E a \in 1..Len(v.calls) : v.calls[a].node = x
    BY DEF ReachOK
  <2>1. IsPut(w, x) \/ \E a \in 1..Len(c) : c[a].node = x
    BY DEF WalkOK, ReachOK
  <2>2. ASSUME NEW a \in 1..Len(c), c[a].node = x
        PROVE  IsPut(v, x) \/ \E b \in 1..Len(v.calls) : v.calls[b].node = x
    BY <1>8, <1>10, <2>2
  <2> QED BY <1>8, <2>1, <2>2
<1>17. ~IsPut(w, i)
  BY <1>2 DEF WalkOK, OnceOK
<1>18. OnceOK(v)
  <2>1. ASSUME NEW k \in 1..Len(v.order), NEW l \in 1..Len(v.order), k # l
        PROVE  v.order[k] # v.order[l]
    <3>1. k \in 1..(m + 1) /\ l \in 1..(m + 1)
      BY <1>5, <1>6
    <3>2. CASE k \in 1..m /\ l \in 1..m
      <4>1. o[k] # o[l]
        BY <2>1, <3>2 DEF WalkOK, OnceOK
      <4> QED BY <1>5, <1>6, <3>2, <4>1
    <3>3. ASSUME NEW x \in 1..m PROVE o[x] # i
      BY <1>17 DEF IsPut
    <3>4. CASE k = m + 1
      <4>1. l \in 1..m
        BY <1>3, <2>1, <3>1, <3>4
      <4> QED BY <1>5, <1>6, <3>3, <3>4, <4>1
    <3>5. CASE l = m + 1
      <4>1. k \in 1..m
        BY <1>3, <2>1, <3>1, <3>5
      <4> QED BY <1>5, <1>6, <3>3, <3>5, <4>1
    <3>6. (k \in 1..m /\ l \in 1..m) \/ k = m + 1 \/ l = m + 1
      BY <1>3, <3>1
    <3> QED BY <3>2, <3>4, <3>5, <3>6
  <2>2. ASSUME NEW a \in 1..Len(v.calls), IsEnd(v, a)
        PROVE  ~IsPut(v, v.calls[a].node)
    <3>1. a + 1 \in 1..Len(c) /\ IsEnd(w, a + 1) /\ v.calls[a] = c[a + 1] /\ 1 \in 1..((a + 1) - 1)
      BY <1>9, <2>2
    <3>2. ~IsPut(w, c[a + 1].node)
      BY <3>1 DEF WalkOK, OnceOK
    <3>3. RankAt(ps, c[1].node) < RankAt(ps, c[a + 1].node)
      BY <3>1 DEF WalkOK, DownOK
    <3>4. RankAt(ps, i) \in Int
      BY <1>3 DEF RanksAre
    <3>5. c[a + 1].node # i
      BY <3>3, <3>4
    <3> QED BY <1>8, <3>1, <3>2, <3>5
  <2> QED BY <2>1, <2>2 DEF OnceOK
<1> QED BY <1>7, <1>11, <1>12, <1>14, <1>15, <1>16, <1>18 DEF WalkOK

\* A visit of a package that was seen before: it is put already.
LEMMA SeenStep ==
    ASSUME NEW ps, RanksAre(ps), NEW w, WalkOK(ps, w), w.calls # <<>>, ~IsEnd(w, 1),
           w.calls[1].node \in w.seen,
           NEW v, v = [w EXCEPT !.calls = Tail(w.calls)]
    PROVE  WalkOK(ps, v)
<1> DEFINE c == w.calls
           i == c[1].node
           n == Len(ps)
<1>1. c \in Seq(Calls(n)) /\ w.order \in Seq(1..n) /\ w.seen \in SUBSET (1..n)
  BY DEF WalkOK, Walks
<1>2. /\ Tail(c) \in Seq(Calls(n)) /\ Len(Tail(c)) = Len(c) - 1 /\ Len(c) \in Nat /\ 1 \in 1..Len(c)
      /\ c[1] \in Calls(n)
      /\ \A a \in 1..Len(Tail(c)) : Tail(c)[a] = c[a + 1] /\ a + 1 \in 1..Len(c)
      /\ \A a \in 1..Len(c) : a # 1 => a - 1 \in 1..Len(Tail(c)) /\ Tail(c)[a - 1] = c[a]
  BY <1>1, TailIs
<1>3. i \in 1..n
  BY <1>2 DEF Calls
<1>4. v = [calls |-> Tail(c), seen |-> w.seen, order |-> w.order]
  BY DEF WalkOK, Walks
<1>5. v.calls = Tail(c) /\ v.seen = w.seen /\ v.order = w.order
  BY <1>4
<1>6. v \in Walks(ps)
  BY <1>1, <1>2, <1>4 DEF Walks
<1>7. \A x : IsPut(v, x) <=> IsPut(w, x)
  BY <1>5 DEF IsPut
<1>8. \A a \in 1..Len(v.calls) : v.calls[a] = c[a + 1] /\ a + 1 \in 1..Len(c) /\ (IsEnd(v, a) <=> IsEnd(w, a + 1))
  BY <1>2, <1>5 DEF IsEnd
<1>9. \A a \in 1..Len(c) : a # 1 => a - 1 \in 1..Len(v.calls) /\ v.calls[a - 1] = c[a] /\ (IsEnd(v, a - 1) <=> IsEnd(w, a))
  BY <1>2, <1>5 DEF IsEnd
<1>18. Len(c) \in Nat /\ Len(v.calls) = Len(c) - 1
  BY <1>2, <1>5
<1>10. IsPut(w, i)
  <2>1. ASSUME NEW a \in 1..Len(c), IsEnd(w, a), c[a].node = i
        PROVE  FALSE
    <3>1. a # 1 /\ 1 \in 1..(a - 1)
      BY <1>2, <2>1
    <3>2. RankAt(ps, i) < RankAt(ps, i)
      BY <2>1, <3>1 DEF WalkOK, DownOK
    <3>3. RankAt(ps, i) \in Int
      BY <1>3 DEF RanksAre
    <3> QED BY <3>2, <3>3
  <2> QED BY <1>3, <2>1 DEF WalkOK, SeenOK
<1>11. OrderOK(ps, v)
  BY <1>5 DEF WalkOK, OrderOK
<1>12. EndsOK(ps, v)
  <2> SUFFICES ASSUME NEW a \in 1..Len(v.calls), IsEnd(v, a), NEW d \in 1..n, Needs(ps, v.calls[a].node, d)
               PROVE  IsPut(v, d) \/ \E b \in 1..(a - 1) : v.calls[b].node = d
    BY DEF EndsOK
  <2>1. IsPut(w, d) \/ \E b \in 1..((a + 1) - 1) : c[b].node = d
    BY <1>8 DEF WalkOK, EndsOK
  <2>2. ASSUME NEW b \in 1..((a + 1) - 1), c[b].node = d
        PROVE  IsPut(v, d) \/ \E e \in 1..(a - 1) : v.calls[e].node = d
    <3>1. CASE b = 1
      BY <1>7, <1>10, <2>2, <3>1
    <3>2. CASE b # 1
      <4>1. b \in 1..Len(c) /\ b - 1 \in 1..(a - 1)
        BY ONLY <1>18, <2>2, <3>2, a \in 1..Len(v.calls)
      <4>2. v.calls[b - 1].node = d
        BY <1>9, <2>2, <3>2, <4>1
      <4> QED BY <4>1, <4>2
    <3> QED BY <3>1, <3>2
  <2> QED BY <1>7, <2>1, <2>2
<1>13. \A x \in 1..n : (\E a \in 1..Len(c) : IsEnd(w, a) /\ c[a].node = x)
                         <=> \E a \in 1..Len(v.calls) : IsEnd(v, a) /\ v.calls[a].node = x
  <2> SUFFICES ASSUME NEW x \in 1..n
               PROVE  (\E a \in 1..Len(c) : IsEnd(w, a) /\ c[a].node = x)
                         <=> \E a \in 1..Len(v.calls) : IsEnd(v, a) /\ v.calls[a].node = x
    OBVIOUS
  <2>1. ASSUME NEW a \in 1..Len(c), IsEnd(w, a), c[a].node = x
        PROVE  \E b \in 1..Len(v.calls) : IsEnd(v, b) /\ v.calls[b].node = x
    <3>1. a # 1
      BY <2>1
    <3> QED BY <1>9, <2>1, <3>1
  <2>2. ASSUME NEW a \in 1..Len(v.calls), IsEnd(v, a), v.calls[a].node = x
        PROVE  \E b \in 1..Len(c) : IsEnd(w, b) /\ c[b].node = x
    BY <1>8, <2>2
  <2> QED BY <2>1, <2>2
<1>14. SeenOK(ps, v)
  BY <1>5, <1>7, <1>13 DEF WalkOK, SeenOK
<1>15. DownOK(ps, v)
  <2> SUFFICES ASSUME NEW b \in 1..Len(v.calls), IsEnd(v, b), NEW a \in 1..(b - 1)
               PROVE  RankAt(ps, v.calls[a].node) < RankAt(ps, v.calls[b].node)
    BY DEF DownOK
  <2>1. a \in 1..Len(v.calls) /\ a + 1 \in 1..((b + 1) - 1)
    BY ONLY <1>18, b \in 1..Len(v.calls), a \in 1..(b - 1)
  <2>2. RankAt(ps, c[a + 1].node) < RankAt(ps, c[b + 1].node)
    BY <1>8, <2>1 DEF WalkOK, DownOK
  <2> QED BY <1>8, <2>1, <2>2
<1>16. ReachOK(ps, v)
  <2> SUFFICES ASSUME NEW x \in 1..n PROVE IsPut(v, x) \/ \E a \in 1..Len(v.calls) : v.calls[a].node = x
    BY DEF ReachOK
  <2>1. IsPut(w, x) \/ \E a \in 1..Len(c) : c[a].node = x
    BY DEF WalkOK, ReachOK
  <2>2. ASSUME NEW a \in 1..Len(c), c[a].node = x
        PROVE  IsPut(v, x) \/ \E b \in 1..Len(v.calls) : v.calls[b].node = x
    BY <1>7, <1>9, <1>10, <2>2
  <2> QED BY <1>7, <2>1, <2>2
<1>17. OnceOK(v)
  <2>1. ASSUME NEW a \in 1..Len(v.calls), IsEnd(v, a)
        PROVE  ~IsPut(v, v.calls[a].node)
    BY <1>7, <1>8, <2>1 DEF WalkOK, OnceOK
  <2>2. \A k, l \in 1..Len(v.order) : k # l => v.order[k] # v.order[l]
    <3>1. \A k, l \in 1..Len(w.order) : k # l => w.order[k] # w.order[l]
      BY DEF WalkOK, OnceOK
    <3> QED BY ONLY <1>5, <3>1
  <2> QED BY ONLY <2>1, <2>2 DEF OnceOK
<1> QED BY <1>6, <1>11, <1>12, <1>14, <1>15, <1>16, <1>17 DEF WalkOK

\* The stack of a visit: the visits of what the package waits for, its end, and
\* the rest of the stack.
Pushed(ds, i, c) == ([k \in DOMAIN ds |-> VisitOf(ds[k])] \o <<EndOf(i)>>) \o Tail(c)

\* s is that stack, entry by entry.
PushedOK(ds, i, c, s, n) ==
    /\ s \in Seq(Calls(n)) /\ Len(s) = Len(c) + Len(ds) /\ Len(ds) \in Nat
    /\ \A a \in 1..Len(ds) : s[a] = VisitOf(ds[a])
    /\ s[Len(ds) + 1] = EndOf(i)
    /\ \A a \in 2..Len(c) : s[a + Len(ds)] = c[a]

\* The stack grows by the visits it pushes.
LEMMA PushIs ==
    ASSUME NEW n \in Nat, NEW i \in 1..n, NEW ds \in Seq(1..n), NEW c \in Seq(Calls(n)), c # <<>>,
           NEW s, s = Pushed(ds, i, c)
    PROVE  PushedOK(ds, i, c, s, n)
<1> DEFINE m == Len(ds)
           x == [k \in DOMAIN ds |-> VisitOf(ds[k])]
           e == <<EndOf(i)>>
           t == Tail(c)
           y == x \o e
<1>1. m \in Nat /\ DOMAIN ds = 1..m /\ \A k \in 1..m : ds[k] \in 1..n
  BY LenProperties, ElementOfSeq
<1>2. x \in Seq(Calls(n)) /\ Len(x) = m /\ \A k \in 1..m : x[k] = VisitOf(ds[k])
  <2>1. \A k \in 1..m : VisitOf(ds[k]) \in Calls(n)
    BY <1>1 DEF VisitOf, Calls
  <2>2. x = [k \in 1..m |-> VisitOf(ds[k])]
    BY <1>1
  <2>3. x \in [1..m -> Calls(n)]
    BY <2>1, <2>2
  <2>4. \A k \in 1..m : x[k] = VisitOf(ds[k])
    BY <2>2
  <2> HIDE DEF x, m
  <2>5. x \in Seq(Calls(n))
    BY <1>1, <2>3
  <2>6. Len(x) = m
    <3>1. DOMAIN x = 1..m
      BY <2>3
    <3> QED BY <1>1, <2>5, <3>1, LenProperties
  <2> QED BY <2>4, <2>5, <2>6
<1>3. e \in Seq(Calls(n)) /\ Len(e) = 1 /\ e[1] = EndOf(i)
  <2>1. EndOf(i) \in Calls(n)
    BY DEF EndOf, Calls
  <2> QED BY <2>1
<1>4. t \in Seq(Calls(n)) /\ Len(t) = Len(c) - 1 /\ Len(c) \in Nat
      /\ \A a \in 1..Len(t) : t[a] = c[a + 1]
  BY TailIs
<1> HIDE DEF x, e, t, m
<1>5. y \in Seq(Calls(n)) /\ Len(y) = m + 1 /\ (\A a \in 1..m : y[a] = x[a]) /\ y[m + 1] = e[1]
  <2>0. y \in Seq(Calls(n)) /\ Len(y) = Len(x) + Len(e)
        /\ \A a \in 1..(Len(x) + Len(e)) : y[a] = IF a <= Len(x) THEN x[a] ELSE e[a - Len(x)]
    BY ONLY <1>2, <1>3, ConcatProperties
  <2> HIDE DEF y
  <2>1. y \in Seq(Calls(n)) /\ Len(y) = m + 1 /\ \A a \in 1..(m + 1) : y[a] = IF a <= m THEN x[a] ELSE e[a - m]
    BY ONLY <1>2, <1>3, <2>0
  <2>2. \A a \in 1..m : a \in 1..(m + 1) /\ a <= m
    BY <1>1
  <2>3. m + 1 \in 1..(m + 1) /\ ~(m + 1 <= m) /\ (m + 1) - m = 1
    BY <1>1
  <2> HIDE DEF y
  <2> QED BY <2>1, <2>2, <2>3
<1>6. s = y \o t
  BY DEF x, e, t, Pushed
<1> HIDE DEF y
<1>7. s \in Seq(Calls(n)) /\ Len(s) = (m + 1) + (Len(c) - 1)
      /\ \A a \in 1..Len(s) : s[a] = IF a <= m + 1 THEN y[a] ELSE t[a - (m + 1)]
  <2>1. s \in Seq(Calls(n)) /\ Len(s) = Len(y) + Len(t)
        /\ \A a \in 1..(Len(y) + Len(t)) : s[a] = IF a <= Len(y) THEN y[a] ELSE t[a - Len(y)]
    BY ONLY <1>4, <1>5, <1>6, ConcatProperties
  <2> QED BY ONLY <1>4, <1>5, <2>1
<1>8. Len(c) # 0
  BY EmptySeq, LenProperties
<1>9. Len(s) = Len(c) + m
  BY ONLY <1>1, <1>4, <1>7
<1>10. ASSUME NEW a \in 1..m PROVE s[a] = VisitOf(ds[a])
  <2>1. a \in 1..Len(s) /\ a <= m + 1
    BY ONLY <1>1, <1>4, <1>8, <1>9
  <2> QED BY <1>2, <1>5, <1>7, <2>1
<1>11. s[m + 1] = EndOf(i)
  <2>1. m + 1 \in 1..Len(s) /\ m + 1 <= m + 1
    BY ONLY <1>1, <1>4, <1>8, <1>9
  <2> QED BY <1>3, <1>5, <1>7, <2>1
<1>12. ASSUME NEW a \in 2..Len(c) PROVE s[a + m] = c[a]
  <2>1. a + m \in 1..Len(s) /\ ~(a + m <= m + 1) /\ (a + m) - (m + 1) = a - 1 /\ a - 1 \in 1..Len(t) /\ (a - 1) + 1 = a
    BY ONLY <1>1, <1>4, <1>8, <1>9
  <2>2. s[a + m] = t[a - 1]
    BY ONLY <1>7, <2>1
  <2>3. t[a - 1] = c[(a - 1) + 1]
    BY ONLY <1>4, <2>1
  <2> QED BY ONLY <2>1, <2>2, <2>3
<1> QED BY ONLY <1>1, <1>7, <1>9, <1>10, <1>11, <1>12 DEF m, PushedOK

\* A first visit: what the package waits for is visited before the package ends.
LEMMA PushStep ==
    ASSUME NEW ps, TaggedOK(ps), RanksAre(ps), NEW w, WalkOK(ps, w), w.calls # <<>>, ~IsEnd(w, 1),
           w.calls[1].node \notin w.seen,
           NEW ds, ds = DependsOn(ps, w.calls[1].node),
           NEW v, v = [w EXCEPT
               !.calls = Pushed(ds, w.calls[1].node, w.calls),
               !.seen = w.seen \cup {w.calls[1].node}]
    PROVE  WalkOK(ps, v)
<1> DEFINE c == w.calls
           i == c[1].node
           n == Len(ps)
           m == Len(ds)
           s == Pushed(ds, i, c)
<1>1. c \in Seq(Calls(n)) /\ w.order \in Seq(1..n) /\ w.seen \in SUBSET (1..n)
  BY DEF WalkOK, Walks
<1>2. Len(c) \in Nat /\ 1 \in 1..Len(c) /\ i \in 1..n /\ n \in Nat
  <2>1. Len(c) \in Nat /\ 1 \in 1..Len(c) /\ c[1] \in Calls(n)
    BY <1>1, TailIs
  <2> QED BY <2>1, ListHas DEF Calls, TaggedOK
<1>3. ds \in Seq(1..n) /\ ToSet(ds) = {j \in 1..n : Needs(ps, i, j)}
  BY <1>2, DependsIs DEF TaggedOK
<1>4. /\ s \in Seq(Calls(n)) /\ Len(s) = Len(c) + m /\ m \in Nat
      /\ \A a \in 1..m : s[a] = VisitOf(ds[a])
      /\ s[m + 1] = EndOf(i)
      /\ \A a \in 2..Len(c) : s[a + m] = c[a]
  <2>1. s = Pushed(ds, i, c) /\ c # <<>>
    OBVIOUS
  <2> HIDE DEF s, i, c, n
  <2>2. PushedOK(ds, i, c, s, n)
    BY ONLY <1>1, <1>2, <1>3, <2>1, PushIs
  <2> QED BY ONLY <2>2 DEF PushedOK
<1>5. v.calls = s /\ v.seen = w.seen \cup {i} /\ v.order = w.order
      /\ v = [calls |-> s, seen |-> w.seen \cup {i}, order |-> w.order]
  <2>1. v = [calls |-> s, seen |-> w.seen \cup {i}, order |-> w.order]
    BY DEF WalkOK, Walks
  <2> HIDE DEF s, i
  <2> QED BY ONLY <2>1
<1> HIDE DEF s
<1>6. v \in Walks(ps)
  BY <1>1, <1>2, <1>4, <1>5 DEF Walks
<1>7. \A x : IsPut(v, x) <=> IsPut(w, x)
  BY <1>5 DEF IsPut
<1>8. ASSUME NEW a \in 1..m
      PROVE  /\ ~IsEnd(v, a) /\ v.calls[a].node = ds[a]
             /\ ds[a] \in 1..n /\ Needs(ps, i, ds[a]) /\ RankAt(ps, ds[a]) < RankAt(ps, i)
  <2>1. v.calls[a] = VisitOf(ds[a])
    BY <1>4, <1>5
  <2>2. ~IsEnd(v, a) /\ v.calls[a].node = ds[a]
    BY ONLY <2>1 DEF IsEnd, VisitOf
  <2>3. ds[a] \in ToSet(ds)
    BY <1>3, <1>4, LenProperties DEF ToSet
  <2>4. ds[a] \in 1..n /\ Needs(ps, i, ds[a])
    BY <1>3, <2>3
  <2> QED BY <1>2, <2>2, <2>4, NeedsDown
<1>9. IsEnd(v, m + 1) /\ v.calls[m + 1].node = i /\ m + 1 \in 1..Len(s)
  <2>1. v.calls[m + 1] = EndOf(i)
    BY <1>4, <1>5
  <2>2. m + 1 \in 1..Len(s)
    BY ONLY <1>2, <1>4
  <2>3. IsEnd(v, m + 1) /\ v.calls[m + 1].node = i
    <3> HIDE DEF i
    <3> QED BY ONLY <2>1 DEF IsEnd, EndOf
  <2> QED BY ONLY <2>2, <2>3
<1>10. ASSUME NEW a \in 2..Len(c)
       PROVE  v.calls[a + m] = c[a] /\ (IsEnd(v, a + m) <=> IsEnd(w, a)) /\ a + m \in 1..Len(s)
  <2>1. v.calls[a + m] = c[a]
    BY <1>4, <1>5
  <2>2. a + m \in 1..Len(s)
    BY ONLY <1>2, <1>4, a \in 2..Len(c)
  <2> QED BY <2>1, <2>2 DEF IsEnd
<1>11. \A a \in 1..Len(s) : a \in 1..m \/ a = m + 1 \/ (a - m \in 2..Len(c) /\ a = (a - m) + m)
  BY ONLY <1>2, <1>4
<1>12. \A a \in 1..Len(c) : a = 1 \/ a \in 2..Len(c)
  BY ONLY <1>2
<1>20. \A e \in 2..Len(c) : e \in 1..Len(c) /\ 1 \in 1..(e - 1)
  BY ONLY <1>2
<1>13. ~IsPut(w, i)
  BY <1>2 DEF WalkOK, SeenOK
<1>14. OrderOK(ps, v)
  <2>1. OrderOK(ps, w)
    BY DEF WalkOK
  <2> QED BY ONLY <1>5, <2>1 DEF OrderOK
<1>15. EndsOK(ps, v)
  <2> SUFFICES ASSUME NEW a \in 1..Len(s), IsEnd(v, a), NEW d \in 1..n, Needs(ps, v.calls[a].node, d)
               PROVE  IsPut(v, d) \/ \E b \in 1..(a - 1) : v.calls[b].node = d
    BY <1>5 DEF EndsOK
  <2>1. CASE a = m + 1
    <3>1. d \in ToSet(ds)
      BY <1>3, <1>9, <2>1
    <3>2. PICK b \in 1..m : ds[b] = d
      BY <1>3, <1>4, <3>1, LenProperties DEF ToSet
    <3>3. b \in 1..(a - 1)
      BY ONLY <1>4, <2>1, b \in 1..m
    <3> QED BY <1>8, <3>2, <3>3
  <2>2. CASE a - m \in 2..Len(c) /\ a = (a - m) + m
    <3> DEFINE e == a - m
    <3>1. e \in 2..Len(c) /\ a = e + m
      BY <2>2
    <3> HIDE DEF e
    <3>2. e \in 1..Len(c) /\ IsEnd(w, e) /\ v.calls[a] = c[e]
      BY ONLY <1>10, <1>20, <3>1, IsEnd(v, a)
    <3>3. IsPut(w, d) \/ \E b \in 1..(e - 1) : c[b].node = d
      BY <3>2 DEF WalkOK, EndsOK
    <3>4. ASSUME NEW b \in 1..(e - 1), c[b].node = d
          PROVE  \E b2 \in 1..(a - 1) : v.calls[b2].node = d
      <4>1. CASE b = 1
        <5>1. m + 1 \in 1..(a - 1)
          BY ONLY <1>2, <1>4, <3>1
        <5> QED BY <1>9, <3>4, <4>1, <5>1
      <4>2. CASE b # 1
        <5>1. b \in 2..Len(c) /\ b + m \in 1..(a - 1)
          BY ONLY <1>2, <1>4, <3>1, <4>2, b \in 1..(e - 1)
        <5> QED BY <1>10, <3>4, <5>1
      <4> QED BY <4>1, <4>2
    <3> QED BY <1>7, <3>3, <3>4
  <2>3. a \notin 1..m
    BY <1>8
  <2> QED BY <1>11, <2>1, <2>2, <2>3
<1>16. SeenOK(ps, v)
  <2> SUFFICES ASSUME NEW x \in 1..n
               PROVE  x \in w.seen \cup {i} <=>
                          IsPut(w, x) \/ \E a \in 1..Len(s) : IsEnd(v, a) /\ v.calls[a].node = x
    BY <1>5, <1>7 DEF SeenOK
  <2>1. x \in w.seen <=> IsPut(w, x) \/ \E a \in 1..Len(c) : IsEnd(w, a) /\ c[a].node = x
    BY DEF WalkOK, SeenOK
  <2>2. ASSUME NEW a \in 1..Len(c), IsEnd(w, a), c[a].node = x
        PROVE  \E b \in 1..Len(s) : IsEnd(v, b) /\ v.calls[b].node = x
    <3>1. a \in 2..Len(c)
      BY <1>12, <2>2
    <3> QED BY <1>10, <2>2, <3>1
  <2>3. ASSUME NEW a \in 1..Len(s), IsEnd(v, a), v.calls[a].node = x
        PROVE  x = i \/ \E b \in 1..Len(c) : IsEnd(w, b) /\ c[b].node = x
    <3>1. CASE a = m + 1
      BY <1>9, <2>3, <3>1
    <3>2. CASE a - m \in 2..Len(c) /\ a = (a - m) + m
      <4> DEFINE e == a - m
      <4>1. e \in 2..Len(c) /\ a = e + m
        BY <3>2
      <4> HIDE DEF e
      <4>2. e \in 1..Len(c) /\ IsEnd(w, e) /\ c[e].node = x
        BY ONLY <1>10, <1>20, <2>3, <4>1
      <4> QED BY <4>2
    <3>3. a \notin 1..m
      BY <1>8, <2>3
    <3> QED BY <1>11, <3>1, <3>2, <3>3
  <2>4. \E b \in 1..Len(s) : IsEnd(v, b) /\ v.calls[b].node = i
    BY <1>9
  <2> QED BY <2>1, <2>2, <2>3, <2>4
<1>17. DownOK(ps, v)
  <2> SUFFICES ASSUME NEW b \in 1..Len(s), IsEnd(v, b), NEW a \in 1..(b - 1)
               PROVE  RankAt(ps, v.calls[a].node) < RankAt(ps, v.calls[b].node)
    BY <1>5 DEF DownOK
  <2>1. CASE b = m + 1
    <3>1. a \in 1..m
      BY ONLY <1>4, <2>1, a \in 1..(b - 1)
    <3> QED BY <1>8, <1>9, <2>1, <3>1
  <2>2. CASE b - m \in 2..Len(c) /\ b = (b - m) + m
    <3> DEFINE e == b - m
    <3>1. e \in 2..Len(c) /\ b = e + m
      BY <2>2
    <3> HIDE DEF e
    <3>2. e \in 1..Len(c) /\ IsEnd(w, e) /\ v.calls[b] = c[e] /\ 1 \in 1..(e - 1)
      BY ONLY <1>10, <1>20, <3>1, IsEnd(v, b)
    <3>3. \A d \in 1..(e - 1) : RankAt(ps, c[d].node) < RankAt(ps, c[e].node)
      BY <3>2 DEF WalkOK, DownOK
    <3>4. RankAt(ps, i) < RankAt(ps, c[e].node)
      BY <3>2, <3>3
    <3>5. RankAt(ps, c[e].node) \in Int /\ RankAt(ps, i) \in Int
      <4>1. c[e].node \in 1..n
        <5>1. c[e] \in Calls(n)
          BY ONLY <1>1, <3>2, ElementOfSeq
        <5> QED BY ONLY <5>1 DEF Calls
      <4> QED BY <1>2, <4>1 DEF RanksAre
    <3>6. CASE a \in 1..m
      <4>1. RankAt(ps, ds[a]) < RankAt(ps, i) /\ RankAt(ps, ds[a]) \in Int /\ v.calls[a].node = ds[a]
        <5>1. RankAt(ps, ds[a]) < RankAt(ps, i) /\ v.calls[a].node = ds[a] /\ ds[a] \in 1..n
          BY ONLY <1>8, <3>6
        <5> QED BY <5>1 DEF RanksAre
      <4> HIDE DEF i
      <4> QED BY ONLY <3>2, <3>4, <3>5, <4>1
    <3>7. CASE a = m + 1
      BY <1>9, <3>2, <3>4, <3>7
    <3>8. CASE a - m \in 2..Len(c) /\ a = (a - m) + m
      <4> DEFINE d == a - m
      <4>1. d \in 2..Len(c) /\ a = d + m
        BY <3>8
      <4> HIDE DEF d
      <4>2. d \in 1..(e - 1)
        <5>1. d \in Int /\ 1 <= d /\ a = d + m
          BY ONLY <1>2, <4>1
        <5>2. e \in Int /\ b = e + m /\ m \in Int
          BY ONLY <1>2, <1>4, <3>1
        <5>3. a <= b - 1
          BY ONLY <5>1, <5>2, a \in 1..(b - 1)
        <5> HIDE DEF m
        <5> QED BY ONLY <5>1, <5>2, <5>3
      <4> QED BY <1>10, <3>2, <3>3, <4>1, <4>2
    <3>9. a \in 1..Len(s)
      BY ONLY <1>2, <1>4, a \in 1..(b - 1), b \in 1..Len(s)
    <3> QED BY <1>11, <3>6, <3>7, <3>8, <3>9
  <2>3. b \notin 1..m
    BY <1>8
  <2> QED BY <1>11, <2>1, <2>2, <2>3
<1>18. ReachOK(ps, v)
  <2> SUFFICES ASSUME NEW x \in 1..n PROVE IsPut(w, x) \/ \E a \in 1..Len(s) : v.calls[a].node = x
    BY <1>5, <1>7 DEF ReachOK
  <2>1. IsPut(w, x) \/ \E a \in 1..Len(c) : c[a].node = x
    BY DEF WalkOK, ReachOK
  <2>2. ASSUME NEW a \in 1..Len(c), c[a].node = x
        PROVE  \E b \in 1..Len(s) : v.calls[b].node = x
    <3>1. CASE a = 1
      BY <1>9, <2>2, <3>1
    <3>2. CASE a \in 2..Len(c)
      BY <1>10, <2>2, <3>2
    <3> QED BY <1>12, <3>1, <3>2
  <2> QED BY <2>1, <2>2
<1>19. OnceOK(v)
  <2>1. ASSUME NEW a \in 1..Len(s), IsEnd(v, a)
        PROVE  ~IsPut(w, v.calls[a].node)
    <3>1. CASE a = m + 1
      BY <1>9, <1>13, <3>1
    <3>2. CASE a - m \in 2..Len(c) /\ a = (a - m) + m
      <4> DEFINE e == a - m
      <4>1. e \in 2..Len(c) /\ a = e + m
        BY <3>2
      <4> HIDE DEF e
      <4>2. e \in 1..Len(c) /\ IsEnd(w, e) /\ v.calls[a] = c[e]
        BY ONLY <1>10, <1>20, <2>1, <4>1
      <4> QED BY <4>2 DEF WalkOK, OnceOK
    <3>3. a \notin 1..m
      BY <1>8, <2>1
    <3> QED BY <1>11, <3>1, <3>2, <3>3
  <2>2. \A k, l \in 1..Len(v.order) : k # l => v.order[k] # v.order[l]
    <3>1. \A k, l \in 1..Len(w.order) : k # l => w.order[k] # w.order[l]
      BY DEF WalkOK, OnceOK
    <3> QED BY ONLY <1>5, <3>1
  <2>3. \A a \in 1..Len(v.calls) : IsEnd(v, a) => ~IsPut(v, v.calls[a].node)
    BY <1>5, <1>7, <2>1
  <2> QED BY ONLY <2>2, <2>3 DEF OnceOK
<1> QED BY <1>6, <1>14, <1>15, <1>16, <1>17, <1>18, <1>19 DEF WalkOK

\* The calls that are left: those on the stack, and n for each package that was
\* not seen.
FuelOK(ps, w, k) ==
    \/ w.calls = <<>>
    \/ k + Len(w.calls) + Len(ps) * (Len(ps) - Cardinality(w.seen)) <= Len(ps) * (Len(ps) + 1)

\* One call.
LEMMA WalkStep ==
    ASSUME NEW ps, TaggedOK(ps), NEW k \in Nat, NEW w, WalkOK(ps, w), FuelOK(ps, w, k),
           NEW v, v = VisitStep(ps, w)
    PROVE  WalkOK(ps, v) /\ FuelOK(ps, v, k + 1)
<1> DEFINE c == w.calls
           i == c[1].node
           n == Len(ps)
           size == Cardinality(w.seen)
<1>1. c \in Seq(Calls(n)) /\ w.order \in Seq(1..n) /\ w.seen \in SUBSET (1..n) /\ n \in Nat
  BY ListHas DEF WalkOK, Walks, TaggedOK
<1>2. RanksAre(ps)
  BY DEF RanksAre, RankAt, Rank
<1>3. IsFiniteSet(w.seen) /\ size \in Nat
  <2>1. IsFiniteSet(1..n)
    BY <1>1, FS_Interval
  <2> QED BY ONLY <1>1, <2>1, FS_Subset, FS_CardinalityType
<1>4. CASE c = <<>>
  <2>1. v = w
    BY <1>4 DEF VisitStep
  <2> QED BY <1>4, <2>1 DEF FuelOK
<1>5. CASE c # <<>>
  <2>1. Head(c) = c[1] /\ c[1] \in Calls(n) /\ Len(c) \in Nat /\ Len(Tail(c)) = Len(c) - 1 /\ Len(c) # 0
    <3>1. Head(c) = c[1] /\ c[1] \in Calls(n) /\ Len(c) \in Nat /\ Len(Tail(c)) = Len(c) - 1
      BY ONLY <1>1, <1>5, TailIs
    <3> QED BY ONLY <1>1, <1>5, <3>1, EmptySeq, LenProperties
  <2>2. c[1].step \in {"visit", "append"} /\ i \in 1..n
    BY ONLY <2>1 DEF Calls
  <2>3. k + Len(c) + n * (n - size) <= n * (n + 1)
    BY <1>5 DEF FuelOK
  <2> DEFINE rest == n * (n - size)
             limit == n * (n + 1)
  <2>4. rest \in Int /\ limit \in Int /\ k + Len(c) + rest <= limit
    BY ONLY <1>1, <1>3, <2>3
  <2>5. CASE IsEnd(w, 1)
    <3>1. v = [w EXCEPT !.calls = Tail(c), !.order = Append(w.order, i)]
      BY <1>5, <2>1, <2>5 DEF VisitStep, IsEnd
    <3>2. WalkOK(ps, v)
      BY <1>2, <1>5, <2>5, <3>1, EndStep
    <3>3. v.calls = Tail(c) /\ v.seen = w.seen
      <4>1. v = [calls |-> Tail(c), seen |-> w.seen, order |-> Append(w.order, i)]
        BY <3>1 DEF WalkOK, Walks
      <4> HIDE DEF c, i
      <4> QED BY ONLY <4>1
    <3>4. (k + 1) + Len(Tail(c)) + rest <= limit
      <4> HIDE DEF rest, limit, c, n
      <4> QED BY ONLY <2>1, <2>4, k \in Nat
    <3> QED BY ONLY <3>2, <3>3, <3>4 DEF FuelOK
  <2>6. CASE ~IsEnd(w, 1) /\ i \in w.seen
    <3>1. v = [w EXCEPT !.calls = Tail(c)]
      BY <1>5, <2>1, <2>2, <2>6 DEF VisitStep, IsEnd
    <3>2. WalkOK(ps, v)
      BY <1>2, <1>5, <2>6, <3>1, SeenStep
    <3>3. v.calls = Tail(c) /\ v.seen = w.seen
      <4>1. v = [calls |-> Tail(c), seen |-> w.seen, order |-> w.order]
        BY <3>1 DEF WalkOK, Walks
      <4> HIDE DEF c, i
      <4> QED BY ONLY <4>1
    <3>4. (k + 1) + Len(Tail(c)) + rest <= limit
      <4> HIDE DEF rest, limit, c, n
      <4> QED BY ONLY <2>1, <2>4, k \in Nat
    <3> QED BY ONLY <3>2, <3>3, <3>4 DEF FuelOK
  <2>7. CASE ~IsEnd(w, 1) /\ i \notin w.seen
    <3> DEFINE ds == DependsOn(ps, i)
               s == Pushed(ds, i, c)
    <3>1. v = [w EXCEPT !.calls = s, !.seen = w.seen \cup {i}]
      <4>1. v = [w EXCEPT !.calls = ([b \in DOMAIN ds |-> VisitOf(ds[b])] \o <<EndOf(i)>>) \o Tail(c),
                          !.seen = w.seen \cup {i}]
        BY <1>5, <2>1, <2>2, <2>7 DEF VisitStep, IsEnd
      <4> QED BY <4>1 DEF Pushed
    <3>2. WalkOK(ps, v)
      <4> HIDE DEF ds
      <4>1. ds = DependsOn(ps, w.calls[1].node)
        BY DEF ds
      <4> QED BY <1>2, <1>5, <2>7, <3>1, <4>1, PushStep
    <3>3. v.calls = s /\ v.seen = w.seen \cup {i}
      <4>1. v = [calls |-> s, seen |-> w.seen \cup {i}, order |-> w.order]
        BY <3>1 DEF WalkOK, Walks
      <4> HIDE DEF c, i, s
      <4> QED BY ONLY <4>1
    <3>4. ds \in Seq(1..n) /\ Len(ds) <= n - 1
      BY <2>2, DependsIs DEF TaggedOK
    <3>5. Len(s) = Len(c) + Len(ds) /\ Len(ds) \in Nat
      <4> HIDE DEF c, i, n, ds
      <4>1. s = Pushed(ds, i, c)
        OBVIOUS
      <4> HIDE DEF s
      <4>2. PushedOK(ds, i, c, s, n)
        BY ONLY <1>1, <1>5, <2>2, <3>4, <4>1, PushIs
      <4> QED BY ONLY <4>2 DEF PushedOK
    <3>6. Cardinality(w.seen \cup {i}) = size + 1
      BY ONLY <1>3, <2>7, FS_AddElement
    <3>7. n * (n - (size + 1)) = rest - n
      <4>1. n \in Int /\ size \in Int
        BY <1>1, <1>3
      <4> HIDE DEF n, size
      <4> QED BY ONLY <4>1
    <3>8. (k + 1) + Len(s) + (rest - n) <= limit
      <4> HIDE DEF rest, limit, n, c, ds, s
      <4> QED BY ONLY <1>1, <2>1, <2>4, <3>4, <3>5, k \in Nat
    <3>9. (k + 1) + Len(v.calls) + n * (n - Cardinality(v.seen)) <= limit
      <4> HIDE DEF rest, limit, c, ds, s
      <4> QED BY ONLY <3>3, <3>6, <3>7, <3>8
    <3> QED BY ONLY <3>2, <3>9 DEF FuelOK
  <2> QED BY <2>5, <2>6, <2>7
<1> QED BY <1>4, <1>5

\* All packages are visited from outside.
Start(n) == [calls |-> [i \in 1..n |-> VisitOf(i)], seen |-> {}, order |-> <<>>]

\* The invariant holds before the first call.
LEMMA StartIs ==
    ASSUME NEW ps, TaggedOK(ps), NEW w, w = Start(Len(ps))
    PROVE  WalkOK(ps, w) /\ FuelOK(ps, w, 0)
<1> DEFINE n == Len(ps)
           c == [i \in 1..n |-> VisitOf(i)]
<1>1. n \in Nat
  BY ListHas DEF TaggedOK
<1>2. w.calls = c /\ w.seen = {} /\ w.order = <<>> /\ w = [calls |-> c, seen |-> {}, order |-> <<>>]
  <2>1. w = [calls |-> c, seen |-> {}, order |-> <<>>]
    BY DEF Start
  <2> HIDE DEF c
  <2> QED BY ONLY <2>1
<1>3. c \in Seq(Calls(n)) /\ Len(c) = n
  <2>1. c \in [1..n -> Calls(n)]
    BY DEF VisitOf, Calls
  <2> HIDE DEF c
  <2>2. c \in Seq(Calls(n))
    BY <1>1, <2>1
  <2> QED BY <1>1, <2>1, <2>2, LenProperties
<1>4. \A i \in 1..n : c[i].step = "visit" /\ c[i].node = i
  BY DEF VisitOf
<1> HIDE DEF c
<1>5. \A a \in 1..Len(w.calls) : ~IsEnd(w, a)
  BY <1>2, <1>3, <1>4 DEF IsEnd
<1>6. w \in Walks(ps)
  BY <1>2, <1>3 DEF Walks
<1>7. 1..Len(w.order) = {} /\ 1..Len(w.calls) = 1..n
  BY <1>2, <1>3
<1>8. \A x : ~IsPut(w, x)
  BY <1>7 DEF IsPut
<1>9. OrderOK(ps, w) /\ EndsOK(ps, w) /\ DownOK(ps, w) /\ OnceOK(w)
  BY <1>5, <1>7 DEF OrderOK, EndsOK, DownOK, OnceOK
<1>10. SeenOK(ps, w)
  BY <1>2, <1>5, <1>8 DEF SeenOK
<1>11. ReachOK(ps, w)
  BY <1>2, <1>4, <1>7 DEF ReachOK
<1>12. FuelOK(ps, w, 0)
  <2>1. Len(w.calls) = n /\ Cardinality(w.seen) = 0
    BY <1>2, <1>3, FS_EmptySet
  <2>2. 0 + n + n * (n - 0) <= n * (n + 1)
    <3> HIDE DEF n
    <3> QED BY ONLY <1>1
  <2> QED BY <2>1, <2>2 DEF FuelOK
<1> QED BY <1>6, <1>9, <1>10, <1>11, <1>12 DEF WalkOK

\* The order has every package once, and what a package waits for before it.
FollowsOK(ps, order) ==
    /\ order \in Seq(1..Len(ps))
    /\ \A i \in 1..Len(ps) : \E k \in 1..Len(order) : order[k] = i
    /\ \A k, l \in 1..Len(order) : k # l => order[k] # order[l]
    /\ \A k \in 1..Len(order) : \A d \in 1..Len(ps) :
          Needs(ps, order[k], d) => \E l \in 1..(k - 1) : order[l] = d

\* topological_order: for any list of refined packages the walk ends within
\* n * (n + 1) calls and yields every package once, after what it waits for.  The
\* code has no guard against a cycle; the ranks of the kinds of change show that
\* there is none.
THEOREM TopologicalOrderIs ==
    ASSUME NEW ps, TaggedOK(ps)
    PROVE  FollowsOK(ps, TopologicalOrder(ps))
<1> DEFINE n == Len(ps)
           start == Start(n)
           F(h) == [k \in Nat |-> IF k = 0 THEN start ELSE VisitStep(ps, h[k - 1])]
           walk == CHOOSE h : h = F(h)
           end == n * (n + 1)
<1>1. TopologicalOrder(ps) = walk[end].order
  BY DEF TopologicalOrder, Start
<1>2. n \in Nat
  BY ListHas DEF TaggedOK
<1>3. end \in Nat
  <2>1. end = n * n + n /\ n * n \in Nat
    <3> HIDE DEF n
    <3> QED BY ONLY <1>2
  <2> QED BY ONLY <1>2, <2>1
<1>4. WalkOK(ps, start) /\ FuelOK(ps, start, 0)
  BY StartIs
<1> DEFINE Good(w) == WalkOK(ps, w)
           W == {w \in Walks(ps) : \E k \in Nat : WalkOK(ps, w) /\ FuelOK(ps, w, k)}
           g == [k \in Nat |-> [w \in W |-> VisitStep(ps, w)]]
<1>5. start \in W
  BY <1>4 DEF WalkOK
<1>6. g \in [Nat -> [W -> W]] /\ \A k \in Nat, w \in W : g[k][w] = VisitStep(ps, w)
  <2>1. ASSUME NEW w \in W PROVE VisitStep(ps, w) \in W
    <3>1. PICK k \in Nat : WalkOK(ps, w) /\ FuelOK(ps, w, k)
      OBVIOUS
    <3>2. WalkOK(ps, VisitStep(ps, w)) /\ FuelOK(ps, VisitStep(ps, w), k + 1) /\ k + 1 \in Nat
      BY <3>1, WalkStep
    <3> QED BY <3>2 DEF WalkOK
  <2> HIDE DEF W
  <2> QED BY <2>1
<1> HIDE DEF g, W, start
<1>7. \E h : RunsOn(h, W, start, g)
  BY ONLY <1>5, <1>6, RecursionExists
<1>8. walk = F(walk)
  <2>1. PICK h : RunsOn(h, W, start, g)
    BY <1>7
  <2>2. h \in [Nat -> W] /\ h[0] = start /\ \A k \in Nat : h[k + 1] = g[k][h[k]]
    BY ONLY <2>1 DEF RunsOn
  <2>3. \A k \in Nat : h[k] = IF k = 0 THEN start ELSE VisitStep(ps, h[k - 1])
    <3> SUFFICES ASSUME NEW k \in Nat, k # 0 PROVE h[k] = VisitStep(ps, h[k - 1])
      BY <2>2
    <3>1. k - 1 \in Nat /\ (k - 1) + 1 = k
      OBVIOUS
    <3>2. h[k - 1] \in W /\ h[(k - 1) + 1] = g[k - 1][h[k - 1]]
      BY ONLY <2>2, <3>1
    <3>3. g[k - 1][h[k - 1]] = VisitStep(ps, h[k - 1])
      BY ONLY <1>6, <3>1, <3>2
    <3> QED BY ONLY <3>1, <3>2, <3>3
  <2>4. h = F(h)
    BY <2>2, <2>3
  <2> HIDE DEF F
  <2> QED BY <2>4
<1>9. walk[0] = start /\ \A k \in Nat : k # 0 => walk[k] = VisitStep(ps, walk[k - 1])
  <2> HIDE DEF walk
  <2> QED BY <1>8
<1> HIDE DEF walk, F
<1>10. \A k \in Nat : WalkOK(ps, walk[k]) /\ FuelOK(ps, walk[k], k)
  <2> DEFINE T == {k \in Nat : ~(WalkOK(ps, walk[k]) /\ FuelOK(ps, walk[k], k))}
  <2> SUFFICES ASSUME T # {} PROVE FALSE
    OBVIOUS
  <2>1. PICK k \in T : \A y \in T : k <= y
    <3>1. T \in SUBSET Nat
      OBVIOUS
    <3> HIDE DEF T
    <3> QED BY <3>1, LeastNat
  <2>2. k # 0
    BY <1>4, <1>9, <2>1
  <2>3. k \in Nat /\ k - 1 \in Nat /\ (k - 1) + 1 = k /\ ~(k <= k - 1)
    BY <2>1, <2>2
  <2>4. k - 1 \notin T
    <3> HIDE DEF T
    <3> QED BY ONLY <2>1, <2>3
  <2>5. WalkOK(ps, walk[k - 1]) /\ FuelOK(ps, walk[k - 1], k - 1)
    BY <2>3, <2>4
  <2>6. walk[k] = VisitStep(ps, walk[k - 1])
    BY <1>9, <2>2, <2>3
  <2>7. WalkOK(ps, walk[k]) /\ FuelOK(ps, walk[k], (k - 1) + 1)
    BY ONLY TaggedOK(ps), <2>3, <2>5, <2>6, WalkStep
  <2> QED BY <2>1, <2>3, <2>7
<1> DEFINE w == walk[end]
<1>11. WalkOK(ps, w) /\ FuelOK(ps, w, end)
  BY <1>3, <1>10
<1> HIDE DEF w
<1>12. w \in Walks(ps)
  BY <1>11 DEF WalkOK
<1>13. w.calls \in Seq(Calls(n)) /\ w.seen \in SUBSET (1..n) /\ w.order \in Seq(1..n)
  BY <1>12 DEF Walks
<1>14. w.calls = <<>>
  <2> SUFFICES ASSUME w.calls # <<>> PROVE FALSE
    OBVIOUS
  <2> DEFINE size == Cardinality(w.seen)
             rest == n * (n - size)
  <2>1. end + Len(w.calls) + rest <= end
    BY <1>11 DEF FuelOK
  <2>2. Len(w.calls) \in Nat /\ Len(w.calls) # 0
    BY <1>13, EmptySeq, LenProperties
  <2>3. size \in Nat /\ size <= n
    <3> HIDE DEF n
    <3>1. IsFiniteSet(1..n) /\ Cardinality(1..n) = n
      BY ONLY <1>2, FS_Interval
    <3> QED BY ONLY <1>13, <3>1, FS_Subset, FS_CardinalityType
  <2>4. rest \in Nat
    <3>1. n - size \in Nat
      <4> HIDE DEF n, size
      <4> QED BY ONLY <1>2, <2>3
    <3> DEFINE m == n - size
    <3> HIDE DEF m
    <3>2. n * m \in Nat
      <4>1. m \in Nat
        BY <3>1 DEF m
      <4> HIDE DEF n
      <4> QED BY ONLY <1>2, <4>1
    <3> QED BY <3>2 DEF m
  <2> HIDE DEF end, rest
  <2> QED BY ONLY <1>3, <2>1, <2>2, <2>4
<1>15. \A i \in 1..n : \E k \in 1..Len(w.order) : w.order[k] = i
  <2>1. 1..Len(w.calls) = {}
    BY <1>14
  <2> QED BY <1>11, <2>1 DEF WalkOK, ReachOK, IsPut
<1>16. \A k, l \in 1..Len(w.order) : k # l => w.order[k] # w.order[l]
  BY <1>11 DEF WalkOK, OnceOK
<1>17. \A k \in 1..Len(w.order) : \A d \in 1..n :
          Needs(ps, w.order[k], d) => \E l \in 1..(k - 1) : w.order[l] = d
  BY <1>11 DEF WalkOK, OrderOK
<1>18. FollowsOK(ps, w.order)
  BY ONLY <1>13, <1>15, <1>16, <1>17 DEF FollowsOK
<1> QED BY <1>1, <1>18 DEF w

-----------------------------------------------------------------------------
(* Readiness *)

\* A package of at least one file and one command is never without effort.
LEMMA EffortIs ==
    ASSUME NEW p, RefinedOK(p)
    PROVE  EffortOf(p) \in 23..100
<1> DEFINE base == CASE p.scope = "tiny" -> 15 [] p.scope = "small" -> 30
                     [] p.scope = "medium" -> 50 [] OTHER -> 70
           f == Len(p.files)
           c == Len(p.commands)
<1>1. f \in Nat /\ f # 0 /\ c \in Nat /\ c # 0
  <2>1. List(p.files) /\ p.files # <<>> /\ List(p.commands) /\ p.commands # <<>>
    BY DEF RefinedOK
  <2> QED BY ONLY <2>1, ListHas
<1>2. base \in Nat /\ base >= 15
  BY DEF RefinedOK
<1>3. EffortOf(p) = IF base + 5 * f + 3 * c > 100 THEN 100 ELSE base + 5 * f + 3 * c
  BY DEF EffortOf
<1> HIDE DEF base, f, c
<1> QED BY ONLY <1>1, <1>2, <1>3

\* A score is a percentage; with something to wait for it stays below 85.
LEMMA ReadinessIs ==
    ASSUME NEW ps, TaggedOK(ps), NEW i \in 1..Len(ps)
    PROVE  /\ ReadinessOf(ps, i) \in 0..100
           /\ ExecutionReadiness(ReadinessOf(ps, i)) = "ready" => ToSet(DependsOn(ps, i)) = {}
<1> DEFINE p == ps[i].package
           n == Len(DependsOn(ps, i))
           risk == RiskOf(p)
           effort == EffortOf(p)
           crowd == {j \in DOMAIN ps : ps[j].package.subsystem = p.subsystem}
           press == IF Cardinality(crowd) > 3 THEN 5 ELSE 0
           a == (risk * 35) \div 100
           b == (effort * 15) \div 100
           off == a + 8 * n + b + press
<1>1. RefinedOK(p) /\ List(ps)
  BY DEF TaggedOK
<1>2. DependsOn(ps, i) \in Seq(1..Len(ps)) /\ n \in Nat /\ (n = 0 => ToSet(DependsOn(ps, i)) = {})
  <2> DEFINE ds == DependsOn(ps, i)
  <2>1. ds \in Seq(1..Len(ps))
    BY ONLY <1>1, i \in 1..Len(ps), DependsIs
  <2> HIDE DEF ds
  <2>2. Len(ds) \in Nat /\ DOMAIN ds = 1..Len(ds)
    BY <2>1, LenProperties
  <2>3. Len(ds) = 0 => ToSet(ds) = {}
    BY <2>2 DEF ToSet
  <2> QED BY ONLY <2>1, <2>2, <2>3 DEF ds
<1>3. risk \in {20, 45, 70}
  BY DEF RiskOf
<1>4. effort \in 23..100
  BY <1>1, EffortIs
<1>5. ReadinessOf(ps, i) = IF off > 100 THEN 0 ELSE 100 - off
  BY DEF ReadinessOf
<1>6. press \in {0, 5}
  OBVIOUS
<1>7. a \in Nat /\ a >= 7
  <2> HIDE DEF risk
  <2> QED BY ONLY <1>3
<1>8. b \in Nat /\ b >= 3
  <2> HIDE DEF effort
  <2> QED BY ONLY <1>4
<1> HIDE DEF p, n, risk, effort, press, a, b
<1>9. off \in Nat /\ (n # 0 => off > 15)
  BY ONLY <1>2, <1>6, <1>7, <1>8
<1> HIDE DEF off
<1>10. ReadinessOf(ps, i) \in 0..100 /\ (n # 0 => ReadinessOf(ps, i) < 85)
  BY ONLY <1>5, <1>9
<1>11. ASSUME NEW s \in 0..100, s < 85 PROVE ExecutionReadiness(s) # "ready"
  <2>1. ~(s >= 85)
    BY <1>11
  <2> QED BY ONLY <2>1, Zenon DEF ExecutionReadiness
<1>12. n = 0 => ToSet(DependsOn(ps, i)) = {}
  BY <1>2 DEF n
<1> QED BY ONLY <1>10, <1>11, <1>12

-----------------------------------------------------------------------------
(* The refinement of a whole handoff *)

\* The files of all packages.
FilesOf(ps) == UNION {ToSet(ps[i].files) : i \in 1..Len(ps)}

\* One package per batch.
PackagesOK(ps) ==
    /\ List(ps)
    /\ \A i \in 1..Len(ps) : PackageOK(ps[i])
    /\ \A i, j \in 1..Len(ps) : i # j => ps[i].batch # ps[j].batch

\* No file is in two packages of its batch.
Apart(p, q) == p.batch = q.batch => ToSet(p.files) \cap ToSet(q.files) = {}

\* Refined packages that divide what they are made of.
NarrowOK(ps) ==
    /\ List(ps)
    /\ \A i \in 1..Len(ps) : RefinedOK(ps[i])
    /\ \A i, j \in 1..Len(ps) : i # j => Apart(ps[i], ps[j])

\* _refine_packages: the refined packages of a handoff have its files, and no
\* file is in two of one batch.
LEMMA NarrowIs ==
    ASSUME NEW ps, PackagesOK(ps),
           NEW parts, parts = [i \in DOMAIN ps |-> Refine(ps[i])],
           NEW narrow, narrow = FlattenSeq(parts)
    PROVE  NarrowOK(narrow) /\ FilesOf(narrow) = FilesOf(ps)
<1> DEFINE n == Len(ps)
<1>1. n \in Nat /\ DOMAIN ps = 1..n
  BY ListHas DEF PackagesOK
<1>2. List(parts) /\ Len(parts) = n /\ \A i \in 1..n : parts[i] = Refine(ps[i])
  <2>1. DOMAIN parts = 1..n /\ parts = [i \in 1..n |-> parts[i]] /\ \A i \in 1..n : parts[i] = Refine(ps[i])
    BY <1>1
  <2> HIDE DEF n
  <2> QED BY ONLY <1>1, <2>1, ListIs
<1>3. \A i \in 1..n : DividesOK(parts[i], ps[i])
  BY <1>2, RefineDivides DEF PackagesOK
<1>4. \A i \in 1..n : List(parts[i])
  BY <1>3 DEF DividesOK
<1>5. List(narrow) /\ \E at : Traces(at, narrow, parts, n)
  BY ONLY <1>2, <1>4, narrow = FlattenSeq(parts), FlattenIs
<1>6. PICK at : Traces(at, narrow, parts, n)
  BY <1>5
<1> DEFINE k(m) == at[m][1]
           l(m) == at[m][2]
<1>7. ASSUME NEW m \in 1..Len(narrow)
      PROVE  /\ k(m) \in 1..n /\ l(m) \in 1..Len(parts[k(m)]) /\ narrow[m] = parts[k(m)][l(m)]
             /\ RefinedOK(narrow[m]) /\ narrow[m].batch = ps[k(m)].batch
  <2>1. k(m) \in 1..n /\ l(m) \in 1..Len(parts[k(m)]) /\ narrow[m] = parts[k(m)][l(m)]
    BY <1>6 DEF Traces
  <2> HIDE DEF k, l
  <2>2. DividesOK(parts[k(m)], ps[k(m)])
    BY <1>3, <2>1
  <2>3. RefinedOK(parts[k(m)][l(m)]) /\ parts[k(m)][l(m)].batch = ps[k(m)].batch
    BY ONLY <2>1, <2>2 DEF DividesOK
  <2> QED BY ONLY <2>1, <2>3
<1>8. ASSUME NEW a \in 1..Len(narrow), NEW b \in 1..Len(narrow), a # b
      PROVE  Apart(narrow[a], narrow[b])
  <2> SUFFICES ASSUME narrow[a].batch = narrow[b].batch
               PROVE  ToSet(narrow[a].files) \cap ToSet(narrow[b].files) = {}
    BY DEF Apart
  <2>1. k(a) = k(b)
    <3> HIDE DEF k, l
    <3>1. ps[k(a)].batch = ps[k(b)].batch /\ k(a) \in 1..n /\ k(b) \in 1..n
      BY <1>7
    <3> QED BY <3>1 DEF PackagesOK
  <2>2. l(a) # l(b)
    <3> SUFFICES ASSUME l(a) = l(b) PROVE FALSE
      OBVIOUS
    <3>1. \E m \in 1..Len(narrow) : at[m] = <<k(a), l(a)>>
      <4> HIDE DEF k, l
      <4>1. k(a) \in 1..n /\ l(a) \in 1..Len(parts[k(a)])
        BY <1>7
      <4>2. \A i \in 1..n : \A j \in 1..Len(parts[i]) : \E m \in 1..Len(narrow) : at[m] = <<i, j>>
        BY ONLY <1>6 DEF Traces
      <4> QED BY ONLY <4>1, <4>2
    <3>2. \E i \in 1..n : \E j \in 1..Len(parts[i]) : i = k(a) /\ j = l(a)
      <4> HIDE DEF k, l
      <4> QED BY <1>7
    <3>3. at[a] = at[b]
      <4>1. at[a][1] = at[b][1] /\ at[a][2] = at[b][2]
        BY <2>1
      <4>2. at[a] = <<at[a][1], at[a][2]>> /\ at[b] = <<at[b][1], at[b][2]>>
        BY <1>6 DEF Traces
      <4> QED BY ONLY <4>1, <4>2
    <3> QED BY <1>6, <1>8, <3>3 DEF Traces
  <2> DEFINE qs == parts[k(a)]
  <2>3. /\ l(a) \in 1..Len(qs) /\ l(b) \in 1..Len(qs)
        /\ narrow[a] = qs[l(a)] /\ narrow[b] = qs[l(b)] /\ DividesOK(qs, ps[k(a)])
    <3> HIDE DEF k, l
    <3> QED BY <1>3, <1>7, <2>1
  <2> HIDE DEF qs, k, l
  <2> QED BY ONLY <2>2, <2>3 DEF DividesOK
<1>9. FilesOf(narrow) \subseteq FilesOf(ps)
  <2> SUFFICES ASSUME NEW m \in 1..Len(narrow) PROVE ToSet(narrow[m].files) \subseteq FilesOf(ps)
    BY DEF FilesOf
  <2> HIDE DEF k, l
  <2>1. /\ k(m) \in 1..n /\ l(m) \in 1..Len(parts[k(m)]) /\ narrow[m] = parts[k(m)][l(m)]
        /\ DividesOK(parts[k(m)], ps[k(m)])
    BY <1>3, <1>7
  <2>2. ToSet(narrow[m].files) \subseteq ToSet(ps[k(m)].files)
    BY ONLY <2>1 DEF DividesOK
  <2> QED BY ONLY <2>1, <2>2 DEF FilesOf
<1>10. FilesOf(ps) \subseteq FilesOf(narrow)
  <2> SUFFICES ASSUME NEW f \in FilesOf(ps) PROVE f \in FilesOf(narrow)
    OBVIOUS
  <2>1. PICK i \in 1..n : f \in ToSet(ps[i].files)
    BY DEF FilesOf
  <2>2. UNION {ToSet(parts[i][j].files) : j \in 1..Len(parts[i])} = ToSet(ps[i].files)
    <3>1. DividesOK(parts[i], ps[i])
      BY <1>3
    <3> QED BY ONLY <3>1 DEF DividesOK
  <2>3. PICK j \in 1..Len(parts[i]) : f \in ToSet(parts[i][j].files)
    BY ONLY <2>1, <2>2
  <2>4. PICK m \in 1..Len(narrow) : at[m] = <<i, j>>
    BY <1>6, <2>3 DEF Traces
  <2>5. narrow[m] = parts[i][j]
    <3>1. k(m) = i /\ l(m) = j
      BY <2>4
    <3> HIDE DEF k, l
    <3> QED BY <1>7, <3>1
  <2>6. f \in ToSet(narrow[m].files)
    BY ONLY <2>3, <2>5
  <2> QED BY ONLY <2>6, m \in 1..Len(narrow) DEF FilesOf
<1>11. NarrowOK(narrow)
  <2>1. \A m \in 1..Len(narrow) : RefinedOK(narrow[m])
    BY <1>7
  <2> HIDE DEF k, l
  <2> QED BY ONLY <1>5, <1>8, <2>1 DEF NarrowOK
<1> QED BY <1>9, <1>10, <1>11

-----------------------------------------------------------------------------
(* The inductive invariant: what each report holds.  No part speaks of two   *)
(* reports but the last: a queue may be older than the refinement, and then  *)
(* none of its items has the identifier of a refined package.                *)

\* The findings are gaps.
FoundInv == intel # Missing => intel.found \in SUBSET Gaps

\* The plan has its batches, and without a limit every finding is in one.
PlanInv ==
    remPlan # Missing =>
        /\ BatchesOK(remPlan.batches)
        /\ ~remPlan.cut => ItemsOf(remPlan.batches) = remPlan.found

\* The handoff has a package per batch, and without a limit names a file for
\* every finding.
HandoffInv ==
    handoff # Missing =>
        /\ PackagesOK(handoff.packages)
        /\ ~handoff.cut => FilesOf(handoff.packages) = {TargetOf(f) : f \in handoff.found}

\* Identifiers of a refinement are its number and the package's place.
IdOK(id, generations, i) == id[1] \in Nat /\ id[1] < generations /\ id[2] = i

\* The same, of packages with their identifiers.
ApartIn(ps) == \A i, j \in 1..Len(ps) : i # j => Apart(ps[i].package, ps[j].package)

TaggedFiles(ps) == UNION {ToSet(ps[i].package.files) : i \in 1..Len(ps)}

\* The refinement divides the handoff, under identifiers of its own.
RefinedInv ==
    refined # Missing =>
        /\ TaggedOK(refined.packages)
        /\ ApartIn(refined.packages)
        /\ \A i \in 1..Len(refined.packages) : IdOK(refined.packages[i].id, refreshes["refined"], i)
        /\ ~refined.cut => TaggedFiles(refined.packages) = {TargetOf(f) : f \in refined.found}

\* A queue item passes its checks, comes after what it waits for, and is of a
\* refinement there was.
ItemOK(item) ==
    /\ item.priority \in 0..4 /\ item.score \in 0..100
    /\ item.readiness \in {"ready", "waiting", "blocked", "deferred"}
    /\ item.readiness = "ready" => item.deps = {}

\* The item was planned from one of the refinements so far; what it waits for
\* comes before it; a package with its identifier is the one it was planned for.
OfRefinement(item, generations) == item.id[1] \in Nat /\ item.id[1] < generations

Placed(items, i) == items[i].deps \subseteq {items[j].id : j \in 1..(i - 1)}

SameWork(item, ps) == \A j \in 1..Len(ps) : ps[j].id = item.id => ps[j].package = item.package

\* The queue, beside whichever refinement is the latest.
QueueInv ==
    queue # Missing =>
        /\ List(queue.items)
        /\ \A i \in 1..Len(queue.items) :
              /\ ItemOK(queue.items[i]) /\ Placed(queue.items, i)
              /\ OfRefinement(queue.items[i], refreshes["refined"])
              /\ refined # Missing => SameWork(queue.items[i], refined.packages)

\* A dossier is of its item's package, or names nothing to change.
DossierOK(d) ==
    /\ d.risk \in {"low", "medium", "high", "critical"}
    /\ \/ d.files = d.item.package.files /\ d.commands = d.item.package.commands
       \/ d.files = <<>> /\ d.commands = <<>> /\ d.objective # "package"

\* All dossiers are.
DossierInv == List(workDossiers) /\ \A i \in 1..Len(workDossiers) : DossierOK(workDossiers[i])

\* The inductive invariant.
WorkInv ==
    /\ FoundInv /\ PlanInv /\ HandoffInv /\ RefinedInv /\ QueueInv /\ DossierInv
    /\ refreshes \in [Reports -> Nat]

-----------------------------------------------------------------------------
(* One lemma per command *)

\* What a part does not speak of cannot disturb it.
LEMMA Frames ==
    /\ FoundInv /\ intel' = intel => FoundInv'
    /\ PlanInv /\ remPlan' = remPlan => PlanInv'
    /\ HandoffInv /\ handoff' = handoff => HandoffInv'
    /\ RefinedInv /\ refined' = refined /\ refreshes'["refined"] = refreshes["refined"] => RefinedInv'
    /\ QueueInv /\ queue' = queue /\ refined' = refined
          /\ refreshes'["refined"] = refreshes["refined"] => QueueInv'
    /\ DossierInv /\ workDossiers' = workDossiers => DossierInv'
<1>1. FoundInv /\ intel' = intel => FoundInv'
  BY DEF FoundInv
<1>2. PlanInv /\ remPlan' = remPlan => PlanInv'
  BY DEF PlanInv
<1>3. HandoffInv /\ handoff' = handoff => HandoffInv'
  BY DEF HandoffInv
<1>4. RefinedInv /\ refined' = refined /\ refreshes'["refined"] = refreshes["refined"] => RefinedInv'
  BY DEF RefinedInv
<1>5. QueueInv /\ queue' = queue /\ refined' = refined
          /\ refreshes'["refined"] = refreshes["refined"] => QueueInv'
  BY DEF QueueInv
<1>6. DossierInv /\ workDossiers' = workDossiers => DossierInv'
  BY DEF DossierInv
<1> QED BY <1>1, <1>2, <1>3, <1>4, <1>5, <1>6

\* A command counts its own report up, and no other.
LEMMA RefreshIs ==
    ASSUME refreshes \in [Reports -> Nat], NEW r \in Reports,
           refreshes' = [refreshes EXCEPT ![r] = @ + 1]
    PROVE  /\ refreshes' \in [Reports -> Nat]
           /\ r # "refined" => refreshes'["refined"] = refreshes["refined"]
           /\ r = "refined" => refreshes'["refined"] = refreshes["refined"] + 1
           /\ refreshes["refined"] \in Nat
BY DEF Reports

\* analyze_repository_intelligence finds gaps.
LEMMA AnalyzeInv ==
    ASSUME AnalyzeRepository
    PROVE  FoundInv'
<1>1. PICK r \in Repositories : intel' = [found |-> Findings(r)]
  BY DEF AnalyzeRepository
<1>2. intel'.found = Findings(r)
  BY ONLY <1>1
<1>3. Findings(r) \subseteq Gaps
  BY FindingsAre
<1> QED BY <1>2, <1>3 DEF FoundInv

\* generate_remediation_plan_report loses no finding.
LEMMA PlanRemediationInv ==
    ASSUME FoundInv, NEW limit \in Limits, PlanRemediation(limit)
    PROVE  PlanInv'
<1> DEFINE found == IF intel = Missing THEN {} ELSE intel.found
           items == Items(found)
           kept == Cut(items, limit)
           batches == Batches(refreshes["plan"], kept)
<1>1. remPlan' = [batches |-> batches, found |-> ToSet(items), cut |-> kept # items]
  BY DEF PlanRemediation
<1>2. found \in SUBSET Gaps /\ IsFiniteSet(found)
  <2>1. found \in SUBSET Gaps
    BY DEF FoundInv
  <2> HIDE DEF found
  <2> QED BY <2>1, GapsFinite, FS_Subset
<1> HIDE DEF found
<1>3. List(items)
  BY <1>2, ItemsAre
<1> HIDE DEF items
<1>4. List(kept)
  <2>1. limit \in Nat
    BY WorkAssumption
  <2> QED BY <1>3, <2>1, CutIs
<1> HIDE DEF kept
<1>5. BatchesOK(batches) /\ ItemsOf(batches) = ToSet(kept)
  BY <1>4, BatchesAre
<1> HIDE DEF batches
<1>6. remPlan'.batches = batches /\ remPlan'.found = ToSet(items)
  BY ONLY <1>1
<1>7. remPlan'.cut = (kept # items)
  BY ONLY <1>1
<1> QED BY <1>5, <1>6, <1>7 DEF PlanInv

\* The handoff loses no batch.
LEMMA HandOverInv ==
    ASSUME PlanInv, NEW limit \in Limits, HandOver(limit)
    PROVE  HandoffInv'
<1> DEFINE batches == IF remPlan = Missing THEN <<>> ELSE remPlan.batches
           n == Len(batches)
           packages == [i \in DOMAIN batches |-> Package(batches[i])]
           kept == Cut(packages, limit)
           found == IF remPlan = Missing THEN {} ELSE remPlan.found
<1>1. handoff' = [packages |-> kept, found |-> found,
                  cut |-> remPlan = Missing \/ remPlan.cut \/ kept # packages]
  BY DEF HandOver
<1>2. BatchesOK(batches)
  <2>1. BatchesOK(<<>>)
    BY DEF BatchesOK, List
  <2> QED BY <2>1 DEF PlanInv
<1>3. remPlan # Missing /\ ~remPlan.cut => ItemsOf(batches) = found
  BY DEF PlanInv
<1>4. n \in Nat /\ DOMAIN batches = 1..n
  <2> HIDE DEF batches
  <2> QED BY <1>2, ListHas DEF BatchesOK
<1> HIDE DEF batches, found
<1>5. List(packages) /\ Len(packages) = n /\ \A i \in 1..n : packages[i] = Package(batches[i])
  <2>1. DOMAIN packages = 1..n /\ packages = [i \in 1..n |-> packages[i]]
        /\ \A i \in 1..n : packages[i] = Package(batches[i])
    BY <1>4
  <2> HIDE DEF packages, n
  <2> QED BY <1>4, <2>1, ListIs
<1> HIDE DEF packages
<1>6. ASSUME NEW i \in 1..n
      PROVE  /\ PackageOK(packages[i]) /\ packages[i].batch = batches[i].id
             /\ ToSet(packages[i].files) = {TargetOf(f) : f \in ToSet(batches[i].items)}
  <2>1. BatchOK(batches[i])
    BY <1>2 DEF BatchesOK
  <2> QED BY <1>5, <2>1, PackageIs
<1>7. PackagesOK(packages)
  <2>1. \A i, j \in 1..n : i # j => packages[i].batch # packages[j].batch
    BY <1>2, <1>6 DEF BatchesOK
  <2> QED BY <1>5, <1>6, <2>1 DEF PackagesOK
<1>8. FilesOf(packages) = {TargetOf(f) : f \in ItemsOf(batches)}
  <2>1. FilesOf(packages) = UNION {ToSet(packages[i].files) : i \in 1..n}
    BY ONLY <1>5 DEF FilesOf
  <2>2. ASSUME NEW i \in 1..n, NEW f \in ToSet(packages[i].files)
        PROVE  \E e \in ItemsOf(batches) : f = TargetOf(e)
    <3>1. PICK e \in ToSet(batches[i].items) : f = TargetOf(e)
      BY <1>6, <2>2
    <3> QED BY <3>1 DEF ItemsOf
  <2>3. ASSUME NEW e \in ItemsOf(batches)
        PROVE  \E i \in 1..n : TargetOf(e) \in ToSet(packages[i].files)
    <3>1. PICK i \in 1..n : e \in ToSet(batches[i].items)
      BY DEF ItemsOf
    <3> QED BY <1>6, <3>1
  <2> HIDE DEF n
  <2> QED BY ONLY <2>1, <2>2, <2>3
<1>9. List(kept) /\ Len(kept) <= n /\ \A i \in 1..Len(kept) : kept[i] = packages[i]
  <2>1. limit \in Nat
    BY WorkAssumption
  <2> QED BY ONLY <1>5, <2>1, CutIs
<1> HIDE DEF kept
<1>10. PackagesOK(kept)
  <2>1. Len(kept) \in Nat
    BY <1>9, ListHas
  <2>2. \A i \in 1..Len(kept) : i \in 1..n
    BY ONLY <1>4, <1>9, <2>1
  <2> QED BY <1>5, <1>7, <1>9, <2>2 DEF PackagesOK
<1>11. handoff'.packages = kept /\ handoff'.found = found
  BY ONLY <1>1
<1>12. handoff'.cut = (remPlan = Missing \/ remPlan.cut \/ kept # packages)
  BY ONLY <1>1
<1> QED BY <1>3, <1>8, <1>10, <1>11, <1>12 DEF HandoffInv

\* Lists of the same length are cut alike.
LEMMA CutAlike ==
    ASSUME NEW s, NEW t, List(s), List(t), Len(s) = Len(t), NEW limit \in Nat, Cut(s, limit) = s
    PROVE  Cut(t, limit) = t
<1>1. CASE limit > 0 /\ limit < Len(s)
  <2>1. s \in Seq(ToSet(s)) /\ Len(s) \in Nat
    BY ListHas DEF List
  <2>2. Len(SubSeq(s, 1, limit)) = limit
    BY <1>1, <2>1, SubSeqProperties
  <2>3. SubSeq(s, 1, limit) = s
    BY <1>1 DEF Cut
  <2> QED BY ONLY <1>1, <2>1, <2>2, <2>3, limit \in Nat
<1>2. CASE ~(limit > 0 /\ limit < Len(s))
  BY <1>2 DEF Cut
<1> QED BY <1>1, <1>2

\* A refinement divides the handoff, under new identifiers.
LEMMA RefineHandoffInv ==
    ASSUME HandoffInv, refreshes \in [Reports -> Nat], NEW limit \in Limits, RefineHandoff(limit),
           refreshes'["refined"] = refreshes["refined"] + 1
    PROVE  /\ RefinedInv'
           /\ \A i \in 1..Len(refined'.packages) : refined'.packages[i].id[1] = refreshes["refined"]
<1> DEFINE packages == IF handoff = Missing THEN <<>> ELSE handoff.packages
           parts == [i \in DOMAIN packages |-> Refine(packages[i])]
           narrow == FlattenSeq(parts)
           n == Len(narrow)
           g == refreshes["refined"]
           tagged == [i \in DOMAIN narrow |-> [id |-> <<g, i>>, package |-> narrow[i]]]
           kept == Cut(tagged, limit)
           found == IF handoff = Missing THEN {} ELSE handoff.found
<1>1. refined' = [packages |-> kept, found |-> found,
                  cut |-> handoff = Missing \/ handoff.cut \/ Cut(narrow, limit) # narrow]
  BY DEF RefineHandoff, PackageId
<1>2. PackagesOK(packages)
  <2>1. PackagesOK(<<>>)
    BY DEF PackagesOK, List
  <2> QED BY <2>1 DEF HandoffInv
<1>3. handoff # Missing /\ ~handoff.cut => FilesOf(packages) = {TargetOf(f) : f \in found}
  BY DEF HandoffInv
<1> HIDE DEF packages, found
<1>4. NarrowOK(narrow) /\ FilesOf(narrow) = FilesOf(packages)
  <2>1. parts = [i \in DOMAIN packages |-> Refine(packages[i])]
    OBVIOUS
  <2> HIDE DEF parts
  <2> QED BY <1>2, <2>1, NarrowIs
<1> HIDE DEF parts, narrow
<1>5. n \in Nat /\ DOMAIN narrow = 1..n
  BY <1>4, ListHas DEF NarrowOK
<1>6. /\ List(tagged) /\ Len(tagged) = n
      /\ \A i \in 1..n : tagged[i] = [id |-> <<g, i>>, package |-> narrow[i]]
  <2>1. DOMAIN tagged = 1..n /\ tagged = [i \in 1..n |-> tagged[i]]
        /\ \A i \in 1..n : tagged[i] = [id |-> <<g, i>>, package |-> narrow[i]]
    BY <1>5
  <2> HIDE DEF tagged, n
  <2> QED BY <1>5, <2>1, ListIs
<1> HIDE DEF tagged
<1>7. limit \in Nat /\ g \in Nat
  BY WorkAssumption DEF Reports
<1>8. List(kept) /\ Len(kept) <= n /\ \A i \in 1..Len(kept) : kept[i] = tagged[i]
  BY ONLY <1>6, <1>7, CutIs
<1>9. Cut(narrow, limit) = narrow => kept = tagged
  BY <1>4, <1>6, <1>7, CutAlike DEF NarrowOK
<1> HIDE DEF kept, g
<1>10. ASSUME NEW i \in 1..Len(kept)
       PROVE  i \in 1..n /\ kept[i].id = <<g, i>> /\ kept[i].package = narrow[i]
  <2>1. Len(kept) \in Nat
    BY <1>8, ListHas
  <2>2. i \in 1..n
    BY ONLY <1>5, <1>8, <2>1, i \in 1..Len(kept)
  <2>3. kept[i] = [id |-> <<g, i>>, package |-> narrow[i]]
    BY ONLY <1>6, <1>8, <2>2, i \in 1..Len(kept)
  <2> QED BY ONLY <2>2, <2>3
<1>11. TaggedOK(kept)
  BY <1>4, <1>8, <1>10 DEF TaggedOK, NarrowOK
<1>12. ApartIn(kept)
  BY <1>4, <1>10 DEF ApartIn, NarrowOK
<1>13. \A i \in 1..Len(kept) : IdOK(kept[i].id, refreshes'["refined"], i)
  <2>1. refreshes'["refined"] = g + 1
    BY DEF g
  <2> QED BY ONLY <1>7, <1>10, <2>1 DEF IdOK
<1>14. kept = tagged => TaggedFiles(kept) = FilesOf(narrow)
  <2> SUFFICES ASSUME kept = tagged PROVE TaggedFiles(kept) = FilesOf(narrow)
    OBVIOUS
  <2>1. Len(kept) = n /\ \A i \in 1..n : kept[i].package = narrow[i]
    BY <1>6, <1>10
  <2> QED BY ONLY <2>1 DEF TaggedFiles, FilesOf
<1>15. refined'.packages = kept /\ refined'.found = found
  BY ONLY <1>1
<1>16. refined'.cut = (handoff = Missing \/ handoff.cut \/ Cut(narrow, limit) # narrow)
  BY ONLY <1>1
<1>17. ~refined'.cut => TaggedFiles(kept) = {TargetOf(f) : f \in found}
  BY <1>3, <1>4, <1>9, <1>14, <1>16
<1>18. RefinedInv'
  BY <1>11, <1>12, <1>13, <1>15, <1>17 DEF RefinedInv
<1>19. \A i \in 1..Len(kept) : kept[i].id[1] = g
  BY ONLY <1>10
<1> QED BY <1>15, <1>18, <1>19 DEF g

\* The items of a queue are of older refinements than the next one.
LEMMA QueueStays ==
    ASSUME QueueInv, refreshes \in [Reports -> Nat], NEW limit \in Limits, RefineHandoff(limit),
           refreshes'["refined"] = refreshes["refined"] + 1,
           \A i \in 1..Len(refined'.packages) : refined'.packages[i].id[1] = refreshes["refined"]
    PROVE  QueueInv'
<1> DEFINE g == refreshes["refined"]
<1>1. queue' = queue /\ g \in Nat /\ refreshes'["refined"] = g + 1
  BY DEF RefineHandoff, Reports
<1> SUFFICES ASSUME queue # Missing
             PROVE  /\ List(queue.items)
                    /\ \A i \in 1..Len(queue.items) :
                          /\ ItemOK(queue.items[i]) /\ Placed(queue.items, i)
                          /\ OfRefinement(queue.items[i], g + 1)
                          /\ refined' # Missing => SameWork(queue.items[i], refined'.packages)
  BY <1>1 DEF QueueInv
<1>2. List(queue.items)
  BY DEF QueueInv
<1> SUFFICES ASSUME NEW i \in 1..Len(queue.items)
             PROVE  /\ ItemOK(queue.items[i]) /\ Placed(queue.items, i)
                    /\ OfRefinement(queue.items[i], g + 1)
                    /\ refined' # Missing => SameWork(queue.items[i], refined'.packages)
  BY <1>2
<1>3. ItemOK(queue.items[i]) /\ Placed(queue.items, i) /\ OfRefinement(queue.items[i], g)
  BY ONLY QueueInv, queue # Missing, i \in 1..Len(queue.items) DEF QueueInv
<1>4. OfRefinement(queue.items[i], g + 1)
  <2> HIDE DEF g
  <2> QED BY ONLY <1>1, <1>3 DEF OfRefinement
<1>5. ASSUME refined' # Missing, NEW j \in 1..Len(refined'.packages)
      PROVE  refined'.packages[j].id # queue.items[i].id
  <2>1. refined'.packages[j].id[1] = g
    OBVIOUS
  <2>2. queue.items[i].id[1] \in Nat /\ queue.items[i].id[1] < g
    BY <1>3 DEF OfRefinement
  <2> HIDE DEF g
  <2> QED BY ONLY <1>1, <2>1, <2>2
<1> QED BY <1>3, <1>4, <1>5 DEF SameWork

\* Readiness, priority and risk are of their tables.
LEMMA LevelsAre ==
    ASSUME NEW score, NEW risk
    PROVE  /\ ExecutionReadiness(score) \in {"ready", "waiting", "blocked", "deferred"}
           /\ QueuePriorityOf(score, risk) \in 0..4
           /\ DossierRisk(score, risk) \in {"low", "medium", "high", "critical"}
<1>1. ExecutionReadiness(score) \in {"ready", "waiting", "blocked", "deferred"}
  BY DEF ExecutionReadiness
<1>2. QueuePriorityOf(score, risk) \in 0..4
  BY DEF QueuePriorityOf
<1>3. DossierRisk(score, risk) \in {"low", "medium", "high", "critical"}
  BY DEF DossierRisk
<1> QED BY <1>1, <1>2, <1>3

\* generate_work_queue_report puts every item after what it waits for.
LEMMA PlanQueueInv ==
    ASSUME RefinedInv, refreshes \in [Reports -> Nat], NEW limit \in Limits, PlanQueue(limit),
           refreshes'["refined"] = refreshes["refined"]
    PROVE  QueueInv'
<1> DEFINE ps == IF refined = Missing THEN <<>> ELSE refined.packages
           n == Len(ps)
           order == TopologicalOrder(ps)
           deps(i) == DependsOn(ps, i)
           score(i) == ReadinessOf(ps, i)
           Item(i) == [id |-> ps[i].id, batch |-> ps[i].package.batch,
                       deps |-> {ps[j].id : j \in ToSet(deps(i))},
                       score |-> score(i), readiness |-> ExecutionReadiness(score(i)),
                       risk |-> RiskOf(ps[i].package),
                       priority |-> QueuePriorityOf(score(i), RiskOf(ps[i].package)),
                       package |-> ps[i].package]
           full == [k \in DOMAIN order |-> Item(order[k])]
           kept == Cut(full, limit)
           g == refreshes["refined"]
<1>1. queue' = [items |-> kept] /\ refined' = refined
  BY DEF PlanQueue
<1>2. TaggedOK(ps) /\ \A i \in 1..n : IdOK(ps[i].id, g, i)
  <2>1. TaggedOK(<<>>) /\ Len(<<>>) = 0
    BY DEF TaggedOK, List
  <2> QED BY <2>1 DEF RefinedInv
<1>3. refined # Missing => ps = refined.packages
  OBVIOUS
<1> HIDE DEF ps
<1>4. FollowsOK(ps, order)
  BY <1>2, TopologicalOrderIs
<1> HIDE DEF order
<1>5. Len(order) \in Nat /\ DOMAIN order = 1..Len(order) /\ \A k \in 1..Len(order) : order[k] \in 1..n
  <2>1. order \in Seq(1..n)
    BY <1>4 DEF FollowsOK
  <2> HIDE DEF n
  <2> QED BY ONLY <2>1, LenProperties, ElementOfSeq
<1>6. ASSUME NEW i \in 1..n
      PROVE  /\ Item(i).id = ps[i].id /\ Item(i).deps = {ps[j].id : j \in {d \in 1..n : Needs(ps, i, d)}}
             /\ Item(i).package = ps[i].package
             /\ ItemOK(Item(i))
  <2>1. ToSet(deps(i)) = {d \in 1..n : Needs(ps, i, d)}
    BY <1>2, DependsIs DEF TaggedOK
  <2>2. score(i) \in 0..100 /\ (ExecutionReadiness(score(i)) = "ready" => ToSet(deps(i)) = {})
    BY <1>2, ReadinessIs
  <2> DEFINE item == Item(i)
             D == {ps[j].id : j \in ToSet(deps(i))}
             e == ExecutionReadiness(score(i))
             p == QueuePriorityOf(score(i), RiskOf(ps[i].package))
  <2>3. item = [id |-> ps[i].id, batch |-> ps[i].package.batch, deps |-> D,
                score |-> score(i), readiness |-> e, risk |-> RiskOf(ps[i].package),
                priority |-> p, package |-> ps[i].package]
    OBVIOUS
  <2>4. e \in {"ready", "waiting", "blocked", "deferred"} /\ p \in 0..4
    BY LevelsAre
  <2>5. e = "ready" => D = {}
    <3> HIDE DEF e, deps, score
    <3>1. e = "ready" => ToSet(deps(i)) = {}
      BY <2>2 DEF e
    <3> QED BY <3>1
  <2>6. D = {ps[j].id : j \in {d \in 1..n : Needs(ps, i, d)}}
    <3> HIDE DEF deps
    <3> QED BY <2>1
  <2> HIDE DEF item, D, e, p, score, deps, Item
  <2>7. item.id = ps[i].id /\ item.deps = D /\ item.package = ps[i].package
        /\ item.score = score(i) /\ item.readiness = e /\ item.priority = p
    BY ONLY <2>3
  <2>8. ItemOK(item)
    BY ONLY <2>2, <2>4, <2>5, <2>7 DEF ItemOK
  <2> QED BY <2>6, <2>7, <2>8 DEF item
<1> HIDE DEF Item
<1>7. List(full) /\ Len(full) = Len(order) /\ \A k \in 1..Len(order) : full[k] = Item(order[k])
  <2>1. DOMAIN full = 1..Len(order) /\ full = [k \in 1..Len(order) |-> full[k]]
        /\ \A k \in 1..Len(order) : full[k] = Item(order[k])
    BY <1>5
  <2> HIDE DEF full
  <2> QED BY <1>5, <2>1, ListIs
<1> HIDE DEF full
<1>8. List(kept) /\ Len(kept) <= Len(order) /\ \A k \in 1..Len(kept) : kept[k] = full[k]
  <2>1. limit \in Nat
    BY WorkAssumption
  <2> QED BY ONLY <1>7, <2>1, CutIs
<1> HIDE DEF kept
<1>9. Len(kept) \in Nat
  BY <1>8, ListHas
<1>10. ASSUME NEW k \in 1..Len(kept)
       PROVE  k \in 1..Len(order) /\ order[k] \in 1..n /\ kept[k] = Item(order[k])
  <2>1. k \in 1..Len(order)
    BY ONLY <1>5, <1>8, <1>9, k \in 1..Len(kept)
  <2> QED BY ONLY <1>5, <1>7, <1>8, <2>1, k \in 1..Len(kept)
<1>11. ASSUME NEW k \in 1..Len(kept)
       PROVE  /\ ItemOK(kept[k]) /\ Placed(kept, k) /\ OfRefinement(kept[k], g)
              /\ refined # Missing => SameWork(kept[k], refined.packages)
  <2> DEFINE i == order[k]
  <2>1. k \in 1..Len(order) /\ i \in 1..n /\ kept[k] = Item(i)
    BY <1>10
  <2>2. ItemOK(kept[k])
    BY <1>6, <2>1
  <2>3. Placed(kept, k)
    <3>1. kept[k].deps = {ps[j].id : j \in {d \in 1..n : Needs(ps, i, d)}}
      BY <1>6, <2>1
    <3>2. ASSUME NEW d \in 1..n, Needs(ps, i, d)
          PROVE  \E l \in 1..(k - 1) : kept[l].id = ps[d].id
      <4>1. PICK l \in 1..(k - 1) : order[l] = d
        BY <1>4, <2>1, <3>2 DEF FollowsOK
      <4>2. l \in 1..Len(kept)
        BY ONLY <1>9, k \in 1..Len(kept), l \in 1..(k - 1)
      <4>3. kept[l].id = ps[d].id
        BY <1>6, <1>10, <4>1, <4>2
      <4> QED BY <4>3
    <3> HIDE DEF i, n
    <3>3. kept[k].deps \subseteq {kept[l].id : l \in 1..(k - 1)}
      BY ONLY <3>1, <3>2
    <3> QED BY ONLY <3>3 DEF Placed
  <2>4. IdOK(ps[i].id, g, i) /\ kept[k].id = ps[i].id /\ kept[k].package = ps[i].package
    BY <1>2, <1>6, <2>1
  <2>5. OfRefinement(kept[k], g)
    BY <2>4 DEF OfRefinement, IdOK
  <2>6. ASSUME NEW j \in 1..n, ps[j].id = kept[k].id PROVE ps[j].package = kept[k].package
    <3>1. IdOK(ps[j].id, g, j)
      BY <1>2
    <3>2. j = i
      BY <2>4, <2>6, <3>1 DEF IdOK
    <3> QED BY <2>4, <3>2
  <2> QED BY <1>3, <2>2, <2>3, <2>5, <2>6 DEF SameWork
<1>12. queue'.items = kept
  BY <1>1
<1> QED BY <1>1, <1>8, <1>11, <1>12 DEF QueueInv

\* _build_dossier joins an item with its own package or with none.
LEMMA WriteWorkDossiersInv ==
    ASSUME RefinedInv, QueueInv, NEW limit \in Limits, WriteWorkDossiers(limit)
    PROVE  DossierInv'
<1> DEFINE items == IF queue = Missing THEN <<>> ELSE queue.items
           n == Len(items)
           full == [i \in DOMAIN items |-> Dossier(items[i])]
           kept == Cut(full, limit)
<1>1. workDossiers' = kept
  BY DEF WriteWorkDossiers
<1>2. /\ List(items)
      /\ \A i \in 1..n : refined # Missing => SameWork(items[i], refined.packages)
  <2>1. List(<<>>) /\ Len(<<>>) = 0
    BY DEF List
  <2> QED BY <2>1 DEF QueueInv
<1> HIDE DEF items
<1>3. n \in Nat /\ DOMAIN items = 1..n
  BY <1>2, ListHas
<1>4. ASSUME NEW i \in 1..n PROVE DossierOK(Dossier(items[i]))
  <2> DEFINE item == items[i]
             d == Dossier(item)
             p == Joined(item)
             offered == IF handoff = Missing THEN {} ELSE {q.batch : q \in ToSet(handoff.packages)}
             found == IF refined = Missing THEN {} ELSE {q \in ToSet(refined.packages) : q.id = item.id}
  <2>1. d = [item |-> item, risk |-> DossierRisk(item.score, item.risk),
             files |-> IF p = Missing THEN <<>> ELSE p.files,
             commands |-> IF p = Missing THEN <<>> ELSE p.commands,
             objective |-> IF p # Missing THEN "package"
                           ELSE IF item.batch \in offered THEN "batch" ELSE "title"]
    BY DEF Dossier
  <2>2. p # Missing => p = item.package
    <3>1. p = IF found = {} THEN Missing ELSE (CHOOSE q \in found : TRUE).package
      BY DEF Joined
    <3>2. CASE found # {}
      <4>1. PICK q \in found : p = q.package
        BY <3>1, <3>2
      <4>2. refined # Missing /\ q \in ToSet(refined.packages) /\ q.id = item.id
        BY <4>1
      <4>3. List(refined.packages)
        BY <4>2 DEF RefinedInv, TaggedOK
      <4>4. PICK j \in 1..Len(refined.packages) : refined.packages[j] = q
        BY <4>2, <4>3, ListHas
      <4> QED BY <1>2, <4>1, <4>2, <4>4 DEF SameWork
    <3> QED BY <3>1, <3>2
  <2> HIDE DEF d, p, offered, found
  <2>3. d.item = item /\ d.risk = DossierRisk(item.score, item.risk)
    BY ONLY <2>1
  <2>4. d.files = (IF p = Missing THEN <<>> ELSE p.files)
    BY ONLY <2>1
  <2>5. d.commands = (IF p = Missing THEN <<>> ELSE p.commands)
    BY ONLY <2>1
  <2>6. d.objective = (IF p # Missing THEN "package" ELSE IF item.batch \in offered THEN "batch" ELSE "title")
    BY ONLY <2>1
  <2>7. d.risk \in {"low", "medium", "high", "critical"}
    BY <2>3, LevelsAre
  <2>8. CASE p = Missing
    <3>1. d.files = <<>> /\ d.commands = <<>> /\ d.objective # "package"
      BY ONLY <2>4, <2>5, <2>6, <2>8
    <3> QED BY <2>7, <3>1 DEF DossierOK, d
  <2>9. CASE p # Missing
    <3>1. d.files = d.item.package.files /\ d.commands = d.item.package.commands
      BY ONLY <2>2, <2>3, <2>4, <2>5, <2>9
    <3> QED BY <2>7, <3>1 DEF DossierOK, d
  <2> QED BY <2>8, <2>9
<1>5. List(full) /\ Len(full) = n /\ \A i \in 1..n : full[i] = Dossier(items[i])
  <2>1. DOMAIN full = 1..n /\ full = [i \in 1..n |-> full[i]] /\ \A i \in 1..n : full[i] = Dossier(items[i])
    BY <1>3
  <2> HIDE DEF full, n
  <2> QED BY <1>3, <2>1, ListIs
<1> HIDE DEF full
<1>6. List(kept) /\ Len(kept) <= n /\ \A i \in 1..Len(kept) : kept[i] = full[i]
  <2>1. limit \in Nat
    BY WorkAssumption
  <2> QED BY ONLY <1>5, <2>1, CutIs
<1> HIDE DEF kept
<1>7. ASSUME NEW i \in 1..Len(kept) PROVE DossierOK(kept[i])
  <2>1. Len(kept) \in Nat
    BY <1>6, ListHas
  <2>2. i \in 1..n
    BY ONLY <1>3, <1>6, <2>1, i \in 1..Len(kept)
  <2> QED BY <1>4, <1>5, <1>6, <2>2
<1> QED BY <1>1, <1>6, <1>7 DEF DossierInv

-----------------------------------------------------------------------------
(* The theorems *)

\* No report exists.
LEMMA InitInv == WorkInit => WorkInv
<1> SUFFICES ASSUME WorkInit PROVE WorkInv
  OBVIOUS
<1>1. List(workDossiers) /\ Len(workDossiers) = 0
  BY DEF WorkInit, List
<1>2. refreshes \in [Reports -> Nat]
  BY DEF WorkInit
<1>3. FoundInv /\ PlanInv /\ HandoffInv /\ RefinedInv /\ QueueInv
  BY DEF WorkInit, FoundInv, PlanInv, HandoffInv, RefinedInv, QueueInv
<1>4. DossierInv
  BY <1>1 DEF DossierInv
<1> QED BY <1>2, <1>3, <1>4 DEF WorkInv

\* Every command keeps the invariant: it writes one report, and the parts that
\* do not speak of it are framed.
LEMMA StepInv == WorkInv /\ [WorkNext]_workVars => WorkInv'
<1> SUFFICES ASSUME WorkInv, [WorkNext]_workVars PROVE WorkInv'
  OBVIOUS
<1>1. /\ FoundInv /\ PlanInv /\ HandoffInv /\ RefinedInv /\ QueueInv /\ DossierInv
      /\ refreshes \in [Reports -> Nat]
  BY DEF WorkInv
<1>2. ASSUME NEW r \in Reports, refreshes' = [refreshes EXCEPT ![r] = @ + 1]
      PROVE  /\ refreshes' \in [Reports -> Nat]
             /\ r # "refined" => refreshes'["refined"] = refreshes["refined"]
             /\ r = "refined" => refreshes'["refined"] = refreshes["refined"] + 1
  BY <1>1, <1>2, RefreshIs
<1>3. CASE Refresh("intel", AnalyzeRepository)
  <2>1. AnalyzeRepository /\ refreshes' = [refreshes EXCEPT !["intel"] = @ + 1] /\ "intel" \in Reports
    BY <1>3 DEF Refresh, Reports
  <2>2. remPlan' = remPlan /\ handoff' = handoff /\ refined' = refined /\ queue' = queue
        /\ workDossiers' = workDossiers
    BY <2>1 DEF AnalyzeRepository
  <2>3. FoundInv'
    BY <2>1, AnalyzeInv
  <2>4. refreshes' \in [Reports -> Nat] /\ refreshes'["refined"] = refreshes["refined"]
    BY <1>2, <2>1
  <2> QED BY <1>1, <2>2, <2>3, <2>4, Frames DEF WorkInv
<1>4. ASSUME NEW limit \in Limits, Refresh("plan", PlanRemediation(limit))
      PROVE  WorkInv'
  <2>1. PlanRemediation(limit) /\ refreshes' = [refreshes EXCEPT !["plan"] = @ + 1] /\ "plan" \in Reports
    BY <1>4 DEF Refresh, Reports
  <2>2. intel' = intel /\ handoff' = handoff /\ refined' = refined /\ queue' = queue
        /\ workDossiers' = workDossiers
    BY <2>1 DEF PlanRemediation
  <2>3. PlanInv'
    BY <1>1, <2>1, PlanRemediationInv
  <2>4. refreshes' \in [Reports -> Nat] /\ refreshes'["refined"] = refreshes["refined"]
    BY <1>2, <2>1
  <2> QED BY <1>1, <2>2, <2>3, <2>4, Frames DEF WorkInv
<1>5. ASSUME NEW limit \in Limits, Refresh("handoff", HandOver(limit))
      PROVE  WorkInv'
  <2>1. HandOver(limit) /\ refreshes' = [refreshes EXCEPT !["handoff"] = @ + 1] /\ "handoff" \in Reports
    BY <1>5 DEF Refresh, Reports
  <2>2. intel' = intel /\ remPlan' = remPlan /\ refined' = refined /\ queue' = queue
        /\ workDossiers' = workDossiers
    BY <2>1 DEF HandOver
  <2>3. HandoffInv'
    BY <1>1, <2>1, HandOverInv
  <2>4. refreshes' \in [Reports -> Nat] /\ refreshes'["refined"] = refreshes["refined"]
    BY <1>2, <2>1
  <2> QED BY <1>1, <2>2, <2>3, <2>4, Frames DEF WorkInv
<1>6. ASSUME NEW limit \in Limits, Refresh("refined", RefineHandoff(limit))
      PROVE  WorkInv'
  <2>1. RefineHandoff(limit) /\ refreshes' = [refreshes EXCEPT !["refined"] = @ + 1] /\ "refined" \in Reports
    BY <1>6 DEF Refresh, Reports
  <2>2. intel' = intel /\ remPlan' = remPlan /\ handoff' = handoff /\ workDossiers' = workDossiers
    BY <2>1 DEF RefineHandoff
  <2>3. refreshes' \in [Reports -> Nat] /\ refreshes'["refined"] = refreshes["refined"] + 1
    BY <1>2, <2>1
  <2>4. /\ RefinedInv'
        /\ \A i \in 1..Len(refined'.packages) : refined'.packages[i].id[1] = refreshes["refined"]
    BY <1>1, <2>1, <2>3, RefineHandoffInv
  <2>5. QueueInv'
    BY <1>1, <2>1, <2>3, <2>4, QueueStays
  <2> QED BY <1>1, <2>2, <2>3, <2>4, <2>5, Frames DEF WorkInv
<1>7. ASSUME NEW limit \in Limits, Refresh("queue", PlanQueue(limit))
      PROVE  WorkInv'
  <2>1. PlanQueue(limit) /\ refreshes' = [refreshes EXCEPT !["queue"] = @ + 1] /\ "queue" \in Reports
    BY <1>7 DEF Refresh, Reports
  <2>2. intel' = intel /\ remPlan' = remPlan /\ handoff' = handoff /\ refined' = refined
        /\ workDossiers' = workDossiers
    BY <2>1 DEF PlanQueue
  <2>3. refreshes' \in [Reports -> Nat] /\ refreshes'["refined"] = refreshes["refined"]
    BY <1>2, <2>1
  <2>4. QueueInv'
    BY <1>1, <2>1, <2>3, PlanQueueInv
  <2> QED BY <1>1, <2>2, <2>3, <2>4, Frames DEF WorkInv
<1>8. ASSUME NEW limit \in Limits, Refresh("dossiers", WriteWorkDossiers(limit))
      PROVE  WorkInv'
  <2>1. WriteWorkDossiers(limit) /\ refreshes' = [refreshes EXCEPT !["dossiers"] = @ + 1]
        /\ "dossiers" \in Reports
    BY <1>8 DEF Refresh, Reports
  <2>2. intel' = intel /\ remPlan' = remPlan /\ handoff' = handoff /\ refined' = refined
        /\ queue' = queue
    BY <2>1 DEF WriteWorkDossiers
  <2>3. DossierInv'
    BY <1>1, <2>1, WriteWorkDossiersInv
  <2>4. refreshes' \in [Reports -> Nat] /\ refreshes'["refined"] = refreshes["refined"]
    BY <1>2, <2>1
  <2> QED BY <1>1, <2>2, <2>3, <2>4, Frames DEF WorkInv
<1>9. CASE UNCHANGED workVars
  <2>1. intel' = intel /\ remPlan' = remPlan /\ handoff' = handoff /\ refined' = refined
        /\ queue' = queue /\ workDossiers' = workDossiers /\ refreshes' = refreshes
    BY <1>9 DEF workVars
  <2> QED BY <1>1, <2>1, Frames DEF WorkInv
<1> QED BY <1>3, <1>4, <1>5, <1>6, <1>7, <1>8, <1>9 DEF WorkNext

\* The inductive invariant holds in every order of the commands, for all source
\* trees, limits and numbers of refreshes.
THEOREM WorkInvariant == WorkSpec => []WorkInv
<1>1. WorkInit => WorkInv
  BY InitInv
<1>2. WorkInv /\ [WorkNext]_workVars => WorkInv'
  BY StepInv
<1> QED BY <1>1, <1>2, PTL DEF WorkSpec

\* The queue is its own witness.
LEMMA InvOrder == WorkInv => WorkInOrder
<1> SUFFICES ASSUME WorkInv, queue # Missing
             PROVE  \A i \in DOMAIN queue.items :
                       /\ queue.items[i].deps \subseteq {queue.items[j].id : j \in 1..(i - 1)}
                       /\ queue.items[i].readiness = "ready" => queue.items[i].deps = {}
  BY DEF WorkInOrder
<1>1. List(queue.items) /\ \A i \in 1..Len(queue.items) : ItemOK(queue.items[i]) /\ Placed(queue.items, i)
  BY DEF WorkInv, QueueInv
<1>2. DOMAIN queue.items = 1..Len(queue.items)
  BY <1>1, ListHas
<1> QED BY ONLY <1>1, <1>2 DEF ItemOK, Placed

\* generate_work_queue_report: in the recommended order nothing comes before what
\* it waits for, and nothing that is reported ready waits, whatever the packages
\* and the limit are.
THEOREM QueueCanBeFollowed == WorkSpec => []WorkInOrder
<1>1. WorkInv => WorkInOrder
  BY InvOrder
<1> QED BY <1>1, WorkInvariant, PTL

\* The refinement is its own witness.
LEMMA InvForgets == WorkInv => NothingForgotten
<1> SUFFICES ASSUME WorkInv, refined # Missing PROVE NothingForgotten
  BY DEF NothingForgotten
<1> DEFINE ps == refined.packages
<1>1. TaggedOK(ps) /\ ApartIn(ps)
      /\ (~refined.cut => TaggedFiles(ps) = {TargetOf(f) : f \in refined.found})
  BY DEF WorkInv, RefinedInv
<1>2. DOMAIN ps = 1..Len(ps) /\ ToSet(ps) = {ps[i] : i \in 1..Len(ps)}
  BY <1>1, ListHas DEF TaggedOK
<1>3. UNION {ToSet(p.package.files) : p \in ToSet(ps)} = TaggedFiles(ps)
  BY ONLY <1>2 DEF TaggedFiles
<1>4. ASSUME NEW i \in DOMAIN ps, NEW j \in DOMAIN ps, i # j, ps[i].package.batch = ps[j].package.batch
      PROVE  ToSet(ps[i].package.files) \cap ToSet(ps[j].package.files) = {}
  BY ONLY <1>1, <1>2, <1>4 DEF ApartIn, Apart
<1>5. ASSUME NEW i \in DOMAIN ps, NEW f \in ToSet(ps[i].package.files), f.kind \in {"tests", "cli"}
      PROVE  f \in ToSet(ps[i].package.commands)
  BY <1>1, <1>2, <1>5 DEF TaggedOK, RefinedOK, Tested
<1> QED BY <1>1, <1>3, <1>4, <1>5 DEF NothingForgotten

\* From the analyzer to the refined packages, unless a limit cut a report short,
\* every finding has its file in a package, no file is in two packages of a
\* batch, and each test file comes with the command that runs it.
THEOREM NoFindingIsLost == WorkSpec => []NothingForgotten
<1>1. WorkInv => NothingForgotten
  BY InvForgets
<1> QED BY <1>1, WorkInvariant, PTL

\* The dossiers are their own witness.
LEMMA InvMatches == WorkInv => DossiersMatchQueue
<1> SUFFICES ASSUME WorkInv PROVE DossiersMatchQueue
  OBVIOUS
<1>1. List(workDossiers) /\ \A i \in 1..Len(workDossiers) : DossierOK(workDossiers[i])
  BY DEF WorkInv, DossierInv
<1>2. DOMAIN workDossiers = 1..Len(workDossiers)
  BY <1>1, ListHas
<1> QED BY ONLY <1>1, <1>2 DEF DossiersMatchQueue, DossierOK

\* _build_dossier: a dossier is never of another package than the one its queue
\* item was planned for, however old the queue is.
THEOREM DossiersAreOfTheirQueue == WorkSpec => []DossiersMatchQueue
<1>1. WorkInv => DossiersMatchQueue
  BY InvMatches
<1> QED BY <1>1, WorkInvariant, PTL

\* Each part of the invariant holds what the contract of its report asks.
LEMMA InvTypes == WorkInv => WorkTypeOK
<1> SUFFICES ASSUME WorkInv PROVE WorkTypeOK
  OBVIOUS
<1>1. remPlan # Missing => RemediationContract(remPlan)
  <2> SUFFICES ASSUME remPlan # Missing PROVE RemediationContract(remPlan)
    OBVIOUS
  <2>1. BatchesOK(remPlan.batches)
    BY DEF WorkInv, PlanInv
  <2>2. DOMAIN remPlan.batches = 1..Len(remPlan.batches)
    BY <2>1, ListHas DEF BatchesOK
  <2> QED BY ONLY <2>1, <2>2 DEF RemediationContract, BatchesOK, BatchOK
<1>2. handoff # Missing => HandoffContract(handoff)
  <2> SUFFICES ASSUME handoff # Missing PROVE HandoffContract(handoff)
    OBVIOUS
  <2>1. PackagesOK(handoff.packages)
    BY DEF WorkInv, HandoffInv
  <2>2. DOMAIN handoff.packages = 1..Len(handoff.packages)
    BY <2>1, ListHas DEF PackagesOK
  <2> QED BY ONLY <2>1, <2>2 DEF HandoffContract, PackagesOK, PackageOK
<1>3. refined # Missing => RefinementContract(refined)
  <2> SUFFICES ASSUME refined # Missing PROVE RefinementContract(refined)
    OBVIOUS
  <2>1. TaggedOK(refined.packages)
    BY DEF WorkInv, RefinedInv
  <2>2. DOMAIN refined.packages = 1..Len(refined.packages)
    BY <2>1, ListHas DEF TaggedOK
  <2> QED BY ONLY <2>1, <2>2 DEF RefinementContract, TaggedOK, RefinedOK
<1>4. queue # Missing => WorkQueueContract(queue)
  <2> SUFFICES ASSUME queue # Missing PROVE WorkQueueContract(queue)
    OBVIOUS
  <2>1. List(queue.items) /\ \A i \in 1..Len(queue.items) : ItemOK(queue.items[i])
    BY DEF WorkInv, QueueInv
  <2>2. DOMAIN queue.items = 1..Len(queue.items)
    BY <2>1, ListHas
  <2> QED BY ONLY <2>1, <2>2 DEF WorkQueueContract, ItemOK
<1>5. WorkDossierContract(workDossiers)
  <2>1. List(workDossiers) /\ \A i \in 1..Len(workDossiers) : DossierOK(workDossiers[i])
    BY DEF WorkInv, DossierInv
  <2>2. DOMAIN workDossiers = 1..Len(workDossiers)
    BY <2>1, ListHas
  <2> QED BY ONLY <2>1, <2>2 DEF WorkDossierContract, DossierOK
<1>6. refreshes \in [Reports -> Nat]
  BY DEF WorkInv
<1> QED BY <1>1, <1>2, <1>3, <1>4, <1>5, <1>6 DEF WorkTypeOK

\* No generator of the chain ever has its own report refused by the contract it
\* checks before the export.
THEOREM ChecksPass == WorkSpec => []WorkTypeOK
<1>1. WorkInv => WorkTypeOK
  BY InvTypes
<1> QED BY <1>1, WorkInvariant, PTL

=============================================================================
