--------------------------- MODULE AgentLoop_Proofs ---------------------------
(***************************************************************************)
(* Theorems about AgentLoop, for every cap, base length, tool output and   *)
(* snapshot length: the count of the prompt stays true to the logs and     *)
(* within the cap, and nothing is carried out that was not cleared.         *)
(***************************************************************************)
EXTENDS AgentLoop, Integers, SequenceTheorems, WellFoundedInduction, TLAPS

-----------------------------------------------------------------------------
(* The length of a list of chunks.  What Total computes is found by looking *)
(* at the least position at which a claim about its partial sums fails.     *)

\* A set of naturals that is not empty has a least element.
LEMMA LeastNat ==
    ASSUME NEW T \in SUBSET Nat, T # {}
    PROVE  \E x \in T : \A y \in T : x <= y
<1>1. IsWellFoundedOn(OpToRel(<, Nat), Nat)
  BY NatLessThanWellFounded
<1>2. PICK x \in T : \A y \in T : <<y, x>> \notin OpToRel(<, Nat)
  BY ONLY <1>1, WFMin, T \in SUBSET Nat, T # {}
<1>3. \A y \in T : ~(y < x)
  BY <1>2 DEF OpToRel
<1> QED BY <1>3

\* g holds the partial sums of the first n entries of s, separators included.
Sums(g, s, n) ==
    /\ g \in [0..n -> Nat]
    /\ g[0] = 0
    /\ \A i \in 1..n : g[i] = g[i - 1] + s[i] + 1

\* Every list of lengths has its partial sums.
LEMMA SumsExist ==
    ASSUME NEW s \in Seq(Nat), NEW n \in 0..Len(s)
    PROVE  \E g : Sums(g, s, n)
<1> DEFINE T == {m \in 0..Len(s) : ~\E g : Sums(g, s, m)}
<1> SUFFICES ASSUME T # {} PROVE FALSE
  OBVIOUS
<1>1. PICK m \in T : \A y \in T : m <= y
  <2>1. T \in SUBSET Nat
    OBVIOUS
  <2> HIDE DEF T
  <2> QED BY <2>1, LeastNat
<1>2. m # 0
  <2> DEFINE z == [i \in 0..0 |-> 0]
  <2>1. Sums(z, s, 0)
    BY DEF Sums
  <2> QED BY <2>1
<1>3. m - 1 \in 0..Len(s) /\ m - 1 \notin T
  BY <1>1, <1>2
<1>4. PICK g : Sums(g, s, m - 1)
  BY <1>3
<1> DEFINE h == [i \in 0..m |-> IF i = m THEN g[m - 1] + s[m] + 1 ELSE g[i]]
<1>5. h \in [0..m -> Nat]
  BY <1>2, <1>4 DEF Sums
<1>6. h[0] = 0
  BY <1>2, <1>4 DEF Sums
<1>7. ASSUME NEW i \in 1..m PROVE h[i] = h[i - 1] + s[i] + 1
  <2>1. m \in Nat /\ i - 1 \in 0..m /\ i - 1 # m /\ i \in 0..m
    OBVIOUS
  <2>2. h[i - 1] = g[i - 1]
    BY ONLY <2>1
  <2>3. CASE i = m
    BY ONLY <2>1, <2>2, <2>3
  <2>4. CASE i # m
    <3>1. i \in 1..(m - 1)
      BY <2>4
    <3>2. g[i] = g[i - 1] + s[i] + 1
      BY ONLY <1>4, <3>1 DEF Sums
    <3>3. h[i] = g[i]
      BY ONLY <2>1, <2>4
    <3> HIDE DEF h
    <3> QED BY ONLY <2>2, <3>2, <3>3
  <2> QED BY <2>3, <2>4
<1>8. Sums(h, s, m)
  <2> HIDE DEF h
  <2> QED BY <1>5, <1>6, <1>7 DEF Sums
<1> QED BY <1>8

\* The first k entries of two lists are the same.
Agree(s, t, k) == \A i \in 1..k : s[i] = t[i]

\* Lists that agree on their first k entries agree on their k-th partial sum.
LEMMA SumsAgree ==
    ASSUME NEW s \in Seq(Nat), NEW t \in Seq(Nat), NEW n \in Nat, NEW m \in Nat,
           NEW k \in Nat, k <= n, k <= m, Agree(s, t, k)
    PROVE  \A g, h : Sums(g, s, n) /\ Sums(h, t, m) => g[k] = h[k]
<1> SUFFICES ASSUME NEW g, NEW h, Sums(g, s, n), Sums(h, t, m) PROVE g[k] = h[k]
  OBVIOUS
<1> DEFINE T == {j \in 0..k : g[j] # h[j]}
<1> SUFFICES ASSUME T # {} PROVE FALSE
  OBVIOUS
<1>1. PICK j \in T : \A y \in T : j <= y
  <2>1. T \in SUBSET Nat
    OBVIOUS
  <2> HIDE DEF T
  <2> QED BY <2>1, LeastNat
<1>2. j # 0
  BY DEF Sums
<1>3. j - 1 \in 0..k /\ j - 1 \notin T
  BY <1>1, <1>2
<1>4. j \in 1..n /\ j \in 1..m /\ s[j] = t[j]
  BY <1>1, <1>2 DEF Agree
<1>5. g[j] = g[j - 1] + s[j] + 1 /\ h[j] = h[j - 1] + t[j] + 1
  BY <1>4 DEF Sums
<1> QED BY <1>3, <1>4, <1>5

\* Total is the last of the partial sums.
LEMMA TotalIsSum ==
    ASSUME NEW s \in Seq(Nat)
    PROVE  \E g : Sums(g, s, Len(s)) /\ Total(s) = g[Len(s)]
<1> DEFINE n == Len(s)
           F(g) == [i \in 0..n |-> IF i = 0 THEN 0 ELSE g[i - 1] + s[i] + 1]
           u == CHOOSE g : g = F(g)
<1>0. n \in Nat
  OBVIOUS
<1>1. PICK g : Sums(g, s, n)
  BY SumsExist
<1>2. g = F(g)
  BY <1>0, <1>1 DEF Sums
<1>3. u = F(u)
  BY <1>2
<1>4. u[0] = 0 /\ DOMAIN u = 0..n
  <2> HIDE DEF u
  <2> QED BY <1>0, <1>3
<1>5. \A i \in 1..n : u[i] = u[i - 1] + s[i] + 1
  <2> HIDE DEF u
  <2> QED BY <1>0, <1>3
<1>6. \A i \in 0..n : u[i] = g[i]
  <2> DEFINE T == {j \in 0..n : u[j] # g[j]}
  <2> HIDE DEF u
  <2> SUFFICES ASSUME T # {} PROVE FALSE
    OBVIOUS
  <2>1. PICK j \in T : \A y \in T : j <= y
    <3>1. T \in SUBSET Nat
      BY <1>0
    <3> HIDE DEF T
    <3> QED BY <3>1, LeastNat
  <2>2. j # 0
    BY <1>1, <1>4 DEF Sums
  <2>3. j - 1 \in 0..n /\ j - 1 \notin T
    BY <1>0, <2>1, <2>2
  <2>4. u[j] = u[j - 1] + s[j] + 1 /\ g[j] = g[j - 1] + s[j] + 1
    BY <1>0, <1>1, <1>5, <2>2 DEF Sums
  <2> QED BY <2>3, <2>4
<1>7. Total(s) = u[n]
  BY DEF Total
<1> QED BY <1>0, <1>1, <1>6, <1>7

LEMMA TotalType ==
    ASSUME NEW s \in Seq(Nat)
    PROVE  Total(s) \in Nat
BY TotalIsSum DEF Sums

LEMMA TotalEmpty == Total(<<>>) = 0
<1>1. <<>> \in Seq(Nat) /\ Len(<<>>) = 0
  OBVIOUS
<1> QED BY <1>1, TotalIsSum DEF Sums

\* Appending an entry adds its length and a separator.
LEMMA TotalAppend ==
    ASSUME NEW s \in Seq(Nat), NEW c \in Nat
    PROVE  Total(Append(s, c)) = Total(s) + c + 1
<1> DEFINE t == Append(s, c)
<1>1. t \in Seq(Nat) /\ Len(t) = Len(s) + 1 /\ t[Len(s) + 1] = c
      /\ \A i \in 1..Len(s) : t[i] = s[i]
  BY AppendProperties
<1> HIDE DEF t
<1>2. PICK g : Sums(g, s, Len(s)) /\ Total(s) = g[Len(s)]
  BY TotalIsSum
<1>3. PICK h : Sums(h, t, Len(t)) /\ Total(t) = h[Len(t)]
  BY <1>1, TotalIsSum
<1>4. g[Len(s)] = h[Len(s)]
  <2>1. Len(s) \in Nat /\ Len(t) \in Nat /\ Len(s) <= Len(s) /\ Len(s) <= Len(t)
    BY <1>1
  <2>2. Agree(s, t, Len(s))
    BY <1>1 DEF Agree
  <2>3. \A x, y : Sums(x, s, Len(s)) /\ Sums(y, t, Len(t)) => x[Len(s)] = y[Len(s)]
    BY ONLY <1>1, <2>1, <2>2, s \in Seq(Nat), SumsAgree
  <2> QED BY ONLY <1>2, <1>3, <2>3
<1>5. h[Len(s) + 1] = h[Len(s)] + c + 1
  <2>1. Len(s) + 1 \in 1..Len(t) /\ (Len(s) + 1) - 1 = Len(s)
    BY <1>1
  <2> QED BY <1>1, <1>3, <2>1 DEF Sums
<1> QED BY <1>1, <1>2, <1>3, <1>4, <1>5 DEF t

\* Splitting a list splits its length.
LEMMA TotalSplit ==
    ASSUME NEW s \in Seq(Nat), NEW k \in 0..Len(s)
    PROVE  /\ SubSeq(s, 1, k) \in Seq(Nat) /\ SubSeq(s, k + 1, Len(s)) \in Seq(Nat)
           /\ Total(SubSeq(s, k + 1, Len(s))) = Total(s) - Total(SubSeq(s, 1, k))
<1> DEFINE p == SubSeq(s, 1, k)
           q == SubSeq(s, k + 1, Len(s))
           n == Len(s)
<1>0. n \in Nat /\ k \in Nat /\ k <= n
  OBVIOUS
<1>1. p \in Seq(Nat) /\ Len(p) = k /\ \A i \in 1..k : p[i] = s[i]
  BY SubSeqProperties
<1>2. q \in Seq(Nat) /\ Len(q) = n - k /\ \A i \in 1..(n - k) : q[i] = s[k + i]
  BY SubSeqProperties
<1> HIDE DEF p, q
<1>3. PICK g : Sums(g, s, n) /\ Total(s) = g[n]
  BY TotalIsSum
<1>4. PICK h : Sums(h, p, k) /\ Total(p) = h[k]
  BY <1>1, TotalIsSum
<1>5. PICK f : Sums(f, q, n - k) /\ Total(q) = f[n - k]
  BY <1>2, TotalIsSum
<1>6. h[k] = g[k]
  <2>1. n \in Nat /\ k \in Nat /\ k <= k /\ k <= n
    BY <1>0
  <2> HIDE DEF n
  <2>2. \A x, y : Sums(x, p, k) /\ Sums(y, s, n) => x[k] = y[k]
    <3>1. Agree(p, s, k)
      BY <1>1 DEF Agree
    <3> QED BY ONLY <1>1, <2>1, <3>1, s \in Seq(Nat), SumsAgree
  <2> QED BY ONLY <1>3, <1>4, <2>2
<1>7. \A i \in 0..(n - k) : f[i] = g[k + i] - g[k]
  <2> DEFINE T == {i \in 0..(n - k) : f[i] # g[k + i] - g[k]}
  <2> SUFFICES ASSUME T # {} PROVE FALSE
    OBVIOUS
  <2>1. PICK j \in T : \A y \in T : j <= y
    <3>1. T \in SUBSET Nat
      BY <1>0
    <3> HIDE DEF T
    <3> QED BY <3>1, LeastNat
  <2>2. j # 0
    <3>1. f[0] = 0 /\ g[k] \in Nat /\ k + 0 = k
      <4>1. k \in 0..n
        BY <1>0
      <4>2. f[0] = 0
        BY <1>5 DEF Sums
      <4>3. g[k] \in Nat
        BY <1>3, <4>1 DEF Sums
      <4> QED BY <1>0, <4>2, <4>3
    <3>2. f[0] = g[k + 0] - g[k]
      BY <3>1
    <3> QED BY <3>2
  <2>3. j - 1 \in 0..(n - k) /\ j - 1 \notin T
    BY <1>0, <2>1, <2>2
  <2>4. f[j] = f[j - 1] + q[j] + 1
    BY <1>0, <1>5, <2>2 DEF Sums
  <2>5. k + j \in 1..n /\ (k + j) - 1 = k + (j - 1)
    BY <1>0, <2>2
  <2>6. g[k + j] = g[k + (j - 1)] + s[k + j] + 1
    BY <1>3, <2>5 DEF Sums
  <2>7. f[j - 1] = g[k + (j - 1)] - g[k]
    BY <2>3
  <2>8. q[j] = s[k + j] /\ s[k + j] \in Nat
    <3>1. j \in 1..(n - k)
      BY <1>0, <2>2
    <3>2. q[j] = s[k + j]
      BY ONLY <1>2, <3>1
    <3>3. s[k + j] \in Nat
      BY ONLY <2>5, s \in Seq(Nat), ElementOfSeq
    <3> QED BY <3>2, <3>3
  <2>9. g[k + (j - 1)] \in Nat /\ g[k] \in Nat
    <3>1. k + (j - 1) \in 0..n /\ k \in 0..n
      BY <1>0, <2>2
    <3> QED BY <1>3, <3>1 DEF Sums
  <2> HIDE DEF T
  <2>10. f[j] = g[k + j] - g[k]
    BY <2>4, <2>6, <2>7, <2>8, <2>9
  <2> QED BY <2>10 DEF T
<1>8. f[n - k] = g[n] - g[k]
  <2>1. n - k \in 0..(n - k) /\ k + (n - k) = n
    BY <1>0
  <2> QED BY <1>7, <2>1
<1>9. Total(q) = Total(s) - Total(p)
  BY <1>3, <1>4, <1>5, <1>6, <1>8
<1> QED BY <1>1, <1>2, <1>9 DEF p, q

-----------------------------------------------------------------------------
(* append_context *)

\* append_context keeps the count true to the entries it keeps, and stops
\* above the cap only when no entry is left.
LEMMA FitSpec ==
    ASSUME NEW s \in Seq(Nat), NEW n \in Nat, n = Base + Total(s)
    PROVE  /\ Fit(s, n).chunks \in Seq(Nat)
           /\ Fit(s, n).size \in Nat
           /\ Fit(s, n).size = Base + Total(Fit(s, n).chunks)
           /\ Fit(s, n).size > Cap => Fit(s, n).chunks = <<>>
<1> DEFINE SizeAt(j) == n - Total(SubSeq(s, 1, j))
           Stops(j) == SizeAt(j) <= Cap \/ j = Len(s)
           Best(i) == Stops(i) /\ \A j \in 0..(i - 1) : SizeAt(j) > Cap
           k == CHOOSE i \in 0..Len(s) : Best(i)
<1>0. Len(s) \in Nat /\ Cap \in Nat /\ Base \in Nat
  BY LoopAssumption
<1>1. ASSUME NEW j \in 0..Len(s) PROVE SizeAt(j) \in Int
  <2>1. SubSeq(s, 1, j) \in Seq(Nat)
    BY TotalSplit
  <2>2. Total(SubSeq(s, 1, j)) \in Nat
    BY <2>1, TotalType
  <2> QED BY <2>2
<1>2. \E i \in 0..Len(s) : Best(i)
  <2> DEFINE T == {i \in 0..Len(s) : Stops(i)}
  <2>1. T \in SUBSET Nat /\ Len(s) \in T
    BY <1>0
  <2>2. PICK i \in T : \A y \in T : i <= y
    <3> HIDE DEF T
    <3> QED BY <2>1, LeastNat
  <2>3. i \in 0..Len(s) /\ Stops(i)
    OBVIOUS
  <2>4. ASSUME NEW j \in 0..(i - 1) PROVE SizeAt(j) > Cap
    <3> HIDE DEF SizeAt
    <3>1. j \in 0..Len(s) /\ ~(i <= j)
      BY <1>0, <2>3
    <3>2. ~Stops(j)
      BY <2>2, <3>1
    <3> QED BY <1>0, <1>1, <3>1, <3>2
  <2> QED BY <2>3, <2>4
<1>3. k \in 0..Len(s) /\ Best(k)
  <2> HIDE DEF Best
  <2> QED BY <1>2
<1>4. Fit(s, n) = [chunks |-> SubSeq(s, k + 1, Len(s)), size |-> SizeAt(k)]
  BY DEF Fit
<1> HIDE DEF k
<1>5. SubSeq(s, k + 1, Len(s)) \in Seq(Nat)
      /\ Total(SubSeq(s, k + 1, Len(s))) = Total(s) - Total(SubSeq(s, 1, k))
  BY <1>3, TotalSplit
<1>6. Total(SubSeq(s, k + 1, Len(s))) \in Nat /\ Total(SubSeq(s, 1, k)) \in Nat /\ Total(s) \in Nat
  BY <1>3, <1>5, TotalSplit, TotalType
<1>7. SizeAt(k) = Base + Total(SubSeq(s, k + 1, Len(s)))
  BY <1>0, <1>5, <1>6
<1>8. SizeAt(k) > Cap => SubSeq(s, k + 1, Len(s)) = <<>>
  <2> SUFFICES ASSUME SizeAt(k) > Cap PROVE SubSeq(s, k + 1, Len(s)) = <<>>
    OBVIOUS
  <2>1. k = Len(s)
    <3> HIDE DEF SizeAt
    <3> QED BY <1>0, <1>1, <1>3
  <2> QED BY <1>0, <2>1, SubSeqEmpty
<1> DEFINE q == SubSeq(s, k + 1, Len(s))
           z == SizeAt(k)
<1>9. z \in Nat
  BY <1>0, <1>6, <1>7
<1> HIDE DEF q, z
<1>10. Fit(s, n).chunks = q /\ Fit(s, n).size = z
  BY <1>4 DEF q, z
<1>11. q \in Seq(Nat) /\ z = Base + Total(q) /\ (z > Cap => q = <<>>)
  BY ONLY <1>5, <1>7, <1>8, Zenon DEF q, z
<1> QED BY ONLY <1>9, <1>10, <1>11, Zenon

-----------------------------------------------------------------------------
(* The cap *)

\* What a round may rely on: the count is that of the logs, and when the loop
\* starts a round nothing above the cap is kept, so that only the snapshot of
\* this very round can exceed it.
ContextInv ==
    /\ loop \in Nat
    /\ chunks \in Seq(Nat)
    /\ size \in Nat
    /\ size = Base + Total(chunks)
    /\ size > Cap => chunks = <<>> \/ (Len(chunks) = 1 /\ loop \in {3, 4})
    /\ phase = "loop" /\ completed # TRUE => (size > Cap => chunks = <<>>)

LEMMA ContextInit == Init => ContextInv
BY LoopAssumption, TotalEmpty DEF Init, ContextInv

\* A step that leaves the logs alone and does not return to the head of the
\* loop.
LEMMA ContextKept ==
    ASSUME ContextInv, UNCHANGED <<loop, ctxVars>>, phase' # "loop"
    PROVE  ContextInv'
BY DEF ContextInv, ctxVars

\* An observation is appended.
LEMMA ContextReturns ==
    ASSUME ContextInv, UNCHANGED loop, Returns
    PROVE  ContextInv'
<1>1. PICK c \in Outputs : AppendContext(c)
  BY DEF Returns
<1> DEFINE s == Append(chunks, c)
           n == size + c + 1
<1>2. c \in Nat /\ Base \in Nat /\ chunks \in Seq(Nat) /\ size \in Nat
      /\ size = Base + Total(chunks)
  BY LoopAssumption DEF ContextInv
<1>3. s \in Seq(Nat) /\ n \in Nat /\ n = Base + Total(s)
  <2>1. Total(s) = Total(chunks) + c + 1 /\ Total(chunks) \in Nat
    BY <1>2, TotalAppend, TotalType
  <2> QED BY <1>2, <2>1
<1>4. chunks' = Fit(s, n).chunks /\ size' = Fit(s, n).size
  BY <1>1 DEF AppendContext
<1> HIDE DEF s, n
<1>5. chunks' \in Seq(Nat) /\ size' \in Nat /\ size' = Base + Total(chunks')
      /\ (size' > Cap => chunks' = <<>>)
  BY <1>3, <1>4, FitSpec
<1> QED BY <1>5 DEF ContextInv

\* Every branch of execute_tool appends an observation, fails the task or goes
\* on to the twin or to the effect.
LEMMA ToolOutcome ==
    ASSUME ExecuteTool
    PROVE  /\ UNCHANGED <<loop, profile>>
           /\ Returns \/ (UNCHANGED ctxVars /\ phase' # "loop")
<1> USE DEF Raises, Fail, ToReview
<1>1. CASE RouterWrite
  BY <1>1, Zenon DEF RouterWrite
<1>2. CASE WriteFile
  BY <1>2 DEF WriteFile
<1>3. CASE RouterRead
  BY <1>3 DEF RouterRead
<1>4. CASE IsolatedTask
  BY <1>4, Zenon DEF IsolatedTask
<1>5. CASE RunScript
  BY <1>5 DEF RunScript
<1>6. CASE TraceCompilation
  BY <1>6 DEF TraceCompilation
<1>7. CASE NetworkFetch
  BY <1>7 DEF NetworkFetch
<1>8. CASE OtherTool
  BY <1>8 DEF OtherTool
<1>9. CASE TwinApproves
  BY <1>9 DEF TwinApproves
<1>10. CASE TwinRejects
  BY <1>10 DEF TwinRejects
<1>11. CASE TwinFails
  BY <1>11 DEF TwinFails
<1> QED BY <1>1, <1>2, <1>3, <1>4, <1>5, <1>6, <1>7, <1>8, <1>9, <1>10, <1>11 DEF ExecuteTool

LEMMA ContextStep == ContextInv /\ [Next]_vars => ContextInv'
<1> SUFFICES ASSUME ContextInv, [Next]_vars PROVE ContextInv'
  OBVIOUS
<1>1. CASE NextRound
  <2>1. loop' \in Nat /\ phase' = "ask" /\ (size > Cap => chunks = <<>>)
    <3>1. completed # TRUE /\ phase = "loop"
      BY <1>1, Zenon DEF NextRound
    <3> QED BY <1>1, <3>1 DEF NextRound, ContextInv
  <2>2. CASE UNCHANGED <<chunks, size>>
    BY <2>1, <2>2 DEF ContextInv
  <2>3. CASE /\ loop' \in {3, 4}
             /\ \E c \in Snapshots : chunks' = <<c>> /\ size' = Base + c + 1
    <3>1. PICK c \in Snapshots : chunks' = <<c>> /\ size' = Base + c + 1
      BY <2>3
    <3>2. c \in Nat /\ Base \in Nat /\ <<>> \in Seq(Nat) /\ <<c>> = Append(<<>>, c)
      BY LoopAssumption
    <3>3. Total(<<c>>) = c + 1
      <4>1. Total(Append(<<>>, c)) = Total(<<>>) + c + 1
        BY <3>2, TotalAppend
      <4> QED BY <3>2, <4>1, TotalEmpty
    <3>4. chunks' \in Seq(Nat) /\ Len(chunks') = 1 /\ size' \in Nat
      BY <3>1, <3>2
    <3>5. size' = Base + Total(chunks')
      BY <3>1, <3>2, <3>3
    <3> QED BY ONLY <2>1, <2>3, <3>4, <3>5 DEF ContextInv
  <2> QED BY <1>1, <2>2, <2>3 DEF NextRound, ctxVars
<1>2. CASE LeaveLoop
  BY <1>2, ContextKept DEF LeaveLoop
<1>3. CASE ModelFails
  BY <1>3, ContextKept DEF ModelFails, Fail
<1>4. CASE NotAnObject
  BY <1>4, ContextKept DEF NotAnObject
<1>5. CASE FinalResponse
  BY <1>5 DEF FinalResponse, ContextInv, ctxVars
<1>6. ASSUME NEW t \in Tools, NEW clean \in BOOLEAN, NameTool(t, clean) PROVE ContextInv'
  BY <1>6, ContextKept DEF NameTool
<1>7. CASE ExecuteTool
  BY <1>7, ToolOutcome, ContextKept, ContextReturns
<1>8. CASE AfterLoop
  <2>1. phase' # "loop" /\ UNCHANGED <<loop, ctxVars>>
    BY <1>8, Zenon DEF AfterLoop
  <2> QED BY <2>1, ContextKept
<1>9. CASE RemoveFails
  BY <1>9, ContextKept DEF RemoveFails
<1>10. CASE Archive
  BY <1>10, ContextKept DEF Archive
<1>11. CASE ArchiveFails
  BY <1>11, ContextKept DEF ArchiveFails
<1>12. CASE PollAgain
  <2>1. loop' = 0 /\ chunks' = <<>> /\ size' = Base
    BY <1>12 DEF PollAgain
  <2> QED BY <2>1, LoopAssumption, TotalEmpty DEF ContextInv
<1>13. CASE UNCHANGED vars
  BY <1>13 DEF vars, ContextInv, ctxVars, endVars
<1> QED
  BY <1>1, <1>2, <1>3, <1>4, <1>5, <1>6, <1>7, <1>8, <1>9, <1>10, <1>11, <1>12, <1>13
  DEF Next, Step, Done

\* The prompt of a task never outgrows max_context_chars by its logs, however
\* long the tool outputs and for every cap: only the single snapshot of rounds
\* 3 and 4, or the base text alone, can exceed it (run_loop, append_context).
THEOREM PromptStaysCapped == Spec => []ContextCapped
<1>1. ContextInv => ContextCapped
  BY DEF ContextInv, ContextCapped
<1> QED BY ContextInit, ContextStep, <1>1, PTL DEF Spec

-----------------------------------------------------------------------------
(* The checks before an effect *)

\* What the branch of the named tool has checked when it asks the twin
Vetted ==
    /\ call.tool \in {"write", "script"}
    /\ call.clean
    /\ call.tool = "write" => ~profile.diagnostic

\* A call before the twin has passed the checks of its branch, and a call that
\* is carried out also the twin's.
ClearedInv ==
    /\ phase = "review" => Vetted
    /\ phase = "perform" => Vetted /\ verdict = "approved"
    /\ EffectsAreCleared

\* A step that carries nothing out and asks nobody.
LEMMA ClearedKept ==
    ASSUME ClearedInv, UNCHANGED <<profile, effects>>, phase' \notin {"review", "perform"}
    PROVE  ClearedInv'
BY DEF ClearedInv, EffectsAreCleared, Cleared

\* A cleared effect.
LEMMA ClearedEffect ==
    ASSUME ClearedInv, NEW r, NEW o, Effect(r, o), UNCHANGED profile,
           phase' \notin {"review", "perform"},
           Cleared([tool |-> call.tool, clean |-> call.clean, verdict |-> verdict,
                    readonly |-> r, offline |-> o])
    PROVE  ClearedInv'
<1> DEFINE e == [tool |-> call.tool, clean |-> call.clean, verdict |-> verdict,
                 readonly |-> r, offline |-> o]
<1>1. effects' = effects \cup {e} /\ Cleared(e)
  BY DEF Effect
<1> HIDE DEF e
<1>2. \A x \in effects' : Cleared(x)
  BY <1>1 DEF ClearedInv, EffectsAreCleared
<1>3. EffectsAreCleared'
  BY <1>2 DEF EffectsAreCleared, Cleared
<1> QED BY <1>3 DEF ClearedInv

LEMMA ClearedTool == ASSUME ClearedInv, ExecuteTool PROVE ClearedInv'
<1> USE DEF Raises, Fail, Returns
<1>1. CASE RouterWrite
  <2>1. CASE profile.diagnostic \/ ~call.clean
    BY <1>1, <2>1, ClearedKept, Zenon DEF RouterWrite
  <2>2. CASE ~profile.diagnostic /\ call.clean
    <3>1. phase' = "review" /\ call.tool = "write" /\ UNCHANGED <<profile, call, effects>>
      BY <1>1, <2>2, Zenon DEF RouterWrite, ToReview, callVars
    <3> QED BY <2>2, <3>1 DEF ClearedInv, Vetted, EffectsAreCleared, Cleared
  <2> QED BY <2>1, <2>2
<1>2. CASE WriteFile
  <2>1. UNCHANGED profile /\ phase' \notin {"review", "perform"} /\ phase = "perform"
        /\ call.tool = "write"
    BY <1>2 DEF WriteFile
  <2>2. CASE Effect(FALSE, FALSE)
    <3>1. verdict = "approved" /\ call.clean /\ ~profile.diagnostic
      BY <2>1 DEF ClearedInv, Vetted
    <3> QED BY <2>1, <2>2, <3>1, ClearedEffect DEF Cleared
  <2> QED BY <1>2, <2>1, <2>2, ClearedKept DEF WriteFile
<1>3. CASE RouterRead
  BY <1>3, ClearedKept DEF RouterRead
<1>4. CASE IsolatedTask
  <2>1. CASE ~call.clean
    BY <1>4, <2>1, ClearedKept, Zenon DEF IsolatedTask
  <2>2. CASE call.clean
    <3>1. phase' = "review" /\ call.tool = "script" /\ UNCHANGED <<profile, call, effects>>
      BY <1>4, <2>2, Zenon DEF IsolatedTask, ToReview, callVars
    <3> QED BY <2>2, <3>1 DEF ClearedInv, Vetted, EffectsAreCleared, Cleared
  <2> QED BY <2>1, <2>2
<1>5. CASE RunScript
  <2>1. UNCHANGED profile /\ phase' \notin {"review", "perform"} /\ phase = "perform"
        /\ call.tool = "script"
    BY <1>5 DEF RunScript
  <2> DEFINE r == profile.diagnostic \/ profile.readonly
             o == profile.diagnostic \/ profile.offline
  <2>2. CASE Effect(r, o)
    <3>1. verdict = "approved" /\ call.clean
      BY <2>1 DEF ClearedInv, Vetted
    <3>2. Cleared([tool |-> call.tool, clean |-> call.clean, verdict |-> verdict,
                   readonly |-> r, offline |-> o])
      BY <2>1, <3>1 DEF Cleared
    <3> HIDE DEF r, o
    <3> QED BY <2>1, <2>2, <3>2, ClearedEffect
  <2> QED BY <1>5, <2>1, <2>2, ClearedKept DEF RunScript
<1>6. CASE TraceCompilation
  <2>1. UNCHANGED profile /\ phase' \notin {"review", "perform"} /\ call.tool = "trace"
    BY <1>6 DEF TraceCompilation
  <2>2. CASE call.clean /\ Effect(FALSE, FALSE)
    BY <2>1, <2>2, ClearedEffect DEF Cleared
  <2> QED BY <1>6, <2>1, <2>2, ClearedKept DEF TraceCompilation
<1>7. CASE NetworkFetch
  <2>1. UNCHANGED profile /\ phase' \notin {"review", "perform"} /\ call.tool = "network"
    BY <1>7 DEF NetworkFetch
  <2>2. CASE ~profile.diagnostic /\ Effect(FALSE, FALSE)
    BY <2>1, <2>2, ClearedEffect DEF Cleared
  <2> QED BY <1>7, <2>1, <2>2, ClearedKept DEF NetworkFetch
<1>8. CASE OtherTool
  BY <1>8, ClearedKept DEF OtherTool
<1>9. CASE TwinApproves
  <2>1. phase' = "perform" /\ verdict' = "approved" /\ UNCHANGED <<profile, call, effects>>
        /\ Vetted
    BY <1>9 DEF TwinApproves, ClearedInv
  <2> QED BY <2>1 DEF ClearedInv, Vetted, EffectsAreCleared, Cleared
<1>10. CASE TwinRejects
  BY <1>10, ClearedKept DEF TwinRejects
<1>11. CASE TwinFails
  BY <1>11, ClearedKept DEF TwinFails
<1> QED BY <1>1, <1>2, <1>3, <1>4, <1>5, <1>6, <1>7, <1>8, <1>9, <1>10, <1>11 DEF ExecuteTool

LEMMA ClearedStep == ClearedInv /\ [Next]_vars => ClearedInv'
<1> SUFFICES ASSUME ClearedInv, [Next]_vars PROVE ClearedInv'
  OBVIOUS
<1>1. CASE ExecuteTool
  BY <1>1, ClearedTool
<1>2. CASE UNCHANGED vars
  BY <1>2 DEF vars, callVars, ClearedInv, Vetted, EffectsAreCleared, Cleared
<1>3. CASE AfterLoop
  <2>1. phase' \notin {"review", "perform"} /\ UNCHANGED <<profile, effects>>
    BY <1>3, Zenon DEF AfterLoop
  <2> QED BY <2>1, ClearedKept
<1>4. CASE \/ NextRound \/ LeaveLoop \/ ModelFails \/ NotAnObject \/ FinalResponse
           \/ \E t \in Tools, clean \in BOOLEAN : NameTool(t, clean)
           \/ RemoveFails \/ Archive \/ ArchiveFails \/ PollAgain
  <2>1. phase' \notin {"review", "perform"} /\ UNCHANGED <<profile, effects>>
    BY <1>4 DEF NextRound, LeaveLoop, ModelFails, Fail, NotAnObject, FinalResponse, NameTool,
                RemoveFails, Archive, ArchiveFails, PollAgain
  <2> QED BY <2>1, ClearedKept
<1> QED BY <1>1, <1>2, <1>3, <1>4 DEF Next, Step, Done

\* No write, script, fetch or compilation is carried out that its branch of
\* execute_tool, the profile and the twin have not cleared, for any profile and
\* in any order of rounds, rejections, failures and runs of the same task
\* (execute_tool, verify_with_twin_agent).
THEOREM EffectsCleared == Spec => []EffectsAreCleared
<1>1. Init => ClearedInv
  BY DEF Init, ClearedInv, EffectsAreCleared
<1>2. ClearedInv => EffectsAreCleared
  BY DEF ClearedInv
<1> QED BY <1>1, ClearedStep, <1>2, PTL DEF Spec
===============================================================================
