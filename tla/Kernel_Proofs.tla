---------------------------- MODULE Kernel_Proofs ----------------------------
(***************************************************************************)
(* Three parts of core/ beside the office pipeline.  The audited handshake *)
(* pipeline: a build is reached only through three hand-offs followed by   *)
(* the verifier and signed off by their auditors, for every governance     *)
(* policy, cache content and interleaving of the seven coroutines.  The    *)
(* rollup engine: until a restart, a batch is a slice of the transactions  *)
(* numbered, and agrees with the journal unless a line of it is missing,   *)
(* for every number of callers, flushes, failing appends and batch size.   *)
(* The DAG engine: for every graph, however scheduler, tasks and           *)
(* prefetchers interleave, dependencies come first, and an output, whether *)
(* computed or taken from the cache, is what running the whole graph on    *)
(* the present file would give.  At the end, these three and the proof     *)
(* ledger side by side.                                                    *)
(***************************************************************************)
EXTENDS MCKernel, ProofLedger_Proofs

(***************************************************************************)
(* The handshake pipeline.                                                 *)
(***************************************************************************)

\* How far the one packet has come: stages that produced, hand-offs the
\* verifier followed, hand-offs passed on.
Produced == Len(outputs)
Followed == Len(audited)
Passed == Len(handshakes)

Accepted == {"plain", "signed"}

\* What a queue holds: a packet, perhaps with the sentinel behind it; no more
\* than the sentinel; no sentinel yet.
Carries(q, S) == \E p \in S : q \in {<<p>>, <<p, None>>}
Spent(q) == q \in {<<>>, <<None>>}
Open(q) == q = <<>> \/ \E p \in Packets : q = <<p>>

StageFlow(j) ==
    /\ Produced < j /\ Passed < j - 1 => stageAt[j] = "idle"
    /\ Produced < j /\ Passed >= j - 1 =>
          \/ stageAt[j] = "idle" /\ j > 1 /\ Carries(inQ[j - 1], Accepted)
          \/ stageAt[j] \in {"busy", "failed"} /\ (j > 1 => Spent(inQ[j - 1]))
    /\ Produced >= j => stageAt[j] \in CASE j = 1 -> {"ended"} [] j = 4 -> {"ended", "traced"}
                                         [] OTHER -> {"idle", "ended"}

AuditorFlow(i) ==
    /\ Produced < i => auditorAt[i] = "idle" /\ outQ[i] = <<>>
    /\ Produced >= i /\ Passed < i =>
          \/ auditorAt[i] = "idle" /\ Carries(outQ[i], Packets) /\ Followed < i
          \/ auditorAt[i] = "signed" /\ Spent(outQ[i]) /\ Followed >= i /\ hop[i] \in Accepted
          \/ auditorAt[i] = "failed" /\ Spent(outQ[i])
    /\ Passed >= i => auditorAt[i] \in {"idle", "ended"} /\ Spent(outQ[i])
    /\ Passed < i => inQ[i] = <<>>
    /\ Produced > i => Spent(inQ[i])
    /\ auditorAt[i] # "ended" => Open(inQ[i])
    /\ stageAt[i] # "ended" => Open(outQ[i])

\* Hand-offs are counted once and in order, and none overtakes another.
Counts ==
    /\ \A k \in 1..Followed : audited[k] = k
    /\ \A k \in 1..Passed : handshakes[k] = k
    /\ Passed <= Followed /\ Followed <= Passed + 1 /\ Followed <= 3
    /\ Followed <= Produced /\ Produced <= Passed + 1
    /\ pipelineState = "COMPLETED" => Produced = 4

HandshakeShapes ==
    /\ outQ = [i \in Hops |-> outQ[i]] /\ inQ = [i \in Hops |-> inQ[i]]
    /\ hop = [i \in Hops |-> hop[i]] /\ given = [j \in Positions |-> given[j]]

AllClosed == (\A j \in Positions : stageAt[j] = "closed") /\ (\A i \in Hops : auditorAt[i] = "closed")

Flowing == (\A j \in Positions : StageFlow(j)) /\ (\A i \in Hops : AuditorFlow(i))

FlowInv == HandshakeTypeOK /\ HandshakeShapes /\ Counts /\ (AllClosed \/ Flowing)

-----------------------------------------------------------------------------
\* Queues

\* Taking from a queue with a packet, or with the sentinel only.
LEMMA QueueHeads ==
    ASSUME NEW q
    PROVE  /\ Carries(q, Packets) => /\ q # <<>> /\ Head(q) \in Packets /\ Head(q) # None
                                     /\ Spent(Tail(q))
           /\ Carries(q, Packets) /\ Open(q) => Tail(q) = <<>>
           /\ Carries(q, Accepted) => Carries(q, Packets) /\ Head(q) \in Accepted
           /\ Spent(q) /\ q # <<>> => Head(q) = None /\ Tail(q) = <<>>
           /\ Spent(q) /\ Open(q) => q = <<>>
           /\ Spent(<<>>) /\ Open(<<>>)
<1>1. \A p : /\ <<p>> # <<>> /\ Head(<<p>>) = p /\ Tail(<<p>>) = <<>>
             /\ <<p, None>> # <<>> /\ Head(<<p, None>>) = p /\ Tail(<<p, None>>) = <<None>>
             /\ <<p, None>> # <<p>>
  OBVIOUS
<1>2. \A p, r : <<p>> = <<r>> => p = r
  OBVIOUS
<1>3. \A p, r : <<p, None>> # <<r>> /\ <<p>> # <<>> /\ <<p, None>> # <<>>
  OBVIOUS
<1>4. None \notin Packets /\ Accepted \subseteq Packets
  BY DEF None, Packets, Accepted
<1> QED BY <1>1, <1>2, <1>3, <1>4 DEF Carries, Spent, Open

\* Putting a packet into an empty queue, and the sentinel behind.
LEMMA QueueTails ==
    ASSUME NEW q
    PROVE  /\ \A p \in Packets : /\ Carries(Append(<<>>, p), Packets) /\ Open(Append(<<>>, p))
                                 /\ Carries(<<p, None>>, Packets)
           /\ \A p \in Accepted : Carries(Append(<<>>, p), Accepted) /\ Open(Append(<<>>, p))
           /\ Open(q) /\ Carries(q, Packets) => Carries(Append(q, None), Packets)
           /\ Open(q) /\ Carries(q, Accepted) => Carries(Append(q, None), Accepted)
           /\ Open(q) /\ Spent(q) => Spent(Append(q, None))
<1>1. ASSUME NEW p PROVE Append(<<>>, p) = <<p>> /\ Append(<<p>>, None) = <<p, None>>
  <2> DEFINE a == Append(<<p>>, None)
             b == <<p, None>>
  <2>1. a \in Seq({p, None}) /\ Len(a) = 2 /\ a[1] = p /\ a[2] = None
    OBVIOUS
  <2>2. b \in Seq({p, None}) /\ Len(b) = 2 /\ b[1] = p /\ b[2] = None
    OBVIOUS
  <2> HIDE DEF a, b
  <2>3. a = b
    BY <2>1, <2>2, SeqEqual
  <2> QED BY <2>3 DEF a, b
<1>2. \A p, r : /\ <<p>> = <<r>> => p = r
                /\ <<p, None>> # <<r>> /\ <<p>> # <<>> /\ <<p, None>> # <<>>
  OBVIOUS
<1>3. None \notin Packets /\ Accepted \subseteq Packets
  BY DEF None, Packets, Accepted
<1> QED BY <1>1, <1>2, <1>3 DEF Carries, Spent, Open

-----------------------------------------------------------------------------
\* The steps of an office

\* Which numbers the counters are.
LEMMA CountersNat ==
    ASSUME FlowInv
    PROVE  /\ Produced \in 0..4 /\ Followed \in 0..3 /\ Passed \in 0..3
           /\ outputs \in Seq(Packets) /\ audited \in Seq(Hops) /\ handshakes \in Seq(Hops)
<1>1. outputs \in Seq(Packets) /\ audited \in Seq(Hops) /\ handshakes \in Seq(Hops)
  BY DEF FlowInv, HandshakeTypeOK
<1>2. Produced \in Nat /\ Followed \in Nat /\ Passed \in Nat
  BY <1>1, LenProperties DEF Produced, Followed, Passed
<1> QED BY <1>1, <1>2 DEF FlowInv, Counts

\* A stage takes a packet only from behind the audit of its hop.
LEMMA TakePacketFlows ==
    ASSUME FlowInv, NEW i \in Positions \ {1}, TakePacket(i)
    PROVE  FlowInv'
<1> USE DEF Positions, Hops
<1>1. /\ stageAt[i] = "idle" /\ inQ[i - 1] # <<>> /\ Head(inQ[i - 1]) # None
      /\ given' = [given EXCEPT ![i] = Head(inQ[i - 1])]
      /\ inQ' = [inQ EXCEPT ![i - 1] = Tail(inQ[i - 1])]
      /\ stageAt' = [stageAt EXCEPT ![i] = "busy"]
      /\ UNCHANGED <<policy, objects, buildFile, offices, lastAgent, audited, handshakes, outQ,
                     auditorAt, hop, outputs, pipelineState, traceFile>>
  BY DEF TakePacket, runStateVars
<1>2. Flowing
  BY <1>1 DEF FlowInv, AllClosed
<1>3. Produced \in Nat /\ Followed \in Nat /\ Passed \in Nat
  BY CountersNat
<1>4. Produced' = Produced /\ Followed' = Followed /\ Passed' = Passed
  BY <1>1 DEF Produced, Followed, Passed
<1>5. i - 1 \in Hops /\ StageFlow(i) /\ AuditorFlow(i - 1)
  BY <1>2 DEF Flowing
<1>6. Produced = i - 1 /\ Passed >= i - 1 /\ Carries(inQ[i - 1], Accepted)
  <2>1. Passed >= i - 1
    BY <1>1, <1>3, <1>5 DEF AuditorFlow
  <2>2. Produced < i
    BY <1>1, <1>3, <1>5, QueueHeads DEF AuditorFlow
  <2>3. Produced >= i - 1
    BY <1>3, <2>1 DEF FlowInv, Counts
  <2> QED BY <1>1, <1>3, <1>5, <2>1, <2>2, <2>3 DEF StageFlow
<1>7. HandshakeTypeOK'
  BY <1>1, <1>6, QueueHeads DEF FlowInv, HandshakeTypeOK, HandshakeShapes, Accepted
<1>8. HandshakeShapes' /\ Counts'
  BY <1>1, <1>4 DEF FlowInv, HandshakeShapes, Counts
<1>9. /\ \A j \in Positions : j # i => stageAt'[j] = stageAt[j]
       /\ stageAt'[i] = "busy"
       /\ \A k \in Hops : k # i - 1 => inQ'[k] = inQ[k]
       /\ inQ'[i - 1] = Tail(inQ[i - 1])
  BY <1>1, <1>5 DEF FlowInv, HandshakeTypeOK, HandshakeShapes
<1>10. \A j \in Positions : StageFlow(j)'
  <2>1. TAKE j \in Positions
  <2>2. CASE j = i
    BY <1>3, <1>4, <1>6, <1>9, <2>2, QueueHeads DEF StageFlow
  <2>3. CASE j # i
    BY <1>2, <1>3, <1>4, <1>9, <2>3 DEF Flowing, StageFlow
  <2> QED BY <2>2, <2>3
<1>11. \A k \in Hops : AuditorFlow(k)'
  <2>1. TAKE k \in Hops
  <2>2. AuditorFlow(k)
    BY <1>2 DEF Flowing
  <2>3. Passed < k => inQ'[k] = <<>>
    BY <1>3, <1>6, <1>9, <2>2 DEF AuditorFlow
  <2>4. Produced > k => Spent(inQ'[k])
    BY <1>3, <1>6, <1>9, <2>2 DEF AuditorFlow
  <2>5. ASSUME auditorAt[k] # "ended" PROVE Open(inQ'[k])
    <3>1. Open(inQ[k])
      BY <2>2, <2>5 DEF AuditorFlow
    <3>2. CASE k = i - 1
      <4>1. inQ'[k] = Tail(inQ[k]) /\ Carries(inQ[k], Packets)
        BY <1>6, <1>9, <3>2, QueueHeads
      <4>2. inQ'[k] = <<>>
        BY <3>1, <4>1, QueueHeads
      <4> QED BY <4>2 DEF Open
    <3> QED BY <1>9, <3>1, <3>2
  <2>6. stageAt'[k] # "ended" => Open(outQ[k])
    BY <1>1, <1>9, <2>2 DEF AuditorFlow
  <2> QED BY <1>1, <1>4, <2>2, <2>3, <2>4, <2>5, <2>6 DEF AuditorFlow
<1> QED BY <1>7, <1>8, <1>10, <1>11 DEF FlowInv, Flowing

\* The sentinel reaches a stage behind its packet, and BOA not at all.
LEMMA TakeSentinelFlows ==
    ASSUME FlowInv, NEW i \in Positions \ {1}, TakeSentinel(i)
    PROVE  FlowInv'
<1> USE DEF Positions, Hops
<1>1. /\ stageAt[i] = "idle" /\ inQ[i - 1] # <<>> /\ Head(inQ[i - 1]) = None
      /\ inQ' = [inQ EXCEPT ![i - 1] = Tail(inQ[i - 1])]
      /\ UNCHANGED <<policy, objects, buildFile, offices, lastAgent, audited, handshakes,
                     auditorAt, given, hop, outputs, pipelineState, traceFile>>
  BY DEF TakeSentinel, runStateVars
<1>2. Flowing
  BY <1>1 DEF FlowInv, AllClosed
<1>3. Produced \in Nat /\ Followed \in Nat /\ Passed \in Nat
  BY CountersNat
<1>4. Produced' = Produced /\ Followed' = Followed /\ Passed' = Passed
  BY <1>1 DEF Produced, Followed, Passed
<1>5. i - 1 \in Hops /\ StageFlow(i) /\ AuditorFlow(i - 1)
  BY <1>2 DEF Flowing
<1>6. Produced >= i /\ i < 4 /\ inQ[i - 1] = <<None>>
  <2>1. Passed >= i - 1
    BY <1>1, <1>3, <1>5 DEF AuditorFlow
  <2>2. Produced >= i
    BY <1>1, <1>3, <1>5, <2>1, QueueHeads DEF StageFlow
  <2>3. i # 4
    BY <1>1, <1>5, <2>2 DEF StageFlow
  <2>4. Spent(inQ[i - 1])
    BY <1>3, <1>5, <2>2 DEF AuditorFlow
  <2> QED BY <1>1, <2>2, <2>3, <2>4 DEF Spent
<1>7. /\ outQ' = [outQ EXCEPT ![i] = Append(outQ[i], None)]
      /\ stageAt' = [stageAt EXCEPT ![i] = "ended"]
  BY <1>6 DEF TakeSentinel
<1>8. /\ i \in Hops /\ Tail(inQ[i - 1]) = <<>>
      /\ \A j \in Positions : j # i => stageAt'[j] = stageAt[j]
      /\ stageAt'[i] = "ended"
      /\ \A k \in Hops : k # i - 1 => inQ'[k] = inQ[k]
      /\ inQ'[i - 1] = <<>>
      /\ \A k \in Hops : k # i => outQ'[k] = outQ[k]
      /\ outQ'[i] = Append(outQ[i], None)
  <2>1. i \in Hops /\ Tail(inQ[i - 1]) = <<>>
    BY <1>6
  <2>2. /\ \A j \in Positions : j # i => stageAt'[j] = stageAt[j]
        /\ stageAt'[i] = "ended"
    BY <1>7 DEF FlowInv, HandshakeTypeOK
  <2>3. /\ \A k \in Hops : k # i - 1 => inQ'[k] = inQ[k]
        /\ inQ'[i - 1] = <<>>
    BY <1>1, <1>5, <2>1 DEF FlowInv, HandshakeShapes
  <2>4. /\ \A k \in Hops : k # i => outQ'[k] = outQ[k]
        /\ outQ'[i] = Append(outQ[i], None)
    BY <1>7, <2>1 DEF FlowInv, HandshakeShapes
  <2> QED BY <2>1, <2>2, <2>3, <2>4
<1>9. HandshakeTypeOK'
  BY <1>1, <1>7 DEF FlowInv, HandshakeTypeOK
<1>10. HandshakeShapes' /\ Counts'
  BY <1>1, <1>4, <1>7 DEF FlowInv, HandshakeShapes, Counts
<1>11. \A j \in Positions : StageFlow(j)'
  <2>1. TAKE j \in Positions
  <2>2. CASE j = i
    BY <1>3, <1>4, <1>6, <1>8, <2>2 DEF StageFlow
  <2>3. CASE j # i
    BY <1>2, <1>3, <1>4, <1>8, <2>3 DEF Flowing, StageFlow
  <2> QED BY <2>2, <2>3
<1>12. \A k \in Hops : AuditorFlow(k)'
  <2>1. TAKE k \in Hops
  <2>2. AuditorFlow(k)
    BY <1>2 DEF Flowing
  <2>3. (Passed < k => inQ'[k] = <<>>) /\ (Produced > k => Spent(inQ'[k]))
        /\ (auditorAt[k] # "ended" => Open(inQ'[k]))
    BY <1>8, <2>2, QueueHeads DEF AuditorFlow
  <2>4. CASE k # i
    BY <1>1, <1>3, <1>4, <1>8, <2>2, <2>3, <2>4 DEF AuditorFlow
  <2>5. CASE k = i
    <3>1. Open(outQ[i])
      BY <1>1, <2>2, <2>5 DEF AuditorFlow
    <3>2. /\ Carries(outQ[i], Packets) => Carries(outQ'[i], Packets)
          /\ Spent(outQ[i]) => Spent(outQ'[i])
      BY <1>8, <3>1, QueueTails
    <3>3. /\ Passed < i => \/ auditorAt[i] = "idle" /\ Carries(outQ'[i], Packets) /\ Followed < i
                           \/ /\ auditorAt[i] = "signed" /\ Spent(outQ'[i]) /\ Followed >= i
                              /\ hop[i] \in Accepted
                           \/ auditorAt[i] = "failed" /\ Spent(outQ'[i])
          /\ Passed >= i => auditorAt[i] \in {"idle", "ended"} /\ Spent(outQ'[i])
      BY <1>6, <2>2, <2>5, <3>2 DEF AuditorFlow
    <3>4. ~(Produced < i) /\ stageAt'[i] = "ended"
      BY <1>3, <1>6, <1>8
    <3> QED BY <1>1, <1>4, <2>3, <2>5, <3>3, <3>4 DEF AuditorFlow
  <2> QED BY <2>4, <2>5
<1> QED BY <1>9, <1>10, <1>11, <1>12 DEF FlowInv, Flowing

\* A busy stage is the one that has the packet, so that what it produces goes
\* to an auditor that has not seen any, and BOA completes the pipeline.
LEMMA StageOutputFlows ==
    ASSUME FlowInv, NEW i \in Positions, NEW pkt \in Packets, StageOutput(i, pkt)
    PROVE  FlowInv'
<1> USE DEF Positions, Hops
<1>1. /\ stageAt[i] = "busy" /\ outputs' = Append(outputs, pkt)
      /\ buildFile' = buildFile \/ buildFile' = (buildFile \/ i = 4)
      /\ UNCHANGED <<policy, offices, lastAgent, audited, handshakes, inQ, auditorAt, given, hop,
                     traceFile>>
  BY DEF StageOutput
<1>2. Flowing
  BY <1>1 DEF FlowInv, AllClosed
<1>3. Produced \in Nat /\ Followed \in Nat /\ Passed \in Nat /\ outputs \in Seq(Packets)
  BY CountersNat
<1>4. Produced' = Produced + 1 /\ Followed' = Followed /\ Passed' = Passed /\ outputs' \in Seq(Packets)
  BY <1>1, <1>3, AppendProperties DEF Produced, Followed, Passed
<1>5. StageFlow(i)
  BY <1>2 DEF Flowing
<1>6. Produced = i - 1 /\ Passed = i - 1 /\ (i > 1 => Spent(inQ[i - 1]))
  <2>1. Produced < i /\ Passed >= i - 1
    BY <1>1, <1>3, <1>5 DEF StageFlow
  <2> QED BY <1>1, <1>3, <1>5, <2>1 DEF StageFlow, FlowInv, Counts
<1>7. /\ i < 4 => /\ outQ' = [outQ EXCEPT ![i] = IF i = 1 THEN <<pkt, None>> ELSE Append(outQ[i], pkt)]
                  /\ stageAt' = [stageAt EXCEPT ![i] = IF i = 1 THEN "ended" ELSE "idle"]
                  /\ pipelineState' = pipelineState
      /\ i = 4 => /\ pipelineState' = "COMPLETED" /\ stageAt' = [stageAt EXCEPT ![i] = "ended"]
                  /\ outQ' = outQ
  BY DEF StageOutput, Emit
<1>8. /\ \A j \in Positions : j # i => stageAt'[j] = stageAt[j]
      /\ stageAt'[i] = IF i \in {1, 4} THEN "ended" ELSE "idle"
  BY <1>7 DEF FlowInv, HandshakeTypeOK
<1>9. /\ \A k \in Hops : k # i => outQ'[k] = outQ[k]
      /\ i < 4 => Carries(outQ'[i], Packets) /\ (i > 1 => Open(outQ'[i]))
  <2>1. \A k \in Hops : k # i => outQ'[k] = outQ[k]
    BY <1>7 DEF FlowInv, HandshakeShapes
  <2>2. ASSUME i < 4 PROVE Carries(outQ'[i], Packets) /\ (i > 1 => Open(outQ'[i]))
    <3>1. i \in Hops /\ outQ[i] = <<>>
      BY <1>2, <1>3, <1>6, <2>2 DEF Flowing, AuditorFlow
    <3>2. outQ'[i] = IF i = 1 THEN <<pkt, None>> ELSE Append(<<>>, pkt)
      BY <1>7, <2>2, <3>1 DEF FlowInv, HandshakeShapes
    <3> QED BY <3>2, QueueTails
  <2> QED BY <2>1, <2>2
<1>10. HandshakeTypeOK'
  <2>1. Len(outputs') <= 4
    BY <1>3, <1>4, <1>6 DEF Produced
  <2>2. stageAt' \in [Positions -> {"idle", "busy", "ended", "failed", "traced", "closed"}]
    BY <1>7 DEF FlowInv, HandshakeTypeOK
  <2>3. buildFile' \in BOOLEAN
    BY <1>1 DEF FlowInv, HandshakeTypeOK
  <2>4. pipelineState' \in {"RUNNING", "COMPLETED", "DEAD_HALT"}
    BY <1>7 DEF FlowInv, HandshakeTypeOK
  <2>5. \A j \in Positions : stageAt'[j] = "busy" /\ j > 1 => given'[j] \in {"plain", "signed"}
    BY <1>1, <1>8 DEF FlowInv, HandshakeTypeOK
  <2> QED BY <1>1, <1>4, <2>1, <2>2, <2>3, <2>4, <2>5 DEF FlowInv, HandshakeTypeOK
<1>11. HandshakeShapes'
  BY <1>1, <1>7 DEF FlowInv, HandshakeShapes
<1>12. Counts'
  BY <1>1, <1>3, <1>4, <1>6, <1>7 DEF FlowInv, Counts
<1>13. \A j \in Positions : StageFlow(j)'
  <2>1. TAKE j \in Positions
  <2>2. CASE j = i
    BY <1>3, <1>4, <1>6, <1>8, <2>2 DEF StageFlow
  <2>3. CASE j # i
    BY <1>1, <1>2, <1>3, <1>4, <1>6, <1>8, <2>3 DEF Flowing, StageFlow
  <2> QED BY <2>2, <2>3
<1>14. \A k \in Hops : AuditorFlow(k)'
  <2>1. TAKE k \in Hops
  <2>2. AuditorFlow(k)
    BY <1>2 DEF Flowing
  <2>3. Produced' > k => Spent(inQ[k])
    BY <1>3, <1>4, <1>6, <2>2 DEF AuditorFlow
  <2>4. CASE k # i
    BY <1>1, <1>3, <1>4, <1>6, <1>8, <1>9, <2>2, <2>3, <2>4 DEF AuditorFlow
  <2>5. CASE k = i
    <3>1. Followed < i
      BY <1>3, <1>6 DEF FlowInv, Counts
    <3> QED BY <1>1, <1>3, <1>4, <1>6, <1>8, <1>9, <2>2, <2>3, <2>5, <3>1 DEF AuditorFlow
  <2> QED BY <2>4, <2>5
<1> QED BY <1>10, <1>11, <1>12, <1>13, <1>14 DEF FlowInv, Flowing

\* The verifier follows the hop of the stage that has just produced.
LEMMA AuditFlows ==
    ASSUME FlowInv, NEW i \in Hops, Audit(i)
    PROVE  FlowInv'
<1> USE DEF Positions, Hops
<1> DEFINE good == TransitionAllowed(i) /\ SignOff(Head(outQ[i]))
<1>1. /\ auditorAt[i] = "idle" /\ outQ[i] # <<>> /\ Head(outQ[i]) # None
      /\ outQ' = [outQ EXCEPT ![i] = Tail(outQ[i])]
      /\ \/ TransitionAllowed(i) /\ lastAgent' = i /\ audited' = Append(audited, i)
         \/ ~TransitionAllowed(i) /\ lastAgent' = lastAgent /\ audited' = audited
      /\ auditorAt' = [auditorAt EXCEPT ![i] = IF good THEN "signed" ELSE "failed"]
      /\ hop' = [hop EXCEPT ![i] = Head(outQ[i])]
      /\ UNCHANGED <<policy, objects, buildFile, offices, handshakes, inQ, stageAt, given, outputs,
                     pipelineState, traceFile>>
  BY DEF Audit, runStateVars
<1>2. good => TransitionAllowed(i) /\ Head(outQ[i]) \in Accepted
  BY DEF SignOff, Accepted
<1> HIDE DEF good
<1>3. Flowing
  BY <1>1 DEF FlowInv, AllClosed
<1>4. Produced \in Nat /\ Followed \in Nat /\ Passed \in Nat /\ audited \in Seq(Hops)
  BY CountersNat
<1>5. AuditorFlow(i)
  BY <1>3 DEF Flowing
<1>6. /\ Produced = i /\ Passed = i - 1 /\ Followed = i - 1
      /\ Carries(outQ[i], Packets)
  <2>1. Produced >= i
    BY <1>1, <1>4, <1>5 DEF AuditorFlow
  <2>2. Passed < i
    BY <1>1, <1>4, <1>5, QueueHeads DEF AuditorFlow
  <2>3. Carries(outQ[i], Packets) /\ Followed < i
    BY <1>1, <1>5, <2>1, <2>2 DEF AuditorFlow
  <2> QED BY <1>4, <2>1, <2>2, <2>3 DEF FlowInv, Counts
<1>7. /\ Produced' = Produced /\ Passed' = Passed
      /\ Followed' = IF TransitionAllowed(i) THEN i ELSE i - 1
      /\ audited' \in Seq(Hops) /\ \A k \in 1..Followed' : audited'[k] = k
  <2>1. Produced' = Produced /\ Passed' = Passed
    BY <1>1 DEF Produced, Passed
  <2>2. CASE TransitionAllowed(i)
    <3>1. audited' = Append(audited, i)
      BY <1>1, <2>2
    <3>2. /\ audited' \in Seq(Hops) /\ Len(audited') = Len(audited) + 1
          /\ \A k \in 1..Len(audited) : audited'[k] = audited[k]
          /\ audited'[Len(audited) + 1] = i
      BY <1>4, <3>1, AppendProperties
    <3> QED BY <1>4, <1>6, <2>1, <2>2, <3>2 DEF FlowInv, Counts, Followed
  <2>3. CASE ~TransitionAllowed(i)
    BY <1>1, <1>4, <1>6, <2>1, <2>3 DEF FlowInv, Counts, Followed
  <2> QED BY <2>2, <2>3
<1>8. /\ \A k \in Hops : k # i => outQ'[k] = outQ[k] /\ auditorAt'[k] = auditorAt[k] /\ hop'[k] = hop[k]
      /\ Spent(outQ'[i]) /\ (Open(outQ[i]) => Open(outQ'[i]))
      /\ \/ auditorAt'[i] = "signed" /\ Followed' = i /\ hop'[i] \in Accepted
         \/ auditorAt'[i] = "failed"
  <2>1. \A k \in Hops : k # i => outQ'[k] = outQ[k] /\ auditorAt'[k] = auditorAt[k] /\ hop'[k] = hop[k]
    BY <1>1 DEF FlowInv, HandshakeTypeOK, HandshakeShapes
  <2>2. outQ'[i] = Tail(outQ[i]) /\ hop'[i] = Head(outQ[i])
    BY <1>1 DEF FlowInv, HandshakeShapes
  <2>3. auditorAt'[i] = IF good THEN "signed" ELSE "failed"
    BY <1>1 DEF FlowInv, HandshakeTypeOK
  <2>4. Spent(outQ'[i]) /\ (Open(outQ[i]) => Open(outQ'[i]))
    BY <1>6, <2>2, QueueHeads
  <2> QED BY <1>2, <1>7, <2>1, <2>2, <2>3, <2>4
<1>9. HandshakeTypeOK'
  <2>1. auditorAt' \in [Hops -> {"idle", "signed", "ended", "failed", "closed"}] /\ lastAgent' \in 0..3
    BY <1>1 DEF FlowInv, HandshakeTypeOK
  <2> QED BY <1>1, <1>7, <2>1 DEF FlowInv, HandshakeTypeOK
<1>10. HandshakeShapes'
  BY <1>1 DEF FlowInv, HandshakeShapes
<1>11. Counts'
  BY <1>1, <1>4, <1>6, <1>7 DEF FlowInv, Counts
<1>12. \A j \in Positions : StageFlow(j)'
  BY <1>1, <1>3, <1>7 DEF Flowing, StageFlow
<1>13. \A k \in Hops : AuditorFlow(k)'
  <2>1. TAKE k \in Hops
  <2>2. AuditorFlow(k)
    BY <1>3 DEF Flowing
  <2>3. CASE k # i
    BY <1>1, <1>4, <1>6, <1>7, <1>8, <2>2, <2>3 DEF AuditorFlow
  <2>4. CASE k = i
    BY <1>1, <1>4, <1>6, <1>7, <1>8, <2>2, <2>4 DEF AuditorFlow
  <2> QED BY <2>3, <2>4
<1> QED BY <1>9, <1>10, <1>11, <1>12, <1>13 DEF FlowInv, Flowing

\* A signed packet is passed on to a stage that has not had any.
LEMMA PassOnFlows ==
    ASSUME FlowInv, NEW i \in Hops, PassOn(i)
    PROVE  FlowInv'
<1> USE DEF Positions, Hops
<1>1. /\ auditorAt[i] = "signed" /\ handshakes' = Append(handshakes, i)
      /\ inQ' = [inQ EXCEPT ![i] = Append(inQ[i], hop[i])]
      /\ hop' = [hop EXCEPT ![i] = None]
      /\ auditorAt' = [auditorAt EXCEPT ![i] = "idle"]
      /\ UNCHANGED <<policy, objects, buildFile, offices, lastAgent, audited, outQ, stageAt, given,
                     outputs, pipelineState, traceFile>>
  BY DEF PassOn, runStateVars
<1>2. Flowing
  BY <1>1 DEF FlowInv, AllClosed
<1>3. Produced \in Nat /\ Followed \in Nat /\ Passed \in Nat /\ handshakes \in Seq(Hops)
  BY CountersNat
<1>4. AuditorFlow(i)
  BY <1>2 DEF Flowing
<1>5. /\ Produced = i /\ Passed = i - 1 /\ Followed = i
      /\ Spent(outQ[i]) /\ hop[i] \in Accepted /\ inQ[i] = <<>>
  <2>1. Produced >= i
    BY <1>1, <1>3, <1>4 DEF AuditorFlow
  <2>2. Passed < i
    BY <1>1, <1>3, <1>4 DEF AuditorFlow
  <2>3. Followed >= i /\ Spent(outQ[i]) /\ hop[i] \in Accepted /\ inQ[i] = <<>>
    BY <1>1, <1>4, <2>1, <2>2 DEF AuditorFlow
  <2> QED BY <1>3, <2>1, <2>2, <2>3 DEF FlowInv, Counts
<1>6. /\ Produced' = Produced /\ Followed' = Followed /\ Passed' = i
      /\ handshakes' \in Seq(Hops) /\ \A k \in 1..Passed' : handshakes'[k] = k
  <2>1. Produced' = Produced /\ Followed' = Followed
    BY <1>1 DEF Produced, Followed
  <2>2. /\ handshakes' \in Seq(Hops) /\ Len(handshakes') = Len(handshakes) + 1
        /\ \A k \in 1..Len(handshakes) : handshakes'[k] = handshakes[k]
        /\ handshakes'[Len(handshakes) + 1] = i
    BY <1>1, <1>3, AppendProperties
  <2>3. Len(handshakes) = i - 1 /\ \A k \in 1..Len(handshakes) : handshakes[k] = k
    BY <1>5 DEF FlowInv, Counts, Passed
  <2>4. Len(handshakes') = i
    BY <1>3, <2>2, <2>3
  <2>5. \A k \in 1..i : handshakes'[k] = k
    BY <1>3, <2>2, <2>3
  <2> QED BY <2>1, <2>2, <2>4, <2>5 DEF Passed
<1>7. /\ \A k \in Hops : k # i => inQ'[k] = inQ[k] /\ auditorAt'[k] = auditorAt[k] /\ hop'[k] = hop[k]
      /\ Carries(inQ'[i], Accepted) /\ Open(inQ'[i]) /\ auditorAt'[i] = "idle"
  <2>1. \A k \in Hops : k # i => inQ'[k] = inQ[k] /\ auditorAt'[k] = auditorAt[k] /\ hop'[k] = hop[k]
    BY <1>1 DEF FlowInv, HandshakeTypeOK, HandshakeShapes
  <2>2. inQ'[i] = Append(<<>>, hop[i])
    BY <1>1, <1>5 DEF FlowInv, HandshakeShapes
  <2>3. auditorAt'[i] = "idle"
    BY <1>1 DEF FlowInv, HandshakeTypeOK
  <2> QED BY <1>5, <2>1, <2>2, <2>3, QueueTails
<1>8. HandshakeTypeOK'
  <2>1. auditorAt' \in [Hops -> {"idle", "signed", "ended", "failed", "closed"}]
    BY <1>1 DEF FlowInv, HandshakeTypeOK
  <2> QED BY <1>1, <1>6, <2>1 DEF FlowInv, HandshakeTypeOK
<1>9. HandshakeShapes'
  BY <1>1 DEF FlowInv, HandshakeShapes
<1>10. Counts'
  BY <1>1, <1>3, <1>5, <1>6 DEF FlowInv, Counts
<1>11. \A j \in Positions : StageFlow(j)'
  <2>1. TAKE j \in Positions
  <2>2. StageFlow(j)
    BY <1>2 DEF Flowing
  <2>3. CASE j = i + 1
    <3>1. stageAt[j] = "idle" /\ Produced < j
      BY <1>3, <1>5, <2>2, <2>3 DEF StageFlow
    <3>2. inQ'[j - 1] = inQ'[i] /\ j > 1 /\ j - 1 = i
      BY <2>3
    <3>3. Produced' < j /\ Passed' >= j - 1 /\ ~(Passed' < j - 1) /\ ~(Produced' >= j)
      BY <1>3, <1>5, <1>6, <3>2
    <3> QED BY <1>1, <1>7, <3>1, <3>2, <3>3 DEF StageFlow
  <2>4. CASE j # i + 1
    BY <1>1, <1>3, <1>5, <1>6, <1>7, <2>2, <2>4 DEF StageFlow
  <2> QED BY <2>3, <2>4
<1>12. \A k \in Hops : AuditorFlow(k)'
  <2>1. TAKE k \in Hops
  <2>2. AuditorFlow(k)
    BY <1>2 DEF Flowing
  <2>3. CASE k # i
    BY <1>1, <1>3, <1>5, <1>6, <1>7, <2>2, <2>3 DEF AuditorFlow
  <2>4. CASE k = i
    BY <1>1, <1>3, <1>5, <1>6, <1>7, <2>2, <2>4 DEF AuditorFlow
  <2> QED BY <2>3, <2>4
<1> QED BY <1>8, <1>9, <1>10, <1>11, <1>12 DEF FlowInv, Flowing

\* An auditor hands the sentinel on after its packet.
LEMMA PassSentinelFlows ==
    ASSUME FlowInv, NEW i \in Hops, PassSentinel(i)
    PROVE  FlowInv'
<1> USE DEF Positions, Hops
<1>1. /\ auditorAt[i] = "idle" /\ outQ[i] # <<>> /\ Head(outQ[i]) = None
      /\ outQ' = [outQ EXCEPT ![i] = Tail(outQ[i])]
      /\ inQ' = [inQ EXCEPT ![i] = Append(inQ[i], None)]
      /\ auditorAt' = [auditorAt EXCEPT ![i] = "ended"]
      /\ UNCHANGED <<policy, objects, buildFile, offices, lastAgent, audited, handshakes, stageAt,
                     given, hop, outputs, pipelineState, traceFile>>
  BY DEF PassSentinel, runStateVars
<1>2. Flowing
  BY <1>1 DEF FlowInv, AllClosed
<1>3. Produced \in Nat /\ Followed \in Nat /\ Passed \in Nat
  BY CountersNat
<1>4. Produced' = Produced /\ Followed' = Followed /\ Passed' = Passed
  BY <1>1 DEF Produced, Followed, Passed
<1>5. AuditorFlow(i)
  BY <1>2 DEF Flowing
<1>6. Passed >= i /\ Spent(outQ[i]) /\ Open(inQ[i])
  <2>1. Produced >= i
    BY <1>1, <1>3, <1>5 DEF AuditorFlow
  <2>2. Passed >= i
    BY <1>1, <1>3, <1>5, <2>1, QueueHeads DEF AuditorFlow
  <2> QED BY <1>1, <1>5, <2>2 DEF AuditorFlow
<1>7. /\ \A k \in Hops : k # i => /\ inQ'[k] = inQ[k] /\ outQ'[k] = outQ[k]
                                  /\ auditorAt'[k] = auditorAt[k]
      /\ auditorAt'[i] = "ended" /\ outQ'[i] = <<>>
      /\ Spent(inQ[i]) => Spent(inQ'[i])
      /\ Carries(inQ[i], Accepted) => Carries(inQ'[i], Accepted)
  <2>1. \A k \in Hops : k # i => /\ inQ'[k] = inQ[k] /\ outQ'[k] = outQ[k]
                                 /\ auditorAt'[k] = auditorAt[k]
    BY <1>1 DEF FlowInv, HandshakeTypeOK, HandshakeShapes
  <2>2. outQ'[i] = Tail(outQ[i]) /\ inQ'[i] = Append(inQ[i], None)
    BY <1>1 DEF FlowInv, HandshakeShapes
  <2>3. auditorAt'[i] = "ended"
    BY <1>1 DEF FlowInv, HandshakeTypeOK
  <2>4. outQ'[i] = <<>>
    BY <1>1, <1>6, <2>2, QueueHeads
  <2> QED BY <1>6, <2>1, <2>2, <2>3, <2>4, QueueTails
<1>8. HandshakeTypeOK'
  <2>1. auditorAt' \in [Hops -> {"idle", "signed", "ended", "failed", "closed"}]
    BY <1>1 DEF FlowInv, HandshakeTypeOK
  <2> QED BY <1>1, <2>1 DEF FlowInv, HandshakeTypeOK
<1>9. HandshakeShapes' /\ Counts'
  BY <1>1, <1>4 DEF FlowInv, HandshakeShapes, Counts
<1>10. \A j \in Positions : StageFlow(j)'
  <2>1. TAKE j \in Positions
  <2>2. StageFlow(j)
    BY <1>2 DEF Flowing
  <2>3. CASE j = i + 1
    BY <1>1, <1>4, <1>7, <2>2, <2>3 DEF StageFlow
  <2>4. CASE j # i + 1
    BY <1>1, <1>4, <1>7, <2>2, <2>4 DEF StageFlow
  <2> QED BY <2>3, <2>4
<1>11. \A k \in Hops : AuditorFlow(k)'
  <2>1. TAKE k \in Hops
  <2>2. AuditorFlow(k)
    BY <1>2 DEF Flowing
  <2>3. CASE k # i
    BY <1>1, <1>4, <1>7, <2>2, <2>3 DEF AuditorFlow
  <2>4. CASE k = i
    <3>1. Spent(outQ'[i]) /\ Open(outQ'[i]) /\ Produced >= i
      BY <1>3, <1>6, <1>7, QueueHeads DEF FlowInv, Counts
    <3> QED BY <1>1, <1>3, <1>4, <1>6, <1>7, <2>2, <2>4, <3>1 DEF AuditorFlow
  <2> QED BY <2>3, <2>4
<1> QED BY <1>8, <1>9, <1>10, <1>11 DEF FlowInv, Flowing

\* A failing stage keeps the packet; the verifier's trace comes after BOA.
LEMMA StageEndsFlow ==
    ASSUME FlowInv, (\E i \in Positions : StageFails(i)) \/ WriteTelemetryTrace
    PROVE  FlowInv'
<1> USE DEF Positions, Hops
<1>1. PICK i \in Positions, s \in {"failed", "traced"} :
         /\ \/ stageAt[i] = "busy" /\ s = "failed"
            \/ stageAt[i] = "ended" /\ i = 4 /\ s = "traced"
         /\ stageAt' = [stageAt EXCEPT ![i] = s]
         /\ traceFile' \in {traceFile, "audit"}
         /\ UNCHANGED <<policy, objects, buildFile, offices, lastAgent, audited, handshakes, outQ,
                        inQ, auditorAt, given, hop, outputs, pipelineState>>
  <2>1. CASE \E i \in Positions : StageFails(i)
    <3>1. PICK i \in Positions : StageFails(i)
      BY <2>1
    <3>2. /\ stageAt[i] = "busy" /\ stageAt' = [stageAt EXCEPT ![i] = "failed"]
          /\ traceFile' = traceFile
          /\ UNCHANGED <<policy, objects, buildFile, offices, lastAgent, audited, handshakes, outQ,
                         inQ, auditorAt, given, hop, outputs, pipelineState>>
      BY <3>1 DEF StageFails, runStateVars
    <3> QED BY <3>2
  <2>2. CASE WriteTelemetryTrace
    <3>1. /\ stageAt[4] = "ended" /\ stageAt' = [stageAt EXCEPT ![4] = "traced"]
          /\ traceFile' \in {traceFile, "audit"}
          /\ UNCHANGED <<policy, objects, buildFile, offices, lastAgent, audited, handshakes, outQ,
                         inQ, auditorAt, given, hop, outputs, pipelineState>>
      BY <2>2 DEF WriteTelemetryTrace, runStateVars
    <3> QED BY <3>1
  <2> QED BY <2>1, <2>2
<1>2. Flowing
  BY <1>1 DEF FlowInv, AllClosed
<1>3. Produced \in Nat /\ Followed \in Nat /\ Passed \in Nat
  BY CountersNat
<1>4. Produced' = Produced /\ Followed' = Followed /\ Passed' = Passed
  BY <1>1 DEF Produced, Followed, Passed
<1>5. stageAt'[i] = s /\ \A j \in Positions : j # i => stageAt'[j] = stageAt[j]
  BY <1>1 DEF FlowInv, HandshakeTypeOK
<1>6. HandshakeTypeOK'
  <2>1. stageAt' \in [Positions -> {"idle", "busy", "ended", "failed", "traced", "closed"}]
    BY <1>1 DEF FlowInv, HandshakeTypeOK
  <2>2. \A j \in Positions : stageAt'[j] = "busy" /\ j > 1 => given'[j] \in {"plain", "signed"}
    BY <1>1, <1>5 DEF FlowInv, HandshakeTypeOK
  <2> QED BY <1>1, <2>1, <2>2 DEF FlowInv, HandshakeTypeOK
<1>7. HandshakeShapes' /\ Counts'
  BY <1>1, <1>4 DEF FlowInv, HandshakeShapes, Counts
<1>8. \A j \in Positions : StageFlow(j)'
  <2>1. TAKE j \in Positions
  <2>2. StageFlow(j)
    BY <1>2 DEF Flowing
  <2> QED BY <1>1, <1>3, <1>4, <1>5, <2>2 DEF StageFlow
<1>9. \A k \in Hops : AuditorFlow(k)'
  <2>1. TAKE k \in Hops
  <2>2. AuditorFlow(k)
    BY <1>2 DEF Flowing
  <2> QED BY <1>1, <1>4, <1>5, <2>2 DEF AuditorFlow
<1> QED BY <1>6, <1>7, <1>8, <1>9 DEF FlowInv, Flowing

\* The finally clause and the dead halt close every task.
LEMMA CloseFlows ==
    ASSUME FlowInv, Complete \/ DeadHalt
    PROVE  FlowInv'
<1> USE DEF Positions, Hops
<1>1. /\ stageAt' = [i \in Positions |-> "closed"] /\ auditorAt' = [i \in Hops |-> "closed"]
      /\ traceFile' = "tracer" /\ pipelineState' \in {pipelineState, "DEAD_HALT"}
      /\ UNCHANGED <<policy, objects, buildFile, offices, lastAgent, audited, handshakes, outQ,
                     inQ, given, hop, outputs>>
  BY DEF Complete, DeadHalt, CloseTasks, runStateVars
<1>2. HandshakeTypeOK'
  BY <1>1 DEF FlowInv, HandshakeTypeOK
<1>3. HandshakeShapes' /\ Counts'
  BY <1>1 DEF FlowInv, HandshakeShapes, Counts, Produced, Followed, Passed
<1>4. AllClosed'
  BY <1>1 DEF AllClosed
<1> QED BY <1>2, <1>3, <1>4 DEF FlowInv

\* An office starts with ISA at work and every queue empty.
LEMMA FreshOfficeFlows ==
    ASSUME lastAgent = 0, audited = <<>>, handshakes = <<>>, outputs = <<>>,
           outQ = [i \in Hops |-> <<>>], inQ = [i \in Hops |-> <<>>],
           stageAt = [i \in Positions |-> IF i = 1 THEN "busy" ELSE "idle"],
           auditorAt = [i \in Hops |-> "idle"],
           given = [i \in Positions |-> None], hop = [i \in Hops |-> None],
           pipelineState = "RUNNING"
    PROVE  HandshakeShapes /\ Counts /\ Flowing
<1> USE DEF Positions, Hops
<1>1. Produced = 0 /\ Followed = 0 /\ Passed = 0
  BY DEF Produced, Followed, Passed
<1>2. HandshakeShapes
  BY DEF HandshakeShapes
<1>3. Counts
  BY <1>1 DEF Counts
<1>4. Flowing
  BY <1>1, QueueHeads DEF Flowing, StageFlow, AuditorFlow
<1> QED BY <1>2, <1>3, <1>4

\* The flow is right at the start, and every step keeps it so.
LEMMA FlowInductive ==
    /\ HandshakeInit => FlowInv
    /\ FlowInv /\ [HandshakeNext]_handshakeVars => FlowInv'
<1>1. HandshakeInit => FlowInv
  <2> SUFFICES ASSUME HandshakeInit PROVE FlowInv
    OBVIOUS
  <2>1. buildFile \in BOOLEAN
    BY Zenon DEF HandshakeInit
  <2>2. HandshakeTypeOK
    BY <2>1, OfficesAssumption DEF HandshakeInit, HandshakeTypeOK, Positions, Hops
  <2>3. HandshakeShapes /\ Counts /\ Flowing
    BY FreshOfficeFlows DEF HandshakeInit
  <2> QED BY <2>2, <2>3 DEF FlowInv
<1>2. FlowInv /\ UNCHANGED handshakeVars => FlowInv'
  <2> SUFFICES ASSUME FlowInv, UNCHANGED handshakeVars PROVE FlowInv'
    OBVIOUS
  <2> USE DEF handshakeVars
  <2>1. HandshakeTypeOK' /\ HandshakeShapes'
    BY DEF FlowInv, HandshakeTypeOK, HandshakeShapes
  <2>2. Produced' = Produced /\ Followed' = Followed /\ Passed' = Passed
    BY DEF Produced, Followed, Passed
  <2>3. Counts'
    BY <2>2 DEF FlowInv, Counts
  <2>4. AllClosed => AllClosed'
    BY DEF AllClosed
  <2>5. Flowing => Flowing'
    BY <2>2 DEF Flowing, StageFlow, AuditorFlow
  <2> QED BY <2>1, <2>3, <2>4, <2>5 DEF FlowInv
<1>3. FlowInv /\ OfficeAgain => FlowInv'
  <2> SUFFICES ASSUME FlowInv, OfficeAgain PROVE FlowInv'
    OBVIOUS
  <2> USE DEF Positions, Hops
  <2>1. /\ lastAgent' = 0 /\ audited' = <<>> /\ handshakes' = <<>> /\ outputs' = <<>>
        /\ outQ' = [i \in Hops |-> <<>>] /\ inQ' = [i \in Hops |-> <<>>]
        /\ stageAt' = [i \in Positions |-> IF i = 1 THEN "busy" ELSE "idle"]
        /\ auditorAt' = [i \in Hops |-> "idle"]
        /\ given' = [i \in Positions |-> None] /\ hop' = [i \in Hops |-> None]
        /\ pipelineState' = "RUNNING"
        /\ offices < MaxOffices /\ offices' = offices + 1
        /\ UNCHANGED <<policy, objects, buildFile, traceFile>>
    BY DEF OfficeAgain, FreshOffice
  <2>2. HandshakeTypeOK'
    BY <2>1, OfficesAssumption DEF FlowInv, HandshakeTypeOK
  <2>3. Produced' = 0 /\ Followed' = 0 /\ Passed' = 0
    BY <2>1 DEF Produced, Followed, Passed
  <2>4. HandshakeShapes' /\ Counts'
    BY <2>1, <2>3 DEF HandshakeShapes, Counts
  <2>5. Flowing'
    BY <2>1, <2>3, QueueHeads DEF Flowing, StageFlow, AuditorFlow
  <2> QED BY <2>2, <2>4, <2>5 DEF FlowInv
<1>4. FlowInv /\ HandshakeNext => FlowInv'
  BY <1>3, TakePacketFlows, TakeSentinelFlows, StageOutputFlows, AuditFlows, PassOnFlows,
     PassSentinelFlows, StageEndsFlow, CloseFlows DEF HandshakeNext, OfficeStep
<1> QED BY <1>1, <1>2, <1>4

\* The inductive invariant: where the one packet is.
THEOREM FlowInvariant == HandshakeSpec => []FlowInv
BY FlowInductive, PTL DEF HandshakeSpec

\* Types of the verifier, the queues' ends and the office's files, for every
\* set of policies and number of runs.
THEOREM HandshakeTypeCorrect == HandshakeSpec => []HandshakeTypeOK
<1>1. FlowInv => HandshakeTypeOK
  BY DEF FlowInv
<1> QED BY <1>1, FlowInvariant, PTL

\* Where the flow is right, a build was audited.
LEMMA FlowAudits == FlowInv => BuiltAfterAudits
<1> SUFFICES ASSUME FlowInv, stageAt[4] = "busy" \/ pipelineState = "COMPLETED"
             PROVE  /\ audited = <<1, 2, 3>> /\ handshakes = <<1, 2, 3>>
                    /\ ~GatherRaised
  BY DEF BuiltAfterAudits
<1> USE DEF Positions, Hops
<1>1. /\ Produced \in Nat /\ Followed \in Nat /\ Passed \in Nat
      /\ audited \in Seq(Hops) /\ handshakes \in Seq(Hops)
  BY CountersNat
<1>2. Produced >= 3 /\ Passed = 3 /\ Followed = 3
  <2>1. CASE stageAt[4] = "busy"
    <3>1. StageFlow(4)
      BY <2>1 DEF FlowInv, AllClosed, Flowing
    <3>2. Passed >= 3
      BY <1>1, <2>1, <3>1 DEF StageFlow
    <3> QED BY <1>1, <3>2 DEF FlowInv, Counts
  <2>2. CASE pipelineState = "COMPLETED"
    BY <1>1, <2>2 DEF FlowInv, Counts
  <2> QED BY <2>1, <2>2
<1>3. ASSUME NEW s \in Seq(Hops), Len(s) = 3, \A k \in 1..3 : s[k] = k
      PROVE  s = <<1, 2, 3>>
  BY <1>3
<1>4. audited = <<1, 2, 3>> /\ handshakes = <<1, 2, 3>>
  BY <1>1, <1>2, <1>3 DEF FlowInv, Counts, Followed, Passed
<1>5. ~GatherRaised
  <2>1. CASE AllClosed
    BY <2>1 DEF AllClosed, GatherRaised
  <2>2. CASE Flowing
    BY <1>1, <1>2, <2>2 DEF Flowing, StageFlow, AuditorFlow, GatherRaised
  <2> QED BY <2>1, <2>2 DEF FlowInv
<1> QED BY <1>4, <1>5

\* For every policy, every content of the cache and any number of runs: BOA
\* works, and the pipeline is COMPLETED, only after three hand-offs, each
\* followed by the verifier and signed off once, in order; and then no other
\* task is left that could raise.
THEOREM BuildsAreAudited == HandshakeSpec => []BuiltAfterAudits
BY FlowAudits, FlowInvariant, PTL

-----------------------------------------------------------------------------
(***************************************************************************)
(* The rollup engine.                                                      *)
(***************************************************************************)

\* The transactions ingested, in the order of their numbers: each has a place in
\* the journal, whether or not its line is one the readers accept.
Numbered == [i \in DOMAIN journal |-> [seq |-> journal[i].seq, id |-> journal[i].id]]

\* Those that are not pending any more: those of the batches.
Cut == Len(Numbered) - Len(pending)

First(txs) == txs[1].seq

\* The transactions are numbered from 1, and no id is among them twice.
NumberedInv ==
    /\ nextSeq = Len(Numbered) + 1
    /\ \A i \in DOMAIN Numbered : Numbered[i].seq = i
    /\ \A i, j \in DOMAIN Numbered : i # j => Numbered[i].id # Numbered[j].id
    /\ \A i \in DOMAIN Numbered :
          /\ Numbered[i].id \in Traces => Numbered[i].id \in ingested
          /\ Numbered[i].id \in Callers => caller[Numbered[i].id] # "idle"

\* What is pending is the end of them.
PendingInv ==
    /\ Cut >= 0
    /\ \A k \in DOMAIN pending : pending[k] = Numbered[Cut + k]

\* A batch is a slice of the rest, and a later batch a later slice.
SliceOf(txs, lines, cut) ==
    /\ Len(txs) >= 1 /\ First(txs) >= 1 /\ First(txs) + Len(txs) - 1 <= cut
    /\ \A k \in DOMAIN txs : txs[k] = lines[First(txs) + k - 1]

SlicesInv ==
    /\ \A b \in DOMAIN batches : SliceOf(batches[b].txs, Numbered, Cut)
    /\ \A a, b \in DOMAIN batches :
          a < b => First(batches[a].txs) + Len(batches[a].txs) <= First(batches[b].txs)

JournalInv == NumberedInv /\ PendingInv /\ SlicesInv

\* Unless an append raised, every line with an id is accepted.
LinesInv ==
    /\ IsFiniteSet(raised)
    /\ raised = {} => /\ torn = FALSE
                      /\ \A i \in DOMAIN journal :
                            journal[i].id \notin Anonymous => journal[i].accepted = TRUE

\* A candidate has bound a ledger head, and keeps it once committed.
RootInv ==
    /\ \A b \in candidates : batches[b].state # "taken"
    /\ \A h \in DOMAIN ledger : ledger[h] # 0 =>
          /\ ledger[h] \in DOMAIN batches
          /\ batches[ledger[h]].state # "taken" /\ batches[ledger[h]].root = h - 1

RollupInv == RollupTypeOK /\ RootInv /\ LinesInv /\ (restarts = 0 => JournalInv)

\* A function on 1..n is a sequence.
LEMMA FunctionIsSeq ==
    ASSUME NEW S, NEW n \in Nat, NEW f \in [1..n -> S]
    PROVE  f \in Seq(S) /\ Len(f) = n /\ DOMAIN f = 1..n
BY SeqDef

\* Position u of a block of m lines from f on is in every range that holds the
\* block, and before every later block.
LEMMA InBlock ==
    ASSUME NEW f \in Int, NEW m \in Int, NEW k \in Int, NEW u \in Int,
           f >= 1, f + m - 1 <= k, 1 <= u, u <= m
    PROVE  f + u - 1 \in 1..k
OBVIOUS

LEMMA BlockEnds ==
    ASSUME NEW f \in Int, NEW m \in Int, NEW k \in Int, NEW n \in Nat, f + m - 1 <= k
    PROVE  f + m - 1 <= k + n /\ f + m <= k + 1
OBVIOUS

\* The numbered transactions are a sequence as long as the journal.
LEMMA NumberedSeq ==
    ASSUME RollupTypeOK
    PROVE  /\ Numbered \in Seq(Transactions) /\ Len(Numbered) = Len(journal)
           /\ DOMAIN Numbered = 1..Len(journal) /\ DOMAIN journal = 1..Len(journal)
           /\ Len(journal) \in Nat
           /\ \A i \in 1..Len(journal) :
                 /\ Numbered[i].seq = journal[i].seq /\ Numbered[i].id = journal[i].id
                 /\ journal[i] \in JournalLines
<1>1. journal \in Seq(JournalLines)
  BY DEF RollupTypeOK
<1>2. /\ DOMAIN journal = 1..Len(journal) /\ Len(journal) \in Nat
      /\ \A i \in 1..Len(journal) : journal[i] \in JournalLines
  BY <1>1, LenProperties, ElementOfSeq
<1>3. Numbered \in [1..Len(journal) -> Transactions]
  BY <1>2 DEF Numbered, JournalLines, Transactions
<1>4. Numbered \in Seq(Transactions) /\ Len(Numbered) = Len(journal)
      /\ DOMAIN Numbered = 1..Len(journal)
  BY <1>2, <1>3, FunctionIsSeq
<1> QED BY <1>2, <1>4 DEF Numbered

\* A slice agrees with what verify_rollup_payload finds in the journal exactly
\* when every line of the slice is accepted.
LEMMA SliceMatches ==
    ASSUME RollupTypeOK, JournalInv, NEW txs \in Seq(Transactions), SliceOf(txs, Numbered, Cut)
    PROVE  /\ MatchesJournal(txs) <=> Mirrored(txs)
           /\ (\A i \in DOMAIN journal : journal[i].id \in IdsOf(txs) => journal[i].accepted = TRUE)
                  => Mirrored(txs)
<1> DEFINE s == First(txs)
           e == First(txs) + Len(txs) - 1
           ok == \A i \in s..e : journal[i].accepted = TRUE
<1>1. /\ Len(txs) \in Nat /\ DOMAIN txs = 1..Len(txs) /\ txs[1] \in Transactions
      /\ Len(journal) \in Nat /\ DOMAIN journal = 1..Len(journal)
      /\ Len(pending) \in Nat /\ Len(Numbered) = Len(journal)
  BY LenProperties, ElementOfSeq, NumberedSeq DEF RollupTypeOK, SliceOf
<1>2. s \in Nat \ {0} /\ e \in Nat /\ s <= e /\ e <= Len(journal) /\ Len(txs) = e - s + 1
  BY <1>1 DEF SliceOf, Cut, First, Transactions
<1>3. \A k \in 1..Len(txs) : txs[k] = Numbered[s + k - 1]
  BY <1>1 DEF SliceOf
<1> HIDE DEF s, e
<1>4. \A i \in 1..Len(journal) : /\ journal[i].seq = i /\ Numbered[i].seq = i
                                 /\ Numbered[i].id = journal[i].id
                                 /\ journal[i] \in JournalLines
  <2>1. \A i \in 1..Len(journal) : Numbered[i].seq = i
    BY NumberedSeq DEF JournalInv, NumberedInv
  <2> QED BY <2>1, NumberedSeq
<1>5. Seqs(txs) = s..e
  <2>0. \A k \in 1..Len(txs) : s + k - 1 \in 1..Len(journal)
    BY <1>1, <1>2
  <2>1. \A k \in 1..Len(txs) : txs[k].seq = s + k - 1
    BY ONLY <1>3, <1>4, <2>0
  <2>2. \A n \in s..e : n - s + 1 \in 1..Len(txs) /\ txs[n - s + 1].seq = n
    <3>1. \A n \in s..e : n - s + 1 \in 1..Len(txs) /\ s + (n - s + 1) - 1 = n
      BY ONLY <1>1, <1>2
    <3> QED BY ONLY <2>1, <3>1
  <2>3. \A k \in 1..Len(txs) : txs[k].seq \in s..e
    <3>1. \A k \in 1..Len(txs) : s + k - 1 \in s..e
      BY ONLY <1>1, <1>2
    <3> QED BY ONLY <2>1, <3>1
  <2>4. Seqs(txs) = {txs[k].seq : k \in 1..Len(txs)}
    BY <1>1 DEF Seqs
  <2> QED BY <2>2, <2>3, <2>4
<1>6. SeqStart(txs) = s /\ SeqEnd(txs) = e
  <2>1. \A m \in s..e : (\A k \in s..e : m <= k) <=> m = s
    BY <1>2
  <2>2. \A m \in s..e : (\A k \in s..e : m >= k) <=> m = e
    BY <1>2
  <2> QED BY <1>2, <1>5, <2>1, <2>2 DEF SeqStart, SeqEnd
<1>7. \A i \in s..e : i \in 1..Len(journal)
  BY <1>1, <1>2
<1>8. JournalSlice(txs) = {i \in s..e : journal[i].accepted}
  BY <1>1, <1>4, <1>6, <1>7 DEF JournalSlice
<1>9. Cardinality(s..e) = Len(txs) /\ IsFiniteSet(s..e)
  <2>1. s \in Int /\ e \in Int /\ ~(s > e) /\ e - s + 1 = Len(txs)
    BY ONLY <1>2
  <2> QED BY ONLY <2>1, FS_Interval
<1>10. /\ \A i \in s..e : /\ i - s + 1 \in 1..Len(txs)
                          /\ txs[i - s + 1].seq = i /\ txs[i - s + 1].id = journal[i].id
       /\ \A k \in 1..Len(txs) : /\ s + k - 1 \in s..e
                                 /\ txs[k].seq = s + k - 1 /\ txs[k].id = journal[s + k - 1].id
  <2>1. \A i \in s..e : i - s + 1 \in 1..Len(txs) /\ s + (i - s + 1) - 1 = i
    BY ONLY <1>1, <1>2
  <2>2. \A k \in 1..Len(txs) : s + k - 1 \in s..e
    BY ONLY <1>1, <1>2
  <2>3. \A k \in 1..Len(txs) : txs[k].seq = s + k - 1 /\ txs[k].id = journal[s + k - 1].id
    BY ONLY <1>3, <1>4, <1>7, <2>2
  <2>4. \A i \in s..e : txs[i - s + 1].seq = i /\ txs[i - s + 1].id = journal[i].id
    BY ONLY <2>1, <2>3
  <2> QED BY ONLY <2>1, <2>2, <2>3, <2>4
<1>11. {journal[i].id : i \in s..e} = IdsOf(txs)
  <2>1. \A i \in s..e : journal[i].id \in {txs[k].id : k \in 1..Len(txs)}
    BY ONLY <1>10
  <2>2. \A k \in 1..Len(txs) : txs[k].id \in {journal[i].id : i \in s..e}
    BY ONLY <1>10
  <2>3. IdsOf(txs) = {txs[k].id : k \in 1..Len(txs)}
    BY <1>1 DEF IdsOf
  <2> QED BY ONLY <2>1, <2>2, <2>3
<1>12. MatchesJournal(txs) => ok
  <2> SUFFICES ASSUME MatchesJournal(txs), NEW i \in s..e PROVE journal[i].accepted = TRUE
    OBVIOUS
  <2> DEFINE T == {j \in s..e : journal[j].accepted}
  <2>1. T \in SUBSET (s..e) /\ Cardinality(T) = Cardinality(s..e)
    BY <1>8, <1>9 DEF MatchesJournal
  <2>2. T = s..e
    <3> HIDE DEF T
    <3> QED BY <1>9, <2>1, FS_Subset
  <2>3. journal[i].accepted /\ journal[i] \in JournalLines
    BY <1>4, <1>7, <2>2
  <2> QED BY <2>3 DEF JournalLines
<1>13. ok => MatchesJournal(txs)
  <2> SUFFICES ASSUME ok PROVE MatchesJournal(txs)
    OBVIOUS
  <2>1. JournalSlice(txs) = s..e
    BY <1>8
  <2> QED BY <1>9, <1>11, <2>1 DEF MatchesJournal
<1>14. Mirrored(txs) => ok
  <2> SUFFICES ASSUME Mirrored(txs), NEW i \in s..e PROVE journal[i].accepted = TRUE
    OBVIOUS
  <2> DEFINE k == i - s + 1
  <2>1. k \in DOMAIN txs /\ txs[k].seq = i
    BY <1>1, <1>10
  <2> HIDE DEF k
  <2>2. PICK j \in DOMAIN journal :
          [seq |-> txs[k].seq, id |-> txs[k].id, accepted |-> TRUE] = journal[j]
    BY <2>1 DEF Mirrored
  <2>3. journal[j].seq = i /\ journal[j].accepted = TRUE
    BY <2>1, <2>2
  <2>4. j = i
    BY <1>1, <1>4, <2>3
  <2> QED BY <2>3, <2>4
<1>15. ok => Mirrored(txs)
  <2> SUFFICES ASSUME ok, NEW k \in DOMAIN txs
               PROVE  [seq |-> txs[k].seq, id |-> txs[k].id, accepted |-> TRUE]
                          \in {journal[j] : j \in DOMAIN journal}
    BY DEF Mirrored
  <2> DEFINE i == s + k - 1
  <2>1. i \in s..e /\ txs[k].seq = i /\ txs[k].id = journal[i].id
    BY <1>1, <1>10
  <2> HIDE DEF i
  <2>2. journal[i].accepted = TRUE /\ journal[i].seq = i /\ journal[i] \in JournalLines
        /\ i \in DOMAIN journal
    BY <1>1, <1>4, <1>7, <2>1
  <2>3. journal[i] = [seq |-> txs[k].seq, id |-> txs[k].id, accepted |-> TRUE]
    BY <2>1, <2>2 DEF JournalLines
  <2> QED BY <2>2, <2>3
<1>16. (\A i \in DOMAIN journal : journal[i].id \in IdsOf(txs) => journal[i].accepted = TRUE) => ok
  BY <1>1, <1>7, <1>11
<1> QED BY <1>12, <1>13, <1>14, <1>15, <1>16

\* Steps that cut off no batch and ingest nothing: only states, roots, heights
\* and answers of the flushes change, and no caller becomes idle.
LEMMA JournalFrame ==
    ASSUME JournalInv, UNCHANGED <<nextSeq, pending, fileVars, ingested>>,
           DOMAIN batches' = DOMAIN batches,
           \A b \in DOMAIN batches : batches'[b].txs = batches[b].txs,
           \A c \in Callers : caller[c] # "idle" => caller'[c] # "idle"
    PROVE  JournalInv'
<1>1. Numbered' = Numbered /\ Cut' = Cut
  BY DEF Cut, Numbered, fileVars
<1>2. NumberedInv'
  BY <1>1 DEF JournalInv, NumberedInv
<1>3. PendingInv'
  BY <1>1 DEF JournalInv, PendingInv
<1>4. SlicesInv'
  BY <1>1 DEF JournalInv, SlicesInv, SliceOf, First
<1> QED BY <1>2, <1>3, <1>4 DEF JournalInv

\* An append leaves the transactions in the journal with the new one behind
\* them, whether it raises or not, and spoils at most the line before.
LEMMA AppendLines ==
    ASSUME RollupTypeOK, LinesInv, NEW id \in Ids,
           (WriteLine(id) /\ UNCHANGED raised) \/ AppendRaises(id)
    PROVE  /\ journal' \in Seq(JournalLines) /\ torn' \in BOOLEAN /\ raised' \subseteq Ids
           /\ Numbered' = Append(Numbered, [seq |-> nextSeq, id |-> id])
           /\ LinesInv'
<1>1. /\ journal \in Seq(JournalLines) /\ nextSeq \in Nat \ {0} /\ torn \in BOOLEAN
      /\ raised \subseteq Ids /\ Len(journal) \in Nat /\ DOMAIN journal = 1..Len(journal)
      /\ \A i \in 1..Len(journal) : journal[i] \in JournalLines
  <2>1. journal \in Seq(JournalLines)
    BY DEF RollupTypeOK
  <2> QED BY <2>1, LenProperties, ElementOfSeq DEF RollupTypeOK
<1> DEFINE spoiled == [journal EXCEPT ![Len(journal)].accepted = FALSE]
           t == [seq |-> nextSeq, id |-> id]
           n == Len(journal)
<1>2. ASSUME NEW old \in {journal, spoiled}, NEW a \in BOOLEAN,
             journal' = Append(old, [seq |-> nextSeq, id |-> id, accepted |-> a])
      PROVE  /\ journal' \in Seq(JournalLines)
             /\ Numbered' = Append(Numbered, t)
             /\ old = journal => \A i \in DOMAIN journal' :
                  journal'[i] = IF i = n + 1 THEN [seq |-> nextSeq, id |-> id, accepted |-> a]
                                             ELSE journal[i]
  <2>1. /\ old \in Seq(JournalLines) /\ Len(old) = n
        /\ \A i \in 1..n : old[i].seq = journal[i].seq /\ old[i].id = journal[i].id
    <3>1. CASE old = journal
      BY <1>1, <3>1
    <3>2. CASE old = spoiled
      <4>1. old \in [1..n -> JournalLines]
        BY <1>1, <3>2 DEF JournalLines
      <4>2. \A i \in 1..n : old[i].seq = journal[i].seq /\ old[i].id = journal[i].id
        BY <1>1, <3>2 DEF JournalLines
      <4> QED BY <1>1, <4>1, <4>2, FunctionIsSeq
    <3> QED BY <3>1, <3>2
  <2> DEFINE l == [seq |-> nextSeq, id |-> id, accepted |-> a]
  <2>2. l \in JournalLines /\ t \in Transactions
    BY <1>1 DEF JournalLines, Transactions
  <2>3. /\ journal' \in Seq(JournalLines) /\ Len(journal') = n + 1 /\ DOMAIN journal' = 1..(n + 1)
        /\ \A i \in 1..n : journal'[i] = old[i]
        /\ journal'[n + 1] = l
    <3> HIDE DEF l
    <3>1. journal' = Append(old, l)
      BY <1>2 DEF l
    <3> QED BY <2>1, <2>2, <3>1, AppendProperties, LenProperties
  <2>4. Numbered \in Seq(Transactions) /\ Len(Numbered) = n /\ DOMAIN Numbered = 1..n
    BY NumberedSeq
  <2>5. /\ Append(Numbered, t) \in Seq(Transactions) /\ DOMAIN Append(Numbered, t) = 1..(n + 1)
        /\ \A i \in 1..n : Append(Numbered, t)[i] = Numbered[i]
        /\ Append(Numbered, t)[n + 1] = t
    <3> HIDE DEF t
    <3> QED BY <2>2, <2>4, AppendProperties, LenProperties
  <2>6. Numbered' = [i \in 1..(n + 1) |-> [seq |-> journal'[i].seq, id |-> journal'[i].id]]
    BY <2>3 DEF Numbered
  <2>7. ASSUME NEW i \in 1..(n + 1)
        PROVE  [seq |-> journal'[i].seq, id |-> journal'[i].id] = Append(Numbered, t)[i]
    <3>1. CASE i = n + 1
      BY <2>3, <2>5, <3>1
    <3>2. CASE i \in 1..n
      <4>1. Numbered[i] = [seq |-> journal[i].seq, id |-> journal[i].id]
        BY <1>1, <3>2 DEF Numbered
      <4> QED BY <2>1, <2>3, <2>5, <3>2, <4>1
    <3>3. i = n + 1 \/ i \in 1..n
      BY ONLY <1>1, <2>7
    <3> QED BY ONLY <3>1, <3>2, <3>3
  <2>8. Numbered' = Append(Numbered, t)
    <3> DEFINE g == Append(Numbered, t)
    <3>1. g = [i \in 1..(n + 1) |-> g[i]]
      BY <2>5
    <3> HIDE DEF g
    <3>2. \A i \in 1..(n + 1) : [seq |-> journal'[i].seq, id |-> journal'[i].id] = g[i]
      BY <2>7 DEF g
    <3> QED BY <2>6, <3>1, <3>2 DEF g
  <2> QED BY <1>1, <2>3, <2>8
<1>3. ASSUME NEW acc \in BOOLEAN, AppendLine(id, acc)
      PROVE  /\ journal' \in Seq(JournalLines)
             /\ Numbered' = Append(Numbered, t)
             /\ torn = FALSE => \A i \in DOMAIN journal' :
                  journal'[i] = IF i = n + 1 THEN [seq |-> nextSeq, id |-> id, accepted |-> acc]
                                             ELSE journal[i]
  <2>1. CASE torn = TRUE
    <3>1. journal' = Append(spoiled, [seq |-> nextSeq, id |-> id, accepted |-> FALSE])
      BY <1>3, <2>1 DEF AppendLine
    <3> QED BY <1>2, <2>1, <3>1
  <2>2. CASE torn = FALSE
    <3>1. journal' = Append(journal, [seq |-> nextSeq, id |-> id, accepted |-> acc])
      BY <1>3, <2>2 DEF AppendLine
    <3> QED BY <1>2, <2>2, <3>1
  <2> QED BY <1>1, <2>1, <2>2
<1>4. CASE WriteLine(id) /\ UNCHANGED raised
  <2> DEFINE acc == id \notin Anonymous
  <2>1. AppendLine(id, acc) /\ torn' = FALSE /\ raised' = raised
    BY <1>4 DEF WriteLine
  <2>2. acc \in BOOLEAN
    OBVIOUS
  <2> HIDE DEF acc
  <2>3. /\ journal' \in Seq(JournalLines)
        /\ Numbered' = Append(Numbered, t)
        /\ torn = FALSE => \A i \in DOMAIN journal' :
             journal'[i] = IF i = n + 1 THEN [seq |-> nextSeq, id |-> id, accepted |-> acc]
                                        ELSE journal[i]
    BY <1>3, <2>1, <2>2
  <2>4. ASSUME raised' = {}, NEW i \in DOMAIN journal', journal'[i].id \notin Anonymous
        PROVE  journal'[i].accepted = TRUE
    <3>1. torn = FALSE /\ \A j \in DOMAIN journal :
                              journal[j].id \notin Anonymous => journal[j].accepted = TRUE
      BY <2>1, <2>4 DEF LinesInv
    <3>2. CASE i = n + 1
      <4>1. journal'[i] = [seq |-> nextSeq, id |-> id, accepted |-> acc]
        BY <2>3, <3>1, <3>2
      <4>2. id \notin Anonymous /\ journal'[i].accepted = acc
        BY <2>4, <4>1
      <4> QED BY <4>2 DEF acc
    <3>3. CASE i # n + 1
      <4>1. journal'[i] = journal[i]
        BY <2>3, <3>1, <3>3
      <4>2. i \in DOMAIN journal
        <5>1. DOMAIN journal' = 1..(n + 1)
          <6>1. DOMAIN journal' = DOMAIN Numbered'
            BY DEF Numbered
          <6>2. Numbered \in Seq(Transactions) /\ t \in Transactions /\ Len(Numbered) = n
            BY <1>1, NumberedSeq DEF Transactions
          <6> HIDE DEF t
          <6> QED BY <2>3, <6>1, <6>2, AppendProperties, LenProperties
        <5> QED BY <1>1, <3>3, <5>1
      <4> QED BY <2>4, <3>1, <4>1, <4>2
    <3> QED BY <3>2, <3>3
  <2>5. LinesInv'
    BY <2>1, <2>4 DEF LinesInv
  <2> QED BY <1>1, <2>1, <2>3, <2>5
<1>5. CASE AppendRaises(id)
  <2>1. raised' = raised \cup {id} /\ torn' \in BOOLEAN
    BY <1>1, <1>5 DEF AppendRaises, WriteLine
  <2>2. \/ journal' = Append(journal, [seq |-> nextSeq, id |-> id, accepted |-> FALSE])
        \/ \E acc \in BOOLEAN : AppendLine(id, acc)
    BY <1>5 DEF AppendRaises, WriteLine
  <2>3. journal' \in Seq(JournalLines) /\ Numbered' = Append(Numbered, t)
    BY <1>2, <1>3, <2>2
  <2>4. LinesInv'
    BY <2>1, FS_AddElement DEF LinesInv
  <2> QED BY <1>1, <2>1, <2>3, <2>4
<1> QED BY <1>4, <1>5

\* ingest_transaction numbers the transaction and mirrors it in the journal.
LEMMA IngestKeeps ==
    ASSUME RollupInv, NEW id \in Ids, Ingest(id) \/ IngestRaises(id),
           id \in Traces => id \notin ingested, id \in Callers => caller[id] = "idle",
           id \in Traces => id \in ingested', ingested \subseteq ingested',
           id \in Callers => caller'[id] # "idle",
           \A c \in Callers : caller[c] # "idle" => caller'[c] # "idle",
           batches' = batches, restarts = 0
    PROVE  JournalInv'
<1> DEFINE t == [seq |-> nextSeq, id |-> id]
<1>1. /\ pending \in Seq(Transactions) /\ Numbered \in Seq(Transactions) /\ t \in Transactions
      /\ nextSeq \in Nat
  BY NumberedSeq DEF RollupInv, RollupTypeOK, Transactions
<1>2. JournalInv
  BY DEF RollupInv
<1>3. /\ pending' = Append(pending, t) /\ Numbered' = Append(Numbered, t) /\ nextSeq' = nextSeq + 1
  BY AppendLines DEF Ingest, IngestRaises, Number, RollupInv
<1> HIDE DEF t
<1>4. /\ Len(Numbered) \in Nat /\ DOMAIN Numbered = 1..Len(Numbered)
      /\ Len(Numbered') = Len(Numbered) + 1 /\ DOMAIN Numbered' = 1..(Len(Numbered) + 1)
      /\ \A i \in 1..Len(Numbered) : Numbered'[i] = Numbered[i]
      /\ Numbered'[Len(Numbered) + 1] = t
  BY <1>1, <1>3, AppendProperties, LenProperties
<1>5. /\ Len(pending) \in Nat /\ DOMAIN pending = 1..Len(pending)
      /\ Len(pending') = Len(pending) + 1 /\ DOMAIN pending' = 1..(Len(pending) + 1)
      /\ \A i \in 1..Len(pending) : pending'[i] = pending[i]
      /\ pending'[Len(pending) + 1] = t
  BY <1>1, <1>3, AppendProperties, LenProperties
<1>6. Cut' = Cut /\ Cut \in Nat
  BY <1>2, <1>4, <1>5 DEF Cut, JournalInv, PendingInv
<1>7. NumberedInv'
  <2>1. t.seq = Len(Numbered) + 1 /\ t.id = id /\ nextSeq = Len(Numbered) + 1
    BY <1>2 DEF t, JournalInv, NumberedInv
  <2>2. \A i \in 1..Len(Numbered) : Numbered[i].id # id
    <3>1. \A i \in 1..Len(Numbered) :
            /\ Numbered[i].id \in Traces => Numbered[i].id \in ingested
            /\ Numbered[i].id \in Callers => caller[Numbered[i].id] # "idle"
      BY ONLY <1>2, <1>4, Zenon DEF JournalInv, NumberedInv
    <3>2. (id \in Traces /\ id \notin ingested) \/ (id \in Callers /\ caller[id] = "idle")
      BY DEF Ids
    <3> QED BY ONLY <3>1, <3>2
  <2>3. nextSeq' = Len(Numbered') + 1 /\ \A i \in DOMAIN Numbered' : Numbered'[i].seq = i
    BY <1>2, <1>3, <1>4, <2>1 DEF JournalInv, NumberedInv
  <2>4. \A i, j \in DOMAIN Numbered' : i # j => Numbered'[i].id # Numbered'[j].id
    BY <1>2, <1>4, <2>1, <2>2 DEF JournalInv, NumberedInv
  <2>5. \A i \in DOMAIN Numbered' :
            /\ Numbered'[i].id \in Traces => Numbered'[i].id \in ingested'
            /\ Numbered'[i].id \in Callers => caller'[Numbered'[i].id] # "idle"
    <3>1. \A i \in 1..Len(Numbered) :
            /\ Numbered[i].id \in Traces => Numbered[i].id \in ingested
            /\ Numbered[i].id \in Callers => caller[Numbered[i].id] # "idle"
      BY ONLY <1>2, <1>4, Zenon DEF JournalInv, NumberedInv
    <3>2. \A i \in 1..Len(Numbered) :
            /\ Numbered'[i].id \in Traces => Numbered'[i].id \in ingested'
            /\ Numbered'[i].id \in Callers => caller'[Numbered'[i].id] # "idle"
      <4>1. \A i \in 1..Len(Numbered) : Numbered'[i].id = Numbered[i].id
        BY ONLY <1>4
      <4>2. ingested \subseteq ingested' /\ \A c \in Callers : caller[c] # "idle" => caller'[c] # "idle"
        OBVIOUS
      <4> QED BY ONLY <3>1, <4>1, <4>2
    <3>3. Numbered'[Len(Numbered) + 1].id = id
      BY <1>4, <2>1
    <3>4. /\ id \in Traces => id \in ingested'
          /\ id \in Callers => caller'[id] # "idle"
      OBVIOUS
    <3>5. \A i \in DOMAIN Numbered' : i \in 1..Len(Numbered) \/ i = Len(Numbered) + 1
      BY ONLY <1>4
    <3> QED BY ONLY <3>2, <3>3, <3>4, <3>5
  <2> QED BY <2>3, <2>4, <2>5 DEF NumberedInv
<1>8. PendingInv'
  <2>1. \A k \in 1..Len(pending) : Cut + k \in 1..Len(Numbered) /\ pending'[k] = Numbered'[Cut + k]
    <3>1. \A k \in 1..Len(pending) : Cut + k \in 1..Len(Numbered)
      BY <1>4, <1>5, <1>6 DEF Cut
    <3>2. \A k \in 1..Len(pending) : pending[k] = Numbered[Cut + k]
      BY <1>2, <1>5 DEF JournalInv, PendingInv
    <3> QED BY <1>4, <1>5, <3>1, <3>2
  <2>2. Cut + (Len(pending) + 1) = Len(Numbered) + 1
    BY <1>4, <1>5 DEF Cut
  <2> QED BY <1>4, <1>5, <1>6, <2>1, <2>2 DEF PendingInv
<1>9. SlicesInv'
  <2>1. ASSUME NEW b \in DOMAIN batches PROVE SliceOf(batches[b].txs, Numbered', Cut)
    <3> DEFINE x == batches[b].txs
    <3>1. x \in Seq(Transactions)
      <4>1. batches[b] \in Flushes
        BY DEF RollupInv, RollupTypeOK
      <4> QED BY <4>1 DEF Flushes
    <3>2. SliceOf(x, Numbered, Cut)
      BY <1>2 DEF JournalInv, SlicesInv
    <3> HIDE DEF x
    <3>3. DOMAIN x = 1..Len(x) /\ Len(x) \in Nat /\ x[1] \in Transactions
      BY <3>1, <3>2, LenProperties, ElementOfSeq DEF SliceOf
    <3>4. First(x) \in Nat
      BY <3>3 DEF First, Transactions
    <3>5. \A k \in DOMAIN x : First(x) + k - 1 \in 1..Len(Numbered)
      BY <1>4, <1>5, <3>2, <3>3, <3>4 DEF SliceOf, Cut
    <3>6. SliceOf(x, Numbered', Cut)
      BY <1>4, <3>2, <3>5 DEF SliceOf
    <3> QED BY <3>6 DEF x
  <2> QED BY <1>2, <1>6, <2>1 DEF JournalInv, SlicesInv
<1> QED BY <1>7, <1>8, <1>9 DEF JournalInv

\* Cutting off the first n pending transactions makes the next slice.
LEMMA CutKeeps ==
    ASSUME RollupInv, restarts = 0, UNCHANGED <<nextSeq, fileVars, ingested>>,
           \A c \in Callers : caller[c] # "idle" => caller'[c] # "idle",
           NEW n \in Nat \ {0}, n <= Len(pending), NEW ws \in Seq(Callers),
           batches' = Append(batches, TakenBy(SubSeq(pending, 1, n), ws)),
           pending' = SubSeq(pending, n + 1, Len(pending))
    PROVE  JournalInv'
<1> DEFINE x == SubSeq(pending, 1, n)
           new == TakenBy(x, ws)
<1>0. Numbered' = Numbered
  BY DEF Numbered, fileVars
<1>1. /\ pending \in Seq(Transactions) /\ Numbered \in Seq(Transactions) /\ batches \in Seq(Flushes)
      /\ JournalInv
  BY NumberedSeq DEF RollupInv, RollupTypeOK
<1>2. /\ Len(Numbered) \in Nat /\ DOMAIN Numbered = 1..Len(Numbered)
      /\ Len(pending) \in Nat /\ DOMAIN pending = 1..Len(pending)
      /\ Len(batches) \in Nat /\ DOMAIN batches = 1..Len(batches)
      /\ \A k \in 1..Len(pending) : pending[k] \in Transactions
  BY <1>1, LenProperties, ElementOfSeq
<1>3. /\ x \in Seq(Transactions) /\ Len(x) = n /\ DOMAIN x = 1..n
      /\ \A k \in 1..n : x[k] = pending[k]
  <2>1. /\ x \in Seq(Transactions) /\ Len(x) = n /\ \A k \in 1..n : x[k] = pending[k]
    BY <1>2, SubSeqProperties
  <2> QED BY <2>1, LenProperties
<1>4. /\ pending' \in Seq(Transactions) /\ Len(pending') = Len(pending) - n
      /\ DOMAIN pending' = 1..(Len(pending) - n)
      /\ \A k \in 1..(Len(pending) - n) : pending'[k] = pending[n + k]
  <2> DEFINE y == SubSeq(pending, n + 1, Len(pending))
  <2>1. n + 1 \in Int /\ Len(pending) \in Int /\ \A k \in (n + 1)..Len(pending) : pending[k] \in Transactions
    BY <1>2
  <2>2. /\ y \in Seq(Transactions)
        /\ Len(y) = IF n + 1 <= Len(pending) THEN Len(pending) - (n + 1) + 1 ELSE 0
        /\ \A k \in 1..(Len(pending) - (n + 1) + 1) : y[k] = pending[(n + 1) + k - 1]
    BY ONLY <2>1, SubSeqProperties
  <2>3. y = pending'
    OBVIOUS
  <2> HIDE DEF y
  <2>4. Len(y) = Len(pending) - n
    <3>1. ASSUME NEW L \in Nat, n <= L
          PROVE  (IF n + 1 <= L THEN L - (n + 1) + 1 ELSE 0) = L - n
      BY <3>1
    <3> QED BY <1>2, <2>2, <3>1
  <2>5. \A k \in 1..(Len(pending) - n) : y[k] = pending[n + k]
    <3>1. \A k \in 1..(Len(pending) - n) :
            k \in 1..(Len(pending) - (n + 1) + 1) /\ (n + 1) + k - 1 = n + k
      BY <1>2
    <3> QED BY <2>2, <3>1
  <2> QED BY <2>2, <2>3, <2>4, <2>5, LenProperties
<1>5. new \in Flushes /\ new.txs = x
  BY <1>3 DEF TakenBy, Flushes, NoRoot
<1> HIDE DEF x, new
<1>6. /\ Len(batches') = Len(batches) + 1 /\ DOMAIN batches' = 1..(Len(batches) + 1)
      /\ \A b \in 1..Len(batches) : batches'[b] = batches[b]
      /\ batches'[Len(batches) + 1] = new
  <2>1. batches' = Append(batches, new)
    BY DEF new, x
  <2> QED BY <1>1, <1>5, <2>1, AppendProperties, LenProperties
<1>7. Cut' = Cut + n /\ Cut \in Nat /\ Cut + n <= Len(Numbered) /\ Cut + Len(pending) = Len(Numbered)
  <2>1. Cut >= 0
    BY <1>1 DEF JournalInv, PendingInv
  <2>2. Len(Numbered') = Len(Numbered)
    BY <1>0
  <2>3. Cut = Len(Numbered) - Len(pending) /\ Cut' = Len(Numbered) - (Len(pending) - n)
    BY <1>4, <2>2 DEF Cut
  <2>4. ASSUME NEW j \in Nat, NEW q \in Nat, j - q >= 0, n <= q
        PROVE  j - (q - n) = (j - q) + n /\ j - q \in Nat /\ (j - q) + n <= j /\ (j - q) + q = j
    BY <2>4
  <2> QED BY <1>2, <2>1, <2>3, <2>4
<1>8. NumberedInv'
  BY <1>0, <1>1 DEF JournalInv, NumberedInv
<1>9. PendingInv'
  <2>1. \A k \in 1..(Len(pending) - n) :
          n + k \in 1..Len(pending) /\ Cut + (n + k) = (Cut + n) + k
    BY <1>2, <1>7
  <2>2. \A k \in 1..Len(pending) : pending[k] = Numbered[Cut + k]
    BY ONLY <1>1, <1>2 DEF JournalInv, PendingInv
  <2>3. \A k \in DOMAIN pending' : pending'[k] = Numbered[(Cut + n) + k]
    <3>1. \A k \in 1..(Len(pending) - n) : pending[n + k] = Numbered[Cut + (n + k)]
      BY ONLY <2>1, <2>2
    <3>2. \A k \in 1..(Len(pending) - n) : pending[n + k] = Numbered[(Cut + n) + k]
      BY ONLY <2>1, <3>1
    <3> QED BY ONLY <1>4, <3>2
  <2>4. Cut' = Cut + n
    BY ONLY <1>7
  <2>5. Cut' >= 0
    BY <1>7
  <2>6. \A k \in DOMAIN pending' : pending'[k] = Numbered'[Cut' + k]
    BY ONLY <1>0, <2>3, <2>4
  <2> QED BY ONLY <2>5, <2>6 DEF PendingInv
<1>10. \A k \in 1..n : x[k] = Numbered[Cut + k]
  <2>1. \A k \in 1..Len(pending) : pending[k] = Numbered[Cut + k]
    BY ONLY <1>1, <1>2 DEF JournalInv, PendingInv
  <2>2. \A k \in 1..n : k \in 1..Len(pending) /\ x[k] = pending[k]
    BY <1>2, <1>3
  <2> QED BY ONLY <2>1, <2>2
<1>11. First(x) = Cut + 1
  <2>1. 1 \in 1..n /\ Cut + 1 \in DOMAIN Numbered
    <3>1. Cut \in Nat /\ Cut + n <= Len(Numbered)
      BY <1>7
    <3> HIDE DEF Cut
    <3> QED BY <1>2, <3>1
  <2> QED BY <1>1, <1>10, <2>1 DEF First, JournalInv, NumberedInv
<1>12. SliceOf(x, Numbered, Cut + n)
  <2>1. \A k \in 1..n : First(x) + k - 1 = Cut + k
    BY <1>7, <1>11
  <2>2. Len(x) >= 1 /\ First(x) >= 1 /\ First(x) + Len(x) - 1 <= Cut + n
    BY <1>3, <1>7, <1>11
  <2> QED BY <1>3, <1>10, <2>1, <2>2 DEF SliceOf
<1>13. ASSUME NEW b \in 1..Len(batches)
       PROVE  /\ SliceOf(batches[b].txs, Numbered, Cut + n)
              /\ First(batches[b].txs) + Len(batches[b].txs) <= First(x)
  <2> DEFINE y == batches[b].txs
  <2>1. SliceOf(y, Numbered, Cut)
    BY <1>1, <1>2 DEF JournalInv, SlicesInv
  <2>2. y \in Seq(Transactions)
    <3>1. batches[b] \in Flushes
      BY <1>1, ElementOfSeq
    <3> QED BY <3>1 DEF Flushes
  <2> HIDE DEF y
  <2>3. Len(y) \in Nat /\ y[1] \in Transactions
    BY <2>1, <2>2, LenProperties, ElementOfSeq DEF SliceOf
  <2>4. First(y) \in Nat
    BY <2>3 DEF First, Transactions
  <2>5. SliceOf(y, Numbered, Cut + n) /\ First(y) + Len(y) <= First(x)
    <3>1. /\ Len(y) >= 1 /\ First(y) >= 1 /\ First(y) + Len(y) - 1 <= Cut
          /\ \A k \in DOMAIN y : y[k] = Numbered[First(y) + k - 1]
      BY <2>1 DEF SliceOf
    <3>2. Cut \in Nat
      BY <1>7
    <3> HIDE DEF Cut
    <3>3. First(y) + Len(y) - 1 <= Cut + n /\ First(y) + Len(y) <= Cut + 1
      <4>1. First(y) \in Int /\ Len(y) \in Int /\ Cut \in Int /\ n \in Nat
        BY <2>3, <2>4, <3>2
      <4> QED BY ONLY <3>1, <4>1, BlockEnds, Zenon
    <3> QED BY <1>11, <3>1, <3>3 DEF SliceOf
  <2> QED BY <2>5 DEF y
<1>14. SlicesInv'
  <2>1. \A b \in DOMAIN batches' : SliceOf(batches'[b].txs, Numbered', Cut')
    BY <1>0, <1>2, <1>5, <1>6, <1>7, <1>12, <1>13
  <2>2. \A a, b \in DOMAIN batches' :
            a < b => First(batches'[a].txs) + Len(batches'[a].txs) <= First(batches'[b].txs)
    <3>1. \A a, b \in 1..Len(batches) :
            a < b => First(batches[a].txs) + Len(batches[a].txs) <= First(batches[b].txs)
      BY <1>1, <1>2 DEF JournalInv, SlicesInv
    <3> QED BY <1>2, <1>5, <1>6, <1>13, <3>1
  <2> QED BY <2>1, <2>2 DEF SlicesInv
<1> QED BY <1>8, <1>9, <1>14 DEF JournalInv

CallerStates == {"idle", "ingested", "failed", "waiting", "answered", "lost"}

\* Steps of flushes, of the consensus and of its answers.
LEMMA FlushFrame ==
    ASSUME RollupInv, UNCHANGED <<nextSeq, pending, waiters, fileVars, ingested, restarts>>,
           batches' \in Seq(Flushes), DOMAIN batches' = DOMAIN batches,
           \A b \in DOMAIN batches : batches'[b].txs = batches[b].txs,
           \A b \in DOMAIN batches : batches[b].state # "taken" =>
               batches'[b].state # "taken" /\ batches'[b].root = batches[b].root,
           caller' \in [Callers -> CallerStates],
           \A c \in Callers : caller[c] # "idle" => caller'[c] # "idle",
           candidates' \subseteq DOMAIN batches,
           \A b \in candidates' : batches'[b].state # "taken",
           \/ ledger' = ledger
           \/ \E x \in 0..MaxBatches :
                 /\ ledger' = Append(ledger, x)
                 /\ x # 0 => /\ x \in DOMAIN batches /\ batches[x].state # "taken"
                             /\ batches[x].root = Len(ledger)
    PROVE  RollupInv'
<1>1. ledger \in Seq(0..MaxBatches)
  BY DEF RollupInv, RollupTypeOK
<1>2. /\ ledger' \in Seq(0..MaxBatches)
      /\ \A h \in DOMAIN ledger' : ledger'[h] # 0 =>
            /\ ledger'[h] \in DOMAIN batches
            /\ batches[ledger'[h]].state # "taken" /\ batches[ledger'[h]].root = h - 1
  <2>1. CASE ledger' = ledger
    BY <1>1, <2>1 DEF RollupInv, RootInv
  <2>2. ASSUME NEW x \in 0..MaxBatches, ledger' = Append(ledger, x),
               x # 0 => /\ x \in DOMAIN batches /\ batches[x].state # "taken"
                        /\ batches[x].root = Len(ledger)
        PROVE  /\ ledger' \in Seq(0..MaxBatches)
               /\ \A h \in DOMAIN ledger' : ledger'[h] # 0 =>
                    /\ ledger'[h] \in DOMAIN batches
                    /\ batches[ledger'[h]].state # "taken" /\ batches[ledger'[h]].root = h - 1
    <3>1. /\ ledger' \in Seq(0..MaxBatches) /\ Len(ledger) \in Nat
          /\ DOMAIN ledger = 1..Len(ledger) /\ DOMAIN ledger' = 1..(Len(ledger) + 1)
          /\ \A h \in 1..Len(ledger) : ledger'[h] = ledger[h]
          /\ ledger'[Len(ledger) + 1] = x
      BY <1>1, <2>2, AppendProperties, LenProperties
    <3>2. ASSUME NEW h \in DOMAIN ledger', ledger'[h] # 0
          PROVE  /\ ledger'[h] \in DOMAIN batches
                 /\ batches[ledger'[h]].state # "taken" /\ batches[ledger'[h]].root = h - 1
      <4>1. CASE h \in 1..Len(ledger)
        BY <3>1, <3>2, <4>1 DEF RollupInv, RootInv
      <4>2. CASE h = Len(ledger) + 1
        <5>1. ledger'[h] = x /\ h - 1 = Len(ledger)
          BY <3>1, <4>2
        <5> QED BY <2>2, <3>2, <5>1
      <4> QED BY <3>1, <3>2, <4>1, <4>2
    <3> QED BY <3>1, <3>2
  <2> QED BY <2>1, <2>2
<1>3. RootInv'
  BY <1>2 DEF RootInv
<1>4. RollupTypeOK'
  BY <1>2 DEF RollupInv, RollupTypeOK, CallerStates, fileVars
<1>5. restarts' = 0 => JournalInv'
  BY JournalFrame DEF RollupInv
<1>6. LinesInv'
  BY DEF RollupInv, LinesInv, fileVars
<1> QED BY <1>3, <1>4, <1>5, <1>6 DEF RollupInv

\* One flush gets a new record with the same transactions.
LEMMA FlushAlone ==
    ASSUME RollupInv, NEW b \in DOMAIN batches, NEW r \in Flushes,
           batches' = [batches EXCEPT ![b] = r],
           r.txs = batches[b].txs, r.state # "taken",
           batches[b].state # "taken" => r.root = batches[b].root
    PROVE  /\ batches' \in Seq(Flushes) /\ DOMAIN batches' = DOMAIN batches
           /\ batches'[b] = r
           /\ \A a \in DOMAIN batches : batches'[a].txs = batches[a].txs
           /\ \A a \in DOMAIN batches : batches[a].state # "taken" =>
                 batches'[a].state # "taken" /\ batches'[a].root = batches[a].root
<1>1. batches \in Seq(Flushes) /\ DOMAIN batches = 1..Len(batches)
  BY LenProperties DEF RollupInv, RollupTypeOK
<1>2. /\ batches' \in Seq(Flushes) /\ Len(batches') = Len(batches)
      /\ \A a \in 1..Len(batches) : batches'[a] = IF a = b THEN r ELSE batches[a]
  BY <1>1, ExceptSeq
<1> QED BY <1>1, <1>2, LenProperties

\* A flush with another root or height is a flush.
LEMMA FlushRecord ==
    ASSUME NEW q \in Flushes, NEW k \in Int
    PROVE  /\ [q EXCEPT !.root = k] \in Flushes
           /\ [q EXCEPT !.root = k].txs = q.txs /\ [q EXCEPT !.root = k].state = q.state
           /\ [q EXCEPT !.height = k] \in Flushes
           /\ [q EXCEPT !.height = k].txs = q.txs /\ [q EXCEPT !.height = k].state = q.state
           /\ [q EXCEPT !.height = k].root = q.root
BY DEF Flushes

LEMMA FlushSteps ==
    ASSUME RollupInv, NEW b \in 1..MaxBatches,
           BindRoot(b) \/ RegisterFuture(b) \/ QueueCandidate(b) \/ AnswerWaiters(b) \/ FlushFails(b)
    PROVE  RollupInv'
<1>1. /\ b \in DOMAIN batches /\ batches[b] \in Flushes /\ batches \in Seq(Flushes)
      /\ ledger \in Seq(0..MaxBatches) /\ Len(ledger) \in Nat
      /\ caller \in [Callers -> CallerStates]
      /\ candidates \subseteq DOMAIN batches
      /\ \A a \in candidates : batches[a].state # "taken"
      /\ UNCHANGED <<nextSeq, pending, waiters, fileVars, ingested, restarts, ledger>>
  <2>1. /\ b \in DOMAIN batches
        /\ UNCHANGED <<nextSeq, pending, waiters, fileVars, ingested, restarts, ledger>>
    BY DEF BindRoot, RegisterFuture, QueueCandidate, AnswerWaiters, FlushFails, InState, FlushOnly
  <2>2. batches \in Seq(Flushes) /\ ledger \in Seq(0..MaxBatches) /\ RootInv
        /\ caller \in [Callers -> CallerStates] /\ candidates \subseteq DOMAIN batches
    BY DEF RollupInv, RollupTypeOK, CallerStates
  <2> QED BY <2>1, <2>2, LenProperties DEF RootInv
<1>2. PICK r \in Flushes :
        /\ batches' = [batches EXCEPT ![b] = r]
        /\ r.txs = batches[b].txs /\ r.state # "taken"
        /\ batches[b].state # "taken" => r.root = batches[b].root
  <2> USE DEF Flushes
  <2>1. CASE BindRoot(b)
    <3> DEFINE q == [batches[b] EXCEPT !.state = "bound"]
               r == [q EXCEPT !.root = Len(ledger)]
    <3>1. q \in Flushes /\ q.txs = batches[b].txs /\ q.state # "taken" /\ batches[b].state = "taken"
      BY <1>1, <2>1 DEF BindRoot, InState
    <3>2. batches' = [batches EXCEPT ![b] = r]
      BY <1>1, <2>1 DEF BindRoot
    <3> HIDE DEF q
    <3>3. r \in Flushes /\ r.txs = q.txs /\ r.state = q.state
      BY <1>1, <3>1, Len(ledger) \in Int, FlushRecord
    <3> QED BY <3>1, <3>2, <3>3
  <2>2. CASE RegisterFuture(b)
    <3> DEFINE q == [batches[b] EXCEPT !.state = "registered"]
               r == [q EXCEPT !.height = Len(ledger)]
    <3>1. q \in Flushes /\ q.txs = batches[b].txs /\ q.state # "taken" /\ q.root = batches[b].root
      BY <1>1
    <3>2. batches' = [batches EXCEPT ![b] = r]
      BY <1>1, <2>2 DEF RegisterFuture
    <3> HIDE DEF q
    <3>3. r \in Flushes /\ r.txs = q.txs /\ r.state = q.state /\ r.root = q.root
      BY <1>1, <3>1, Len(ledger) \in Int, FlushRecord
    <3> QED BY <3>1, <3>2, <3>3
  <2>3. CASE QueueCandidate(b) \/ AnswerWaiters(b) \/ FlushFails(b)
    <3>1. PICK s \in {"queued", "done", "failed"} : batches' = [batches EXCEPT ![b].state = s]
      BY <2>3 DEF QueueCandidate, AnswerWaiters, FlushFails
    <3> DEFINE r == [batches[b] EXCEPT !.state = s]
    <3>2. r \in Flushes /\ r.txs = batches[b].txs /\ r.state # "taken" /\ r.root = batches[b].root
      BY <1>1
    <3>3. batches' = [batches EXCEPT ![b] = r]
      BY <1>1, <3>1
    <3> QED BY <3>2, <3>3
  <2> QED BY <2>1, <2>2, <2>3
<1>3. /\ batches' \in Seq(Flushes) /\ DOMAIN batches' = DOMAIN batches
      /\ batches'[b] = r
      /\ \A a \in DOMAIN batches : batches'[a].txs = batches[a].txs
      /\ \A a \in DOMAIN batches : batches[a].state # "taken" =>
            batches'[a].state # "taken" /\ batches'[a].root = batches[a].root
  BY <1>1, <1>2, FlushAlone
<1>4. candidates' \in {candidates, candidates \cup {b}}
  BY DEF BindRoot, RegisterFuture, QueueCandidate, AnswerWaiters, FlushFails
<1>5. \A a \in candidates' : a \in DOMAIN batches /\ batches'[a].state # "taken"
  BY <1>1, <1>2, <1>3, <1>4
<1>6. caller' = caller \/ caller' = [c \in Callers |->
          IF c \in WaitersOf(b) /\ caller[c] = "waiting" THEN "answered" ELSE caller[c]]
  BY DEF BindRoot, RegisterFuture, QueueCandidate, AnswerWaiters, FlushFails
<1>7. /\ caller' \in [Callers -> CallerStates]
      /\ \A c \in Callers : caller[c] # "idle" => caller'[c] # "idle"
  BY <1>1, <1>6 DEF CallerStates
<1> QED BY <1>1, <1>3, <1>5, <1>7, FlushFrame

LEMMA ConsensusSteps ==
    ASSUME RollupInv, (\E b \in 1..MaxBatches : CommitRollup(b) \/ RefuseRollup(b)) \/ CommitOther
    PROVE  RollupInv'
<1>1. /\ batches \in Seq(Flushes) /\ DOMAIN batches = 1..Len(batches) /\ Len(batches) \in Nat
      /\ caller \in [Callers -> CallerStates]
      /\ candidates \subseteq DOMAIN batches
      /\ \A a \in candidates : batches[a].state # "taken"
      /\ MaxBatches \in Nat
      /\ \A a \in DOMAIN batches : batches[a] \in Flushes
  <2>1. /\ batches \in Seq(Flushes) /\ caller \in [Callers -> CallerStates]
        /\ candidates \subseteq DOMAIN batches /\ RootInv
    BY DEF RollupInv, RollupTypeOK, CallerStates
  <2> QED BY <2>1, LenProperties, ElementOfSeq, RollupAssumption DEF RootInv
<1>2. CASE \E b \in 1..MaxBatches : RefuseRollup(b)
  <2>1. /\ candidates' \subseteq candidates
        /\ UNCHANGED <<nextSeq, pending, waiters, fileVars, ingested, restarts, caller, batches, ledger>>
    BY <1>2 DEF RefuseRollup, FlushOnly
  <2> QED BY <1>1, <2>1, FlushFrame
<1>3. ASSUME NEW x \in 0..MaxBatches, CommitHeight(x),
             x # 0 => /\ x \in DOMAIN batches /\ batches[x].state # "taken"
                      /\ batches[x].root = Len(ledger)
      PROVE  RollupInv'
  <2>1. /\ ledger' = Append(ledger, x) /\ candidates' = {} /\ caller' = caller
        /\ batches' = [b \in DOMAIN batches |->
              [batches[b] EXCEPT !.resolved = batches[b].resolved \/ AwaitsHeight(b)]]
        /\ UNCHANGED <<nextSeq, pending, waiters, fileVars, ingested, restarts>>
    BY <1>3 DEF CommitHeight, FlushOnly
  <2>2. ASSUME NEW b \in DOMAIN batches
        PROVE  /\ batches'[b] \in Flushes /\ batches'[b].txs = batches[b].txs
               /\ batches'[b].state = batches[b].state /\ batches'[b].root = batches[b].root
    BY <1>1, <2>1, <2>2 DEF Flushes
  <2>3. batches' \in [1..Len(batches) -> Flushes]
    BY <1>1, <2>1, <2>2
  <2>4. batches' \in Seq(Flushes) /\ DOMAIN batches' = DOMAIN batches
    BY <1>1, <2>3, FunctionIsSeq
  <2> QED BY <1>1, <1>3, <2>1, <2>2, <2>4, FlushFrame
<1>4. CASE CommitOther
  BY <1>1, <1>3, <1>4 DEF CommitOther
<1>5. CASE \E b \in 1..MaxBatches : CommitRollup(b)
  <2>1. PICK b \in 1..MaxBatches : CommitRollup(b)
    BY <1>5
  <2> QED BY <1>1, <1>3, <2>1 DEF CommitRollup, Verifies
<1> QED BY <1>2, <1>4, <1>5

\* A batch that is cut off is typed and in no ledger yet.
LEMMA TakenKeeps ==
    ASSUME RollupInv, UNCHANGED <<nextSeq, fileVars, ingested, candidates, ledger, restarts>>,
           caller' \in [Callers -> CallerStates],
           \A c \in Callers : caller[c] # "idle" => caller'[c] # "idle",
           NEW n \in Nat \ {0}, n <= Len(pending), NEW ws \in Seq(Callers),
           batches' = Append(batches, TakenBy(SubSeq(pending, 1, n), ws)),
           pending' = SubSeq(pending, n + 1, Len(pending)),
           waiters' \in Seq(Callers)
    PROVE  RollupInv'
<1>1. /\ batches \in Seq(Flushes) /\ pending \in Seq(Transactions) /\ candidates \subseteq DOMAIN batches
      /\ RollupTypeOK /\ RootInv
  BY DEF RollupInv, RollupTypeOK
<1>2. /\ Len(pending) \in Nat /\ \A k \in 1..Len(pending) : pending[k] \in Transactions
      /\ Len(batches) \in Nat /\ DOMAIN batches = 1..Len(batches)
  BY <1>1, LenProperties, ElementOfSeq
<1>3. SubSeq(pending, 1, n) \in Seq(Transactions) /\ pending' \in Seq(Transactions)
  BY <1>2, SubSeqProperties
<1>4. TakenBy(SubSeq(pending, 1, n), ws) \in Flushes
  BY <1>3 DEF TakenBy, Flushes, NoRoot
<1>5. /\ batches' \in Seq(Flushes) /\ DOMAIN batches' = 1..(Len(batches) + 1)
      /\ \A b \in 1..Len(batches) : batches'[b] = batches[b]
  BY <1>1, <1>4, AppendProperties, LenProperties
<1>6. RootInv'
  BY <1>1, <1>2, <1>5 DEF RootInv
<1>7. RollupTypeOK'
  BY <1>1, <1>2, <1>3, <1>5 DEF RollupTypeOK, CallerStates, fileVars
<1>8. restarts' = 0 => JournalInv'
  BY CutKeeps
<1>9. LinesInv'
  BY DEF RollupInv, LinesInv, fileVars
<1> QED BY <1>6, <1>7, <1>8, <1>9 DEF RollupInv

\* Callers, traces and flushes; _mu makes each of them one step.
LEMMA CallerSteps ==
    ASSUME RollupInv,
           \/ \E t \in Traces : IngestTrace(t)
           \/ \E c \in Callers : SubmitIngest(c) \/ SubmitWait(c)
           \/ Flush
    PROVE  RollupInv'
<1>1. /\ batches \in Seq(Flushes) /\ pending \in Seq(Transactions)
      /\ waiters \in Seq(Callers) /\ caller \in [Callers -> CallerStates]
      /\ RollupTypeOK /\ RootInv /\ LinesInv /\ nextSeq \in Nat \ {0} /\ Len(pending) \in Nat
  <2>1. pending \in Seq(Transactions)
    BY DEF RollupInv, RollupTypeOK
  <2> QED BY <2>1, LenProperties DEF RollupInv, RollupTypeOK, CallerStates
<1>2. Callers \cap Traces = {} /\ BatchSize \in Nat \ {0}
  BY RollupAssumption
<1>3. ASSUME NEW id \in Ids, Ingest(id) \/ IngestRaises(id)
      PROVE  /\ pending' \in Seq(Transactions) /\ journal' \in Seq(JournalLines)
             /\ nextSeq' \in Nat \ {0} /\ torn' \in BOOLEAN /\ raised' \subseteq Ids
             /\ LinesInv'
  <2>1. [seq |-> nextSeq, id |-> id] \in Transactions
    BY <1>1 DEF Transactions
  <2>2. Number(id) /\ ((WriteLine(id) /\ UNCHANGED raised) \/ AppendRaises(id))
    BY <1>3 DEF Ingest, IngestRaises
  <2>3. pending' \in Seq(Transactions) /\ nextSeq' \in Nat \ {0}
    BY <1>1, <2>1, <2>2, AppendProperties DEF Number
  <2> QED BY <1>1, <2>2, <2>3, AppendLines
<1>4. ASSUME NEW t \in Traces, IngestTrace(t) PROVE RollupInv'
  <2>1. /\ t \in Ids /\ t \notin Callers /\ t \notin ingested /\ (Ingest(t) \/ IngestRaises(t))
        /\ ingested' = ingested \cup {t}
        /\ UNCHANGED <<waiters, caller, batches, candidates, ledger, restarts>>
    BY <1>2, <1>4 DEF IngestTrace, Ids
  <2>2. RollupTypeOK'
    BY <1>1, <1>3, <2>1 DEF RollupTypeOK
  <2>3. RootInv'
    BY <1>1, <2>1 DEF RootInv
  <2>4. restarts' = 0 => JournalInv'
    BY <2>1, IngestKeeps
  <2>5. LinesInv'
    BY <1>3, <2>1
  <2> QED BY <2>2, <2>3, <2>4, <2>5 DEF RollupInv
<1>5. ASSUME NEW c \in Callers, SubmitIngest(c) PROVE RollupInv'
  <2>1. /\ c \in Ids /\ c \notin Traces /\ caller[c] = "idle" /\ (Ingest(c) \/ IngestRaises(c))
        /\ \/ caller' = [caller EXCEPT ![c] = "ingested"]
           \/ caller' = [caller EXCEPT ![c] = "failed"]
        /\ UNCHANGED <<waiters, ingested, batches, candidates, ledger, restarts>>
    BY <1>2, <1>5 DEF SubmitIngest, Ids
  <2>2. /\ caller' \in [Callers -> CallerStates] /\ caller'[c] # "idle"
        /\ \A d \in Callers : caller[d] # "idle" => caller'[d] # "idle"
    BY <1>1, <2>1 DEF CallerStates
  <2>3. RollupTypeOK'
    BY <1>1, <1>3, <2>1, <2>2 DEF RollupTypeOK, CallerStates
  <2>4. RootInv'
    BY <1>1, <2>1 DEF RootInv
  <2>5. restarts' = 0 => JournalInv'
    BY <2>1, <2>2, IngestKeeps
  <2>6. LinesInv'
    BY <1>3, <2>1
  <2> QED BY <2>3, <2>4, <2>5, <2>6 DEF RollupInv
<1>6. ASSUME NEW c \in Callers, SubmitWait(c) PROVE RollupInv'
  <2> DEFINE ws == Append(waiters, c)
             full == Len(pending) >= BatchSize /\ Len(ws) >= BatchSize
  <2>1. /\ caller[c] = "ingested" /\ caller' = [caller EXCEPT ![c] = "waiting"]
        /\ UNCHANGED <<nextSeq, fileVars, ingested, candidates, ledger, restarts>>
    BY <1>6 DEF SubmitWait
  <2>2. \/ waiters' = ws /\ UNCHANGED <<pending, batches>>
        \/ /\ full
           /\ batches' = Append(batches, TakenBy(SubSeq(pending, 1, BatchSize), SubSeq(ws, 1, BatchSize)))
           /\ pending' = SubSeq(pending, BatchSize + 1, Len(pending))
           /\ waiters' = SubSeq(ws, BatchSize + 1, Len(ws))
    BY <1>6 DEF SubmitWait
  <2>3. /\ caller' \in [Callers -> CallerStates]
        /\ \A d \in Callers : caller[d] # "idle" => caller'[d] # "idle"
    BY <1>1, <2>1 DEF CallerStates
  <2>4. ws \in Seq(Callers) /\ Len(ws) \in Nat /\ \A k \in 1..Len(ws) : ws[k] \in Callers
    <3>1. ws \in Seq(Callers)
      BY <1>1, AppendProperties
    <3> HIDE DEF ws
    <3> QED BY <3>1, LenProperties, ElementOfSeq
  <2> HIDE DEF ws
  <2>5. CASE waiters' = ws /\ UNCHANGED <<pending, batches>>
    <3>1. RollupTypeOK'
      BY <1>1, <2>1, <2>3, <2>4, <2>5 DEF RollupTypeOK, CallerStates, fileVars
    <3>2. RootInv'
      BY <1>1, <2>1, <2>5 DEF RootInv
    <3>3. restarts' = 0 => JournalInv'
      BY <2>1, <2>3, <2>5, JournalFrame DEF RollupInv
    <3>4. LinesInv'
      BY <1>1, <2>1 DEF LinesInv, fileVars
    <3> QED BY <3>1, <3>2, <3>3, <3>4 DEF RollupInv
  <2>6. CASE /\ full
             /\ batches' = Append(batches, TakenBy(SubSeq(pending, 1, BatchSize), SubSeq(ws, 1, BatchSize)))
             /\ pending' = SubSeq(pending, BatchSize + 1, Len(pending))
             /\ waiters' = SubSeq(ws, BatchSize + 1, Len(ws))
    <3>1. SubSeq(ws, 1, BatchSize) \in Seq(Callers)
      <4>1. \A k \in 1..BatchSize : ws[k] \in Callers
        BY <1>2, <2>4, <2>6
      <4> QED BY <1>2, <4>1, SubSeqProperties
    <3>2. waiters' \in Seq(Callers)
      <4>1. \A k \in (BatchSize + 1)..Len(ws) : ws[k] \in Callers
        BY <1>2, <2>4, <2>6
      <4> QED BY <1>2, <2>4, <2>6, <4>1, SubSeqProperties
    <3>3. BatchSize <= Len(pending)
      BY <1>1, <1>2, <2>6
    <3> QED BY <1>2, <2>1, <2>3, <2>6, <3>1, <3>2, <3>3, TakenKeeps
  <2> QED BY <2>2, <2>5, <2>6
<1>7. ASSUME Flush PROVE RollupInv'
  <2> DEFINE n == Len(pending)
  <2>1. /\ pending # <<>> /\ batches' = Append(batches, TakenBy(pending, waiters))
        /\ pending' = <<>> /\ waiters' = <<>>
        /\ UNCHANGED <<nextSeq, fileVars, caller, ingested, candidates, ledger, restarts>>
    BY <1>7 DEF Flush
  <2>2. n \in Nat \ {0} /\ SubSeq(pending, 1, n) = pending /\ SubSeq(pending, n + 1, n) = <<>>
    BY <1>1, <2>1, EmptySeq, SubSeqFull, SubSeqEmpty
  <2>3. waiters' \in Seq(Callers)
    BY <2>1
  <2>4. batches' = Append(batches, TakenBy(SubSeq(pending, 1, n), waiters))
    BY <2>1, <2>2
  <2>5. pending' = SubSeq(pending, n + 1, Len(pending)) /\ n <= Len(pending)
    BY <1>1, <2>1, <2>2
  <2>6. caller' \in [Callers -> CallerStates] /\ \A c \in Callers : caller[c] # "idle" => caller'[c] # "idle"
    BY <1>1, <2>1
  <2> HIDE DEF n
  <2> QED BY <1>1, <2>1, <2>2, <2>3, <2>4, <2>5, <2>6, TakenKeeps
<1> QED BY <1>4, <1>5, <1>6, <1>7

\* A restart leaves committed roots alone; the journal is not claimed any more.
LEMMA RestartKeeps ==
    ASSUME RollupInv, RestartEngine
    PROVE  RollupInv'
<1>1. /\ batches \in Seq(Flushes) /\ caller \in [Callers -> CallerStates] /\ restarts \in 0..MaxEvents
      /\ RollupTypeOK /\ RootInv /\ LinesInv /\ Len(journal) \in Nat /\ Cardinality(raised) \in Nat
  BY NumberedSeq, FS_CardinalityType DEF RollupInv, RollupTypeOK, CallerStates, LinesInv
<1>2. /\ Len(journal) + Cardinality(raised) + restarts < MaxEvents /\ restarts' = restarts + 1
      /\ nextSeq' = 1 /\ pending' = <<>> /\ waiters' = <<>> /\ candidates' = {}
      /\ caller' = [c \in Callers |->
            IF caller[c] \in {"ingested", "waiting"} THEN "lost" ELSE caller[c]]
      /\ batches' = [b \in DOMAIN batches |->
            IF batches[b].state = "done" THEN batches[b]
            ELSE [batches[b] EXCEPT !.state = "failed"]]
      /\ UNCHANGED <<fileVars, ingested, ledger>>
  BY DEF RestartEngine, Events
<1>3. /\ Len(batches) \in Nat /\ DOMAIN batches = 1..Len(batches)
      /\ \A b \in DOMAIN batches : batches[b] \in Flushes
  BY <1>1, LenProperties, ElementOfSeq
<1>4. ASSUME NEW b \in DOMAIN batches
      PROVE  /\ batches'[b] \in Flushes /\ batches'[b].state # "taken"
             /\ batches'[b].root = batches[b].root
  BY <1>2, <1>3, <1>4 DEF Flushes
<1>5. batches' \in [1..Len(batches) -> Flushes]
  BY <1>2, <1>3, <1>4
<1>6. batches' \in Seq(Flushes) /\ DOMAIN batches' = DOMAIN batches
  BY <1>3, <1>5, FunctionIsSeq
<1>7. caller' \in [Callers -> CallerStates]
  BY <1>1, <1>2 DEF CallerStates
<1>8. restarts' \in 0..MaxEvents /\ restarts' # 0
  BY <1>1, <1>2, RollupAssumption
<1>9. RollupTypeOK'
  BY <1>1, <1>2, <1>6, <1>7, <1>8 DEF RollupTypeOK, CallerStates, fileVars
<1>10. RootInv'
  BY <1>1, <1>2, <1>4, <1>6 DEF RootInv
<1>11. LinesInv'
  BY <1>1, <1>2 DEF LinesInv, fileVars
<1> QED BY <1>8, <1>9, <1>10, <1>11 DEF RollupInv

\* The invariant of the rollup engine holds at the start, and every step keeps it.
LEMMA RollupInductive ==
    /\ RollupInit => RollupInv
    /\ RollupInv /\ [RollupNext]_rollupVars => RollupInv'
<1>1. RollupInit => RollupInv
  <2> SUFFICES ASSUME RollupInit PROVE RollupInv
    OBVIOUS
  <2>1. RollupTypeOK
    <3>1. 0 \in 0..MaxEvents
      BY RollupAssumption
    <3>2. journal \in Seq(JournalLines) /\ torn \in BOOLEAN /\ raised \subseteq Ids
      <4>1. journal = <<>> /\ torn = FALSE /\ raised = {}
        BY DEF RollupInit
      <4> QED BY ONLY <4>1, EmptySeq
    <3>3. caller \in [Callers -> {"idle", "ingested", "failed", "waiting", "answered", "lost"}]
      BY DEF RollupInit
    <3> QED BY <3>1, <3>2, <3>3 DEF RollupInit, RollupTypeOK
  <2>2. RootInv
    BY DEF RollupInit, RootInv
  <2>3. Numbered = <<>> /\ Cut = 0
    <3>1. journal = <<>> /\ pending = <<>> /\ Len(journal) = 0 /\ Len(pending) = 0
      BY DEF RollupInit
    <3>2. Numbered \in Seq(Transactions) /\ Len(Numbered) = 0
      BY <2>1, <3>1, NumberedSeq
    <3>3. Numbered = <<>>
      BY ONLY <3>2, Numbered \in Seq(Transactions), Len(Numbered) = 0, EmptySeq
    <3>4. Cut = 0
      <4>1. Len(Numbered) = 0 /\ Len(pending) = 0
        BY <3>1, <3>2
      <4>2. 0 - 0 = 0
        OBVIOUS
      <4> QED BY ONLY <4>1, <4>2, Zenon DEF Cut
    <3> QED BY <3>3, <3>4
  <2>4. JournalInv
    BY <2>3 DEF RollupInit, JournalInv, NumberedInv, PendingInv, SlicesInv
  <2>5. LinesInv
    BY FS_EmptySet DEF RollupInit, LinesInv
  <2> QED BY <2>1, <2>2, <2>4, <2>5 DEF RollupInv
<1>2. RollupInv /\ UNCHANGED rollupVars => RollupInv'
  <2> SUFFICES ASSUME RollupInv, UNCHANGED rollupVars PROVE RollupInv'
    OBVIOUS
  <2> USE DEF rollupVars, fileVars
  <2>1. RollupTypeOK' /\ RootInv' /\ LinesInv'
    BY DEF RollupInv, RollupTypeOK, RootInv, LinesInv
  <2>2. restarts' = 0 => JournalInv'
    BY JournalFrame DEF RollupInv
  <2> QED BY <2>1, <2>2 DEF RollupInv
<1>3. RollupInv /\ RollupNext => RollupInv'
  BY CallerSteps, FlushSteps, ConsensusSteps, RestartKeeps DEF RollupNext
<1> QED BY <1>1, <1>2, <1>3

\* The inductive invariant, failing appends included: the transactions of the
\* batches and those pending are, in this order, the ones numbered so far, each
\* with a place in the journal; unless an append raised, every line with an id
\* is accepted.
THEOREM RollupInvariant == RollupSpec => []RollupInv
BY RollupInductive, PTL DEF RollupSpec

\* Types of the rollup engine, for every number of callers, batches, failing
\* appends and restarts.
THEOREM RollupTypeCorrect == RollupSpec => []RollupTypeOK
<1>1. RollupInv => RollupTypeOK
  BY DEF RollupInv
<1> QED BY <1>1, RollupInvariant, PTL

\* The invariant says that batches are slices of the numbered transactions, no
\* two of which overlap.
LEMMA RollupSlices == RollupInv => BatchesMatchJournal
<1> SUFFICES ASSUME RollupInv PROVE BatchesMatchJournal
  OBVIOUS
<1>0. \A h \in DOMAIN ledger : ledger[h] # 0 => batches[ledger[h]].root = h - 1
  BY DEF RollupInv, RootInv
<1> SUFFICES ASSUME restarts = 0
             PROVE  /\ \A a, b \in DOMAIN batches :
                          a # b => IdsOf(batches[a].txs) \cap IdsOf(batches[b].txs) = {}
                    /\ \A b \in DOMAIN batches :
                          /\ MatchesJournal(batches[b].txs) <=> Mirrored(batches[b].txs)
                          /\ raised = {} /\ IdsOf(batches[b].txs) \cap Anonymous = {}
                                 => Mirrored(batches[b].txs)
  BY <1>0 DEF BatchesMatchJournal
<1>1. /\ RollupTypeOK /\ JournalInv /\ RootInv /\ LinesInv /\ batches \in Seq(Flushes)
      /\ Numbered \in Seq(Transactions) /\ pending \in Seq(Transactions)
  BY NumberedSeq DEF RollupInv, RollupTypeOK
<1>2. /\ DOMAIN batches = 1..Len(batches) /\ Len(batches) \in Nat
      /\ DOMAIN Numbered = 1..Len(Numbered) /\ Len(Numbered) \in Nat /\ Len(pending) \in Nat
  BY <1>1, LenProperties
<1>3. ASSUME NEW b \in DOMAIN batches
      PROVE  batches[b].txs \in Seq(Transactions) /\ SliceOf(batches[b].txs, Numbered, Cut)
  <2>1. batches[b] \in Flushes
    BY <1>1, <1>2, ElementOfSeq
  <2> QED BY <1>1, <2>1 DEF Flushes, JournalInv, SlicesInv
<1>4. ASSUME NEW b \in DOMAIN batches
      PROVE  /\ MatchesJournal(batches[b].txs) <=> Mirrored(batches[b].txs)
             /\ raised = {} /\ IdsOf(batches[b].txs) \cap Anonymous = {}
                    => Mirrored(batches[b].txs)
  <2> DEFINE txs == batches[b].txs
  <2>1. txs \in Seq(Transactions) /\ SliceOf(txs, Numbered, Cut)
    BY <1>3
  <2> HIDE DEF txs
  <2>2. /\ MatchesJournal(txs) <=> Mirrored(txs)
        /\ (\A i \in DOMAIN journal : journal[i].id \in IdsOf(txs) => journal[i].accepted = TRUE)
               => Mirrored(txs)
    BY <1>1, <2>1, SliceMatches
  <2>3. ASSUME raised = {}, IdsOf(txs) \cap Anonymous = {} PROVE Mirrored(txs)
    <3>1. \A i \in DOMAIN journal : journal[i].id \notin Anonymous => journal[i].accepted = TRUE
      BY <1>1, <2>3 DEF LinesInv
    <3>2. \A i \in DOMAIN journal : journal[i].id \in IdsOf(txs) => journal[i].accepted = TRUE
      BY <2>3, <3>1
    <3> QED BY <2>2, <3>2
  <2> QED BY <2>2, <2>3 DEF txs
<1>5. ASSUME NEW a \in DOMAIN batches, NEW b \in DOMAIN batches, a < b
      PROVE  IdsOf(batches[a].txs) \cap IdsOf(batches[b].txs) = {}
  <2> DEFINE x == batches[a].txs
             y == batches[b].txs
  <2>1. /\ x \in Seq(Transactions) /\ SliceOf(x, Numbered, Cut)
        /\ y \in Seq(Transactions) /\ SliceOf(y, Numbered, Cut)
        /\ First(x) + Len(x) <= First(y)
    BY <1>1, <1>3, <1>5 DEF JournalInv, SlicesInv
  <2> HIDE DEF x, y
  <2>2. /\ Len(x) \in Nat /\ DOMAIN x = 1..Len(x) /\ First(x) \in Nat
        /\ Len(y) \in Nat /\ DOMAIN y = 1..Len(y) /\ First(y) \in Nat
    <3>1. x[1] \in Transactions /\ y[1] \in Transactions
      BY <2>1, LenProperties, ElementOfSeq DEF SliceOf
    <3> QED BY <2>1, <3>1, LenProperties DEF First, Transactions
  <2>3. ASSUME NEW i \in DOMAIN x, NEW j \in DOMAIN y PROVE x[i].id # y[j].id
    <3>1. x[i] = Numbered[First(x) + i - 1] /\ y[j] = Numbered[First(y) + j - 1]
      BY <2>1, <2>3 DEF SliceOf
    <3>2. /\ First(x) + i - 1 \in DOMAIN Numbered /\ First(y) + j - 1 \in DOMAIN Numbered
          /\ First(x) + i - 1 # First(y) + j - 1
      <4>1. /\ First(x) >= 1 /\ First(x) + Len(x) - 1 <= Len(Numbered)
            /\ First(y) >= 1 /\ First(y) + Len(y) - 1 <= Len(Numbered)
        <5>1. /\ First(x) >= 1 /\ First(x) + Len(x) - 1 <= Cut
              /\ First(y) >= 1 /\ First(y) + Len(y) - 1 <= Cut
          BY <2>1 DEF SliceOf
        <5>2. Cut \in Int /\ Cut <= Len(Numbered)
          BY <1>2 DEF Cut
        <5>3. ASSUME NEW u \in Int, NEW k \in Int, NEW l \in Int, u <= k, k <= l PROVE u <= l
          BY <5>3
        <5> HIDE DEF Cut
        <5>4. First(x) + Len(x) - 1 \in Int /\ First(y) + Len(y) - 1 \in Int /\ Len(Numbered) \in Int
          BY <1>2, <2>2
        <5> QED BY ONLY <5>1, <5>2, <5>3, <5>4
      <4>2. i \in 1..Len(x) /\ j \in 1..Len(y) /\ First(x) + Len(x) <= First(y)
        BY <2>1, <2>2, <2>3
      <4>3. /\ First(x) + i - 1 \in 1..Len(Numbered) /\ First(y) + j - 1 \in 1..Len(Numbered)
            /\ First(x) + i - 1 # First(y) + j - 1
        <5>1. i \in Int /\ 1 <= i /\ i <= Len(x) /\ j \in Int /\ 1 <= j /\ j <= Len(y)
          BY <2>2, <4>2
        <5>2. First(x) + i - 1 \in 1..Len(Numbered)
          <6>1. First(x) \in Int /\ Len(x) \in Int /\ Len(Numbered) \in Int
            BY <1>2, <2>2
          <6> QED BY ONLY <4>1, <5>1, <6>1, InBlock, Zenon
        <5>3. First(y) + j - 1 \in 1..Len(Numbered)
          <6>1. First(y) \in Int /\ Len(y) \in Int /\ Len(Numbered) \in Int
            BY <1>2, <2>2
          <6> QED BY ONLY <4>1, <5>1, <6>1, InBlock, Zenon
        <5>4. First(x) + i - 1 # First(y) + j - 1
          BY <2>2, <4>2, <5>1
        <5> QED BY <5>2, <5>3, <5>4
      <4> QED BY <1>2, <4>3
    <3> QED BY <1>1, <3>1, <3>2 DEF JournalInv, NumberedInv
  <2>4. IdsOf(x) \cap IdsOf(y) = {}
    BY <2>3 DEF IdsOf
  <2> QED BY <2>4 DEF x, y
<1>6. \A a, b \in DOMAIN batches :
          a # b => IdsOf(batches[a].txs) \cap IdsOf(batches[b].txs) = {}
  <2>1. TAKE a, b \in DOMAIN batches
  <2>2. a = b \/ a < b \/ b < a
    BY <1>2
  <2> QED BY <1>5, <2>2
<1> QED BY <1>4, <1>6

\* For any callers, traces, batch size, order of flushes and failing appends: a
\* committed batch was bound to the block before it; and until an engine
\* restarts over an old journal no transaction is in two batches, and a batch
\* passes the peers' comparison with the journal exactly when all its
\* transactions have their lines there (ingest_transaction,
\* verify_rollup_payload).
THEOREM BatchesAreSlices == RollupSpec => []BatchesMatchJournal
BY RollupSlices, RollupInvariant, PTL

(***************************************************************************)
(* The DAG engine.  The types come last.                                   *)
(***************************************************************************)


AfterClaim == {"lookup", "execute", "store", "hit", "miss"}

\* Shapes of the variables, as far as the argument needs them.
DagShapes ==
    /\ deps \in Graphs
    /\ status \in [Nodes -> {"pending", "running", "done", "failed"}]
    /\ work = [n \in Nodes |-> [at |-> work[n].at, fp |-> work[n].fp, value |-> work[n].value]]
    /\ peek = [p \in Prefetchers |-> peek[p]]
    /\ finished \subseteq Nodes /\ processed \subseteq Nodes

\* A task beyond its claim is that of a running node, and a task exists only
\* where the scheduler processed every dependency.
TasksInv ==
    run = "active" =>
        \A n \in Nodes :
            /\ work[n].at \in AfterClaim => status[n] = "running"
            /\ work[n].at # "none" => deps[n] \subseteq processed

\* What waits in done_q is done, and its dependencies are processed.
FinishedInv == \A n \in finished : status[n] = "done" /\ deps[n] \subseteq processed

\* A prefetcher looks up a node whose dependencies are done.
PeekInv == \A p \in Prefetchers : peek[p] # NoFp => peek[p].node \in Nodes /\ DepsDone(peek[p].node)

DagInv == DagShapes /\ TasksInv /\ FinishedInv /\ PeekInv /\ DependenciesFirst

\* A run starts with every node pending and no task, look-up or result.
LEMMA FreshRun ==
    ASSUME deps \in Graphs,
           status = [n \in Nodes |-> "pending"], work = [n \in Nodes |-> NoTask],
           finished = {}, processed = {}, peek = [p \in Prefetchers |-> NoFp]
    PROVE  DagInv
<1>1. DagShapes
  BY DEF DagShapes, NoTask
<1>2. TasksInv /\ FinishedInv /\ DependenciesFirst
  BY DEF TasksInv, FinishedInv, DependenciesFirst, NoTask, AfterClaim
<1>3. PeekInv
  BY DEF PeekInv
<1> QED BY <1>1, <1>2, <1>3 DEF DagInv

\* A dependency is a node of the graph.
LEMMA DepsAreNodes ==
    ASSUME DagShapes
    PROVE  \A n \in Nodes : deps[n] \subseteq Nodes
BY GraphAssumption DEF DagShapes, Nodes

\* Steps of the scheduler process a node after its dependencies.
LEMMA SchedulerKeeps ==
    ASSUME DagInv, SchedulerStep
    PROVE  DagInv'
<1> USE DEF KeepFile, Nodes
<1>1. CASE \E n \in Nodes : ScheduleDone(n)
  <2>1. PICK n \in Nodes : ScheduleDone(n)
    BY <1>1
  <2> QED BY <2>1 DEF ScheduleDone, Ready, DagInv, DagShapes, TasksInv, FinishedInv, PeekInv,
                      DepsDone, DependenciesFirst
<1>2. CASE \E n \in Nodes : ScheduleTask(n)
  <2>1. PICK n \in Nodes : ScheduleTask(n)
    BY <1>2
  <2>2. /\ work' = [work EXCEPT ![n].at = "waiting"]
        /\ deps[n] \subseteq processed
        /\ UNCHANGED <<deps, run, status, finished, processed, peek>>
    BY <2>1 DEF ScheduleTask, Ready
  <2>3. DagShapes' /\ TasksInv'
    BY <2>2 DEF DagInv, DagShapes, TasksInv, AfterClaim
  <2> QED BY <2>2, <2>3 DEF DagInv, FinishedInv, PeekInv, DepsDone, DependenciesFirst
<1>3. CASE \E n \in Nodes : ProcessFinished(n)
  <2>1. PICK n \in Nodes : ProcessFinished(n)
    BY <1>3
  <2> QED BY <2>1 DEF ProcessFinished, DagInv, DagShapes, TasksInv, FinishedInv, PeekInv,
                      DepsDone, DependenciesFirst
<1>4. CASE ProcessWarmed
  <2>1. /\ processed' = {n \in Nodes : status[n] = "done"}
        /\ UNCHANGED <<deps, run, status, work, finished, peek>>
    BY <1>4 DEF ProcessWarmed
  <2>2. processed \subseteq processed'
    BY <2>1 DEF DagInv, DagShapes, DependenciesFirst
  <2>3. \A n \in Nodes : deps[n] \subseteq Nodes
    BY DepsAreNodes DEF DagInv
  <2> QED BY <2>1, <2>2, <2>3
          DEF DagInv, DagShapes, TasksInv, FinishedInv, PeekInv, DepsDone, DependenciesFirst
<1>5. CASE DagDone
  BY <1>5 DEF DagDone, DagInv, DagShapes, TasksInv, FinishedInv, PeekInv, DepsDone,
              DependenciesFirst
<1> QED BY <1>1, <1>2, <1>3, <1>4, <1>5 DEF SchedulerStep

\* A task claims its node when the dependencies are done, and only a task that
\* claimed it completes it.
LEMMA TaskKeeps ==
    ASSUME DagInv, NEW n \in Nodes, TaskStep(n)
    PROVE  DagInv'
<1> USE DEF KeepFile, Nodes
<1>1. CASE ClaimNode(n)
  <2>1. DepsDone(n) /\ deps[n] \subseteq processed
    BY <1>1 DEF ClaimNode, TaskAt, DagInv, TasksInv
  <2>2. CASE status[n] = "pending"
    <3>1. /\ status' = [status EXCEPT ![n] = "running"]
          /\ work' = [work EXCEPT ![n].at = "lookup", ![n].fp = FingerprintFor(n)]
          /\ UNCHANGED <<deps, run, finished, processed, peek>>
      BY <1>1, <2>2 DEF ClaimNode
    <3>2. DagShapes' /\ TasksInv'
      <4>1. \A m \in Nodes : m # n => work'[m] = work[m]
        BY <3>1 DEF DagInv, DagShapes
      <4>2. work'[n] = [at |-> "lookup", fp |-> FingerprintFor(n), value |-> work[n].value]
        <5>1. work[n] = [at |-> work[n].at, fp |-> work[n].fp, value |-> work[n].value]
          BY DEF DagInv, DagShapes
        <5>2. n \in DOMAIN work
          BY DEF DagInv, DagShapes
        <5>3. ASSUME NEW f PROVE [work EXCEPT ![n].at = "lookup", ![n].fp = f][n]
                                    = [at |-> "lookup", fp |-> f, value |-> work[n].value]
          <6> DEFINE w == [work EXCEPT ![n].at = "lookup"]
          <6>1. n \in DOMAIN w /\ w[n] = [at |-> "lookup", fp |-> work[n].fp, value |-> work[n].value]
            BY <5>1, <5>2
          <6> HIDE DEF w
          <6>2. [w EXCEPT ![n].fp = f][n] = [at |-> "lookup", fp |-> f, value |-> work[n].value]
            BY <6>1
          <6> QED BY <6>2 DEF w
        <5> QED BY <3>1, <5>3
      <4>3. DagShapes'
        BY <3>1, <4>1, <4>2 DEF DagInv, DagShapes
      <4>4. TasksInv'
        BY <2>1, <3>1, <4>1, <4>2 DEF DagInv, DagShapes, TasksInv, AfterClaim
      <4> QED BY <4>3, <4>4
    <3>3. FinishedInv' /\ PeekInv'
      BY <2>2, <3>1, DepsAreNodes DEF DagInv, DagShapes, FinishedInv, PeekInv, DepsDone
    <3>4. DependenciesFirst'
      BY <2>1, <2>2, <3>1, DepsAreNodes DEF DagInv, DagShapes, DepsDone, DependenciesFirst
    <3> QED BY <3>2, <3>3, <3>4 DEF DagInv
  <2>3. CASE status[n] = "done"
    <3>1. /\ work' = [work EXCEPT ![n].at = "ended"]
          /\ finished' = finished \cup {n}
          /\ UNCHANGED <<deps, run, status, processed, peek>>
      BY <1>1, <2>3 DEF ClaimNode
    <3>2. DagShapes' /\ TasksInv'
      BY <2>1, <3>1 DEF DagInv, DagShapes, TasksInv, AfterClaim
    <3> QED BY <2>1, <2>3, <3>1, <3>2
            DEF DagInv, FinishedInv, PeekInv, DepsDone, DependenciesFirst
  <2> QED BY <1>1, <2>2, <2>3 DEF ClaimNode
<1>2. CASE LookUp(n) \/ Execute(n) \/ Store(n)
  <2>1. /\ run = "active" /\ work[n].at \in {"lookup", "execute", "store"}
        /\ UNCHANGED <<deps, run, status, finished, processed, peek>>
    BY <1>2 DEF LookUp, Execute, Store, TaskAt
  <2>2. \E a \in AfterClaim : \E v :
            work' = [work EXCEPT ![n].at = a, ![n].value = v] \/ work' = [work EXCEPT ![n].at = a]
    BY <1>2 DEF LookUp, Execute, Store, AfterClaim
  <2>3. DagShapes' /\ TasksInv'
    <3>1. \A m \in Nodes : m # n => work'[m] = work[m]
      BY <2>2 DEF DagInv, DagShapes
    <3>2. \E a \in AfterClaim : \E v : work'[n] = [at |-> a, fp |-> work[n].fp, value |-> v]
      <4>1. n \in DOMAIN work /\ work[n] = [at |-> work[n].at, fp |-> work[n].fp, value |-> work[n].value]
        BY DEF DagInv, DagShapes
      <4>2. PICK a \in AfterClaim : \E v :
              work' = [work EXCEPT ![n].at = a, ![n].value = v] \/ work' = [work EXCEPT ![n].at = a]
        BY <2>2
      <4>3. PICK v :
              work' = [work EXCEPT ![n].at = a, ![n].value = v] \/ work' = [work EXCEPT ![n].at = a]
        BY <4>2
      <4>4. \/ work'[n] = [at |-> a, fp |-> work[n].fp, value |-> v]
            \/ work'[n] = [at |-> a, fp |-> work[n].fp, value |-> work[n].value]
        BY <4>1, <4>3
      <4> QED BY <4>4
    <3>3. work' = [m \in Nodes |-> work'[m]]
      BY <2>2 DEF DagInv, DagShapes
    <3>4. DagShapes'
      BY <2>1, <3>1, <3>2, <3>3 DEF DagInv, DagShapes
    <3>5. TasksInv'
      BY <2>1, <3>1, <3>2 DEF DagInv, TasksInv, AfterClaim
    <3> QED BY <3>4, <3>5
  <2> QED BY <2>1, <2>3 DEF DagInv, FinishedInv, PeekInv, DepsDone, DependenciesFirst
<1>3. CASE CommitNode(n)
  <2>1. /\ run = "active" /\ work[n].at \in {"hit", "miss"}
        /\ status' = [status EXCEPT ![n] = "done"]
        /\ work' = [work EXCEPT ![n].at = "ended"]
        /\ finished' = finished \cup {n}
        /\ UNCHANGED <<deps, run, processed, peek>>
    BY <1>3 DEF CommitNode, TaskAt
  <2>2. status[n] = "running" /\ deps[n] \subseteq processed /\ DepsDone(n)
    BY <2>1 DEF DagInv, TasksInv, AfterClaim, DependenciesFirst, DepsDone
  <2>3. DagShapes' /\ TasksInv'
    BY <2>1, <2>2 DEF DagInv, DagShapes, TasksInv, AfterClaim
  <2>4. FinishedInv' /\ PeekInv'
    BY <2>1, <2>2, DepsAreNodes DEF DagInv, DagShapes, FinishedInv, PeekInv, DepsDone
  <2>5. DependenciesFirst'
    BY <2>1, <2>2, DepsAreNodes DEF DagInv, DagShapes, DepsDone, DependenciesFirst
  <2> QED BY <2>3, <2>4, <2>5 DEF DagInv
<1>4. CASE FailNode(n)
  <2>1. /\ run' = "failed"
        /\ status' = [m \in Nodes |-> IF status[m] = "running" THEN "failed" ELSE status[m]]
        /\ work' = [m \in Nodes |-> [work[m] EXCEPT !.at = "ended"]]
        /\ UNCHANGED <<deps, finished, processed, peek>>
    BY <1>4 DEF FailNode
  <2>2. DagShapes' /\ TasksInv'
    BY <2>1 DEF DagInv, DagShapes, TasksInv
  <2>3. FinishedInv' /\ PeekInv'
    BY <2>1, DepsAreNodes DEF DagInv, DagShapes, FinishedInv, PeekInv, DepsDone
  <2>4. DependenciesFirst'
    BY <2>1, DepsAreNodes DEF DagInv, DagShapes, DepsDone, DependenciesFirst
  <2> QED BY <2>2, <2>3, <2>4 DEF DagInv
<1> QED BY <1>1, <1>2, <1>3, <1>4 DEF TaskStep

\* A prefetcher completes a pending node whose dependencies were done when it
\* looked, and done they stay.
LEMMA PrefetcherKeeps ==
    ASSUME DagInv, NEW p \in Prefetchers, PrefetcherStep(p)
    PROVE  DagInv'
<1> USE DEF KeepFile, Nodes
<1>1. CASE \E n \in Nodes : PrefetchStart(p, n)
  <2>1. PICK n \in Nodes : PrefetchStart(p, n)
    BY <1>1
  <2>2. /\ DepsDone(n) /\ peek' = [peek EXCEPT ![p] = FingerprintFor(n)]
        /\ UNCHANGED <<deps, run, status, work, finished, processed>>
    BY <2>1 DEF PrefetchStart
  <2>3. FingerprintFor(n).node = n
    BY DEF FingerprintFor
  <2>4. PeekInv' /\ DagShapes'
    BY <2>2, <2>3 DEF DagInv, DagShapes, PeekInv, DepsDone
  <2> QED BY <2>2, <2>4 DEF DagInv, TasksInv, FinishedInv, DependenciesFirst
<1>2. CASE PrefetchHit(p)
  <2> DEFINE n == peek[p].node
  <2>1. n \in Nodes /\ DepsDone(n)
    BY <1>2 DEF PrefetchHit, DagInv, PeekInv
  <2>2. /\ status[n] = "pending" /\ status' = [status EXCEPT ![n] = "done"]
        /\ peek' = [peek EXCEPT ![p] = NoFp]
        /\ UNCHANGED <<deps, run, work, finished, processed>>
    BY <1>2 DEF PrefetchHit
  <2> HIDE DEF n
  <2>3. DagShapes' /\ TasksInv'
    BY <2>1, <2>2 DEF DagInv, DagShapes, TasksInv
  <2>4. FinishedInv' /\ PeekInv'
    BY <2>1, <2>2, DepsAreNodes DEF DagInv, DagShapes, FinishedInv, PeekInv, DepsDone
  <2>5. DependenciesFirst'
    BY <2>1, <2>2, DepsAreNodes DEF DagInv, DagShapes, DepsDone, DependenciesFirst
  <2> QED BY <2>3, <2>4, <2>5 DEF DagInv
<1>3. CASE PrefetchMiss(p)
  BY <1>3 DEF PrefetchMiss, DagInv, DagShapes, TasksInv, FinishedInv, PeekInv, DepsDone,
              DependenciesFirst
<1> QED BY <1>1, <1>2, <1>3 DEF PrefetcherStep, LookUpEnds

\* The invariant of the DAG engine holds at the start, and every step keeps it.
LEMMA DagInductive ==
    /\ DagInit => DagInv
    /\ DagInv /\ [DagNext]_dagVars => DagInv'
<1>1. DagInit => DagInv
  BY FreshRun DEF DagInit, Nodes
<1>2. DagInv /\ UNCHANGED dagVars => DagInv'
  BY DEF dagVars, DagInv, DagShapes, TasksInv, FinishedInv, PeekInv, DepsDone, DependenciesFirst,
         Nodes
<1>3. DagInv /\ DagNext => DagInv'
  <2> SUFFICES ASSUME DagInv, DagNext PROVE DagInv'
    OBVIOUS
  <2>1. CASE RunAgain
    <3>1. /\ deps \in Graphs /\ deps' = deps
          /\ status' = [n \in Nodes |-> "pending"] /\ work' = [n \in Nodes |-> NoTask]
          /\ finished' = {} /\ processed' = {} /\ peek' = [p \in Prefetchers |-> NoFp]
      BY <2>1 DEF RunAgain, Fresh, DagInv, DagShapes
    <3>2. DagShapes'
      BY <3>1 DEF DagShapes, NoTask, Nodes
    <3>3. TasksInv' /\ FinishedInv' /\ DependenciesFirst'
      BY <3>1 DEF TasksInv, FinishedInv, DependenciesFirst, NoTask, AfterClaim, Nodes
    <3>4. PeekInv'
      BY <3>1 DEF PeekInv
    <3> QED BY <3>2, <3>3, <3>4 DEF DagInv
  <2>2. CASE EditFile
    BY <2>2 DEF EditFile, dagRunVars, DagInv, DagShapes, TasksInv, FinishedInv, PeekInv, DepsDone,
                DependenciesFirst, Nodes
  <2> QED BY <2>1, <2>2, SchedulerKeeps, TaskKeeps, PrefetcherKeeps DEF DagNext
<1> QED BY <1>1, <1>2, <1>3

\* The inductive invariant of the engine.
THEOREM DagInvariant == DagSpec => []DagInv
BY DagInductive, PTL DEF DagSpec

\* For every graph, with or without cycles, and any number of prefetchers, runs
\* and edits: a node runs or is completed from the cache only when every node
\* it depends on is done, and _execute_all processes it after them.
THEOREM DependenciesComeFirst == DagSpec => []DependenciesFirst
<1>1. DagInv => DependenciesFirst
  BY DEF DagInv
<1> QED BY <1>1, DagInvariant, PTL
-----------------------------------------------------------------------------
(***************************************************************************)
(* Outputs are fresh.  The set of nodes an output stands for unfolds along *)
(* depends_on exactly as fingerprints and outputs are put together, so     *)
(* that a fingerprint names the version its output was computed from, in   *)
(* the cache too, as long as no edit falls into a run.                     *)
(***************************************************************************)

\* What running n and all it needs on version v of the file reads.
Reads(n, v) == Needs(n) \X {v}

\* An output in the cache is what its fingerprint says, for some version.
CacheWhole ==
    \A f \in DOMAIN cache :
        /\ f.node \in Nodes
        /\ \E v : f.hashed = Reads(f.node, v) /\ cache[f] = Reads(f.node, v)

ResultsWhole ==
    \A n \in Nodes : status[n] = "done" =>
        result[n].value = Reads(n, version) /\ result[n].fp.hashed = Reads(n, version)

\* A task has fingerprinted the present file, and so has what it looked up or ran.
TasksWhole ==
    \A n \in Nodes :
        /\ work[n].at \in AfterClaim =>
              work[n].fp.node = n /\ work[n].fp.hashed = Reads(n, version)
        /\ work[n].at \in {"store", "hit", "miss"} => work[n].value = Reads(n, version)

LookUpsWhole ==
    \A p \in Prefetchers : peek[p] # NoFp =>
        peek[p] \in DOMAIN cache /\ peek[p].hashed = Reads(peek[p].node, version)

FreshInv ==
    /\ version \in Versions
    /\ result = [n \in Nodes |-> result[n]]
    /\ ~raced => CacheWhole
    /\ ~raced /\ run = "active" => ResultsWhole /\ TasksWhole /\ LookUpsWhole

\* Needs(n) is the least set of nodes with n that is closed under depends_on.
LEMMA NeedsLeast ==
    ASSUME deps \in Graphs, NEW n \in Nodes
    PROVE  /\ Needs(n) \in SUBSET Nodes /\ n \in Needs(n)
           /\ \A m \in Needs(n) : deps[m] \subseteq Needs(n)
           /\ \A R \in SUBSET Nodes : n \in R /\ (\A m \in R : deps[m] \subseteq R) => Needs(n) \subseteq R
<1> DEFINE Closed(S) == n \in S /\ \A m \in S : deps[m] \subseteq S
           Least(S) == Closed(S) /\ \A R \in SUBSET Nodes : Closed(R) => S \subseteq R
           L == {m \in Nodes : \A R \in SUBSET Nodes : Closed(R) => m \in R}
<1>1. \A m \in Nodes : deps[m] \subseteq Nodes
  BY GraphAssumption DEF Nodes
<1>2. L \in SUBSET Nodes /\ Least(L)
  BY <1>1
<1>3. Needs(n) = CHOOSE S \in SUBSET Nodes : Least(S)
  BY DEF Needs
<1> HIDE DEF L, Least
<1>4. Needs(n) \in SUBSET Nodes /\ Least(Needs(n))
  BY <1>2, <1>3
<1> QED BY <1>4 DEF Least

\* A node needs itself and what its dependencies need.
LEMMA NeedsUnfold ==
    ASSUME deps \in Graphs, NEW n \in Nodes
    PROVE  Needs(n) = {n} \cup UNION {Needs(d) : d \in deps[n]}
<1> DEFINE U == {n} \cup UNION {Needs(d) : d \in deps[n]}
<1>1. deps[n] \subseteq Nodes
  BY GraphAssumption DEF Nodes
<1>2. \A d \in deps[n] : Needs(d) \subseteq Needs(n)
  <2>1. TAKE d \in deps[n]
  <2>2. d \in Nodes /\ d \in Needs(n)
    BY <1>1, NeedsLeast
  <2> QED BY <2>2, NeedsLeast
<1>3. U \in SUBSET Nodes
  BY <1>1, NeedsLeast
<1>4. \A m \in U : deps[m] \subseteq U
  <2>1. TAKE m \in U
  <2>2. CASE m = n
    BY <2>2, <1>1, NeedsLeast
  <2>3. CASE \E d \in deps[n] : m \in Needs(d)
    BY <2>3, <1>1, NeedsLeast
  <2> QED BY <2>2, <2>3
<1>5. Needs(n) \subseteq U
  BY <1>3, <1>4, NeedsLeast
<1>6. U \subseteq Needs(n)
  BY <1>2, NeedsLeast
<1> QED BY <1>5, <1>6

\* The same of what is read, and no two versions give the same.
LEMMA ReadsUnfold ==
    ASSUME deps \in Graphs, NEW n \in Nodes, NEW v
    PROVE  /\ Reads(n, v) = {<<n, v>>} \cup UNION {Reads(d, v) : d \in deps[n]}
           /\ \A w : Reads(n, v) = Reads(n, w) => v = w
<1>1. Needs(n) = {n} \cup UNION {Needs(d) : d \in deps[n]}
  BY NeedsUnfold
<1>2. Reads(n, v) \subseteq {<<n, v>>} \cup UNION {Reads(d, v) : d \in deps[n]}
  BY <1>1 DEF Reads
<1>3. {<<n, v>>} \cup UNION {Reads(d, v) : d \in deps[n]} \subseteq Reads(n, v)
  BY <1>1 DEF Reads
<1>4. <<n, v>> \in Reads(n, v) /\ \A w : <<n, v>> \in Reads(n, w) => v = w
  BY NeedsLeast DEF Reads
<1> QED BY <1>2, <1>3, <1>4

\* With its dependencies done, a node's fingerprint and its output are whole.
LEMMA FingerprintWhole ==
    ASSUME DagInv, FreshInv, ~raced, run = "active", NEW n \in Nodes, DepsDone(n)
    PROVE  /\ FingerprintFor(n).node = n
           /\ FingerprintFor(n).hashed = Reads(n, version)
           /\ {<<n, version>>} \cup Kwargs(n) = Reads(n, version)
<1>1. deps \in Graphs /\ deps[n] \subseteq Nodes
  BY DepsAreNodes DEF DagInv, DagShapes
<1>2. \A d \in deps[n] : result[d].value = Reads(d, version) /\ result[d].fp.hashed = Reads(d, version)
  BY <1>1 DEF FreshInv, ResultsWhole, DepsDone
<1>3. Reads(n, version) = {<<n, version>>} \cup UNION {Reads(d, version) : d \in deps[n]}
  BY <1>1, ReadsUnfold
<1>4. Kwargs(n) = UNION {Reads(d, version) : d \in deps[n]}
  BY <1>2 DEF Kwargs
<1>5. UNION {result[d].fp.hashed : d \in deps[n]} = UNION {Reads(d, version) : d \in deps[n]}
  BY <1>2
<1> QED BY <1>3, <1>4, <1>5 DEF FingerprintFor

\* A hit on a fingerprint of the present file gives an output of the present file.
LEMMA HitIsWhole ==
    ASSUME DagInv, FreshInv, ~raced, NEW f \in DOMAIN cache, f.hashed = Reads(f.node, version)
    PROVE  f.node \in Nodes /\ cache[f] = Reads(f.node, version)
<1>1. PICK v : f.node \in Nodes /\ f.hashed = Reads(f.node, v) /\ cache[f] = Reads(f.node, v)
  BY DEF FreshInv, CacheWhole
<1>2. v = version
  <2>1. deps \in Graphs /\ Reads(f.node, v) = Reads(f.node, version)
    BY <1>1 DEF DagInv, DagShapes
  <2> QED BY <1>1, <2>1, ReadsUnfold
<1> QED BY <1>1, <1>2

\* Neither needs nor reads change: the graph is registered once.
LEMMA ReadsFixed ==
    ASSUME deps' = deps
    PROVE  Nodes' = Nodes /\ \A n, v : Reads(n, v)' = Reads(n, v)
<1>1. Nodes' = Nodes
  BY DEF Nodes
<1>2. ASSUME NEW n PROVE Needs(n)' = Needs(n)
  BY <1>1 DEF Needs
<1> QED BY <1>1, <1>2 DEF Reads

\* Steps that touch no fingerprint, output or file.
LEMMA FreshFrame ==
    ASSUME FreshInv, deps' = deps,
           UNCHANGED <<version, cache, status, result, raced>>,
           run' = "active" => run = "active",
           \A n \in Nodes : work'[n].at \in AfterClaim => work'[n] = work[n],
           \A p \in Prefetchers : peek'[p] \in {peek[p], NoFp}
    PROVE  FreshInv'
<1>1. Nodes' = Nodes /\ \A n, v : Reads(n, v)' = Reads(n, v)
  BY ReadsFixed
<1>2. version' \in Versions /\ (result = [n \in Nodes |-> result[n]])'
  BY <1>1 DEF FreshInv
<1>3. ASSUME ~raced PROVE CacheWhole'
  BY <1>1, <1>3 DEF FreshInv, CacheWhole
<1>4. ASSUME ~raced, run' = "active" PROVE ResultsWhole' /\ TasksWhole' /\ LookUpsWhole'
  <2>1. ResultsWhole /\ TasksWhole /\ LookUpsWhole
    BY <1>4 DEF FreshInv
  <2>2. ResultsWhole'
    BY <1>1, <2>1 DEF ResultsWhole
  <2>3. TasksWhole'
    BY <1>1, <2>1 DEF TasksWhole, AfterClaim
  <2>4. LookUpsWhole'
    BY <1>1, <2>1 DEF LookUpsWhole
  <2> QED BY <2>2, <2>3, <2>4
<1> QED BY <1>2, <1>3, <1>4 DEF FreshInv

\* The task of n gets on to a with value v: nothing else of it changes, and no
\* other task.
WithValue(n, a, v) == [work EXCEPT ![n].at = a, ![n].value = v]

LEMMA ValueWritten ==
    ASSUME DagInv, NEW n \in Nodes, NEW a, NEW v, work' = WithValue(n, a, v)
    PROVE  /\ work'[n].at = a /\ work'[n].value = v /\ work'[n].fp = work[n].fp
           /\ \A m \in Nodes : m # n => work'[m] = work[m]
<1> DEFINE w == [work EXCEPT ![n].at = a]
<1>1. /\ n \in DOMAIN w /\ DOMAIN w = Nodes
      /\ w[n] = [at |-> a, fp |-> work[n].fp, value |-> work[n].value]
      /\ \A m \in Nodes : m # n => w[m] = work[m]
  BY DEF DagInv, DagShapes
<1>2. work' = [w EXCEPT ![n].value = v]
  BY DEF WithValue
<1> HIDE DEF w
<1> QED BY <1>1, <1>2

\* The same of a claim, which notes the fingerprint.
LEMMA FingerprintWritten ==
    ASSUME DagInv, NEW n \in Nodes, NEW f,
           work' = [work EXCEPT ![n].at = "lookup", ![n].fp = f]
    PROVE  /\ work'[n].at = "lookup" /\ work'[n].fp = f
           /\ \A m \in Nodes : m # n => work'[m] = work[m]
<1> DEFINE w == [work EXCEPT ![n].at = "lookup"]
<1>1. /\ n \in DOMAIN w /\ DOMAIN w = Nodes
      /\ w[n] = [at |-> "lookup", fp |-> work[n].fp, value |-> work[n].value]
      /\ \A m \in Nodes : m # n => w[m] = work[m]
  BY DEF DagInv, DagShapes
<1>2. work' = [w EXCEPT ![n].fp = f]
  OBVIOUS
<1> HIDE DEF w
<1> QED BY <1>1, <1>2

\* The scheduler hands nodes on and computes nothing.
LEMMA SchedulerFresh ==
    ASSUME DagInv, FreshInv, SchedulerStep
    PROVE  FreshInv'
<1>1. CASE \E n \in Nodes : ScheduleTask(n)
  <2>1. PICK n \in Nodes : ScheduleTask(n)
    BY <1>1
  <2>2. /\ work' = [work EXCEPT ![n].at = "waiting"]
        /\ UNCHANGED <<deps, version, cache, run, status, result, peek, raced>>
    BY <2>1 DEF ScheduleTask, KeepFile
  <2>3. \A m \in Nodes : work'[m].at \in AfterClaim => work'[m] = work[m]
    BY <2>2 DEF DagInv, DagShapes, AfterClaim
  <2> QED BY <2>2, <2>3, FreshFrame
<1>2. CASE ~\E n \in Nodes : ScheduleTask(n)
  <2>1. /\ run' = "active" => run = "active"
        /\ UNCHANGED <<deps, version, cache, status, result, work, peek, raced>>
    BY <1>2 DEF SchedulerStep, ScheduleDone, ProcessFinished, ProcessWarmed, DagDone, KeepFile
  <2> QED BY <2>1, FreshFrame
<1> QED BY <1>1, <1>2

\* A task's fingerprint, look-up, execution and result.
LEMMA TaskFresh ==
    ASSUME DagInv, FreshInv, NEW n \in Nodes, TaskStep(n)
    PROVE  FreshInv'
<1>1. /\ UNCHANGED <<deps, version, peek, raced>>
      /\ Nodes' = Nodes /\ \A m, v : Reads(m, v)' = Reads(m, v)
      /\ run = "active" /\ deps \in Graphs
  <2>1. UNCHANGED <<deps, version, peek, raced>> /\ run = "active"
    BY DEF TaskStep, ClaimNode, LookUp, Execute, Store, CommitNode, FailNode, KeepFile, TaskAt
  <2> QED BY <2>1, ReadsFixed DEF DagInv, DagShapes
<1>2. CASE FailNode(n)
  <2>1. /\ run' = "failed" /\ UNCHANGED <<cache, result>>
    BY <1>2 DEF FailNode
  <2>2. ASSUME ~raced PROVE CacheWhole'
    BY <1>1, <2>1, <2>2 DEF FreshInv, CacheWhole
  <2> QED BY <1>1, <2>1, <2>2 DEF FreshInv
<1>3. CASE ClaimNode(n)
  <2>1. CASE status[n] = "done"
    <3>1. /\ work' = [work EXCEPT ![n].at = "ended"]
          /\ UNCHANGED <<cache, run, status, result>>
      BY <1>3, <2>1 DEF ClaimNode
    <3>2. \A m \in Nodes : work'[m].at \in AfterClaim => work'[m] = work[m]
      BY <3>1 DEF DagInv, DagShapes, AfterClaim
    <3> QED BY <1>1, <3>1, <3>2, FreshFrame
  <2>2. CASE status[n] = "pending"
    <3>1. /\ DepsDone(n) /\ status' = [status EXCEPT ![n] = "running"]
          /\ work' = [work EXCEPT ![n].at = "lookup", ![n].fp = FingerprintFor(n)]
          /\ UNCHANGED <<cache, run, result>>
      BY <1>3, <2>2 DEF ClaimNode
    <3>2. /\ work'[n].at = "lookup" /\ work'[n].fp = FingerprintFor(n)
          /\ \A m \in Nodes : m # n => work'[m] = work[m]
      BY <3>1, FingerprintWritten, Zenon
    <3>3. ASSUME ~raced PROVE CacheWhole' /\ ResultsWhole' /\ TasksWhole' /\ LookUpsWhole'
      <4>1. CacheWhole /\ ResultsWhole /\ TasksWhole /\ LookUpsWhole
        BY <1>1, <3>3 DEF FreshInv
      <4>2. FingerprintFor(n).node = n /\ FingerprintFor(n).hashed = Reads(n, version)
        BY <1>1, <3>1, <3>3, FingerprintWhole
      <4>3. /\ work'[n].at = "lookup" /\ work'[n].fp = FingerprintFor(n)
            /\ \A m \in Nodes : m # n => work'[m] = work[m]
        BY <3>1, <3>2
      <4>4. CacheWhole' /\ LookUpsWhole'
        BY <1>1, <3>1, <4>1 DEF CacheWhole, LookUpsWhole
      <4>5. ResultsWhole'
        BY <1>1, <3>1, <4>1 DEF ResultsWhole, DagInv, DagShapes
      <4>6. TasksWhole'
        BY <1>1, <4>1, <4>2, <4>3 DEF TasksWhole, AfterClaim
      <4> QED BY <4>4, <4>5, <4>6
    <3> QED BY <1>1, <3>1, <3>3 DEF FreshInv
  <2> QED BY <1>3, <2>1, <2>2 DEF ClaimNode
<1>4. CASE LookUp(n)
  <2>1. /\ work[n].at = "lookup" /\ UNCHANGED <<cache, run, status, result>>
        /\ work' = IF work[n].fp \in DOMAIN cache
                   THEN [work EXCEPT ![n].at = "hit", ![n].value = cache[work[n].fp]]
                   ELSE [work EXCEPT ![n].at = "execute"]
    BY <1>4 DEF LookUp, TaskAt
  <2>2. /\ \A m \in Nodes : m # n => work'[m] = work[m]
        /\ work'[n].fp = work[n].fp
        /\ \/ work'[n].at = "hit" /\ work[n].fp \in DOMAIN cache /\ work'[n].value = cache[work[n].fp]
           \/ work'[n].at = "execute"
    <3>1. CASE work[n].fp \notin DOMAIN cache
      BY <2>1, <3>1 DEF DagInv, DagShapes
    <3>2. CASE work[n].fp \in DOMAIN cache
      <4>1. work' = WithValue(n, "hit", cache[work[n].fp])
        BY <2>1, <3>2 DEF WithValue
      <4>2. /\ work'[n].at = "hit" /\ work'[n].value = cache[work[n].fp] /\ work'[n].fp = work[n].fp
            /\ \A m \in Nodes : m # n => work'[m] = work[m]
        BY <4>1, ValueWritten, Zenon
      <4> QED BY <3>2, <4>2
    <3> QED BY <3>1, <3>2
  <2>3. ASSUME ~raced PROVE CacheWhole' /\ ResultsWhole' /\ TasksWhole' /\ LookUpsWhole'
    <3>1. CacheWhole /\ ResultsWhole /\ TasksWhole /\ LookUpsWhole
      BY <1>1, <2>3 DEF FreshInv
    <3>2. work[n].fp.node = n /\ work[n].fp.hashed = Reads(n, version)
      BY <2>1, <3>1 DEF TasksWhole, AfterClaim
    <3>3. work[n].fp \in DOMAIN cache => cache[work[n].fp] = Reads(n, version)
      BY <2>3, <3>2, HitIsWhole
    <3>4. TasksWhole'
      BY <1>1, <2>2, <3>1, <3>2, <3>3 DEF TasksWhole, AfterClaim
    <3> QED BY <1>1, <2>1, <3>1, <3>4 DEF CacheWhole, ResultsWhole, LookUpsWhole
  <2> QED BY <1>1, <2>1, <2>3 DEF FreshInv
<1>5. CASE Execute(n)
  <2>1. /\ work[n].at = "execute" /\ UNCHANGED <<cache, run, status, result>>
        /\ work' = [work EXCEPT ![n].at = "store", ![n].value = {<<n, version>>} \cup Kwargs(n)]
    BY <1>5 DEF Execute, TaskAt
  <2>2. /\ work'[n].at = "store" /\ work'[n].value = {<<n, version>>} \cup Kwargs(n)
        /\ work'[n].fp = work[n].fp /\ \A m \in Nodes : m # n => work'[m] = work[m]
    <3>1. work' = WithValue(n, "store", {<<n, version>>} \cup Kwargs(n))
      BY <2>1 DEF WithValue
    <3> QED BY <3>1, ValueWritten, Zenon
  <2>3. ASSUME ~raced PROVE CacheWhole' /\ ResultsWhole' /\ TasksWhole' /\ LookUpsWhole'
    <3>1. CacheWhole /\ ResultsWhole /\ TasksWhole /\ LookUpsWhole
      BY <1>1, <2>3 DEF FreshInv
    <3>2. DepsDone(n)
      BY <1>1, <2>1 DEF DagInv, TasksInv, DependenciesFirst, DepsDone, AfterClaim
    <3>3. /\ work'[n].at = "store" /\ work'[n].value = Reads(n, version) /\ work'[n].fp = work[n].fp
          /\ \A m \in Nodes : m # n => work'[m] = work[m]
      BY <1>1, <2>1, <2>2, <2>3, <3>2, FingerprintWhole
    <3>4. work[n].fp.node = n /\ work[n].fp.hashed = Reads(n, version)
      BY <2>1, <3>1 DEF TasksWhole, AfterClaim
    <3>5. TasksWhole'
      BY <1>1, <3>1, <3>3, <3>4 DEF TasksWhole, AfterClaim
    <3> QED BY <1>1, <2>1, <3>1, <3>5 DEF CacheWhole, ResultsWhole, LookUpsWhole
  <2> QED BY <1>1, <2>1, <2>3 DEF FreshInv
<1>6. CASE Store(n)
  <2>1. /\ work[n].at = "store" /\ work' = [work EXCEPT ![n].at = "miss"]
        /\ cache' = [f \in DOMAIN cache \cup {work[n].fp} |->
                        IF f = work[n].fp THEN work[n].value ELSE cache[f]]
        /\ UNCHANGED <<run, status, result>>
    BY <1>6 DEF Store, TaskAt
  <2>2. /\ work'[n] = [at |-> "miss", fp |-> work[n].fp, value |-> work[n].value]
        /\ \A m \in Nodes : m # n => work'[m] = work[m]
    BY <2>1 DEF DagInv, DagShapes
  <2>3. ASSUME ~raced PROVE CacheWhole' /\ ResultsWhole' /\ TasksWhole' /\ LookUpsWhole'
    <3>1. CacheWhole /\ ResultsWhole /\ TasksWhole /\ LookUpsWhole
      BY <1>1, <2>3 DEF FreshInv
    <3>2. /\ work[n].fp.node = n /\ work[n].fp.hashed = Reads(n, version)
          /\ work[n].value = Reads(n, version)
      BY <2>1, <3>1 DEF TasksWhole, AfterClaim
    <3>3. CacheWhole'
      BY <1>1, <2>1, <3>1, <3>2 DEF CacheWhole
    <3>4. TasksWhole'
      BY <1>1, <2>2, <3>1, <3>2 DEF TasksWhole, AfterClaim
    <3>5. LookUpsWhole' /\ ResultsWhole'
      BY <1>1, <2>1, <3>1 DEF LookUpsWhole, ResultsWhole
    <3> QED BY <3>3, <3>4, <3>5
  <2> QED BY <1>1, <2>1, <2>3 DEF FreshInv
<1>7. CASE CommitNode(n)
  <2>1. /\ work[n].at \in {"hit", "miss"} /\ work' = [work EXCEPT ![n].at = "ended"]
        /\ status' = [status EXCEPT ![n] = "done"]
        /\ result' = [result EXCEPT ![n] =
              [value |-> work[n].value, fp |-> work[n].fp,
               cached |-> IF work[n].at = "hit" THEN "CACHE_HIT" ELSE "CACHE_MISS"]]
        /\ UNCHANGED <<cache, run>>
    BY <1>7 DEF CommitNode, TaskAt
  <2>2. /\ work'[n].at = "ended" /\ \A m \in Nodes : m # n => work'[m] = work[m]
        /\ \A m \in Nodes : m # n => result'[m] = result[m] /\ status'[m] = status[m]
        /\ result'[n].value = work[n].value /\ result'[n].fp = work[n].fp
        /\ result' = [m \in Nodes |-> result'[m]]
    <3>1. work'[n].at = "ended" /\ \A m \in Nodes : m # n => work'[m] = work[m]
      BY <2>1 DEF DagInv, DagShapes
    <3>2. \A m \in Nodes : m # n => status'[m] = status[m]
      BY <2>1 DEF DagInv, DagShapes
    <3>3. ASSUME NEW r, result' = [result EXCEPT ![n] = r]
          PROVE  /\ result'[n] = r /\ \A m \in Nodes : m # n => result'[m] = result[m]
                 /\ result' = [m \in Nodes |-> result'[m]]
      BY <3>3 DEF FreshInv
    <3>4. /\ result'[n].value = work[n].value /\ result'[n].fp = work[n].fp
          /\ \A m \in Nodes : m # n => result'[m] = result[m]
          /\ result' = [m \in Nodes |-> result'[m]]
      BY <2>1, <3>3
    <3> QED BY <3>1, <3>2, <3>4
  <2>3. ASSUME ~raced PROVE CacheWhole' /\ ResultsWhole' /\ TasksWhole' /\ LookUpsWhole'
    <3>1. CacheWhole /\ ResultsWhole /\ TasksWhole /\ LookUpsWhole
      BY <1>1, <2>3 DEF FreshInv
    <3>2. work[n].fp.hashed = Reads(n, version) /\ work[n].value = Reads(n, version)
      BY <2>1, <3>1 DEF TasksWhole, AfterClaim
    <3>3. CacheWhole' /\ LookUpsWhole'
      BY <1>1, <2>1, <3>1 DEF CacheWhole, LookUpsWhole
    <3>4. ResultsWhole'
      BY <1>1, <2>2, <3>1, <3>2 DEF ResultsWhole
    <3>5. TasksWhole'
      BY <1>1, <2>2, <3>1 DEF TasksWhole, AfterClaim
    <3> QED BY <3>3, <3>4, <3>5
  <2> QED BY <1>1, <2>1, <2>2, <2>3 DEF FreshInv
<1> QED BY <1>2, <1>3, <1>4, <1>5, <1>6, <1>7 DEF TaskStep

\* A prefetcher fingerprints the present file, and the file stays until the
\* look-up ends.
LEMMA PrefetcherFresh ==
    ASSUME DagInv, FreshInv, NEW p \in Prefetchers, PrefetcherStep(p)
    PROVE  FreshInv'
<1>1. /\ UNCHANGED <<deps, version, cache, run, work, raced>>
      /\ Nodes' = Nodes /\ \A m, v : Reads(m, v)' = Reads(m, v)
      /\ run = "active" /\ deps \in Graphs
  <2>1. UNCHANGED <<deps, version, cache, run, work, raced>> /\ run = "active"
    BY DEF PrefetcherStep, PrefetchStart, LookUpEnds, PrefetchHit, PrefetchMiss, KeepFile
  <2> QED BY <2>1, ReadsFixed DEF DagInv, DagShapes
<1>2. CASE \E n \in Nodes : PrefetchStart(p, n)
  <2>1. PICK n \in Nodes : PrefetchStart(p, n)
    BY <1>2
  <2>2. /\ DepsDone(n) /\ FingerprintFor(n) \in DOMAIN cache
        /\ peek' = [peek EXCEPT ![p] = FingerprintFor(n)]
        /\ UNCHANGED <<status, result>>
    BY <2>1 DEF PrefetchStart
  <2>3. ASSUME ~raced PROVE CacheWhole' /\ ResultsWhole' /\ TasksWhole' /\ LookUpsWhole'
    <3>1. CacheWhole /\ ResultsWhole /\ TasksWhole /\ LookUpsWhole
      BY <1>1, <2>3 DEF FreshInv
    <3>2. FingerprintFor(n).node = n /\ FingerprintFor(n).hashed = Reads(n, version)
      BY <1>1, <2>2, <2>3, FingerprintWhole
    <3>3. peek'[p] = FingerprintFor(n) /\ \A q \in Prefetchers : q # p => peek'[q] = peek[q]
      BY <2>2 DEF DagInv, DagShapes
    <3>4. LookUpsWhole'
      BY <1>1, <2>2, <3>1, <3>2, <3>3 DEF LookUpsWhole
    <3> QED BY <1>1, <2>2, <3>1, <3>4 DEF CacheWhole, ResultsWhole, TasksWhole
  <2> QED BY <1>1, <2>2, <2>3 DEF FreshInv
<1>3. CASE PrefetchHit(p)
  <2> DEFINE n == peek[p].node
  <2>1. n \in Nodes
    BY <1>3 DEF PrefetchHit, DagInv, PeekInv
  <2>2. /\ peek[p] # NoFp /\ status[n] = "pending" /\ status' = [status EXCEPT ![n] = "done"]
        /\ result' = [result EXCEPT ![n] = [value |-> cache[peek[p]], fp |-> peek[p],
                                            cached |-> "PREDICTIVE_CACHE_HIT"]]
        /\ peek' = [peek EXCEPT ![p] = NoFp]
    BY <1>3 DEF PrefetchHit
  <2>3. /\ \A m \in Nodes : m # n => result'[m] = result[m] /\ status'[m] = status[m]
        /\ result'[n].value = cache[peek[p]] /\ result'[n].fp = peek[p]
        /\ result' = [m \in Nodes |-> result'[m]]
        /\ peek'[p] = NoFp /\ \A q \in Prefetchers : q # p => peek'[q] = peek[q]
    BY <2>1, <2>2 DEF DagInv, DagShapes, FreshInv
  <2>4. ASSUME ~raced PROVE CacheWhole' /\ ResultsWhole' /\ TasksWhole' /\ LookUpsWhole'
    <3>1. CacheWhole /\ ResultsWhole /\ TasksWhole /\ LookUpsWhole
      BY <1>1, <2>4 DEF FreshInv
    <3>2. peek[p] \in DOMAIN cache /\ peek[p].hashed = Reads(n, version)
      BY <2>2, <3>1 DEF LookUpsWhole
    <3>3. cache[peek[p]] = Reads(n, version)
      BY <2>4, <3>2, HitIsWhole
    <3> HIDE DEF n
    <3>4. ResultsWhole'
      BY <1>1, <2>3, <3>1, <3>2, <3>3 DEF ResultsWhole
    <3>5. LookUpsWhole'
      BY <1>1, <2>3, <3>1 DEF LookUpsWhole
    <3> QED BY <1>1, <3>1, <3>4, <3>5 DEF CacheWhole, TasksWhole
  <2> QED BY <1>1, <2>3, <2>4 DEF FreshInv
<1>4. CASE PrefetchMiss(p)
  <2>1. peek' = [peek EXCEPT ![p] = NoFp] /\ UNCHANGED <<status, result>>
    BY <1>4 DEF PrefetchMiss
  <2>2. \A q \in Prefetchers : peek'[q] \in {peek[q], NoFp}
    BY <2>1 DEF DagInv, DagShapes
  <2> QED BY <1>1, <2>1, <2>2, FreshFrame
<1> QED BY <1>2, <1>3, <1>4 DEF PrefetcherStep, LookUpEnds

\* A run starts without results, tasks and look-ups, whatever the cache holds.
LEMMA RunFresh ==
    ASSUME DagInv, FreshInv, RunAgain \/ EditFile
    PROVE  FreshInv'
<1>1. deps' = deps /\ cache' = cache /\ Nodes' = Nodes /\ \A m, v : Reads(m, v)' = Reads(m, v)
  <2>1. deps' = deps /\ cache' = cache
    BY DEF RunAgain, EditFile
  <2> QED BY <2>1, ReadsFixed
<1>2. ASSUME ~raced PROVE CacheWhole'
  BY <1>1, <1>2 DEF FreshInv, CacheWhole
<1>3. CASE RunAgain
  <2>1. /\ status' = [n \in Nodes |-> "pending"] /\ result' = [n \in Nodes |-> NoResult]
        /\ work' = [n \in Nodes |-> NoTask] /\ peek' = [q \in Prefetchers |-> NoFp]
        /\ UNCHANGED <<version, raced>>
    BY <1>3 DEF RunAgain, Fresh
  <2>2. ResultsWhole' /\ TasksWhole' /\ LookUpsWhole'
    BY <1>1, <2>1 DEF ResultsWhole, TasksWhole, LookUpsWhole, AfterClaim, NoTask
  <2> QED BY <1>1, <1>2, <2>1, <2>2 DEF FreshInv
<1>4. CASE EditFile
  <2>1. /\ version' \in Versions /\ raced' = (raced \/ run = "active")
        /\ UNCHANGED <<run, result>>
    BY <1>4 DEF EditFile, dagRunVars
  <2> QED BY <1>1, <1>2, <2>1 DEF FreshInv
<1> QED BY <1>3, <1>4

\* What is computed or cached is whole at the start, and every step keeps it so.
LEMMA FreshInductive ==
    /\ DagInit => FreshInv
    /\ DagInv /\ FreshInv /\ [DagNext]_dagVars => FreshInv'
<1>1. DagInit => FreshInv
  <2> SUFFICES ASSUME DagInit PROVE FreshInv
    OBVIOUS
  <2>1. /\ version \in Versions /\ result = [n \in Nodes |-> NoResult]
        /\ cache = [f \in {} |-> {}] /\ status = [n \in Nodes |-> "pending"]
        /\ work = [n \in Nodes |-> NoTask] /\ peek = [p \in Prefetchers |-> NoFp]
    BY VersionAssumption DEF DagInit
  <2>2. CacheWhole
    BY <2>1 DEF CacheWhole
  <2>3. ResultsWhole /\ TasksWhole /\ LookUpsWhole
    BY <2>1 DEF ResultsWhole, TasksWhole, LookUpsWhole, AfterClaim, NoTask
  <2> QED BY <2>1, <2>2, <2>3 DEF FreshInv
<1>2. DagInv /\ FreshInv /\ UNCHANGED dagVars => FreshInv'
  BY FreshFrame DEF dagVars
<1>3. DagInv /\ FreshInv /\ DagNext => FreshInv'
  BY SchedulerFresh, TaskFresh, PrefetcherFresh, RunFresh DEF DagNext
<1> QED BY <1>1, <1>2, <1>3

\* The inductive invariant of outputs, fingerprints and cache.
THEOREM FreshInvariant == DagSpec => []FreshInv
BY FreshInductive, DagInvariant, PTL DEF DagSpec

\* Whole results, on the present file, are fresh.
LEMMA FreshOutputs == DagInv /\ FreshInv => ResultsAreFresh
<1> SUFFICES ASSUME DagInv, FreshInv, ~raced, run = "active", NEW n \in Nodes, status[n] = "done"
             PROVE  result[n].value = Readings(Needs(n)) \cap (Nodes \X {version})
  BY DEF ResultsAreFresh
<1>1. result[n].value = Needs(n) \X {version} /\ version \in Versions
  BY DEF FreshInv, ResultsWhole, Reads
<1>2. Needs(n) \subseteq Nodes
  BY NeedsLeast DEF DagInv, DagShapes
<1>3. Needs(n) \X {version} = (Needs(n) \X Versions) \cap (Nodes \X {version})
  BY <1>1, <1>2
<1> QED BY <1>1, <1>3 DEF Readings

\* For every graph, cache history, number of prefetchers, runs and crashes:
\* whichever way an output came about, it is what running the whole graph on
\* the present file gives, as long as nobody edits the file during a run.
THEOREM OutputsAreFresh == DagSpec => []ResultsAreFresh
BY FreshOutputs, DagInvariant, FreshInvariant, PTL
-----------------------------------------------------------------------------
(***************************************************************************)
(* Types.  A fingerprint is made of nodes and versions from the moment a   *)
(* task or a prefetcher takes it, and so are the outputs under it; a node  *)
(* that is not done has no result.                                         *)
(***************************************************************************)

CacheTypes ==
    /\ DOMAIN cache \subseteq Fingerprints
    /\ \A f \in DOMAIN cache : cache[f] \subseteq Readings(Nodes)
    /\ \A p \in Prefetchers : peek[p] # NoFp => peek[p] \in DOMAIN cache

ResultTypes ==
    /\ result = [n \in Nodes |-> result[n]]
    /\ \A n \in Nodes :
          /\ result[n].value \subseteq Readings(Nodes) /\ result[n].fp.hashed \subseteq Readings(Nodes)
          /\ IF status[n] = "done" THEN result[n].fp.node = n ELSE result[n] = NoResult

WorkTypes ==
    \A n \in Nodes :
        /\ work[n].at \in AfterClaim => work[n].fp \in Fingerprints /\ work[n].fp.node = n
        /\ work[n].at \in {"store", "hit", "miss"} => work[n].value \subseteq Readings(Nodes)

CounterTypes ==
    /\ version \in Versions /\ run \in {"active", "done", "failed"}
    /\ runs \in 1..MaxRuns /\ edits \in 0..MaxEdits /\ raced \in BOOLEAN /\ warmed \in BOOLEAN

TypesInv == CacheTypes /\ ResultTypes /\ WorkTypes /\ CounterTypes

\* Versions, counters and flags.
LEMMA CountersKeep ==
    ASSUME CounterTypes, DagNext
    PROVE  CounterTypes'
<1> USE DEF CounterTypes
<1>1. CASE SchedulerStep
  BY <1>1 DEF SchedulerStep, ScheduleDone, ScheduleTask, ProcessFinished, ProcessWarmed, DagDone, KeepFile
<1>2. ASSUME NEW n \in Nodes, TaskStep(n) PROVE CounterTypes'
  BY <1>2 DEF TaskStep, ClaimNode, LookUp, Execute, Store, CommitNode, FailNode, KeepFile
<1>3. ASSUME NEW p \in Prefetchers, PrefetcherStep(p) PROVE CounterTypes'
  BY <1>3 DEF PrefetcherStep, PrefetchStart, LookUpEnds, PrefetchHit, PrefetchMiss, KeepFile
<1>4. CASE RunAgain
  <2>1. runs' \in 1..MaxRuns
    BY <1>4, BoundsAssumption DEF RunAgain
  <2> QED BY <1>4, <2>1 DEF RunAgain, Fresh
<1>5. CASE EditFile
  <2>1. edits' \in 0..MaxEdits
    BY <1>5, BoundsAssumption DEF EditFile
  <2> QED BY <1>5, <2>1 DEF EditFile, dagRunVars
<1> QED BY <1>1, <1>2, <1>3, <1>4, <1>5 DEF DagNext

\* What a task computes from the results of its dependencies.
LEMMA InputsTyped ==
    ASSUME DagInv, TypesInv, NEW n \in Nodes
    PROVE  /\ FingerprintFor(n) \in Fingerprints /\ FingerprintFor(n).node = n
           /\ {<<n, version>>} \cup Kwargs(n) \subseteq Readings(Nodes)
<1>1. deps[n] \subseteq Nodes
  BY DepsAreNodes DEF DagInv
<1>2. <<n, version>> \in Readings(Nodes)
  BY DEF TypesInv, CounterTypes, Readings
<1>3. Kwargs(n) \in SUBSET Readings(Nodes)
  BY <1>1 DEF Kwargs, TypesInv, ResultTypes
<1>4. {<<n, version>>} \cup UNION {result[d].fp.hashed : d \in deps[n]} \in SUBSET Readings(Nodes)
  BY <1>1, <1>2 DEF TypesInv, ResultTypes
<1> QED BY <1>2, <1>3, <1>4 DEF FingerprintFor, Fingerprints

\* Steps that touch no fingerprint, output or status of a finished node.
LEMMA TypesFrame ==
    ASSUME TypesInv, CounterTypes', UNCHANGED <<deps, cache, status, result, peek>>,
           \A n \in Nodes : work'[n].at \in AfterClaim => work'[n] = work[n]
    PROVE  TypesInv'
<1>1. Nodes' = Nodes /\ Readings(Nodes)' = Readings(Nodes) /\ Fingerprints' = Fingerprints
  BY DEF Nodes, Readings, Fingerprints
<1>2. CacheTypes'
  BY <1>1 DEF TypesInv, CacheTypes
<1>3. ResultTypes'
  BY <1>1 DEF TypesInv, ResultTypes
<1>4. WorkTypes'
  BY <1>1 DEF TypesInv, WorkTypes, AfterClaim
<1> QED BY <1>2, <1>3, <1>4 DEF TypesInv

LEMMA TaskTypes ==
    ASSUME DagInv, TypesInv, CounterTypes', NEW n \in Nodes, TaskStep(n)
    PROVE  TypesInv'
<1>1. /\ UNCHANGED <<deps, peek>> /\ run = "active"
      /\ Nodes' = Nodes /\ Readings(Nodes)' = Readings(Nodes) /\ Fingerprints' = Fingerprints
  BY DEF TaskStep, ClaimNode, LookUp, Execute, Store, CommitNode, FailNode, KeepFile, TaskAt,
         Nodes, Readings, Fingerprints
<1>2. /\ work = [m \in Nodes |-> [at |-> work[m].at, fp |-> work[m].fp, value |-> work[m].value]]
      /\ status \in [Nodes -> {"pending", "running", "done", "failed"}]
      /\ result = [m \in Nodes |-> result[m]]
  BY DEF DagInv, DagShapes, TypesInv, ResultTypes
<1>3. CASE FailNode(n)
  <2>1. /\ UNCHANGED <<cache, result>>
        /\ status' = [m \in Nodes |-> IF status[m] = "running" THEN "failed" ELSE status[m]]
        /\ work' = [m \in Nodes |-> [work[m] EXCEPT !.at = "ended"]]
    BY <1>3 DEF FailNode
  <2>2. CacheTypes'
    BY <1>1, <2>1 DEF TypesInv, CacheTypes
  <2>3. ResultTypes'
    BY <1>1, <1>2, <2>1 DEF TypesInv, ResultTypes
  <2>4. \A m \in Nodes : work'[m].at = "ended"
    BY <1>2, <2>1
  <2>5. WorkTypes'
    BY <1>1, <2>4 DEF WorkTypes, AfterClaim
  <2> QED BY <2>2, <2>3, <2>5 DEF TypesInv
<1>4. CASE ClaimNode(n)
  <2>1. UNCHANGED <<cache, result>>
    BY <1>4 DEF ClaimNode
  <2>2. CacheTypes'
    BY <1>1, <2>1 DEF TypesInv, CacheTypes
  <2>3. \A m \in Nodes : status'[m] = "done" <=> status[m] = "done"
    BY <1>2, <1>4 DEF ClaimNode
  <2>4. ResultTypes'
    BY <1>1, <2>1, <2>3 DEF TypesInv, ResultTypes
  <2>5. /\ \A m \in Nodes : m # n => work'[m] = work[m]
        /\ \/ work'[n].at = "lookup" /\ work'[n].fp = FingerprintFor(n)
           \/ work'[n].at = "ended"
    <3>1. CASE work' = [work EXCEPT ![n].at = "ended"]
      BY <1>2, <3>1
    <3>2. CASE work' = [work EXCEPT ![n].at = "lookup", ![n].fp = FingerprintFor(n)]
      BY <3>2, FingerprintWritten, Zenon
    <3> QED BY <1>4, <3>1, <3>2 DEF ClaimNode
  <2>6. WorkTypes'
    BY <1>1, <2>5, InputsTyped DEF TypesInv, WorkTypes, AfterClaim
  <2> QED BY <2>2, <2>4, <2>6 DEF TypesInv
<1>5. CASE LookUp(n) \/ Execute(n)
  <2>1. UNCHANGED <<cache, status, result>>
    BY <1>5 DEF LookUp, Execute
  <2>2. CacheTypes' /\ ResultTypes'
    BY <1>1, <2>1 DEF TypesInv, CacheTypes, ResultTypes
  <2>3. work[n].at \in AfterClaim
    BY <1>5 DEF LookUp, Execute, TaskAt, AfterClaim
  <2>4. \A m \in Nodes : m # n => work'[m] = work[m]
    BY <1>2, <1>5 DEF LookUp, Execute
  <2>5. /\ work'[n].fp = work[n].fp
        /\ \/ work'[n].at = "execute"
           \/ work[n].fp \in DOMAIN cache /\ work'[n].value = cache[work[n].fp]
           \/ work'[n].value = {<<n, version>>} \cup Kwargs(n)
    <3>1. CASE Execute(n)
      <4>1. work' = WithValue(n, "store", {<<n, version>>} \cup Kwargs(n))
        BY <3>1 DEF Execute, WithValue
      <4>2. work'[n].value = {<<n, version>>} \cup Kwargs(n) /\ work'[n].fp = work[n].fp
        BY <4>1, ValueWritten, Zenon
      <4> QED BY <4>2
    <3>2. CASE LookUp(n)
      BY <1>2, <3>2 DEF LookUp
    <3> QED BY <1>5, <3>1, <3>2
  <2>6. work'[n].at = "execute" \/ work'[n].value \subseteq Readings(Nodes)
    BY <2>5, InputsTyped DEF TypesInv, CacheTypes
  <2>7. WorkTypes'
    BY <1>1, <2>3, <2>4, <2>5, <2>6 DEF TypesInv, WorkTypes
  <2> QED BY <2>2, <2>7 DEF TypesInv
<1>6. CASE Store(n)
  <2>1. /\ work[n].at = "store" /\ UNCHANGED <<status, result>>
        /\ cache' = [f \in DOMAIN cache \cup {work[n].fp} |->
                        IF f = work[n].fp THEN work[n].value ELSE cache[f]]
    BY <1>6 DEF Store, TaskAt
  <2>2. work[n].fp \in Fingerprints /\ work[n].value \subseteq Readings(Nodes)
    BY <2>1 DEF TypesInv, WorkTypes, AfterClaim
  <2>3. CacheTypes'
    BY <1>1, <2>1, <2>2 DEF TypesInv, CacheTypes
  <2>4. ResultTypes'
    BY <1>1, <2>1 DEF TypesInv, ResultTypes
  <2>5. \A m \in Nodes : IF m = n THEN work'[m].fp = work[m].fp /\ work'[m].value = work[m].value
                                  ELSE work'[m] = work[m]
    BY <1>2, <1>6 DEF Store
  <2>6. WorkTypes'
    BY <1>1, <2>1, <2>5 DEF TypesInv, WorkTypes, AfterClaim
  <2> QED BY <2>3, <2>4, <2>6 DEF TypesInv
<1>7. CASE CommitNode(n)
  <2>1. /\ work[n].at \in {"hit", "miss"} /\ cache' = cache
        /\ status' = [status EXCEPT ![n] = "done"]
        /\ work' = [work EXCEPT ![n].at = "ended"]
    BY <1>7 DEF CommitNode, TaskAt
  <2>2. /\ work[n].fp \in Fingerprints /\ work[n].fp.node = n
        /\ work[n].value \subseteq Readings(Nodes)
    BY <2>1 DEF TypesInv, WorkTypes, AfterClaim
  <2>3. /\ result' = [m \in Nodes |-> result'[m]]
        /\ result'[n].value = work[n].value /\ result'[n].fp = work[n].fp
        /\ \A m \in Nodes : m # n => result'[m] = result[m]
    BY <1>2, <1>7 DEF CommitNode
  <2>4. status'[n] = "done" /\ \A m \in Nodes : m # n => status'[m] = status[m]
    BY <1>2, <2>1
  <2>5. work[n].fp.hashed \subseteq Readings(Nodes)
    BY <2>2 DEF Fingerprints
  <2>6. ResultTypes'
    BY <1>1, <2>2, <2>3, <2>4, <2>5 DEF TypesInv, ResultTypes
  <2>7. \A m \in Nodes : IF m = n THEN work'[m].at = "ended" ELSE work'[m] = work[m]
    BY <1>2, <2>1
  <2>8. WorkTypes'
    BY <1>1, <2>7 DEF TypesInv, WorkTypes, AfterClaim
  <2>9. CacheTypes'
    BY <1>1, <2>1 DEF TypesInv, CacheTypes
  <2> QED BY <2>6, <2>8, <2>9 DEF TypesInv
<1> QED BY <1>3, <1>4, <1>5, <1>6, <1>7 DEF TaskStep

LEMMA PrefetcherTypes ==
    ASSUME DagInv, TypesInv, CounterTypes', NEW p \in Prefetchers, PrefetcherStep(p)
    PROVE  TypesInv'
<1>1. /\ UNCHANGED <<deps, cache, work>>
      /\ Nodes' = Nodes /\ Readings(Nodes)' = Readings(Nodes) /\ Fingerprints' = Fingerprints
  BY DEF PrefetcherStep, PrefetchStart, LookUpEnds, PrefetchHit, PrefetchMiss, KeepFile,
         Nodes, Readings, Fingerprints
<1>2. WorkTypes'
  BY <1>1 DEF TypesInv, WorkTypes
<1>3. peek = [q \in Prefetchers |-> peek[q]]
  BY DEF DagInv, DagShapes
<1>4. CacheTypes'
  <2>1. \A q \in Prefetchers : peek'[q] \in {peek[q], NoFp} \cup DOMAIN cache
    BY <1>3 DEF PrefetcherStep, PrefetchStart, LookUpEnds, PrefetchHit, PrefetchMiss
  <2> QED BY <1>1, <2>1 DEF TypesInv, CacheTypes
<1>5. CASE PrefetchHit(p)
  <2> DEFINE n == peek[p].node
  <2>1. n \in Nodes /\ peek[p] \in DOMAIN cache /\ peek[p] \in Fingerprints
    BY <1>5 DEF PrefetchHit, DagInv, PeekInv, TypesInv, CacheTypes
  <2>2. /\ status' = [status EXCEPT ![n] = "done"]
        /\ result' = [result EXCEPT ![n] = [value |-> cache[peek[p]], fp |-> peek[p],
                                            cached |-> "PREDICTIVE_CACHE_HIT"]]
    BY <1>5 DEF PrefetchHit
  <2>3. /\ \A m \in Nodes : m # n => result'[m] = result[m] /\ status'[m] = status[m]
        /\ status'[n] = "done"
        /\ result'[n].value = cache[peek[p]] /\ result'[n].fp = peek[p]
        /\ result' = [m \in Nodes |-> result'[m]]
    BY <2>1, <2>2 DEF DagInv, DagShapes, TypesInv, ResultTypes
  <2>4. cache[peek[p]] \subseteq Readings(Nodes) /\ peek[p].hashed \subseteq Readings(Nodes)
    BY <2>1 DEF TypesInv, CacheTypes, Fingerprints
  <2>5. result'[n].fp.node = n
    BY <2>3
  <2> HIDE DEF n
  <2>6. ResultTypes'
    BY <1>1, <2>3, <2>4, <2>5 DEF TypesInv, ResultTypes
  <2> QED BY <1>2, <1>4, <2>6 DEF TypesInv
<1>6. CASE ~PrefetchHit(p)
  <2>1. UNCHANGED <<status, result>>
    BY <1>6 DEF PrefetcherStep, PrefetchStart, LookUpEnds, PrefetchMiss
  <2> QED BY <1>1, <1>2, <1>4, <2>1 DEF TypesInv, ResultTypes
<1> QED BY <1>5, <1>6

\* The types are right at the start, and every step keeps them so.
LEMMA TypesInductive ==
    /\ DagInit => TypesInv
    /\ DagInv /\ TypesInv /\ [DagNext]_dagVars => TypesInv'
<1>1. DagInit => TypesInv
  <2> SUFFICES ASSUME DagInit PROVE TypesInv
    OBVIOUS
  <2>1. CacheTypes
    BY DEF DagInit, CacheTypes
  <2>2. ResultTypes
    BY DEF DagInit, ResultTypes, NoResult, NoFp
  <2>3. WorkTypes
    BY DEF DagInit, WorkTypes, NoTask, AfterClaim
  <2>4. CounterTypes
    <3>1. runs \in 1..MaxRuns /\ edits \in 0..MaxEdits
      BY BoundsAssumption DEF DagInit
    <3> QED BY <3>1, VersionAssumption DEF DagInit, CounterTypes
  <2> QED BY <2>1, <2>2, <2>3, <2>4 DEF TypesInv
<1>2. DagInv /\ TypesInv /\ UNCHANGED dagVars => TypesInv'
  <2> SUFFICES ASSUME TypesInv, UNCHANGED dagVars PROVE TypesInv'
    OBVIOUS
  <2>1. CounterTypes'
    BY DEF dagVars, TypesInv, CounterTypes
  <2> QED BY <2>1, TypesFrame DEF dagVars
<1>3. DagInv /\ TypesInv /\ DagNext => TypesInv'
  <2> SUFFICES ASSUME DagInv, TypesInv, DagNext PROVE TypesInv'
    OBVIOUS
  <2>1. CounterTypes'
    BY CountersKeep DEF TypesInv
  <2>2. CASE SchedulerStep
    <3>1. UNCHANGED <<deps, cache, status, result, peek>>
      BY <2>2 DEF SchedulerStep, ScheduleDone, ScheduleTask, ProcessFinished, ProcessWarmed, DagDone,
                  KeepFile
    <3>2. \A n \in Nodes : work'[n].at \in AfterClaim => work'[n] = work[n]
      <4>1. CASE \E n \in Nodes : ScheduleTask(n)
        <5>1. PICK n \in Nodes : ScheduleTask(n)
          BY <4>1
        <5>2. work' = [work EXCEPT ![n].at = "waiting"]
          BY <5>1 DEF ScheduleTask
        <5> QED BY <5>2 DEF DagInv, DagShapes, AfterClaim
      <4>2. CASE ~\E n \in Nodes : ScheduleTask(n)
        BY <2>2, <4>2 DEF SchedulerStep, ScheduleDone, ProcessFinished, ProcessWarmed, DagDone
      <4> QED BY <4>1, <4>2
    <3> QED BY <2>1, <3>1, <3>2, TypesFrame
  <2>3. CASE RunAgain
    <3>1. /\ status' = [n \in Nodes |-> "pending"] /\ result' = [n \in Nodes |-> NoResult]
          /\ work' = [n \in Nodes |-> NoTask] /\ peek' = [q \in Prefetchers |-> NoFp]
          /\ UNCHANGED <<deps, cache>>
      BY <2>3 DEF RunAgain, Fresh
    <3>2. Nodes' = Nodes /\ Readings(Nodes)' = Readings(Nodes) /\ Fingerprints' = Fingerprints
      BY <3>1 DEF Nodes, Readings, Fingerprints
    <3>3. CacheTypes'
      BY <3>1, <3>2 DEF TypesInv, CacheTypes
    <3>4. ResultTypes'
      BY <3>1, <3>2 DEF ResultTypes, NoResult, NoFp
    <3>5. WorkTypes'
      BY <3>1, <3>2 DEF WorkTypes, NoTask, AfterClaim
    <3> QED BY <2>1, <3>3, <3>4, <3>5 DEF TypesInv
  <2>4. CASE EditFile
    <3>1. UNCHANGED <<deps, cache, status, result, work, peek>>
      BY <2>4 DEF EditFile, dagRunVars
    <3> QED BY <2>1, <3>1, TypesFrame
  <2> QED BY <2>1, <2>2, <2>3, <2>4, TaskTypes, PrefetcherTypes DEF DagNext
<1> QED BY <1>1, <1>2, <1>3

\* Both invariants together are the types of the model.
LEMMA InvTyped == DagInv /\ TypesInv => DagTypeOK
BY DEF DagInv, DagShapes, TypesInv, CacheTypes, ResultTypes, CounterTypes, DagTypeOK

\* The types of the engine's state, for every set of graphs, any number of
\* versions and every bound on runs and edits: a node that is not done has no
\* result, and one that is has the fingerprint of its own call.
THEOREM DagTypeCorrect == DagSpec => []DagTypeOK
BY InvTyped, TypesInductive, DagInvariant, PTL DEF DagSpec

(***************************************************************************)
(* The composition, whatever component is in focus.                        *)
(***************************************************************************)

KernelInv == LedgerInv /\ RollupInv /\ DagInv /\ FreshInv /\ TypesInv /\ FlowInv

\* Each component starts in its own initial state.
LEMMA KernelStarts == KernelInit => KernelInv
<1> SUFFICES ASSUME KernelInit PROVE KernelInv
  OBVIOUS
<1>1. LedgerInit /\ RollupInit /\ DagInit /\ HandshakeInit
  BY DEF KernelInit
<1> QED BY <1>1, LedgerInitInv, RollupInductive, DagInductive, FreshInductive, TypesInductive,
            FlowInductive DEF KernelInv

\* A step is one of a component, and the others stand still.
LEMMA ComponentsStep ==
    ASSUME [KernelNext]_kernelVars
    PROVE  /\ [LedgerNext]_ledgerVars /\ [RollupNext]_rollupVars
           /\ [DagNext]_dagVars /\ [HandshakeNext]_handshakeVars
BY DEF KernelNext, kernelVars, RunsLedger, RunsRollup, RunsDag, RunsHandshake

\* So every component keeps its invariant.
LEMMA KernelSteps == KernelInv /\ [KernelNext]_kernelVars => KernelInv'
<1> SUFFICES ASSUME KernelInv, [KernelNext]_kernelVars PROVE KernelInv'
  OBVIOUS
<1>1. LedgerInv'
  BY ComponentsStep, LedgerStepInv DEF KernelInv
<1>2. RollupInv'
  BY ComponentsStep, RollupInductive DEF KernelInv
<1>3. DagInv' /\ FreshInv' /\ TypesInv'
  BY ComponentsStep, DagInductive, FreshInductive, TypesInductive DEF KernelInv
<1>4. FlowInv'
  BY ComponentsStep, FlowInductive DEF KernelInv
<1> QED BY <1>1, <1>2, <1>3, <1>4 DEF KernelInv

\* The four components together keep all their invariants, in any order of
\* their steps.
THEOREM KernelInvariant == KernelSpec => []KernelInv
BY KernelStarts, KernelSteps, PTL DEF KernelSpec

\* Types of the ledger, the rollup engine, the DAG engine and the handshake
\* pipeline, side by side.
THEOREM KernelTypeCorrect == KernelSpec => []KernelTypeOK
<1>1. KernelInv => KernelTypeOK
  <2> SUFFICES ASSUME KernelInv PROVE KernelTypeOK
    OBVIOUS
  <2>1. LedgerTypeOK /\ RollupTypeOK /\ HandshakeTypeOK
    BY DEF KernelInv, LedgerInv, RollupInv, FlowInv
  <2>2. DagTypeOK
    BY InvTyped DEF KernelInv
  <2> QED BY <2>1, <2>2 DEF KernelTypeOK
<1> QED BY <1>1, KernelInvariant, PTL

\* What each component promises by itself (the chosen chain is the best, batches
\* are what the journal says, dependencies come first, outputs are fresh, builds
\* are audited, nothing is pruned unrecorded), it promises beside the others.
THEOREM KernelIsSafe ==
    KernelSpec =>
        /\ [](/\ ChosenIsBest /\ BatchesMatchJournal /\ DependenciesFirst
              /\ ResultsAreFresh /\ BuiltAfterAudits)
        /\ NothingPrunedSilently
<1>1. KernelInv => /\ ChosenIsBest /\ BatchesMatchJournal /\ DependenciesFirst
                   /\ ResultsAreFresh /\ BuiltAfterAudits
  BY InvImpliesBest, RollupSlices, FreshOutputs, FlowAudits DEF KernelInv, DagInv
<1>2. KernelInv /\ [KernelNext]_kernelVars => [PruneRecorded]_ledgerVars
  BY ComponentsStep, PruneStep DEF KernelInv
<1> QED
  BY <1>1, <1>2, KernelInvariant, PTL DEF KernelSpec, NothingPrunedSilently, PruneRecorded
=============================================================================
