------------------------ MODULE BFTConsensus_Proofs ------------------------
(***************************************************************************)
(* For every cluster in which two quorums share a node that is neither     *)
(* byzantine nor forgetful: the ledgers of honest nodes do not fork, only  *)
(* grow, and what is written has a quorum behind it.                       *)
(*                                                                         *)
(* The argument: a PREPARE of a steady node binds it (PrepareBinds): it    *)
(* holds the block as its proposal until the block is on its chain.  So a  *)
(* block with a quorum of PREPAREs is certified and stays so               *)
(* (CertifiedStable), every COMMIT, every ledger and every head is made of *)
(* certified blocks, and two certified blocks of one height have a steady  *)
(* backer in common, which stands by one block per height                  *)
(* (CertifiedUnique).                                                      *)
(***************************************************************************)
EXTENDS BFTConsensus, TLAPS, FiniteSetTheorems, SequenceTheorems

\* A block names at least one payload, its own.
ProperBlocks == Seq(Values) \ {<<>>}

Steady == Nodes \ (adv.faulty \cup adv.amnesic)

\* Every block on the chain c is certified.
Chain(c) == \A b \in ProperBlocks : IsPrefix(b, c) => Certified(b)

\* A proposal continues the head, at every node.
Continuity == \A n \in Nodes : proposal[n] # NoBlock => Extends(proposal[n], head[n])

\* A steady node stands by every block it sent a PREPARE for.
PrepareBinds ==
    \A m \in net : m.type = "prepare" /\ m.from \in Steady => StandsBy(m.from, m.block)

MessagesNameBlocks == \A m \in net : m.block # NoBlock

\* A COMMIT of an honest node is for a certified block ...
CommitCertified == \A m \in net : m.type = "commit" => Certified(m.block)

\* ... and so is the proposal of a node that has voted.
PhaseCertified ==
    \A n \in Nodes : phase[n] # "open" => proposal[n] # NoBlock /\ Certified(proposal[n])

\* On disk is the head, or already the next block.
LedgerIsHead ==
    \A n \in Nodes : ledger[n] = (IF phase[n] = "appended" THEN proposal[n] ELSE head[n])

ChainsCertified == \A n \in Nodes : Chain(head[n]) /\ Chain(ledger[n])

Inv ==
    /\ TypeOK
    /\ Continuity
    /\ PrepareBinds
    /\ MessagesNameBlocks
    /\ CommitCertified
    /\ PhaseCertified
    /\ LedgerIsHead
    /\ ChainsCertified

-----------------------------------------------------------------------------
(* Blocks *)

\* Chains are sequences: equal in length and pointwise, they are equal.
LEMMA PrefixEqual ==
    ASSUME NEW b \in Seq(Values), NEW c \in Seq(Values), IsPrefix(b, c), Len(b) = Len(c)
    PROVE  b = c
<1>1. \A i \in 1..Len(b) : b[i] = c[i]  BY DEF IsPrefix
<1> QED  BY <1>1, SeqEqual

\* Of two chains that lead to a third, the shorter leads to the longer.
LEMMA PrefixesNest ==
    ASSUME NEW a \in Seq(Values), NEW b \in Seq(Values), NEW c \in Seq(Values),
           IsPrefix(a, c), IsPrefix(b, c), Len(a) <= Len(b)
    PROVE  IsPrefix(a, b)
<1> Len(a) \in Nat /\ Len(b) \in Nat /\ Len(c) \in Nat  BY LenProperties
<1> QED  BY DEF IsPrefix

\* What leads to a chain leads to its continuations.
LEMMA PrefixTrans ==
    ASSUME NEW a \in Seq(Values), NEW b \in Seq(Values), NEW c \in Seq(Values),
           IsPrefix(a, b), IsPrefix(b, c)
    PROVE  IsPrefix(a, c)
<1> Len(a) \in Nat /\ Len(b) \in Nat /\ Len(c) \in Nat  BY LenProperties
<1> QED  BY DEF IsPrefix

\* A chain leads to itself.
LEMMA PrefixReflexive == ASSUME NEW a \in Seq(Values) PROVE IsPrefix(a, a)
<1> Len(a) \in Nat  BY LenProperties
<1> QED  BY DEF IsPrefix

\* A block before a continuation is the continuation or before what it continues.
LEMMA PrefixOfExtension ==
    ASSUME NEW a \in Seq(Values), NEW b \in Seq(Values), NEW c \in Seq(Values),
           Extends(b, c), IsPrefix(a, b)
    PROVE  a = b \/ IsPrefix(a, c)
<1> Len(a) \in Nat /\ Len(b) \in Nat /\ Len(c) \in Nat  BY LenProperties
<1>1. CASE Len(a) = Len(b)  BY <1>1, PrefixEqual
<1>2. CASE Len(a) # Len(b)
  <2>1. Len(a) <= Len(c)  BY <1>2 DEF IsPrefix, Extends
  <2> QED  BY <2>1, PrefixesNest DEF Extends
<1> QED  BY <1>1, <1>2

\* Every chain has a block at each lower height.
LEMMA PrefixExists ==
    ASSUME NEW c \in Seq(Values), NEW k \in Nat, k <= Len(c)
    PROVE  \E b \in Seq(Values) : IsPrefix(b, c) /\ Len(b) = k
<1> DEFINE b == SubSeq(c, 1, k)
<1>0. Len(c) \in Nat  BY LenProperties
<1>1. \A i \in 1..k : c[i] \in Values  BY <1>0, ElementOfSeq
<1>2. b \in Seq(Values) /\ Len(b) = k /\ \A i \in 1..k : b[i] = c[i]
  <2>1. b \in Seq(Values)
        /\ Len(b) = (IF 1 <= k THEN k - 1 + 1 ELSE 0)
        /\ \A i \in 1..(k - 1 + 1) : b[i] = c[1 + i - 1]  BY <1>1, SubSeqProperties
  <2> QED  BY <2>1
<1> QED  BY <1>0, <1>2 DEF IsPrefix

-----------------------------------------------------------------------------
(* Quorums *)

\* The nodes are finite in number.
LEMMA NodesFinite == IsFiniteSet(Nodes) /\ Cardinality(Nodes) = N
<1> N \in Nat \ {0}  BY ClusterAssumption
<1> QED  BY FS_Interval DEF Nodes

\* The quorum is a number.
LEMMA QuorumType == Quorum \in Nat
<1> N \in Nat \ {0}  BY ClusterAssumption
<1> QED  BY DEF Quorum

\* A steady node stands by one block of each height.
LEMMA StandsByOne ==
    ASSUME TypeOK, Continuity, NEW p \in Nodes, NEW b \in ProperBlocks, NEW c \in ProperBlocks,
           Len(b) = Len(c), StandsBy(p, b), StandsBy(p, c)
    PROVE  b = c
<1> head[p] \in Seq(Values) /\ proposal[p] \in Seq(Values) /\ b \in Seq(Values) /\ c \in Seq(Values)
    BY DEF TypeOK, ProperBlocks
<1> Len(head[p]) \in Nat /\ Len(b) \in Nat /\ Len(c) \in Nat /\ Len(proposal[p]) \in Nat
    BY LenProperties
<1>1. CASE IsPrefix(b, head[p]) /\ IsPrefix(c, head[p])
  <2>1. IsPrefix(b, c)  BY <1>1, PrefixesNest
  <2> QED  BY <2>1, PrefixEqual
<1>2. \A d \in ProperBlocks : proposal[p] = d => Len(d) = Len(head[p]) + 1
      BY DEF Continuity, Extends, ProperBlocks, NoBlock
<1>3. \A d \in ProperBlocks : IsPrefix(d, head[p]) => Len(d) <= Len(head[p])  BY DEF IsPrefix
<1>4. CASE proposal[p] = b /\ proposal[p] = c  BY <1>4
<1> QED  BY <1>1, <1>2, <1>3, <1>4 DEF StandsBy

\* Certified blocks of one height are one block: two quorums share a steady node.
LEMMA CertifiedUnique ==
    ASSUME TypeOK, Continuity, NEW b \in ProperBlocks, NEW c \in ProperBlocks, Len(b) = Len(c),
           Certified(b), Certified(c)
    PROVE  b = c
<1> DEFINE F == adv.faulty \cup adv.amnesic
           I == Backers(b) \cap Backers(c)
<1>1. Backers(b) \subseteq Nodes /\ Backers(c) \subseteq Nodes /\ I \subseteq Nodes
      BY DEF Backers
<1>2. F \subseteq Nodes /\ 2 * Quorum > N + Cardinality(F)
      BY ClusterAssumption DEF TypeOK
<1>3. /\ IsFiniteSet(Backers(b)) /\ IsFiniteSet(Backers(c)) /\ IsFiniteSet(I)
      /\ IsFiniteSet(F)
      BY <1>1, <1>2, NodesFinite, FS_Subset
<1>4. /\ Cardinality(Backers(b)) \in Nat /\ Cardinality(Backers(c)) \in Nat
      /\ Cardinality(I) \in Nat /\ Cardinality(F) \in Nat
      BY <1>3, FS_CardinalityType
<1>5. /\ IsFiniteSet(Backers(b) \cup Backers(c))
      /\ Cardinality(Backers(b) \cup Backers(c))
             = Cardinality(Backers(b)) + Cardinality(Backers(c)) - Cardinality(I)
      BY <1>3, FS_Union
<1>6. Cardinality(Backers(b) \cup Backers(c)) <= N
      BY <1>1, NodesFinite, FS_Subset
<1>7. Cardinality(I) > Cardinality(F)
      BY <1>2, <1>4, <1>5, <1>6, QuorumType, ClusterAssumption DEF Certified
<1>8. ~(I \subseteq F)
      BY <1>3, <1>4, <1>7, FS_Subset
<1>9. PICK p \in I : p \notin F  BY <1>8
<1>10. p \in Nodes /\ StandsBy(p, b) /\ StandsBy(p, c)  BY <1>1, <1>9 DEF Backers
<1> QED  BY <1>10, StandsByOne

-----------------------------------------------------------------------------
(* Steps *)

\* Who acts, and what no step changes.
LEMMA ActorType ==
    ASSUME TypeOK, NEW n \in Honest \ adv.down
    PROVE  n \in Nodes /\ n \notin adv.faulty
BY DEF Honest

\* Forged messages come from byzantine nodes and name blocks.
LEMMA ForgedType ==
    ASSUME TypeOK, NEW m \in Forged
    PROVE  m.from \in adv.faulty /\ m.from \in Nodes /\ m.block \in Seq(Values)
<1> adv.faulty \subseteq Nodes /\ adv.height \in Nat  BY ClusterAssumption DEF TypeOK
<1>1. \A k \in Nat : [1..k -> Values] \subseteq Seq(Values)
  <2> SUFFICES ASSUME NEW k \in Nat, NEW f \in [1..k -> Values] PROVE f \in Seq(Values)  OBVIOUS
  <2> QED  BY IsASeq
<1>2. m.from \in adv.faulty /\ m.block \in Blocks  BY DEF Forged
<1>3. PICK k \in 1..adv.height : m.block \in [1..k -> Values]  BY <1>2 DEF Blocks
<1> QED  BY <1>1, <1>2, <1>3

\* Every message that can be read has a sender and a block.
LEMMA SentType ==
    ASSUME TypeOK, NEW m \in Sent
    PROVE  m.from \in Nodes /\ m.block \in Seq(Values)
BY ForgedType DEF Sent, TypeOK, Messages

\* Steps keep the types.
LEMMA TypeStep == ASSUME TypeOK, [Next]_vars PROVE TypeOK'
<1>1. CASE Next
  <2> PICK n \in Honest \ adv.down : NodeStep(n)  BY <1>1 DEF Next
  <2> n \in Nodes /\ n \notin adv.faulty  BY ActorType
  <2> USE DEF TypeOK, FreshHeight, heightVars, Phases, Broadcast, Messages, Message, NoBlock, Quarantine
  <2>0. <<>> \in Seq(Values)  BY EmptySeq
  <2>1. CASE Schedule(n)  BY <2>1 DEF Schedule
  <2>2. CASE ProposeTooLate(n)  BY <2>2 DEF ProposeTooLate
  <2>3. ASSUME NEW v \in adv.submitted, Propose(n, v) PROVE TypeOK'
    <3>1. v \in Values  BY ClusterAssumption
    <3>2. Append(head[n], v) \in Seq(Values)  BY <3>1, AppendProperties
    <3> DEFINE b == Append(head[n], v)
    <3>3. /\ proposal' = [proposal EXCEPT ![n] = b]
          /\ net' = net \cup {Message("propose", n, b), Message("prepare", n, b)}
          /\ due' = [due EXCEPT ![n] = FALSE]
          /\ UNCHANGED <<adv, ledger, head, phase, quarantined>>
          BY <2>3 DEF Propose
    <3> HIDE DEF b
    <3>4. Message("propose", n, b) \in Messages /\ Message("prepare", n, b) \in Messages
          BY <3>2 DEF b
    <3>5. net' \subseteq Messages  BY <3>3, <3>4
    <3>6. proposal' \in [Nodes -> Seq(Values)]  BY <3>2, <3>3 DEF b
    <3> QED  BY <3>3, <3>5, <3>6
  <2>4. ASSUME NEW m \in Sent,
               AcceptProposal(n, m) \/ RefuseProposal(n, m) \/ RefuseRollup(n, m) \/ RefusePrepare(n, m)
        PROVE  TypeOK'
    <3>1. m.from \in Nodes /\ m.block \in Seq(Values)  BY SentType
    <3>2. CASE AcceptProposal(n, m)  BY <3>1, <3>2 DEF AcceptProposal
    <3>3. CASE RefuseProposal(n, m)  BY <3>1, <3>3 DEF RefuseProposal, Receives
    <3>4. CASE RefuseRollup(n, m)  BY <3>1, <3>4 DEF RefuseRollup, Receives
    <3>5. CASE RefusePrepare(n, m)  BY <3>1, <3>5 DEF RefusePrepare, Receives
    <3> QED  BY <2>4, <3>2, <3>3, <3>4, <3>5
  <2>5. ASSUME NEW p \in Nodes, RefuseMalformed(n, p) PROVE TypeOK'
        BY <2>5 DEF RefuseMalformed
  <2>6. CASE MaybeCommit(n)  BY <2>6 DEF MaybeCommit
  <2>7. CASE StartCommit(n)  BY <2>7 DEF StartCommit
  <2>8. CASE AppendLedger(n)  BY <2>8 DEF AppendLedger
  <2>9. CASE Advance(n)  BY <2>0, <2>9 DEF Advance
  <2>10. CASE Gossip(n)  BY <2>10 DEF Gossip
  <2>11. CASE FlushQuarantine(n)  BY <2>11 DEF FlushQuarantine
  <2>12. CASE Restart(n)  BY <2>0, <2>12 DEF Restart
  <2> QED  BY <2>1, <2>2, <2>3, <2>4, <2>5, <2>6, <2>7, <2>8, <2>9, <2>10, <2>11, <2>12 DEF NodeStep
<1>2. CASE UNCHANGED vars  BY <1>2 DEF vars, heightVars, TypeOK
<1> QED  BY <1>1, <1>2

\* What a leader proposes continues its head.
LEMMA AppendExtends ==
    ASSUME NEW c \in Seq(Values), NEW v \in Values
    PROVE  Append(c, v) # <<>> /\ Extends(Append(c, v), c)
<1>1. Len(c) \in Nat  BY LenProperties
<1>2. /\ Append(c, v) # <<>> /\ Len(Append(c, v)) = Len(c) + 1
      /\ \A i \in 1..Len(c) : Append(c, v)[i] = c[i]
      BY AppendProperties
<1> QED  BY <1>1, <1>2 DEF Extends, IsPrefix

\* What a step of n does to the height it is at: nothing, or one of what
\* follows.
TakesUp(n) ==
    /\ proposal[n] = NoBlock /\ proposal'[n] # NoBlock /\ Extends(proposal'[n], head[n])
    /\ head'[n] = head[n] /\ phase'[n] = phase[n] /\ ledger'[n] = ledger[n]

Votes(n) ==
    /\ proposal[n] # NoBlock
    /\ \/ Prepared(n) /\ phase'[n] = "voted"
       \/ (phase[n] = "voted" \/ Committed(n)) /\ phase'[n] = "committing"
    /\ phase[n] \in {"open", "voted"}
    /\ head'[n] = head[n] /\ proposal'[n] = proposal[n] /\ ledger'[n] = ledger[n]

Writes(n) ==
    /\ phase[n] = "committing" /\ phase'[n] = "appended" /\ ledger'[n] = proposal[n]
    /\ head'[n] = head[n] /\ proposal'[n] = proposal[n]

Moves(n) ==
    /\ \/ phase[n] = "appended" /\ head'[n] = proposal[n]
       \/ n \in adv.amnesic /\ head'[n] = ledger[n]
    /\ proposal'[n] = NoBlock /\ phase'[n] = "open" /\ ledger'[n] = ledger[n]

Height(p) == <<head[p], proposal[p], phase[p], ledger[p]>>

LocalStep(n) ==
    /\ adv' = adv
    /\ \A p \in Nodes \ {n} : Height(p)' = Height(p)
    /\ Height(n)' = Height(n) \/ TakesUp(n) \/ Votes(n) \/ Writes(n) \/ Moves(n)

\* Every step is of that kind.
LEMMA StepsAreLocal ==
    ASSUME TypeOK, NEW n \in Nodes, NodeStep(n)
    PROVE  LocalStep(n)
<1> USE DEF LocalStep, Height, TypeOK, FreshHeight, heightVars, NoBlock
<1>1. CASE Schedule(n)  BY <1>1 DEF Schedule
<1>2. CASE ProposeTooLate(n)  BY <1>2 DEF ProposeTooLate
<1>3. ASSUME NEW v \in adv.submitted, Propose(n, v) PROVE LocalStep(n)
  <2>1. v \in Values  BY ClusterAssumption
  <2> DEFINE b == Append(head[n], v)
  <2>2. b # <<>> /\ Extends(b, head[n])
    <3>1. head[n] \in Seq(Values)  OBVIOUS
    <3> QED  BY <2>1, <3>1, AppendExtends
  <2>3. /\ proposal[n] = <<>> /\ proposal' = [proposal EXCEPT ![n] = b]
        /\ UNCHANGED <<adv, ledger, head, phase>>
        BY <1>3 DEF Propose
  <2> HIDE DEF b
  <2> QED  BY <2>2, <2>3 DEF TakesUp
<1>4. ASSUME NEW m \in Sent,
             AcceptProposal(n, m) \/ RefuseProposal(n, m) \/ RefuseRollup(n, m) \/ RefusePrepare(n, m)
      PROVE  LocalStep(n)
  <2>1. CASE AcceptProposal(n, m)
    <3>1. m.block # <<>>
      <4>1. Extends(m.block, head[n])  BY <2>1 DEF AcceptProposal
      <4>2. Len(head[n]) \in Nat /\ Len(<<>>) = 0  BY LenProperties, EmptySeq
      <4> QED  BY <4>1, <4>2 DEF Extends
    <3> QED  BY <2>1, <3>1 DEF AcceptProposal, TakesUp
  <2>2. CASE RefuseProposal(n, m) \/ RefuseRollup(n, m) \/ RefusePrepare(n, m)
        BY <2>2 DEF RefuseProposal, RefuseRollup, RefusePrepare
  <2> QED  BY <1>4, <2>1, <2>2
<1>5. ASSUME NEW p \in Nodes, RefuseMalformed(n, p) PROVE LocalStep(n)
      BY <1>5 DEF RefuseMalformed
<1>6. CASE MaybeCommit(n)  BY <1>6 DEF MaybeCommit, Votes
<1>7. CASE StartCommit(n)  BY <1>7 DEF StartCommit, Votes
<1>8. CASE AppendLedger(n)  BY <1>8 DEF AppendLedger, Writes
<1>9. CASE Advance(n)  BY <1>9 DEF Advance, Moves
<1>10. CASE Gossip(n) \/ FlushQuarantine(n)  BY <1>10 DEF Gossip, FlushQuarantine
<1>11. CASE Restart(n)  BY <1>11 DEF Restart, Moves
<1> QED  BY <1>1, <1>2, <1>3, <1>4, <1>5, <1>6, <1>7, <1>8, <1>9, <1>10, <1>11 DEF NodeStep

\* What a step says is about the proposal it leaves the node with, and a COMMIT
\* follows a quorum of PREPAREs for it.
LEMMA StepSays ==
    ASSUME TypeOK, NEW n \in Nodes, NodeStep(n)
    PROVE  \A m \in net' :
              \/ m \in net
              \/ /\ m.from = n /\ m.block = proposal'[n] /\ m.block # NoBlock
                 /\ m.type = "commit" => Prepared(n) /\ proposal'[n] = proposal[n]
<1> USE DEF TypeOK, Broadcast, Message, NoBlock, heightVars
<1> SUFFICES ASSUME NEW m \in net', m \notin net
             PROVE  /\ m.from = n /\ m.block = proposal'[n] /\ m.block # NoBlock
                    /\ m.type = "commit" => Prepared(n) /\ proposal'[n] = proposal[n]
    OBVIOUS
<1>1. ASSUME NEW v \in adv.submitted, Propose(n, v)
      PROVE  m.from = n /\ m.block = proposal'[n] /\ m.block # NoBlock /\ m.type # "commit"
  <2> DEFINE b == Append(head[n], v)
  <2>1. b # <<>>
    <3>1. v \in Values /\ head[n] \in Seq(Values)  BY ClusterAssumption
    <3> QED  BY <3>1, AppendExtends
  <2>2. /\ proposal' = [proposal EXCEPT ![n] = b]
        /\ net' = net \cup {Message("propose", n, b), Message("prepare", n, b)}
        BY <1>1 DEF Propose
  <2> HIDE DEF b
  <2> QED  BY <2>1, <2>2
<1>2. ASSUME NEW x \in Sent, AcceptProposal(n, x)
      PROVE  m.from = n /\ m.block = proposal'[n] /\ m.block # NoBlock /\ m.type # "commit"
  <2>1. Extends(x.block, head[n])  BY <1>2 DEF AcceptProposal
  <2>2. Len(head[n]) \in Nat /\ Len(<<>>) = 0  BY LenProperties, EmptySeq
  <2>3. x.block # <<>>  BY <2>1, <2>2 DEF Extends
  <2> QED  BY <1>2, <2>3 DEF AcceptProposal
<1>3. CASE MaybeCommit(n)  BY <1>3 DEF MaybeCommit
<1>4. CASE Gossip(n)  BY <1>4 DEF Gossip
<1>5. ASSUME NEW x \in Sent, RefuseProposal(n, x) \/ RefuseRollup(n, x) \/ RefusePrepare(n, x)
      PROVE  FALSE
      BY <1>5 DEF RefuseProposal, RefuseRollup, RefusePrepare
<1>6. ASSUME NEW q \in Nodes, RefuseMalformed(n, q) PROVE FALSE  BY <1>6 DEF RefuseMalformed
<1>7. ASSUME \/ Schedule(n) \/ ProposeTooLate(n) \/ StartCommit(n) \/ AppendLedger(n)
             \/ Advance(n) \/ FlushQuarantine(n) \/ Restart(n)
      PROVE  FALSE
      BY <1>7 DEF Schedule, ProposeTooLate, StartCommit, AppendLedger, Advance, FlushQuarantine, Restart
<1> QED  BY <1>1, <1>2, <1>3, <1>4, <1>5, <1>6, <1>7 DEF NodeStep

\* A steady node keeps standing by a block.
LEMMA StandsStable ==
    ASSUME TypeOK, TypeOK', Continuity, PhaseCertified, NEW n \in Nodes, LocalStep(n),
           NEW p \in Steady, NEW b \in ProperBlocks, StandsBy(p, b)
    PROVE  StandsBy(p, b)'
<1> p \in Nodes /\ p \notin adv.amnesic /\ b \in Seq(Values) /\ b # NoBlock
    BY DEF Steady, ProperBlocks, NoBlock
<1> head[p] \in Seq(Values) /\ head'[p] \in Seq(Values) /\ proposal[p] \in Seq(Values)
    BY DEF TypeOK
<1>1. CASE head'[p] = head[p] /\ proposal'[p] = proposal[p]  BY <1>1 DEF StandsBy
<1>2. CASE p = n /\ TakesUp(n)  BY <1>2 DEF StandsBy, TakesUp
<1>3. CASE p = n /\ head'[n] = proposal[n] /\ proposal[n] # NoBlock
  <2>1. IsPrefix(head[p], proposal[p])  BY <1>3 DEF Continuity, Extends
  <2>2. CASE IsPrefix(b, head[p])  BY <1>3, <2>1, <2>2, PrefixTrans DEF StandsBy
  <2>3. CASE proposal[p] = b  BY <1>3, <2>3, PrefixReflexive DEF StandsBy
  <2> QED  BY <2>2, <2>3 DEF StandsBy
<1>4. CASE p = n /\ Moves(n)
  <2>1. head'[n] = proposal[n] /\ proposal[n] # NoBlock  BY <1>4 DEF Moves, PhaseCertified
  <2> QED  BY <1>3, <1>4, <2>1
<1> QED  BY <1>1, <1>2, <1>4 DEF LocalStep, Height, Votes, Writes

\* A certified block stays certified.
LEMMA CertifiedStable ==
    ASSUME TypeOK, TypeOK', Continuity, PhaseCertified, NEW n \in Nodes, LocalStep(n),
           NEW b \in ProperBlocks, Certified(b)
    PROVE  Certified(b)'
<1>1. adv' = adv  BY DEF LocalStep
<1>2. Backers(b) \subseteq Backers(b)'
  <2> SUFFICES ASSUME NEW p \in Backers(b) PROVE p \in Backers(b)'  OBVIOUS
  <2>1. p \in Nodes  BY DEF Backers
  <2>2. CASE p \in adv.faulty \cup adv.amnesic  BY <1>1, <2>1, <2>2 DEF Backers
  <2>3. CASE p \notin adv.faulty \cup adv.amnesic
    <3>1. p \in Steady /\ StandsBy(p, b)  BY <2>1, <2>3 DEF Steady, Backers
    <3>2. StandsBy(p, b)'  BY <3>1, StandsStable
    <3> QED  BY <2>1, <3>2 DEF Backers
  <2> QED  BY <2>2, <2>3
<1>3. Backers(b)' \subseteq Nodes  BY DEF Backers
<1>4. IsFiniteSet(Backers(b)') /\ Cardinality(Backers(b)) <= Cardinality(Backers(b)')
  <2>1. IsFiniteSet(Backers(b)')  BY <1>3, NodesFinite, FS_Subset
  <2> QED  BY <1>2, <2>1, FS_Subset
<1>5. Cardinality(Backers(b)') \in Nat /\ Cardinality(Backers(b)) \in Nat
  <2>1. IsFiniteSet(Backers(b))  BY <1>2, <1>4, FS_Subset
  <2> QED  BY <1>4, <2>1, FS_CardinalityType
<1> QED  BY <1>4, <1>5, QuorumType DEF Certified

\* A chain of certified blocks stays one.
LEMMA ChainStable ==
    ASSUME TypeOK, TypeOK', Continuity, PhaseCertified, NEW n \in Nodes, LocalStep(n), NEW c, Chain(c)
    PROVE  Chain(c)'
BY CertifiedStable DEF Chain

\* A certified block on a certified chain is a certified chain.
LEMMA ChainExtends ==
    ASSUME NEW b \in Seq(Values), NEW c \in Seq(Values), Extends(b, c), Chain(c), Certified(b)
    PROVE  Chain(b)
BY PrefixOfExtension DEF Chain, ProperBlocks

\* A quorum of PREPAREs certifies the proposal.
LEMMA PreparedCertifies ==
    ASSUME TypeOK, PrepareBinds, NEW n \in Nodes, Prepared(n)
    PROVE  Certified(proposal[n])
<1> DEFINE b == proposal[n]
           Q == {n} \cup Voters(n, "prepare", b)
<1>1. Q \subseteq Backers(b)
  <2>1. n \in Backers(b)  BY DEF Backers, StandsBy
  <2>2. ASSUME NEW m \in Sent, m.type = "prepare", m.block = b PROVE m.from \in Backers(b)
    <3>1. m.from \in Nodes  BY SentType
    <3>2. CASE m \in Forged  BY <3>1, <3>2, ForgedType DEF Backers
    <3>3. CASE m \in net  BY <2>2, <3>1, <3>3 DEF PrepareBinds, Steady, Backers
    <3> QED  BY <3>2, <3>3 DEF Sent
  <2> QED  BY <2>1, <2>2 DEF Voters
<1>2. IsFiniteSet(Backers(b))
  <2>1. Backers(b) \subseteq Nodes  BY DEF Backers
  <2> QED  BY <2>1, NodesFinite, FS_Subset
<1>3. IsFiniteSet(Q) /\ Cardinality(Q) <= Cardinality(Backers(b))  BY <1>1, <1>2, FS_Subset
<1>4. Cardinality(Q) \in Nat /\ Cardinality(Backers(b)) \in Nat  BY <1>2, <1>3, FS_CardinalityType
<1>5. Cardinality(Q) >= Quorum  BY DEF Prepared
<1> QED  BY <1>3, <1>4, <1>5, QuorumType DEF Certified

\* In a quorum of COMMITs one is honest, and that one was certified.
LEMMA CommittedCertifies ==
    ASSUME TypeOK, CommitCertified, NEW n \in Nodes, Committed(n)
    PROVE  Certified(proposal[n])
<1> DEFINE b == proposal[n]
           V == Voters(n, "commit", b)
<1>1. CASE \E m \in net : m.type = "commit" /\ m.block = b  BY <1>1 DEF CommitCertified
<1>2. CASE ~ \E m \in net : m.type = "commit" /\ m.block = b
  <2>1. V \subseteq adv.faulty  BY <1>2, ForgedType DEF Voters, Sent
  <2>2. V # {} /\ Cardinality({n} \cup V) >= Quorum  BY DEF Committed
  <2>3. adv.faulty \subseteq Nodes /\ Quorum > Cardinality(adv.faulty) + 1
        BY <2>1, <2>2, ClusterAssumption DEF TypeOK
  <2>4. IsFiniteSet(adv.faulty)  BY <2>3, NodesFinite, FS_Subset
  <2>5. IsFiniteSet(V) /\ Cardinality(V) <= Cardinality(adv.faulty)  BY <2>1, <2>4, FS_Subset
  <2>6. V \cup {n} = {n} \cup V  OBVIOUS
  <2>7. Cardinality(V) \in Nat /\ Cardinality(adv.faulty) \in Nat  BY <2>4, <2>5, FS_CardinalityType
  <2>8. Cardinality(V \cup {n}) <= Cardinality(V) + 1 /\ Cardinality(V \cup {n}) \in Nat
        BY <2>5, <2>7, FS_AddElement
  <2> HIDE DEF V
  <2>9. Cardinality(V \cup {n}) >= Quorum  BY <2>2, <2>6
  <2> QED  BY <2>3, <2>5, <2>7, <2>8, <2>9, QuorumType
<1> QED  BY <1>1, <1>2

-----------------------------------------------------------------------------
(* The invariant *)

\* The invariant holds initially ...
LEMMA InvInit == Init => Inv
<1> SUFFICES ASSUME Init PROVE Inv  OBVIOUS
<1>0. <<>> \in Seq(Values) /\ Len(<<>>) = 0  BY EmptySeq
<1>1. TypeOK  BY <1>0 DEF Init, TypeOK, Phases, NoBlock
<1>2. Chain(<<>>)
  <2> SUFFICES ASSUME NEW b \in ProperBlocks, IsPrefix(b, <<>>) PROVE FALSE  BY DEF Chain
  <2>1. Len(b) = 0  BY <1>0, LenProperties DEF IsPrefix, ProperBlocks
  <2> QED  BY <2>1, EmptySeq DEF ProperBlocks
<1> QED  BY <1>1, <1>2 DEF Init, Inv, Continuity, PrepareBinds, MessagesNameBlocks,
           CommitCertified, PhaseCertified, LedgerIsHead, ChainsCertified

\* ... and every step keeps it.  What steps add to the network is justified
\* when they add it, and stays so.
LEMMA InvNext == Inv /\ [Next]_vars => Inv'
<1> SUFFICES ASSUME Inv, [Next]_vars PROVE Inv'  OBVIOUS
<1>1. CASE UNCHANGED vars
  BY <1>1 DEF Inv, vars, heightVars, TypeOK, Continuity, PrepareBinds, MessagesNameBlocks,
     CommitCertified, PhaseCertified, LedgerIsHead, ChainsCertified, Chain, Certified,
     Backers, StandsBy, Steady
<1>2. CASE Next
  <2> USE DEF Inv
  <2>0. PICK n \in Honest \ adv.down : NodeStep(n)  BY <1>2 DEF Next
  <2>1. n \in Nodes /\ n \notin adv.faulty  BY <2>0, ActorType
  <2>2. TypeOK'  BY TypeStep
  <2>3. LocalStep(n)  BY <2>0, <2>1, StepsAreLocal
  <2>4. adv' = adv /\ Steady' = Steady  BY <2>3 DEF LocalStep, Steady
  <2>5. \A m \in net : m.block \in ProperBlocks
        BY DEF TypeOK, Messages, MessagesNameBlocks, ProperBlocks, NoBlock
  <2>6. \A b \in ProperBlocks : Certified(b) => Certified(b)'  BY <2>1, <2>2, <2>3, CertifiedStable
  <2>7. \A c : Chain(c) => Chain(c)'  BY <2>6 DEF Chain
  <2>8. \A p \in Nodes : /\ head[p] \in Seq(Values) /\ proposal[p] \in Seq(Values)
                         /\ ledger[p] \in Seq(Values)
        BY DEF TypeOK
  <2>9. \A p \in Nodes : p # n => Height(p)' = Height(p)  BY <2>3 DEF LocalStep
  <2>10. \A m \in net' :
              \/ m \in net
              \/ /\ m.from = n /\ m.block = proposal'[n] /\ m.block # NoBlock
                 /\ m.type = "commit" => Prepared(n) /\ proposal'[n] = proposal[n]
         BY <2>0, <2>1, StepSays
  <2>11. Votes(n) => Certified(proposal[n])
         BY <2>1, PreparedCertifies, CommittedCertifies DEF Votes, PhaseCertified
  <2>12. Chain(head[n]) /\ Chain(ledger[n])  BY <2>1 DEF ChainsCertified
  <2>13. phase[n] \in {"committing", "appended"} => Chain(proposal[n])
         BY <2>1, <2>8, <2>12, ChainExtends DEF PhaseCertified, Continuity
  <2>20. Continuity'
    <3> SUFFICES ASSUME NEW p \in Nodes, proposal'[p] # NoBlock
                 PROVE  Extends(proposal'[p], head'[p])
        BY DEF Continuity
    <3>1. CASE p # n  BY <2>9, <3>1 DEF Continuity, Height
    <3>2. CASE p = n  BY <2>3, <3>2 DEF LocalStep, Height, TakesUp, Votes, Writes, Moves, Continuity
    <3> QED  BY <3>1, <3>2
  <2>21. PrepareBinds'
    <3> SUFFICES ASSUME NEW m \in net', m.type = "prepare", m.from \in Steady
                 PROVE  StandsBy(m.from, m.block)'
        BY <2>4 DEF PrepareBinds
    <3>1. CASE m \in net
      <4>1. m.block \in ProperBlocks /\ StandsBy(m.from, m.block)  BY <2>5, <3>1 DEF PrepareBinds
      <4> QED  BY <2>1, <2>2, <2>3, <4>1, StandsStable
    <3>2. CASE m \notin net  BY <2>10, <3>2 DEF StandsBy
    <3> QED  BY <3>1, <3>2
  <2>22. MessagesNameBlocks'  BY <2>10 DEF MessagesNameBlocks
  <2>23. CommitCertified'
    <3> SUFFICES ASSUME NEW m \in net', m.type = "commit" PROVE Certified(m.block)'
        BY DEF CommitCertified
    <3>1. CASE m \in net  BY <2>5, <2>6, <3>1 DEF CommitCertified
    <3>2. CASE m \notin net
      <4>1. Prepared(n) /\ m.block = proposal[n] /\ m.block # NoBlock  BY <2>10, <3>2
      <4>2. Certified(m.block) /\ m.block \in ProperBlocks
            BY <2>1, <2>8, <4>1, PreparedCertifies DEF ProperBlocks, NoBlock
      <4> QED  BY <2>6, <4>2
    <3> QED  BY <3>1, <3>2
  <2>24. PhaseCertified'
    <3> SUFFICES ASSUME NEW p \in Nodes, phase'[p] # "open"
                 PROVE  proposal'[p] # NoBlock /\ Certified(proposal[p])'
        BY DEF PhaseCertified
    <3>1. proposal'[p] = proposal[p] /\ proposal[p] # NoBlock /\ Certified(proposal[p])
      <4>1. CASE p # n  BY <2>9, <4>1 DEF PhaseCertified, Height
      <4>2. CASE p = n
            BY <2>3, <2>11, <4>2 DEF PhaseCertified, LocalStep, Height, TakesUp, Votes, Writes, Moves
      <4> QED  BY <4>1, <4>2
    <3>2. PICK b \in ProperBlocks : b = proposal[p] /\ b = proposal'[p] /\ Certified(b)
          BY <2>8, <3>1 DEF ProperBlocks, NoBlock
    <3>3. Certified(b)'  BY <2>6, <3>2
    <3> QED  BY <3>1, <3>2, <3>3 DEF Certified, Backers, StandsBy
  <2>25. LedgerIsHead'
    <3> SUFFICES ASSUME NEW p \in Nodes
                 PROVE  ledger'[p] = (IF phase'[p] = "appended" THEN proposal'[p] ELSE head'[p])
        BY DEF LedgerIsHead
    <3>1. CASE p # n  BY <2>9, <3>1 DEF LedgerIsHead, Height
    <3>2. CASE p = n
          BY <2>3, <3>2 DEF LedgerIsHead, PhaseCertified, LocalStep, Height, TakesUp, Votes, Writes, Moves
    <3> QED  BY <3>1, <3>2
  <2>26. ChainsCertified'
    <3> SUFFICES ASSUME NEW p \in Nodes PROVE Chain(head[p])' /\ Chain(ledger[p])'
        BY DEF ChainsCertified
    <3>1. \E h, l : h = head'[p] /\ l = ledger'[p] /\ Chain(h) /\ Chain(l)
      <4>1. CASE p # n  BY <2>9, <4>1 DEF ChainsCertified, Height
      <4>2. CASE p = n
            BY <2>3, <2>12, <2>13, <4>2 DEF LocalStep, Height, TakesUp, Votes, Writes, Moves
      <4> QED  BY <4>1, <4>2
    <3>2. PICK h, l : h = head'[p] /\ l = ledger'[p] /\ Chain(h) /\ Chain(l)  BY <3>1
    <3>3. Chain(h)' /\ Chain(l)'  BY <2>7, <3>2
    <3> QED  BY <3>2, <3>3 DEF Chain
  <2> QED  BY <2>2, <2>20, <2>21, <2>22, <2>23, <2>24, <2>25, <2>26
<1> QED  BY <1>1, <1>2

\* The invariant holds throughout.
THEOREM Invariance == Spec => []Inv
<1> QED  BY InvInit, InvNext, PTL DEF Spec

\* The state has its types: no node quarantines itself, and what is voted on
\* are chains of payloads.
THEOREM ConsensusTypeCorrect == Spec => []TypeOK
<1>1. Inv => TypeOK  BY DEF Inv
<1> QED  BY <1>1, Invariance, PTL

\* What an honest node appends to PROOFS_LEDGER.jsonl, a quorum stands by.
THEOREM WritesAreBacked == Spec => []LedgerBacked
<1>1. Inv => LedgerBacked
  <2> SUFFICES ASSUME Inv, NEW n \in Honest, ledger[n] # <<>> PROVE Certified(ledger[n])
      BY DEF LedgerBacked
  <2>1. n \in Nodes /\ ledger[n] \in Seq(Values)  BY DEF Inv, TypeOK, Honest
  <2>2. Chain(ledger[n])  BY <2>1 DEF Inv, ChainsCertified
  <2> QED  BY <2>1, <2>2, PrefixReflexive DEF Chain, ProperBlocks
<1> QED  BY <1>1, Invariance, PTL

\* A proposal continues the local head, so that _commit_block's continuity
\* check cannot fail.
THEOREM CommitsContinue == Spec => []CommitContinuity
<1>1. Inv => CommitContinuity  BY DEF Inv, Continuity, CommitContinuity, Honest
<1> QED  BY <1>1, Invariance, PTL

\* The ledgers of honest nodes never fork, whatever byzantine nodes send, the
\* network loses, repeats or reorders, and operators flush; at every height.
THEOREM LedgersAgree == Spec => []Agreement
<1>1. Inv => Agreement
  <2>1. ASSUME Inv, NEW n \in Nodes, NEW m \in Nodes, Len(ledger[n]) <= Len(ledger[m])
        PROVE  IsPrefix(ledger[n], ledger[m])
    <3>1. ledger[n] \in Seq(Values) /\ ledger[m] \in Seq(Values)  BY <2>1 DEF Inv, TypeOK
    <3>2. Len(ledger[n]) \in Nat /\ Len(ledger[m]) \in Nat  BY <3>1, LenProperties
    <3>3. PICK b \in Seq(Values) : IsPrefix(b, ledger[m]) /\ Len(b) = Len(ledger[n])
          BY <2>1, <3>1, <3>2, PrefixExists
    <3>4. CASE ledger[n] = <<>>
      <4>1. Len(ledger[n]) = 0  BY <3>4, EmptySeq
      <4> QED  BY <3>2, <4>1 DEF IsPrefix
    <3>5. CASE ledger[n] # <<>>
      <4>1. ledger[n] \in ProperBlocks /\ b \in ProperBlocks
            BY <3>1, <3>3, <3>5, EmptySeq DEF ProperBlocks
      <4>2. Certified(ledger[n]) /\ Certified(b)
            BY <2>1, <3>1, <3>3, <4>1, PrefixReflexive DEF Inv, ChainsCertified, Chain
      <4>3. ledger[n] = b  BY <2>1, <3>3, <4>1, <4>2, CertifiedUnique DEF Inv
      <4> QED  BY <3>3, <4>3
    <3> QED  BY <3>4, <3>5
  <2> SUFFICES ASSUME Inv, NEW n \in Honest, NEW m \in Honest
               PROVE  IsPrefix(ledger[n], ledger[m]) \/ IsPrefix(ledger[m], ledger[n])
      BY DEF Agreement
  <2>2. n \in Nodes /\ m \in Nodes  BY DEF Honest
  <2>3. Len(ledger[n]) \in Nat /\ Len(ledger[m]) \in Nat  BY <2>2, LenProperties DEF Inv, TypeOK
  <2> QED  BY <2>1, <2>2, <2>3
<1> QED  BY <1>1, Invariance, PTL

\* A ledger changes only by one block appended to it, across crashes as well.
THEOREM LedgersOnlyGrow == Spec => LedgerAppendOnly
<1>1. Inv /\ [Next]_vars =>
        [\A n \in Nodes : ledger'[n] # ledger[n] => Extends(ledger'[n], ledger[n])]_vars
  <2> SUFFICES ASSUME Inv, Next, NEW n \in Nodes, ledger'[n] # ledger[n]
               PROVE  Extends(ledger'[n], ledger[n])
      OBVIOUS
  <2>1. PICK p \in Honest \ adv.down : NodeStep(p)  BY DEF Next
  <2>2. p \in Nodes /\ LocalStep(p)  BY <2>1, ActorType, StepsAreLocal DEF Inv
  <2>3. n = p  BY <2>2 DEF LocalStep, Height
  <2>4. Writes(n)  BY <2>2, <2>3 DEF LocalStep, Height, TakesUp, Votes, Moves
  <2> QED  BY <2>4 DEF Writes, Inv, LedgerIsHead, PhaseCertified, Continuity
<1> QED  BY <1>1, Invariance, PTL DEF Spec, LedgerAppendOnly

=============================================================================
