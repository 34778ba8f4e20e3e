---------------------------- MODULE BFTConsensus ----------------------------
(***************************************************************************)
(* core/consensus_node.py: the replication of the proof ledger between the *)
(* nodes of cluster_topology.json in three phases (PROPOSE_BLOCK, PREPARE, *)
(* COMMIT), with rotating leaders and the quarantine of peers taken to be  *)
(* byzantine.                                                              *)
(*                                                                         *)
(* A block names its predecessor by hash, and hashes are taken to be       *)
(* collision free, so a block is identified with the chain that ends in    *)
(* it: the non-empty sequence of its ancestors' payloads and its own.  Its *)
(* index is its length minus one.                                          *)
(*                                                                         *)
(* Handlers hold _state_mu without awaiting, so each is atomic up to its   *)
(* first broadcast.  A message once sent may be received by any peer that  *)
(* has not quarantined the sender, at any time, repeatedly, or never:      *)
(* connections drop, peers reconnect and _gossip_progress repeats what was *)
(* said.  The sets _height.prepares and _height.commits only ever serve to *)
(* be counted; they are read off the messages sent, so that a node counts  *)
(* every vote it could have received.  Candidate payloads and the futures  *)
(* of submit_payload are left out: a leader proposes some value.           *)
(***************************************************************************)
EXTENDS Integers, Sequences, FiniteSets

CONSTANTS
    N,            \* nodes in the topology; a node is its rank in the order of ids
    Values,       \* payloads (with time stamp and token)
    Adversaries   \* what can go wrong: byzantine nodes, nodes that crash and
                  \* restart, nodes that are down, nodes whose quarantine is
                  \* flushed by hand, rollup payloads some journal contradicts;
                  \* and two bounds: the payloads submitted, the ledgers' height

Nodes == 1..N

\* BFTConsensusNode._quorum
Quorum == 2 * ((N - 1) \div 3) + 1

\* Two quorums have a node in common that is neither byzantine nor forgetful,
\* and a node that hears of a quorum of COMMITs hears from an honest node.
ASSUME ClusterAssumption ==
    /\ N \in Nat \ {0}
    /\ Adversaries \subseteq
          [faulty : SUBSET Nodes, amnesic : SUBSET Nodes, down : SUBSET Nodes,
           flushed : SUBSET Nodes, disputed : SUBSET Values,
           submitted : SUBSET Values, height : Nat]
    /\ \A a \in Adversaries :
          /\ 2 * Quorum > N + Cardinality(a.faulty \cup a.amnesic)
          /\ a.faulty = {} \/ Quorum > Cardinality(a.faulty) + 1

NoBlock == <<>>

VARIABLES
    adv,          \* the adversary of this behaviour; never changes
    ledger,       \* ledger[n]: PROOFS_LEDGER.jsonl, by its last block
    head,         \* head[n]: the block _height.prev_hash names
    proposal,     \* _height.proposal
    phase,        \* how far _maybe_commit and _commit_block have come
    due,          \* a _propose_after_grace task is scheduled for this height
    quarantined,  \* _quarantined_peers
    net           \* messages sent by honest nodes

heightVars == <<proposal, phase, due>>
vars == <<adv, ledger, head, heightVars, quarantined, net>>

Honest == Nodes \ adv.faulty

\* "open": nothing yet; "voted": COMMIT broadcast; "committing": committed is
\* set; "appended": the block is on disk.
Phases == {"open", "voted", "committing", "appended"}

Messages == [type : {"propose", "prepare", "commit"}, from : Nodes, block : Seq(Values)]

\* Types; and a node never quarantines itself, whoever it takes for the leader.
TypeOK ==
    /\ adv \in Adversaries
    /\ ledger \in [Nodes -> Seq(Values)]
    /\ head \in [Nodes -> Seq(Values)]
    /\ proposal \in [Nodes -> Seq(Values)]
    /\ phase \in [Nodes -> Phases]
    /\ due \in [Nodes -> BOOLEAN]
    /\ quarantined \in [Nodes -> SUBSET Nodes]
    /\ \A n \in Nodes : n \notin quarantined[n]
    /\ net \subseteq Messages

Init ==
    /\ adv \in Adversaries
    /\ ledger = [n \in Nodes |-> <<>>]
    /\ head = [n \in Nodes |-> <<>>]
    /\ proposal = [n \in Nodes |-> NoBlock]
    /\ phase = [n \in Nodes |-> "open"]
    /\ due = [n \in Nodes |-> FALSE]
    /\ quarantined = [n \in Nodes |-> {}]
    /\ net = {}

-----------------------------------------------------------------------------
(* Leaders, messages, blocks *)

\* _leader_for_index: rotation over the nodes this node has not quarantined
Leader(n, index) ==
    LET ids == Nodes \ quarantined[n]
    IN  CHOOSE x \in ids : Cardinality({y \in ids : y < x}) = index % Cardinality(ids)

Message(type, n, b) == [type |-> type, from |-> n, block |-> b]

\* _broadcast and _send_raw
Broadcast(ms) == net' = net \cup ms

IsPrefix(c, b) == Len(c) <= Len(b) /\ \A i \in 1..Len(c) : c[i] = b[i]

\* b is the next block after c.
Extends(b, c) == Len(b) = Len(c) + 1 /\ IsPrefix(c, b)

Index(b) == Len(b) - 1

Blocks == UNION {[1..k -> Values] : k \in 1..adv.height}

\* What byzantine nodes may say.
Forged == [type : {"propose", "prepare", "commit"}, from : adv.faulty, block : Blocks]

Sent == net \cup Forged

\* Node n may read message m: the connection of a quarantined peer is closed,
\* and _handle_hello refuses it a new one, as it does to the node itself.
Receives(n, m, type) == m.type = type /\ m.from \notin quarantined[n] \cup {n}

\* ByzantineNodeException and _quarantine_connection
Quarantine(n, p) == quarantined' = [quarantined EXCEPT ![n] = @ \cup {p}]

-----------------------------------------------------------------------------
(* Pre-prepare *)

\* _submit_candidate, _handle_propose_request or _gossip_progress schedules
\* _propose_after_grace at the node that takes itself for the leader.
Schedule(n) ==
    /\ ~due[n]
    /\ Leader(n, Len(head[n])) = n
    /\ due' = [due EXCEPT ![n] = TRUE]
    /\ UNCHANGED <<adv, ledger, head, proposal, phase, quarantined, net>>

\* _propose_after_grace: by then there may be a proposal.
Propose(n, v) ==
    /\ due[n]
    /\ proposal[n] = NoBlock
    /\ Len(head[n]) < adv.height
    /\ LET b == Append(head[n], v)
       IN  /\ proposal' = [proposal EXCEPT ![n] = b]
           /\ Broadcast({Message("propose", n, b), Message("prepare", n, b)})
    /\ due' = [due EXCEPT ![n] = FALSE]
    /\ UNCHANGED <<adv, ledger, head, phase, quarantined>>

ProposeTooLate(n) ==
    /\ due[n]
    /\ proposal[n] # NoBlock
    /\ due' = [due EXCEPT ![n] = FALSE]
    /\ UNCHANGED <<adv, ledger, head, proposal, phase, quarantined, net>>

\* The leader's latest block takes the place of an earlier one.
AcceptProposalReplaces(n, m) ==
    /\ Receives(n, m, "propose")
    /\ m.from = Leader(n, Index(m.block))
    /\ Extends(m.block, head[n])
    /\ proposal' = [proposal EXCEPT ![n] = m.block]
    /\ Broadcast({Message("prepare", n, m.block)})
    /\ UNCHANGED <<adv, ledger, head, phase, due, quarantined>>

\* _handle_propose_block: a leader's block that extends the head becomes the
\* proposal, unless there is one; PREPARE is broadcast (again).
AcceptProposal(n, m) ==
    /\ Receives(n, m, "propose")
    /\ m.from = Leader(n, Index(m.block))
    /\ Extends(m.block, head[n])
    /\ proposal[n] \in {NoBlock, m.block}
    /\ proposal' = [proposal EXCEPT ![n] = m.block]
    /\ Broadcast({Message("prepare", n, m.block)})
    /\ UNCHANGED <<adv, ledger, head, phase, due, quarantined>>

\* Any block that does not extend the local head, and a second one from the
\* leader for the same height, is taken for byzantine.  (A block of another
\* node that does extend it is set aside.)
RefuseProposal(n, m) ==
    /\ Receives(n, m, "propose")
    /\ \/ ~Extends(m.block, head[n])
       \/ m.from = Leader(n, Index(m.block)) /\ proposal[n] \notin {NoBlock, m.block}
    /\ Quarantine(n, m.from)
    /\ UNCHANGED <<adv, ledger, head, heightVars, net>>

\* _verify_pre_prepare: the rollup does not agree with the local journal.
RefuseRollup(n, m) ==
    /\ Receives(n, m, "propose")
    /\ m.from = Leader(n, Index(m.block))
    /\ m.block[Len(m.block)] \in adv.disputed
    /\ Quarantine(n, m.from)
    /\ UNCHANGED <<adv, ledger, head, heightVars, net>>

\* A malformed block, a wrong hash, signature or token, or a HELLO with
\* another cluster id
RefuseMalformed(n, p) ==
    /\ p \in adv.faulty \ quarantined[n]
    /\ Quarantine(n, p)
    /\ UNCHANGED <<adv, ledger, head, heightVars, net>>

-----------------------------------------------------------------------------
(* Prepare and commit *)

\* A PREPARE for another block of the same height
RefusePrepare(n, m) ==
    /\ Receives(n, m, "prepare")
    /\ Index(m.block) = Len(head[n])
    /\ proposal[n] \notin {NoBlock, m.block}
    /\ Quarantine(n, m.from)
    /\ UNCHANGED <<adv, ledger, head, heightVars, net>>

\* The nodes other than n that n can have heard from, about block b.
Voters(n, type, b) ==
    {m.from : m \in {x \in Sent : x.type = type /\ x.block = b}} \ {n}

\* PREPAREs are counted without a look at the block they are for.
PreparedAnyBlock(n) ==
    Cardinality({n} \cup UNION {Voters(n, "prepare", b) : b \in Blocks}) >= Quorum

\* _height.prepares reaches the quorum: the node itself and the peers whose
\* PREPARE _handle_prepare found to be for the proposal.
Prepared(n) == Cardinality({n} \cup Voters(n, "prepare", proposal[n])) >= Quorum

\* _height.commits does: _handle_commit counts the node itself too, once it
\* has heard from a peer.
Committed(n) ==
    LET peers == Voters(n, "commit", proposal[n])
    IN  peers # {} /\ Cardinality({n} \cup peers) >= Quorum

\* _maybe_commit: COMMIT is broadcast ...
MaybeCommit(n) ==
    /\ phase[n] = "open"
    /\ proposal[n] # NoBlock
    /\ Prepared(n)
    /\ Broadcast({Message("commit", n, proposal[n])})
    /\ phase' = [phase EXCEPT ![n] = "voted"]
    /\ UNCHANGED <<adv, ledger, head, proposal, due, quarantined>>

\* ... and _commit_block entered; a quorum of COMMITs leads there too.
StartCommit(n) ==
    /\ phase[n] \in {"open", "voted"}
    /\ proposal[n] # NoBlock
    /\ phase[n] = "voted" \/ Committed(n)
    /\ phase' = [phase EXCEPT ![n] = "committing"]
    /\ UNCHANGED <<adv, ledger, head, proposal, due, quarantined, net>>

\* _append_jsonl_atomic, in a thread
AppendLedger(n) ==
    /\ phase[n] = "committing"
    /\ ledger' = [ledger EXCEPT ![n] = proposal[n]]
    /\ phase' = [phase EXCEPT ![n] = "appended"]
    /\ UNCHANGED <<adv, head, proposal, due, quarantined, net>>

\* The new height keeps the old proposal.
AdvanceKeepsProposal(n) ==
    /\ phase[n] = "appended"
    /\ head' = [head EXCEPT ![n] = proposal[n]]
    /\ phase' = [phase EXCEPT ![n] = "open"]
    /\ due' = [due EXCEPT ![n] = FALSE]
    /\ UNCHANGED <<adv, ledger, proposal, quarantined, net>>

\* The per-height state of a fresh _ConsensusHeight
FreshHeight(n) ==
    /\ proposal' = [proposal EXCEPT ![n] = NoBlock]
    /\ phase' = [phase EXCEPT ![n] = "open"]
    /\ due' = [due EXCEPT ![n] = FALSE]

\* The new height keeps the old head.
AdvanceKeepsHead(n) ==
    /\ phase[n] = "appended"
    /\ FreshHeight(n)
    /\ UNCHANGED <<adv, ledger, head, quarantined, net>>

\* _commit_block, under the lock again: the height after the block's
Advance(n) ==
    /\ phase[n] = "appended"
    /\ head' = [head EXCEPT ![n] = proposal[n]]
    /\ FreshHeight(n)
    /\ UNCHANGED <<adv, ledger, quarantined, net>>

-----------------------------------------------------------------------------
(* Gossip, quarantine, restart *)

\* _gossip_progress: PREPARE is sent again, by the node that takes itself for
\* the leader also the proposal, as one of its own.
Gossip(n) ==
    /\ proposal[n] # NoBlock
    /\ phase[n] \in {"open", "voted"}
    /\ Broadcast({Message(t, n, proposal[n]) :
                    t \in {"prepare"} \cup (IF Leader(n, Len(head[n])) = n THEN {"propose"} ELSE {})})
    /\ UNCHANGED <<adv, ledger, head, heightVars, quarantined>>

FlushQuarantine(n) ==
    /\ n \in adv.flushed
    /\ quarantined[n] # {}
    /\ quarantined' = [quarantined EXCEPT ![n] = {}]
    /\ UNCHANGED <<adv, ledger, head, heightVars, net>>

\* The hydration starts over at the genesis block.
RestartEmpty(n) ==
    /\ n \in adv.amnesic
    /\ head' = [head EXCEPT ![n] = <<>>]
    /\ FreshHeight(n)
    /\ quarantined' = [quarantined EXCEPT ![n] = {}]
    /\ UNCHANGED <<adv, ledger, net>>

\* A crash and a restart: _hydrate_tail finds the head, all else is lost.
Restart(n) ==
    /\ n \in adv.amnesic
    /\ head' = [head EXCEPT ![n] = ledger[n]]
    /\ FreshHeight(n)
    /\ quarantined' = [quarantined EXCEPT ![n] = {}]
    /\ UNCHANGED <<adv, ledger, net>>

NodeStep(n) ==
    \/ Schedule(n) \/ ProposeTooLate(n)
    \/ \E v \in adv.submitted : Propose(n, v)
    \/ \E m \in Sent : \/ AcceptProposal(n, m) \/ RefuseProposal(n, m)
                      \/ RefuseRollup(n, m) \/ RefusePrepare(n, m)
    \/ \E p \in Nodes : RefuseMalformed(n, p)
    \/ MaybeCommit(n) \/ StartCommit(n) \/ AppendLedger(n) \/ Advance(n)
    \/ Gossip(n) \/ FlushQuarantine(n) \/ Restart(n)

Next == \E n \in Honest \ adv.down : NodeStep(n)

Spec == Init /\ [][Next]_vars

-----------------------------------------------------------------------------
(* Properties *)

\* The ledgers of honest nodes never fork: of two, one continues the other.
Agreement ==
    \A n, m \in Honest : IsPrefix(ledger[n], ledger[m]) \/ IsPrefix(ledger[m], ledger[n])

\* Node p stands by block b: it is on p's chain, or p's proposal.
StandsBy(p, b) == IsPrefix(b, head[p]) \/ proposal[p] = b

\* The nodes that stand by b, byzantine and forgetful nodes included unasked.
Backers(b) == {p \in Nodes : p \in adv.faulty \cup adv.amnesic \/ StandsBy(p, b)}

Certified(b) == Cardinality(Backers(b)) >= Quorum

\* What an honest node writes, a quorum stands by, also once others moved on.
LedgerBacked == \A n \in Honest : ledger[n] # <<>> => Certified(ledger[n])

\* A ledger only ever grows, by one block that names its last block.
LedgerAppendOnly ==
    [][\A n \in Nodes : ledger'[n] # ledger[n] => Extends(ledger'[n], ledger[n])]_vars

\* The "Commit continuity mismatch" of _commit_block is never raised.
CommitContinuity == \A n \in Honest : proposal[n] # NoBlock => Extends(proposal[n], head[n])

=============================================================================
