---------------------------- MODULE ProofLedger ----------------------------
(***************************************************************************)
(* core/proof_ledger.py and core/fork_resolver.py: PROOFS_LEDGER.jsonl,    *)
(* the hash-chained file that every office process appends to from a head  *)
(* it keeps in memory, and LedgerForkAuditor, which rewrites the file when *)
(* it is no longer one chain.  core/replay.py reads the chain back.        *)
(*                                                                         *)
(* Nothing but a lock inside each process orders the writers: two office   *)
(* processes over one log directory append from stale heads, and an        *)
(* auditor replaces the file under a writer that has it open.  A process   *)
(* runs run_autonomous_office.main: it audits and heals the ledger, then   *)
(* attaches a ProofLedgerManager.  A monitor runs LedgerForkAuditor.monitor*)
(* and never appends.                                                      *)
(*                                                                         *)
(* A hash is the number of its block in the order of creation (hashes do   *)
(* not collide), and prev 0 is the genesis hash.  Chains of equal length   *)
(* are told apart by the signature of their last block, a free choice.     *)
(***************************************************************************)
EXTENDS Integers, Sequences, FiniteSets

CONSTANTS
    Writers,      \* office processes
    Monitors,     \* processes that only run monitor()
    Signatures,   \* FNV-1a signatures, a set of numbers
    MaxAppends,   \* bound: blocks appended by writers
    MaxFaults     \* bound: crashes and failed writes

Processes == Writers \cup Monitors

ASSUME LedgerAssumption ==
    /\ Writers \cap Monitors = {}
    /\ Signatures \subseteq Nat
    /\ MaxAppends \in Nat
    /\ MaxFaults \in Nat

VARIABLES
    file,      \* PROOFS_LEDGER.jsonl: a sequence of lines
    inode,     \* which file the path names: os.replace makes a new one
    orphans,   \* hashes of the blocks in ORPHANED_FORKS.jsonl
    at,        \* at[p]: where process p stands
    snap,      \* snap[p]: the lines its auditor read
    chain,     \* chain[p]: the chain its auditor chose among them
    fd,        \* fd[p]: the inode append_block has open
    tail,      \* tail[p]: _next_index and _prev_hash
    created,   \* blocks created so far, for fresh hashes
    appends, faults

ledgerVars == <<file, inode, orphans, at, snap, chain, fd, tail, created, appends, faults>>

Kinds == {"GOV_EVENT", "QUORUM_PASSED", "CONSENSUS_RECONCILIATION_COMPLETE"}

Blocks == [index : Nat, prev : Nat, hash : Nat, kind : Kinds, signature : Signatures]

\* A line holds the blocks whose bytes are in it.  "torn": a write that broke
\* off before its newline; "garbage": a torn line that a later append ended.
Lines == [state : {"ok", "torn", "garbage"}, holds : SUBSET Blocks]

Genesis == [next |-> 0, prev |-> 0]

\* Types; and a line that parses is one block.
LedgerTypeOK ==
    /\ file \in Seq(Lines)
    /\ \A i \in DOMAIN file : file[i].state = "ok" => \E b \in file[i].holds : file[i].holds = {b}
    /\ inode \in Nat /\ created \in Nat /\ appends \in Nat /\ faults \in Nat
    /\ orphans \subseteq Nat
    /\ at \in [Processes -> {"off", "prune", "rewrite", "attach", "up", "writing"}]
    /\ snap \in [Processes -> Seq(Lines)]
    /\ chain \in [Processes -> Seq(Blocks)]
    /\ fd \in [Processes -> Nat]
    /\ tail \in [Processes -> [next : Nat, prev : Nat]]

LedgerInit ==
    /\ file = <<>> /\ inode = 0 /\ orphans = {}
    /\ at = [p \in Processes |-> "off"]
    /\ snap = [p \in Processes |-> <<>>]
    /\ chain = [p \in Processes |-> <<>>]
    /\ fd = [p \in Processes |-> 0]
    /\ tail = [p \in Processes |-> Genesis]
    /\ created = 0 /\ appends = 0 /\ faults = 0

-----------------------------------------------------------------------------
\* Reading the file

LineSet(f) == {f[i] : i \in DOMAIN f}

\* Whatever bytes of blocks the file holds.
HashesIn(f) == UNION {{b.hash : b \in l.holds} : l \in LineSet(f)}

\* The lines that parse and whose hash and signature are right.
ValidBlocks(f) == UNION {l.holds : l \in {k \in LineSet(f) : k.state = "ok"}}

TheBlock(line) == CHOOSE b \in line.holds : TRUE

\* Every line extends the one before it.
Linked(blocks) ==
    \A i \in DOMAIN blocks :
        /\ blocks[i].index = i - 1
        /\ blocks[i].prev = IF i = 1 THEN 0 ELSE blocks[i - 1].hash

\* audit_or_raise returns: any unparsable line, gap or broken link raises.
AuditPasses(f) ==
    /\ \A i \in DOMAIN f : f[i].state = "ok"
    /\ Linked([i \in DOMAIN f |-> TheBlock(f[i])])

\* iter_ledger_blocks skips what does not parse; verify_ledger_blocks raises
\* on the first block that does not extend its predecessor.
ReplayableBlocks(f) ==
    LET parsed == {i \in DOMAIN f : f[i].state = "ok"}
        nth(k) == CHOOSE i \in parsed : Cardinality({j \in parsed : j <= i}) = k
    IN  [k \in 1..Cardinality(parsed) |-> TheBlock(f[nth(k)])]

ReplayVerifies(f) == Linked(ReplayableBlocks(f))

\* The last line that parses, valid or not.
HydrateTail(f) ==
    LET ok == {i \in DOMAIN f : f[i].state = "ok"}
    IN  IF ok = {} THEN Genesis
        ELSE LET b == TheBlock(f[CHOOSE i \in ok : \A j \in ok : j <= i])
             IN  [next |-> b.index + 1, prev |-> b.hash]

-----------------------------------------------------------------------------
\* Choosing a chain

\* The first index at which two valid blocks claim the same predecessor;
\* without one, every index is past the fork.
ForkPoint(blocks) ==
    LET forks == {b.index : b \in {c \in blocks : \E d \in blocks :
                      d # c /\ d.index = c.index /\ d.prev = c.prev}}
    IN  IF forks = {} THEN 0 ELSE CHOOSE i \in forks : \A j \in forks : i <= j

\* _best_chain links blocks to their parents in index order, and so finds for
\* each block the path to it from a genesis block, if there is one.
PathTo(blocks) ==
    LET top == Cardinality(blocks)
        path[i \in 0..top] ==
            IF i = 0
            THEN {<<b>> : b \in {c \in blocks : c.index = 0 /\ c.prev = 0}}
            ELSE UNION {{Append(p, b) : p \in {q \in path[i - 1] : b.prev = q[Len(q)].hash}} :
                           b \in {c \in blocks : c.index = i}}
    IN  UNION {path[i] : i \in 0..top}

\* quorum_passed_after_fork
PassedAfterFork(fork, c) ==
    \E i \in DOMAIN c : c[i].kind = "QUORUM_PASSED" /\ c[i].index >= fork

\* Mutant of TipKey: the quorum before the length.
TipKeyQuorumFirst(fork, c) ==
    <<IF PassedAfterFork(fork, c) THEN 1 ELSE 0, Len(c), c[Len(c)].signature, c[Len(c)].hash>>

\* _chain_tip_key: length, then quorum, then signature, then hash.
TipKey(fork, c) ==
    <<Len(c), IF PassedAfterFork(fork, c) THEN 1 ELSE 0, c[Len(c)].signature, c[Len(c)].hash>>

KeyAbove(k, l) ==
    \E i \in DOMAIN k : k[i] > l[i] /\ \A j \in 1..(i - 1) : k[j] = l[j]

\* _best_chain returns a chain: some valid block is a genesis block.
HasChain(f) == \E b \in ValidBlocks(f) : b.index = 0 /\ b.prev = 0

\* _best_chain; <<>> when no valid block descends from a genesis block.
BestChain(f) ==
    LET blocks == ValidBlocks(f)
        chains == PathTo(blocks)
        fork == ForkPoint(blocks)
    IN  IF chains = {} THEN <<>>
        ELSE CHOOSE c \in chains : \A d \in chains \ {c} : KeyAbove(TipKey(fork, c), TipKey(fork, d))

\* _select_candidate_by_replay: replays every chain of the greatest length,
\* keeps those with a QUORUM_PASSED frame at or after the fork if there are
\* any, and takes the highest signature, then the highest hash.
ChainByReplay(f) ==
    LET blocks == ValidBlocks(f)
        chains == PathTo(blocks)
        fork == ForkPoint(blocks)
        longest == {c \in chains : \A d \in chains : Len(d) <= Len(c)}
        quorum == {c \in longest : Linked(c) /\ PassedAfterFork(fork, c)}
        left == IF quorum = {} THEN longest ELSE quorum
        key(c) == <<c[Len(c)].signature, c[Len(c)].hash>>
    IN  IF left = {} THEN <<>>
        ELSE CHOOSE c \in left : \A d \in left \ {c} : KeyAbove(key(c), key(d))

ChainHashes(c) == {c[i].hash : i \in DOMAIN c}

AsLines(c) == [i \in DOMAIN c |-> [state |-> "ok", holds |-> {c[i]}]]

\* Mutant of Pruned: only the lines that parse.
PrunedValid(p) == {b.hash : b \in ValidBlocks(snap[p])} \ ChainHashes(chain[p])

\* What _write_orphaned records of the lines read.
Pruned(p) == HashesIn(snap[p]) \ ChainHashes(chain[p])

\* _build_reconciliation_block
Reconciliation(c, sig) ==
    [index |-> c[Len(c)].index + 1, prev |-> c[Len(c)].hash,
     hash |-> created + 1, kind |-> "CONSENSUS_RECONCILIATION_COMPLETE", signature |-> sig]
-----------------------------------------------------------------------------
\* The auditor: recover_loop, at the start of a process or in a monitor

\* Mutant of AfterAudit: a monitor ends with its first pass.
AfterAuditOnce(p) == IF p \in Writers THEN "attach" ELSE "up"

\* A monitor goes back to sleep, an office process attaches a writer.
AfterAudit(p) == IF p \in Writers THEN "attach" ELSE "off"

\* audit_or_raise passes, or resolve_fork finds no chain and raises: main
\* reports the error and goes on all the same.
AuditDone(p) ==
    /\ p \in Writers /\ at[p] = "off"
    /\ AuditPasses(file) \/ ~HasChain(file)
    /\ at' = [at EXCEPT ![p] = AfterAudit(p)]
    /\ UNCHANGED <<file, inode, orphans, snap, chain, fd, tail, created, appends, faults>>

\* audit_or_raise raised: the lines are read once more and a chain is chosen.
AuditFails(p) ==
    /\ at[p] = "off"
    /\ ~AuditPasses(file) /\ HasChain(file)
    /\ at' = [at EXCEPT ![p] = "prune"]
    /\ snap' = [snap EXCEPT ![p] = file]
    /\ chain' = [chain EXCEPT ![p] = BestChain(file)]
    /\ UNCHANGED <<file, inode, orphans, fd, tail, created, appends, faults>>

WriteOrphaned(p) ==
    /\ at[p] = "prune"
    /\ orphans' = orphans \cup Pruned(p)
    /\ at' = [at EXCEPT ![p] = "rewrite"]
    /\ UNCHANGED <<file, inode, snap, chain, fd, tail, created, appends, faults>>

\* os.replace puts chain and reconciliation block in the place of whatever is
\* there by now.  The second audit only decides what is reported.
AtomicRewrite(p) ==
    /\ at[p] = "rewrite"
    /\ \E sig \in Signatures :
          file' = AsLines(Append(chain[p], Reconciliation(chain[p], sig)))
    /\ inode' = inode + 1
    /\ created' = created + 1
    /\ at' = [at EXCEPT ![p] = AfterAudit(p)]
    /\ snap' = [snap EXCEPT ![p] = <<>>]
    /\ chain' = [chain EXCEPT ![p] = <<>>]
    /\ UNCHANGED <<orphans, fd, tail, appends, faults>>

-----------------------------------------------------------------------------
\* The writer: ProofLedgerManager

Attach(w) ==
    /\ at[w] = "attach"
    /\ tail' = [tail EXCEPT ![w] = HydrateTail(file)]
    /\ at' = [at EXCEPT ![w] = "up"]
    /\ UNCHANGED <<file, inode, orphans, snap, chain, fd, created, appends, faults>>

OpenLedger(w) ==
    /\ at[w] = "up" /\ appends < MaxAppends
    /\ fd' = [fd EXCEPT ![w] = inode]
    /\ at' = [at EXCEPT ![w] = "writing"]
    /\ appends' = appends + 1
    /\ UNCHANGED <<file, inode, orphans, snap, chain, tail, created, faults>>

EndsTorn(f) == f # <<>> /\ f[Len(f)].state = "torn"

\* An append ends a torn last line instead of starting a line of its own.
WithBlock(f, b) ==
    IF EndsTorn(f)
    THEN [f EXCEPT ![Len(f)] = [state |-> "garbage", holds |-> @.holds \cup {b}]]
    ELSE Append(f, [state |-> "ok", holds |-> {b}])

\* What was written through a descriptor of a replaced file is gone.
AppendBlock(w) ==
    /\ at[w] = "writing"
    /\ \E kind \in Kinds \ {"CONSENSUS_RECONCILIATION_COMPLETE"}, sig \in Signatures :
          LET b == [index |-> tail[w].next, prev |-> tail[w].prev,
                    hash |-> created + 1, kind |-> kind, signature |-> sig]
          IN  file' = IF fd[w] = inode THEN WithBlock(file, b) ELSE file
    /\ created' = created + 1
    /\ tail' = [tail EXCEPT ![w] = [next |-> @.next + 1, prev |-> created + 1]]
    /\ at' = [at EXCEPT ![w] = "up"]
    /\ UNCHANGED <<inode, orphans, snap, chain, fd, appends, faults>>

\* The file keeps nothing, or part of the line.
TearsInto(w, f) ==
    \/ f = file
    \/ /\ fd[w] = inode /\ ~EndsTorn(file)
       /\ f = Append(file, [state |-> "torn", holds |-> {}])

\* The write raises; emit_event swallows it and the head stays where it was.
AppendFails(w) ==
    /\ at[w] = "writing" /\ faults < MaxFaults
    /\ \E f \in {file, Append(file, [state |-> "torn", holds |-> {}])} :
          TearsInto(w, f) /\ file' = f
    /\ at' = [at EXCEPT ![w] = "up"]
    /\ faults' = faults + 1
    /\ UNCHANGED <<inode, orphans, snap, chain, fd, tail, created, appends>>

\* The process dies, in the middle of a write or of a reconciliation.
LedgerCrash(p) ==
    /\ at[p] # "off" /\ faults < MaxFaults
    /\ \E f \in {file, Append(file, [state |-> "torn", holds |-> {}])} :
          /\ IF at[p] = "writing" THEN TearsInto(p, f) ELSE f = file
          /\ file' = f
    /\ at' = [at EXCEPT ![p] = "off"]
    /\ snap' = [snap EXCEPT ![p] = <<>>]
    /\ chain' = [chain EXCEPT ![p] = <<>>]
    /\ tail' = [tail EXCEPT ![p] = Genesis]
    /\ faults' = faults + 1
    /\ UNCHANGED <<inode, orphans, fd, created, appends>>

-----------------------------------------------------------------------------
AuditorStep(p) == AuditDone(p) \/ AuditFails(p) \/ WriteOrphaned(p) \/ AtomicRewrite(p)

WriterStep(w) == Attach(w) \/ OpenLedger(w) \/ AppendBlock(w) \/ AppendFails(w)

LedgerNext ==
    \/ \E p \in Processes : AuditorStep(p) \/ LedgerCrash(p)
    \/ \E w \in Writers : WriterStep(w)

\* monitor() wakes up for ever; nothing obliges an office process to go on.
LedgerSpec ==
    /\ LedgerInit /\ [][LedgerNext]_ledgerVars
    /\ \A m \in Monitors : WF_ledgerVars(AuditorStep(m))

-----------------------------------------------------------------------------
\* Properties

\* "The reconciler never discards data", as far as the code can keep it: when
\* a step takes a block out of the file (_atomic_rewrite_ledger), the block is
\* in ORPHANED_FORKS.jsonl, or it was appended after this auditor read the
\* file.  Auditors interleave with each other, with writers and with crashes.
NothingPrunedSilently ==
    [][\A h \in HashesIn(file) \ HashesIn(file)' :
          \/ h \in orphans'
          \/ \E p \in Processes : /\ at[p] = "rewrite" /\ at'[p] # "rewrite"
                                  /\ h \notin HashesIn(snap[p])]_ledgerVars

\* A set of blocks that is a chain, said without any search.
IsChain(S) ==
    /\ {b.index : b \in S} = 0..(Cardinality(S) - 1)
    /\ \A b \in S : IF b.index = 0 THEN b.prev = 0
                    ELSE \E a \in S : a.index = b.index - 1 /\ a.hash = b.prev

\* The longest-chain rule of _best_chain against its definition, on every file
\* that writers, crashes and rewrites produce: the chosen blocks form a chain
\* that audit_or_raise and verify_ledger_blocks accept, no chain of valid
\* blocks is longer, an equally long one passed a quorum after the fork only
\* if the chosen one did, and choosing by replay gives the same chain.
ChosenIsBest ==
    LET best == BestChain(file)
        valid == ValidBlocks(file)
        chosen == {best[i] : i \in DOMAIN best}
        passed(S) == \E b \in S : b.kind = "QUORUM_PASSED" /\ b.index >= ForkPoint(valid)
    IN  /\ chosen \subseteq valid /\ IsChain(chosen) /\ (chosen # {} <=> HasChain(file))
        /\ AuditPasses(AsLines(best)) /\ ReplayVerifies(AsLines(best))
        /\ AuditPasses(file) => ReplayVerifies(file) /\ chosen = valid
        /\ ChainByReplay(file) = best
        /\ \A S \in SUBSET valid : IsChain(S) =>
              /\ Cardinality(S) <= Len(best)
              /\ Cardinality(S) = Len(best) /\ passed(S) => passed(chosen)

\* Once appends and crashes are over, a monitor leaves one chain behind, unless
\* no block in the file descends from a genesis block any more: then
\* resolve_fork raises for ever.
Heals == <>[](AuditPasses(file) \/ ~HasChain(file))

=============================================================================
