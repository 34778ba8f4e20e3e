------------------------------- MODULE Rollup -------------------------------
(***************************************************************************)
(* core/rollup.py: WorkspaceRollupEngine collects transactions, mirrors    *)
(* them in ROLLUP_JOURNAL.jsonl and submits batches of them to the         *)
(* consensus node as one ROLLUP_BLOCK, which every node checks against its *)
(* journal (verify_rollup_payload) before it votes.                        *)
(*                                                                         *)
(* _mu makes each critical section one step; callers run on event loops of *)
(* their own threads, so submit_transaction is two steps.  A transaction   *)
(* stands for its material: the Merkle root, the correlation mask and the  *)
(* token hash of a batch agree with those of a slice of the journal when   *)
(* both hold the same transactions.  Appending to the journal may fail,    *)
(* before, in the middle of, or after the line; then the transaction is    *)
(* pending all the same and only its caller learns of it.                  *)
(*                                                                         *)
(* The consensus is reduced to what submit_payload sees of it: at each     *)
(* height one candidate, ours or another node's, becomes the block, and    *)
(* the hash of a block is its height.                                      *)
(***************************************************************************)
EXTENDS Integers, Sequences, FiniteSets

CONSTANTS
    Callers,      \* calls of submit_transaction
    Traces,       \* transactions ingested without anybody waiting
    Anonymous,    \* those whose correlation_id or event is empty
    BatchSize,    \* batch_size
    MaxBatches,   \* bound: flushes
    MaxHeight,    \* bound: blocks committed
    MaxEvents     \* bound: appends to the journal, those that fail counted twice, and
                  \* restarts of the engine over the same journal

ASSUME RollupAssumption ==
    /\ BatchSize \in Nat \ {0}
    /\ MaxBatches \in Nat /\ MaxHeight \in Nat /\ MaxEvents \in Nat
    /\ Callers \cap Traces = {} /\ Anonymous \subseteq Callers \cup Traces

Ids == Callers \cup Traces
Transactions == [seq : Nat \ {0}, id : Ids]

\* What an append to the journal left there: a line that iter_rollup_journal
\* accepts, or one that it skips or that is not there at all.
JournalLines == [seq : Nat \ {0}, id : Ids, accepted : BOOLEAN]

VARIABLES
    nextSeq,     \* _next_seq
    pending,     \* _pending
    waiters,     \* _waiters, by caller
    journal,     \* ROLLUP_JOURNAL.jsonl, a line for each append
    torn,        \* the journal ends in a line without its newline
    caller,      \* caller[c]: how far the call has come
    ingested,    \* the traces ingested
    raised,      \* the transactions whose append raised
    batches,     \* the _flush_batch calls, in the order of _batch_counter
    candidates,  \* _pending of the consensus node at its current height
    ledger,      \* the committed blocks: the number of a batch, 0 for others
    restarts

fileVars == <<journal, torn, raised>>
rollupVars == <<nextSeq, pending, waiters, fileVars, caller, ingested, batches,
                candidates, ledger, restarts>>

NoRoot == -1

\* A flush: the batch it took, the ledger head it bound ("bound"), the height
\* its future waits for ("registered"), its candidate submitted ("queued").
Flushes ==
    [txs : Seq(Transactions), waiters : Seq(Callers),
     state : {"taken", "bound", "registered", "queued", "done", "failed"},
     root : Int, height : Int, resolved : BOOLEAN]

\* Types; and what is pending or in a batch is in the order of its seq.
RollupTypeOK ==
    /\ nextSeq \in Nat \ {0}
    /\ pending \in Seq(Transactions) /\ journal \in Seq(JournalLines)
    /\ torn \in BOOLEAN /\ raised \subseteq Ids
    /\ waiters \in Seq(Callers)
    /\ caller \in [Callers -> {"idle", "ingested", "failed", "waiting", "answered", "lost"}]
    /\ ingested \subseteq Traces
    /\ batches \in Seq(Flushes)
    /\ candidates \subseteq DOMAIN batches
    /\ ledger \in Seq(0..MaxBatches)
    /\ restarts \in 0..MaxEvents

RollupInit ==
    /\ nextSeq = 1 /\ pending = <<>> /\ waiters = <<>>
    /\ journal = <<>> /\ torn = FALSE /\ raised = {}
    /\ caller = [c \in Callers |-> "idle"]
    /\ ingested = {} /\ batches = <<>> /\ candidates = {} /\ ledger = <<>>
    /\ restarts = 0

-----------------------------------------------------------------------------
Seqs(txs) == {txs[i].seq : i \in DOMAIN txs}
IdsOf(txs) == {txs[i].id : i \in DOMAIN txs}

SeqStart(txs) == CHOOSE n \in Seqs(txs) : \A k \in Seqs(txs) : n <= k
SeqEnd(txs) == CHOOSE n \in Seqs(txs) : \A k \in Seqs(txs) : n >= k

\* The lines that iter_rollup_journal accepts, from seq_start to seq_end.
JournalSlice(txs) ==
    {i \in DOMAIN journal : /\ journal[i].accepted
                            /\ journal[i].seq >= SeqStart(txs) /\ journal[i].seq <= SeqEnd(txs)}

\* tx_count, merkle_root, correlation_mask and execution_token_hash agree.
\* The Merkle tree is over the sorted leaves: it forgets the order.
MatchesJournal(txs) ==
    LET slice == JournalSlice(txs)
    IN  Cardinality(slice) = Len(txs) /\ {journal[i].id : i \in slice} = IdsOf(txs)

\* verify_rollup_payload in _verify_pre_prepare; the roots and the proof are
\* hashes of what is compared already.
Verifies(b) == batches[b].root = Len(ledger) /\ MatchesJournal(batches[b].txs)

-----------------------------------------------------------------------------
(* ingest_transaction, its part under _mu *)

Events == Len(journal) + Cardinality(raised) + restarts

\* A line in the journal.  Behind a line without its newline it makes one line
\* with it, which is no JSON.
AppendLine(id, accepted) ==
    journal' = Append(IF torn THEN [journal EXCEPT ![Len(journal)].accepted = FALSE] ELSE journal,
                      [seq |-> nextSeq, id |-> id, accepted |-> accepted /\ ~torn])

\* A whole line; the readers skip one without a correlation_id or an event.
WriteLine(id) == AppendLine(id, id \notin Anonymous) /\ torn' = FALSE

\* _append_jsonl_atomic raises: before it wrote anything, after a part of the
\* line, be it all but the newline, or when it closes the file.
AppendRaises(id) ==
    /\ id \notin raised /\ Events + 1 < MaxEvents
    /\ raised' = raised \cup {id}
    /\ \/ /\ journal' = Append(journal, [seq |-> nextSeq, id |-> id, accepted |-> FALSE])
          /\ UNCHANGED torn
       \/ /\ \E accepted \in {FALSE, id \notin Anonymous} : AppendLine(id, accepted)
          /\ torn' = TRUE
       \/ WriteLine(id)

\* The transaction takes a number and is pending, whatever becomes of its line.
Number(id) ==
    /\ Events < MaxEvents
    /\ pending' = Append(pending, [seq |-> nextSeq, id |-> id])
    /\ nextSeq' = nextSeq + 1

Ingest(id) == Number(id) /\ WriteLine(id) /\ UNCHANGED raised
IngestRaises(id) == Number(id) /\ AppendRaises(id)

\* ingest_telemetry_record, ingest_cache_decision
IngestTrace(t) ==
    /\ t \notin ingested
    /\ Ingest(t) \/ IngestRaises(t)
    /\ ingested' = ingested \cup {t}
    /\ UNCHANGED <<waiters, caller, batches, candidates, ledger, restarts>>

\* submit_transaction ingests; when that raises, the caller has an exception
\* and no future, and the transaction is pending.
SubmitIngest(c) ==
    /\ caller[c] = "idle"
    /\ \/ Ingest(c) /\ caller' = [caller EXCEPT ![c] = "ingested"]
       \/ IngestRaises(c) /\ caller' = [caller EXCEPT ![c] = "failed"]
    /\ UNCHANGED <<waiters, ingested, batches, candidates, ledger, restarts>>

TakenBy(txs, ws) ==
    [txs |-> txs, waiters |-> ws, state |-> "taken", root |-> NoRoot,
     height |-> NoRoot, resolved |-> FALSE]

\* The future is queued, and a batch is cut off when both lists are long
\* enough: the first transactions with the first futures.
SubmitWait(c) ==
    LET ws == Append(waiters, c)
        full == Len(pending) >= BatchSize /\ Len(ws) >= BatchSize
    IN  /\ caller[c] = "ingested"
        /\ caller' = [caller EXCEPT ![c] = "waiting"]
        /\ \/ ~full /\ waiters' = ws /\ UNCHANGED <<pending, batches>>
           \/ /\ full /\ Len(batches) < MaxBatches
              /\ batches' = Append(batches, TakenBy(SubSeq(pending, 1, BatchSize),
                                                    SubSeq(ws, 1, BatchSize)))
              /\ pending' = SubSeq(pending, BatchSize + 1, Len(pending))
              /\ waiters' = SubSeq(ws, BatchSize + 1, Len(ws))
        /\ UNCHANGED <<nextSeq, fileVars, ingested, candidates, ledger, restarts>>

\* Mutant of Flush: the pending transactions stay in the list.
FlushKeeps ==
    /\ pending # <<>> /\ Len(batches) < MaxBatches
    /\ batches' = Append(batches, TakenBy(pending, waiters))
    /\ waiters' = <<>>
    /\ UNCHANGED <<nextSeq, pending, fileVars, caller, ingested, candidates, ledger, restarts>>

Flush ==
    /\ pending # <<>> /\ Len(batches) < MaxBatches
    /\ batches' = Append(batches, TakenBy(pending, waiters))
    /\ pending' = <<>> /\ waiters' = <<>>
    /\ UNCHANGED <<nextSeq, fileVars, caller, ingested, candidates, ledger, restarts>>

-----------------------------------------------------------------------------
\* _flush_batch, between its awaits and those of submit_payload

InState(b, s) == b \in DOMAIN batches /\ batches[b].state = s

FlushOnly == UNCHANGED <<nextSeq, pending, waiters, fileVars, ingested, restarts>>

\* The ledger head is read from disk and bound into the payload.
BindRoot(b) ==
    /\ InState(b, "taken")
    /\ batches' = [batches EXCEPT ![b].state = "bound", ![b].root = Len(ledger)]
    /\ FlushOnly /\ UNCHANGED <<caller, candidates, ledger>>

\* submit_payload: a future for the current height, under _state_mu.
RegisterFuture(b) ==
    /\ InState(b, "bound")
    /\ batches' = [batches EXCEPT ![b].state = "registered", ![b].height = Len(ledger)]
    /\ FlushOnly /\ UNCHANGED <<caller, candidates, ledger>>

\* _submit_candidate takes _state_mu again: the height may have moved on.
QueueCandidate(b) ==
    /\ InState(b, "registered")
    /\ batches' = [batches EXCEPT ![b].state = "queued"]
    /\ candidates' = candidates \cup {b}
    /\ FlushOnly /\ UNCHANGED <<caller, ledger>>

AwaitsHeight(b) ==
    /\ batches[b].state \in {"registered", "queued"}
    /\ batches[b].height = Len(ledger)

\* _commit_block: the block goes to every future of its height, the other
\* candidates of that height are dropped.
CommitHeight(block) ==
    /\ Len(ledger) < MaxHeight
    /\ ledger' = Append(ledger, block)
    /\ candidates' = {}
    /\ batches' = [b \in DOMAIN batches |->
          [batches[b] EXCEPT !.resolved = @ \/ AwaitsHeight(b)]]
    /\ FlushOnly /\ UNCHANGED caller

CommitRollup(b) == b \in candidates /\ Verifies(b) /\ CommitHeight(b)

\* A payload of another node is chosen.
CommitOther == CommitHeight(0)

\* The peers refuse the proposal as fraudulent and quarantine its leader; the
\* height is left to another leader.
RefuseRollup(b) ==
    /\ b \in candidates /\ ~Verifies(b)
    /\ candidates' = candidates \ {b}
    /\ FlushOnly /\ UNCHANGED <<caller, batches, ledger>>

WaitersOf(b) == {batches[b].waiters[i] : i \in DOMAIN batches[b].waiters}

\* The future has a result: whatever block it is, the callers get it.
AnswerWaiters(b) ==
    /\ InState(b, "queued") /\ batches[b].resolved
    /\ batches' = [batches EXCEPT ![b].state = "done"]
    /\ caller' = [c \in Callers |->
          IF c \in WaitersOf(b) /\ caller[c] = "waiting" THEN "answered" ELSE caller[c]]
    /\ FlushOnly /\ UNCHANGED <<candidates, ledger>>

\* submit_payload raises: the task ends, its callers wait for ever.
FlushFails(b) ==
    /\ InState(b, "bound")
    /\ batches' = [batches EXCEPT ![b].state = "failed"]
    /\ FlushOnly /\ UNCHANGED <<caller, candidates, ledger>>

\* A new engine counts from 1 again, over the journal of the old one.
RestartEngine ==
    /\ Events < MaxEvents
    /\ restarts' = restarts + 1
    /\ nextSeq' = 1 /\ pending' = <<>> /\ waiters' = <<>>
    /\ caller' = [c \in Callers |->
          IF caller[c] \in {"ingested", "waiting"} THEN "lost" ELSE caller[c]]
    /\ batches' = [b \in DOMAIN batches |->
          IF batches[b].state = "done" THEN batches[b]
          ELSE [batches[b] EXCEPT !.state = "failed"]]
    /\ candidates' = {}
    /\ UNCHANGED <<fileVars, ingested, ledger>>

RollupNext ==
    \/ \E t \in Traces : IngestTrace(t)
    \/ \E c \in Callers : SubmitIngest(c) \/ SubmitWait(c)
    \/ Flush
    \/ \E b \in 1..MaxBatches :
          \/ BindRoot(b) \/ RegisterFuture(b) \/ QueueCandidate(b)
          \/ CommitRollup(b) \/ RefuseRollup(b) \/ AnswerWaiters(b) \/ FlushFails(b)
    \/ CommitOther
    \/ RestartEngine

RollupSpec == RollupInit /\ [][RollupNext]_rollupVars

-----------------------------------------------------------------------------
\* Properties

\* Every transaction of the batch has its line.
Mirrored(txs) ==
    \A i \in DOMAIN txs :
        [seq |-> txs[i].seq, id |-> txs[i].id, accepted |-> TRUE] \in {journal[k] : k \in DOMAIN journal}

\* A committed batch was bound to the block before it; and until an engine
\* restarts over an old journal, no transaction is in two batches, and the
\* honest nodes take a batch, cut off by whichever interleaving of callers and
\* flushes, for what it is: it agrees with the journal exactly when all its
\* transactions have their lines, and they have them unless an append raised or
\* an id was empty.
BatchesMatchJournal ==
    /\ \A h \in DOMAIN ledger : ledger[h] # 0 => batches[ledger[h]].root = h - 1
    /\ restarts = 0 =>
          /\ \A a, b \in DOMAIN batches :
                a # b => IdsOf(batches[a].txs) \cap IdsOf(batches[b].txs) = {}
          /\ \A b \in DOMAIN batches :
                /\ MatchesJournal(batches[b].txs) <=> Mirrored(batches[b].txs)
                /\ raised = {} /\ IdsOf(batches[b].txs) \cap Anonymous = {}
                       => Mirrored(batches[b].txs)

=============================================================================
