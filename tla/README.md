# REMOTE-AGENTS: a TLA+ verification project

This directory holds TLA+ models of the runtime parts of REMOTE-AGENTS, the TLC
configurations that check them on small instances, and theorems about them that
TLAPS has checked. `PROJECT.json` is the machine-readable index: which
definition models which lines, which run checks which property, which mutated
definition shows that the property depends on the code.

    tlc -workers 2 -config PlatformQueue.cfg MCPlatformQueue
    tlapm BFTConsensus_Proofs.tla

## 1. The system

The repository holds an office kernel (`core/`), a platform engine with its task
queue (`src/orchastrator`, `src/orchestrator`), and a control plane of JSON
stores and report generators (`src/`) above them.

| Part | Source | State | Operations |
|---|---|---|---|
| Office pipeline | `run_autonomous_office.py`, `core/orchestrator.py`, `core/handshake.py` | queues between stages; governance log | start, resume, four stages (intake, architecture, risk, build), halt, complete |
| Validation quorum | `core/quorum.py` | ballots of one stage | vote, verdict by unanimity or supermajority |
| Checkpoints | `core/recovery.py`, `core/governance.py` | `checkpoint_state.json`, `governance.jsonl` | load, record stage, record dissent, clear, resolve an intervention |
| Workspace transaction | `core/transaction_manager.py` | staging directory, manifest, live files | open for writing, commit, roll back, replay, clean up |
| Agent sandbox | `core/sandbox.py` | thread or process of an agent | run under a deadline |
| Platform queue | `src/orchastrator/platform_engine.py`, `src/orchestrator/gateway.py`, `dispatcher.py` | `next_task.json`, `processing.lock`, the gateway's heap, `failed/` | trigger, flush to disk, enqueue by CLI, poll, lock, run, archive, remove, release, prune, flush locks |
| Tool loop | `platform_engine.py` (`run_loop`, `execute_tool`), `routers/consensus_engine.py` | context of one task, round counter | ask the model, call a tool, review by the twin, feed back |
| BFT node | `core/consensus_node.py` | `PROOFS_LEDGER.jsonl`, height, proposal, votes, quarantine | propose, prepare, commit, gossip, quarantine, flush, restart |
| Proof ledger, fork resolver, replay | `core/proof_ledger.py`, `fork_resolver.py`, `replay.py` | the ledger file, the orphan log, each writer's head | append, audit, choose a chain, record orphans, rewrite, monitor |
| DAG engine, cache | `core/dag_engine.py`, `core/cache.py` | node status and results, cache objects on disk | schedule, prefetch, look up, execute, store, commit, fail |
| Rollup engine | `core/rollup.py` | pending transactions, waiters, journal | ingest, submit, flush, bind to the head, verify, answer |
| Handshake pipeline | `core/handshake.py` (`HandshakePipeline`), `matrix_verifier.py`, `telemetry.py` | six queues, the verifier's trace, cached outputs | stage, audit, pass on, complete, dead halt |
| Metadata stores | `src/scheduler`, `mission_engine`, `lifecycle_manager`, `memory_graph`, `repository_governance`, `governance_decisions`, `routers/consensus_engine.py` | one JSON file each | load, modify, write a temporary file, rename |
| Mission intake | `src/mission_engine` (`cli`, `planner`, `queue_adapter`) | mission files, the task slot | create, offer, record |
| Portfolio reports | `src/portfolio_*` | `latest.json` and `history.jsonl` of nine reports | one command per report |
| Governance flow | `src/governance_*`, `manual_execution_queue` | plan, dossiers, readiness, packets, decisions, manual queue | one command per report; record a decision |
| Work chain | `src/repository_intelligence`, `remediation_*`, `handoff_refinement`, `work_queue_manager`, `execution_dossier` | findings, plan, packages, queue, dossiers | one command per report |
| Other reports, views | `src/control_plane`, `release_*`, `strategic_missions`, `executive_briefing`, `tool_router`, `schema_versioning`, `sentient_ui`, `ui` | none of their own | functions of artifacts on disk |

How they interact. The office pipeline's stages call the sandbox inside a
workspace transaction, put the result to the quorum, record the checkpoint and
commit; the checkpoint and the left-over staging directories are what a later
process sees of an earlier one. Gateway, CLI, engines and mission engine know of
each other only through the slot and the lock file. The BFT nodes talk over TCP;
each writes a ledger that the fork resolver may rewrite, and checks proposed
rollups against its own journal. The control plane's commands meet only in the
files one writes and the next reads: any of them may be older than the others.

What is hard: crashes between any two file operations and what the next start
makes of the remains; threads that outlive their deadline; the lock-file
protocol between processes; handlers that interleave at every `await`; votes
that are late, repeated or forged; nodes that forget their votes; an error path that
itself fails (an archive, an append, a rollback cut short); files that are
read, changed and replaced while others do the same; reports joined by ids with
reports of another generation; reports that feed each other.

What makes each part correct:

- office pipeline: what validators refused never reaches the workspace; a stage's
  files arrive all or none; no older content over newer; no stage skipped or
  repeated; a locked case waits for the operator; every run ends;
- platform queue: one engine at a time, until a lock is taken from an engine at
  work; no accepted task is lost; none runs twice without a failure; an engine
  removes only its own task; every task runs;
- tool loop: it ends; the context stays within its cap; failures are archived;
  each effect passed the checks of its branch; rejections reach the model;
- BFT node: ledgers do not fork, only grow, and a quorum stands by every block;
- ledger and fork resolver: the chosen chain is the best one by the stated rule, a
  block that was read is never dropped unrecorded, and auditing heals the file;
- rollup: a submitted batch agrees with the journal every node checks it against,
  as long as every transaction of it has a line there that readers accept;
- DAG and cache: dependencies first, no result of an older workspace, every run ends;
- handshake pipeline: what is built was signed off at every hop; the office ends;
- stores: a call takes effect at once or not at all; intake: a task gets the slot
  once and the mission file does not lie about it;
- portfolio: refreshing settles and accuses nobody wrongly; governance: an approval
  holds for what was reviewed; work chain: an order that can be followed, nothing
  forgotten, dossiers that match their queue.

## 2. Modules

| Module | Models | Run by |
|---|---|---|
| `BallotQuorum` | threshold and verdict of `core/quorum.py` | through `OfficePipeline` |
| `OfficePipeline` | pipeline, transaction, checkpoint, governance log, sandbox time-outs | `MCOfficePipeline` |
| `PlatformQueue` | gateway, CLI, engines, slot and lock | `MCPlatformQueue` |
| `AgentLoop` | one task's tool loop in an engine | `MCAgentLoop` |
| `BFTConsensus` | the replication protocol | `MCBFTConsensus` |
| `ProofLedger` | ledger file, writers, fork auditor | `MCKernel` |
| `Rollup` | transactions, batches, journal, submission | `MCKernel` |
| `StageDag` | DAG engine over the stage cache | `MCKernel` |
| `HandshakeAudit` | `HandshakePipeline` with its auditors and verifier | `MCKernel` |
| `StoreOps`, `JsonStore` | what the stores' calls do; how processes run them | `MCControlPlane` |
| `AtomicStore` | what a store promises (abstract) | implemented by `JsonStore` |
| `MissionIntake` | mission command lines and the task slot | `MCControlPlane` |
| `PortfolioReports` | the nine portfolio generators | `MCControlPlane` |
| `GovernanceFlow` | from the governance index to the manual queue | `MCControlPlane` |
| `WorkChain` | from findings to execution dossiers | `MCControlPlane` |
| `*_Proofs` | theorems | TLAPS |

`MCKernel` and `MCControlPlane` hold several components that do not call each
other. The variable `focus` says which one runs; the others keep still. So each
component is explored by itself against everything its surroundings may do, and
the instance is the sum of their state spaces instead of the product.

### OfficePipeline

`live`, `staged`, `dirs`, `ckpt`, `gov` are the disk and survive a crash; `pc`,
`case`, `resolve`, `resume`, `stage`, `att`, `kind`, `zombie` are the process.
The content of a file is identified with the attempt (one transaction, one uuid)
that wrote it, so "who wrote what is in the workspace" is a lookup. `info` is a
history variable: per attempt its case, stage, files written and published,
whether it was voted on and who passed it, and whether a crash saved it, refused,
from its rollback (`cut`). `lost` is another: since the last lock, a process died
before both lines of its halt were in the log, or a line was pushed out of the
window that the gate reads.

Actions follow `main`: `Start`; the clean-up of staging directories one by one
(`CleanRemove`, `CleanOpen`, `CleanApply` per file, `CleanClose`, `CleanDone`);
the intervention gate (`GatePass`, `GateClosed`, `GateOpened`,
`ResolveIntervention`, `ResolveInvalid`; it reads the log alone and not the lock in
the checkpoint, `core/recovery.py:352`); seeding or resumption (`SeedFresh`,
`SeedResume`, `SeedDissent`); per stage `InputOk`/`InputMisaligned`, `Begin`,
`AgentWrite`, `AgentReturn`/`AgentFail`/`AgentTimeout`, `QuorumPass`/
`QuorumDissent`, `RecordStage`/`RecordStageFails`, `CommitFile` per file,
`CommitDone`/`CommitFails`; the dissent halt (`RecordQuorumHalt`,
`RollbackFile`, `RollbackDone`); the build; and the three halt kinds. The
environment is `Crash`, `EditPayload`, and the surviving thread of a timed-out
agent (`ZombieWrite`, `ZombieEnd`).

The stages and the build are asyncio tasks of one group, joined by queues of one
place (`queues`, `task`). A stage takes the envelope (`GetEnvelope`), works, hands
its own on (`HandOn`) and waits again; the intake, or after a resumption
`seed_stop_task` (task 0), sends the STOP mark after it, which every stage takes
(`GetStop`) and passes on (`PutStop`) before it returns. The build raises on a mark
where it expects an envelope. `GroupEnds` waits for all tasks, `CancelTasks` is what
the group does to the others when one raises. A queue operation of a waiting task
may fall into any await of the stage at work (`Awaits`). Envelopes' hashes and
signatures, wording and metrics are left out.

### PlatformQueue

Every file-system call of gateway, CLI and engine is a step. Lock age is fresh
or stale; `LockAges` is the passing of 15 minutes. A stale lock is seen (`Boot`,
`LockAge`) in one step and removed by name (`Prune`, `PruneFails`) in another.
`WorkDies` is an exception that leaves `run_loop` (the model's JSON is not an
object, `os.remove` is refused); `Crash` is the death of the process.
`ArchiveFails` is the exception of `archive_failed_payload` that `_handle_failure`
catches: the file stays in the slot and is taken again. `CliWriteFails` leaves the
slot file without its content, since the dispatcher, unlike the gateway, does not
unlink it. What the agent does with a task is its outcome only.

The constant `Worlds` is a set of plants: which engines run, which tasks are
submitted, how often an engine may crash and an archive fail, and which other
faults may happen. `robbed` is a history variable: somebody else removed the lock of
an engine at work, and some engine has been at work ever since.

### AgentLoop

Texts are their lengths. The model, the twin and the tools answer anything. Each
branch of `execute_tool` is an action with the checks that this branch makes
(`RouterWrite`, `RouterRead`, `IsolatedTask`, `TraceCompilation`, `NetworkFetch`,
`OtherTool`); writes and scripts go on to the twin (`TwinApproves`, `TwinRejects`,
`TwinFails`) and are then carried out (`WriteFile`, `RunScript`), perhaps raising
after their effect. `effects` records of every effect which call it was, what the
twin said of it and how the script was confined; whether this suffices is said by
the property alone (`Cleared`). `Profiles` are the routes: the default diagnostic
profile, or a repository with its execution constraints. `Archive`, `ArchiveFails` and
`PollAgain` are the end of a failed task: a payload that could not be moved stays in
the slot and starts afresh.

### BFTConsensus

A block is the chain that ends in it (hashes are taken to be collision free), so
"names its predecessor" is "is a one-step extension of". Messages once sent may
be read any number of times, in any order, or never, by peers that have not
quarantined the sender; byzantine nodes may say anything about any block to
anyone (`Forged`). The vote sets of the code are only ever counted, and are read
off the messages sent. `Adversaries` says who is byzantine, who crashes and
restarts (and so forgets its vote), who is down, whose quarantine an operator
flushes and which rollups some journal disputes.

Left out: the orphan log and dialling. Candidates and the futures of
`submit_payload` are part of `Rollup`.

### ProofLedger

`file` is a sequence of lines, each whole, torn or ended by a later append; a
hash is the number of its block. Writers append from `tail`, the head they keep
in memory, to the inode they opened (`OpenLedger`, `AppendBlock`, `AppendFails`).
An auditor runs `AuditDone`/`AuditFails`, `WriteOrphaned`, `AtomicRewrite`, each a
file operation, so that others come in between. `BestChain` is the search by
path and key of `_best_chain`; `ChainByReplay` the choice of the asynchronous
path; `ChosenIsBest` compares both with a definition that searches nothing.

### Rollup

Critical sections under `_mu` are steps. A transaction takes its number and is
pending (`Number`) before its line is written, by `WriteLine`, or by
`AppendRaises`, which may leave no line, a part of one, all but the newline
(`torn`: the next append then makes one unreadable line of two) or all of it. A
line is `accepted` when `iter_rollup_journal` yields it; it skips the transactions
with an empty id (`Anonymous`). `raised` keeps the transactions whose append raised:
their caller has an exception, and they are batched all the same.
`SubmitIngest` and `SubmitWait` are the two halves of `submit_transaction`; `Flush` takes the batch; `BindRoot`,
`RegisterFuture`, `QueueCandidate` follow it into the consensus node, of which
only "one candidate becomes the block at each height" is kept. `RestartEngine`
resets the sequence numbers over the old journal.

### StageDag

A step runs from one await to the next. An output is the set of what it was
computed from (node, version of the file), a fingerprint the set of what was
hashed, and the cache maps one to the other on disk across runs. The scheduler,
its inline prefetch, a background prefetcher and the tasks share the node states.

### HandshakeAudit

ISA, SAS, CRS and BOA with an auditor at each hop, as the seven coroutines and
six queues of `HandshakePipeline.run`; a packet is what its auditor can tell
of it. The cache keeps outputs from office to office.

### StoreOps, JsonStore, AtomicStore

Seven stores load a file, change the table and rename a temporary file over it.
`StoreOps` has the calls as functions of a table (a call that raises saves
nothing); `JsonStore` runs them in processes: `Call` (load and modify), `OpenTemp`,
`WriteTemp`, `Replace`/`ReplaceFails`, `MoveAway` for a mission file that does not
parse, `Crash`. A temporary file is an inode under a name, so a shared name
behaves as it does on disk: truncated under its writer, renamed away, written
into after the rename. `AtomicStore` is the promise, and `JsonStore!StoreIsAtomic`
the refinement: the file is the table, and whether calls overlapped is all the
abstract store knows of the concrete one. Without overlap only `Takes` is
allowed. With overlap, an update of an earlier table (`TakesLate`, a lost update)
is, and through a shared name an unparsable file (`Tears`).

### MissionIntake

`CreateMission`, `LogCreation`, `EnqueueTask` (the exclusive create), `WritePayload`,
`RecordResult`, `Die` of each command line; `TakeTask`, `RemoveTask`,
`ArchiveUnread` of the engine.

### PortfolioReports

`latest` and `history` are the report files. Each generator is a function from
the world (registry and disk) and the latest reports to its report; `Export`
replaces the report and appends to the history; the contract checked before it
never fails (`PortfolioTypeOK`, proved), so `Export` has no branch for it. Scores,
weights, thresholds and ranks are those of the code. `PortfolioAssumption` says what a
registry and a disk can hold: finitely many repositories and dependencies, and
counts that are natural numbers. An operator refreshes in the
order of `Stages`, may skip one or leave the history out, and the world changes.

### GovernanceFlow and WorkChain

One action per command; each reads the latest report of the one before. Ids are
pairs of generation and name, since the code draws a new one each time.
Decisions carry, as a history field, the packet the reviewer saw. `WorkChain`
identifies a finding, the file that closes it and the command that validates
the file, and keeps the order of sorts, the splitting into groups (by the words
`grouping.py` looks for in a path: `RouterModules`, `StrategyModules` and `Naming`
say which modules have them in their names, so that the document of a router or of
a compat module goes where the code puts it), the depth-first order, `--limit` and the joins by id. A sorted list is the one whose
k-th element has k - 1 elements below it (`Sorted`). `topological_order` calls itself;
`VisitStep` is one such call, with Python's call stack as a list: visits to be
made, and the ends of open visits, where a node is appended. `WorkAssumption` says
what a source tree is: its modules are among the named ones, and each speaks of one
of the known areas.

## 3. Runs

| Run | Instance | Checks |
|---|---|---|
| `office_safety` | 2 processes, 1 case, 2 files, 2 validators, supermajority, window 3; crash anywhere, time-out, edit | `CrashAtomic`, `QuorumGateUnlessCut`, `CompletedClean`, `LockedNeedsOperator`, `LiveMonotone` |
| `office_live` | 2 processes, 1 file, unanimity, window 2; failing checkpoint writes and commits, time-out, edit | `NoStageSkipped`, `NoStageRerun`, `RunEnds` |
| `office_dissent_crash` | 2 processes, 1 file, unanimity; crash | `QuorumGate`, **violated** |
| `queue` | five plants: `Single` (1 engine, 3 tasks, a crash, a failing archive and CLI write), `Flushed` (1 engine, 2 tasks, a crash, flushes), `Pair` (2 engines, torn reads, failing writes), `Race` (2 engines, a crash, failing removals), `Slow` (2 engines, tasks that outlast the lock, flushes) | `NoTaskLost`, `RerunsNeedFailure`, `ExclusiveUnlessRobbed`, `RobbedNeedsRace`, `RemovesOwnTask`, `TaskRunsOrOrphan` |
| `queue_single_flight` | the plant `Race` | `MutualExclusion`, **violated** |
| `queue_orphan_lock` | 1 engine, 1 crash | `EveryTaskRuns`, **violated** |
| `agent_bounds` | 5 rounds, cap 20, base 8; 3 profiles; 1 failing archive | `ContextCapped`, `EffectsAreCleared`, `LoopEnds` |
| `agent_twin` | same | `RejectionsFedBack`, **violated** |
| `bft` | 4 nodes, 2 payloads, three scenarios | `Agreement`, `LedgerBacked`, `CommitContinuity`, `LedgerAppendOnly` |
| `kernel` | ledger: 2 writers, 1 monitor, 3 appends, 1 fault; rollup: 2 callers, 1 trace that readers skip, batches of 2, 2 batches, 2 heights, 3 events (an append that raises counts twice, a restart once); DAG: several graphs, 2 runs, 1 edit; handshake: 2 offices, several policies | `ChosenIsBest`, `NothingPrunedSilently`, `LedgerHeals`; `BatchesMatchJournal`; `DependenciesFirst`, `ResultsAreFresh`, `StagesEnd`; `BuiltAfterAudits`, `HandshakeEnds`; `KernelTypeOK` |
| `control_plane` | 3 repositories in 3 worlds, 1 edit; 2 score sets, 2 packet reports, 2 decisions, 1 edit by hand; 2 source trees, reports between findings and queue made twice; 2 store clients, 3 calls, 1 crash; 3 missions, 1 death | `CleanAfterRefresh`, `PortfolioSettles`; `ApprovedAsReviewed`; `WorkInOrder`, `NothingForgotten`, `DossiersMatchQueue`; `StoreIsAtomic`; `QueuedOnce`; `ControlTypeOK` |
| `portfolio_drift` | the same portfolio with the registry's shipped key | `DriftReadsRegistry`, **violated** |

Bounds. Two processes are enough to see every relation between what one leaves
behind and the next makes of it; two files are the smallest partial commit; the
window of governance lines is so short that lines are pushed out of it (with two
processes only at its edge; the theorem is for every window). `CrashAtomic` and
the lock property have the crash between any two steps of a dissent halt. One
crash suffices for each queue plant since a crash leaves only the slot and the
lock; two engines are what the race for a stale lock takes, and one failing archive
makes the one rerun that does without a crash. Outputs of the tool loop lie below, at and above the room left under the
cap. The BFT scenarios are: a byzantine first leader over one height with two
rival blocks; a first leader that restarts with a second node down; two heights
under rotation with a restart. Two ledger writers and three appends give forks of
length two and chains that a stale writer extends after a rewrite. Two batches
are the least for one to be taken while another waits, two callers and batches of
two for a call to cut a batch off that holds another one's transaction, and one
height more than a batch needs for its bound head to go stale; the edit between two DAG
runs, and the second packet report, are what makes a cache or an approval stale.
Two store clients produce every order of two writers of one file, three calls a
third one that starts from what the two left. The two source trees give a queue
with a split package and dependencies, and one with a single batch.

`ControlTypeOK` and `KernelTypeOK` include the contracts (`validate_*_dict`) that
each generator checks before it writes, so a passing run also shows that no
generator of the instance fails its own contract.

Deadlock is checked for the pipeline and the loop, which mark where they may
rest (`Rest`, `Done`). The queue and the cluster may be idle, so their
configurations turn the check off.

Fairness. `OfficePipeline`: weak fairness of the process's own steps (the event
loop runs what is ready) and of the end of a surviving thread (agents are finite
computations); nothing obliges anyone to start, crash or edit. `PlatformQueue`:
weak fairness of gateway, engine and a begun CLI call, each an unconditional
loop with sleeps, and of the ageing of locks; an engine that died is restarted.
The last is an assumption about whoever operates the engine: without it no task
of a dead engine ever runs. Failures owe nothing: an archive may fail
`MaxUnarchived` (or `unarchived`) times. `AgentLoop`: weak fairness of the loop's
steps; calls to the model and to tools have time-outs in the code. `ProofLedger`: weak
fairness of a monitor, which is an endless loop with sleeps; writers owe nothing.
`StageDag`, `HandshakeAudit`: weak fairness of the engine's own steps, which one
event loop runs; stage functions return or fail. `PortfolioReports`: the operator
goes on refreshing, stage by stage, which is the premise of "settles".

### What the violated properties show

- `office_dissent_crash`. `core/quorum.py` promises that a stage commits only
  when the ballots agree. On dissent the checkpoint of the dissenting stage is
  written before the rollback. A crash in between leaves a staging directory at
  the checkpoint's stage, which the next start replays into the workspace.
- `queue_single_flight`. `docs/runtime-contracts.md:51` says "If the lock exists,
  other worker instances wait." and line 32 "The worker processes only one disk
  task at a time." The first engine dies with the lock and starts again; both
  engines find the lock stale; the second removes it, acquires its own and works;
  then the first one's removal, which goes by name, takes this fresh lock away, and
  it acquires one too. `ExclusiveUnlessRobbed` and `RobbedNeedsRace` show that this
  and work beyond the lock's life are the only ways, flushes aside.
- `queue_orphan_lock`. A crash between removing the task and releasing the lock,
  and a restart before the lock is stale, leave an empty slot under a lock. The
  engine looks at the lock's age only at boot and when there is a task; the
  gateway writes a task only when there is no lock. `TaskRunsOrOrphan` shows that
  this is the only way for a task to starve with one engine in `queue`.
- `agent_twin`. `execute_tool` catches its own `TwinRejectedError` and re-raises
  a `RuntimeError`; the feedback path of `run_loop` is dead code.
- `portfolio_drift`. The drift checker reads the key `dependencies` of
  `.config/portfolio/dependencies.json`; the file and its other reader use
  `repositories`. Every enabled repository is reported as missing from it.
  `DependencyKey` is the key the model takes the file to have.

### Seen while modelling, outside the runs

These are behaviours the models show when the corresponding fault is allowed;
the passing runs leave that fault out and say so by their constants.

- A commit that fails half way (`"commitio"`) is rolled back by discarding the
  staging directory, while the checkpoint already names the stage: the workspace
  keeps part of the stage and a resumption takes it for done (`CrashAtomic`).
- A checkpoint that cannot be written (`"ckpt"`) leaves the staging directory to
  a later start although the run completes (`CompletedClean`).
- Two business cases share one checkpoint file; starting the second after a crash
  of the first orphans a half-committed stage (`CrashAtomic`, two cases).
- The intervention flag is read from the last 500 governance lines, not from the
  checkpoint: a process that dies between the locked checkpoint and its two lines, or
  later lines that push one of them out, let a locked case go on (`lost` in
  `LockedNeedsOperator`). Nor does a later success within the window withdraw it.
- A refused attempt that a crash saved from its rollback may be replayed in part,
  since the rollback had begun (`cut` in `CrashAtomic`).
- The slot is created before it is written: an engine that opens it in between
  archives an empty task (`"torn"`, `NoTaskLost`). Likewise a slot that a failing
  gateway write removed may be re-created by the CLI before the engine archives,
  by name, what it could not read.
- With work that outlasts 15 minutes a second engine prunes the lock of a live
  one (`"slow"`, in the plant `Slow`, after which `robbed` holds).
- Of two engines one may remove a task that the other has yet to run, or run one
  that the other has finished: what an engine read before it waited for the lock it
  does not read again. Delivery is therefore stated for one engine (`Reliable`).
- A task whose archiving fails for ever is executed for ever, without a crash.
- A CLI write that fails leaves an empty slot file, which the next poll archives.
- A task with an unresolvable repository, or a model answer that is JSON but not
  an object, raises out of `run_loop` with the task still in the slot: a restarted
  engine meets it again.
- The snapshot of rounds 3 and 4 replaces the tool logs without regard to
  `max_context_chars`; `ContextCapped` states this exception.
- A cluster of 2, 3, 5 or 6 nodes has quorums that need not share an honest node;
  the topology loader accepts it. So do two nodes that restart at one height.
- A BFT node that misses a commit cannot catch up and quarantines the next leader.
- Ledger: blocks appended between the auditor's read and its `os.replace` are lost,
  against the resolver's "never discards data"; a writer keeps its head over a
  reconciliation and forks the file again; a torn first line that a later append
  ends leaves no genesis block, and no audit heals that. Nothing in the
  repository but tests starts `monitor()`.
- Rollup: a transaction whose append to the journal raised, or whose id is empty,
  is batched all the same, and every node refuses the batch. A waiter is answered by whichever block commits at the height its future
  was registered for, which need not hold its transaction; a failed submission
  leaves waiters pending for ever; a restart numbers transactions from 1 over the
  old journal, so that an honest leader's batch disagrees with every journal.
- DAG: a cyclic graph makes `_execute_all` poll for ever (`DagEnds` is stated for
  acyclic ones); an output is cached before its transaction commits; a file
  edited between hashing and execution leaves a result under the wrong
  fingerprint (`ResultsAreFresh` names this race).
- Handshake pipeline: stage outputs are cached before they are audited. The telemetry
  trace is written after a dead halt too, while
  `tests/test_autonomous_office_rig.py:298` expects none.
- Stores: a shared temporary name lets overlapping savers publish a truncated file
  or each other's content. Decisions, lifecycle and metrics take a file that does
  not parse for empty, and the next save makes that permanent; the others raise
  until someone repairs it. `renew_lease` revives released and expired leases.
- Mission intake: an engine that polls between the create and the write archives
  the task as unreadable while the mission is marked queued; a death after the
  enqueue leaves a task that runs while the mission says pending.
- Governance: approvals are lost when packets are generated again; packets made from
  an older readiness report join newer dossiers by title.
- Portfolio: on a rounding tie the index and the progress report oscillate in a world
  that stands still (`RoundingTie`); a missing previous count is read as 0,
  not as unknown.
- Work chain: the effort table's keys `tests` and `docs` never match the findings'
  categories; a queue older than the refinement yields dossiers without files and
  commands that keep their readiness score.
- `core/dag_engine.py:569` uses a backslash inside an f-string expression, which
  Python accepts only from 3.12 on.

## 4. Proofs

TLAPS checks every theorem for all values of the constants, under the modules'
named assumptions.

**`BFTConsensus_Proofs`**: `LedgersAgree` (`Spec => []Agreement`),
`WritesAreBacked`, `CommitsContinue`, `LedgersOnlyGrow`, `ConsensusTypeCorrect`,
for any number of nodes, any height and any adversary within
`ClusterAssumption`: two quorums exceed the nodes by more than the byzantine and
forgetful nodes together, and a quorum of COMMITs contains an honest one. For
`n = 3f + 1` and `f` byzantine nodes both hold. `Agreement` is not inductive: a
step could write any proposal. The invariant `Inv` says why it does not:
a steady node's PREPARE binds it (`PrepareBinds`: the block is its proposal or
on its chain), a COMMIT, a vote beyond the first phase, a head and a ledger
consist of certified blocks, i.e. blocks a quorum stands by. Standing by a block
is stable for steady nodes, hence so is certification (`CertifiedStable`); two
certified blocks of one height share a steady backer, which has one block per
height (`CertifiedUnique`). Steps are first reduced to what they do to a node's
height (`StepsAreLocal`) and to the network (`StepSays`).

**`OfficePipeline_Proofs`**: `PipelineTypeCorrect`; `QuorumGateHolds`
(`[]QuorumGateUnlessCut`), for any cases, files, validators, runs and
all faults. The invariant `GateInv` adds: attempts not yet made have left
nothing; the attempt at hand belongs to the process; a staging directory that a
later start would replay (its case is the checkpoint's, its stage at most the
checkpoint's) has passed the quorum or was cut off from its rollback; what is live
has, too. `AcceptedIsTwoThirds` is the arithmetic of the
threshold.

On the same base invariant (types, whose attempt is at hand, nothing left of
attempts not made, what the checkpoint names):

- `StagesInOrder` (`[]NoStageSkipped`) and `StagesNotRerun` (`NoStageRerun`), with
  no condition on the faults. `HistoryInv` says which ballots the checkpoint and
  the process's position vouch for; ballots are never taken back (`VotesKept`).
- `CompletedRunsClean` (`[]CompletedClean`) and `LiveNeverGoesBack`
  (`LiveMonotone`), if `record_stage` never fails to write. `MineInv`: after its
  clean-up a run finds no staging directory of its case but that of the attempt
  at work. `ReplayInv`: at most one directory can be replayed, and nothing newer
  than it is live.
- `CommitsCrashAtomic` (`[]CrashAtomic`) for one case, if checkpoint writes and
  `os.replace` succeed (`OneCaseWritesSucceed`). `StagedInv`: an attempt has staged exactly what it
  wrote and has not published. There is one checkpoint file: a second case
  overwrites it, after which the first one's half commit is discarded.
- `LockNeedsOperator` (`[]LockedNeedsOperator`), with no condition on faults, runs or
  window. `LockInv`: while the checkpoint is locked, and no line of the halt was lost,
  both are in the log's window or the process is about to write them. So the gate,
  which looks at the log alone, does find them.

**`PlatformQueue_Proofs`**: `QueueTypeCorrect`; `EnginesExclusive`
(`[]ExclusiveUnlessRobbed`) and `LocksAreLostInRaces` (`[]RobbedNeedsRace`), for any
number of engines and tasks and all plants: crashes, stale locks, slow work, flushes, torn
reads, failing writes, removals and archives. `MutexInv`: unless a lock was taken
away, an engine at work is named by the lock file (`LockOwned`), so that there is
one; a quiet plant has no stale lock and nobody about to prune one (`QuietInv`);
and an engine that runs alone loses its lock to nobody but a flush (`AloneInv`).
Delivery is stated, and proved, for the plants with one engine, whole reads and a
gateway that can write (`Reliable`), with crashes, poisoned tasks, stale locks,
flushes, failing CLI writes and archives: `NoTaskEverLost` (`[]NoTaskLost`),
`RerunsAreFailures` (`[]RerunsNeedFailure`) and `EngineRemovesOwnTask`
(`RemovesOwnTask`), for any number of tasks. `DeliveryInv`:
a task waits in one place only (`WaitingInv`); who creates the slot still holds the
task (`CreatorInv`); from the read to the removal the slot holds the task the engine
read (`SlotInv`); and a task was executed at most once per crash and failed archive,
and once more after it has started (`CountInv`).

**`ControlPlane_Proofs`**, JSON stores: `StoresAreAtomic`
(`JsonStoreSpec => StoreIsAtomic`), the refinement, for any processes, calls and
crashes and all seven stores: initial states map to initial states and every step to a step of `AtomicStore` or a
stutter. The invariant (`StoreInvariant`) says that a table in memory is an update
of a content the file once had, that without overlap it is an update of the
present one, and what each temporary inode may hold. `OwnTempParses`: with a
temporary name per process the file always parses.

**`ControlPlane_Proofs`**, missions: `TasksQueuedOnce` (`[]QueuedOnce`), for any
missions and deaths. `QueuedOnce` counts the claims of a task on the slot; inductive is that the
position of its command line determines the count (`ClaimInv`), and that the slot
is taken and written while the engine works.

**`ControlPlane_Proofs`**, decisions: `ApprovalsAreReviewed`
(`[]ApprovedAsReviewed`), for any number of reports, decisions and edits. Inductive is that packets carry the number
of their report, that no decision is on a later one, and that a decision on a
current packet saw it as it is; a new report therefore starts without decisions.

**`ControlPlane_Proofs`**, portfolio reports: `RefreshedReportsAreClean`
(`[]CleanAfterRefresh`), for any registry, worlds, dependency file, rounds, skipped
commands and reports not logged. The property speaks of the drift report alone;
`ReportsInv` says of every current report that its inputs are current too and that
it is what its generator would write again, so that running one once more changes
nothing the others were computed from. The lemmas `OnboardingReads` to
`RoadmapReads` show that a generator depends on its `Inputs` only, and
`DriftIsBlameless` goes through the finding categories: of reports computed from one
registry none is left but those the property allows.

`PortfolioReportsPass` (`[]PortfolioTypeOK`): no generator raises on its own contract,
in any world and from any earlier reports. `Made` says of every report what the
generators after it rely on (entries of registered repositories, scores between 0
and 100, finite sets of findings), and there is one lemma per generator
(`BootstrapMakes` to `IndexMakes`). Scores are sums over sets, folded in an order that
`CHOOSE` picks: `SumsExist` gives the table of the sums over all subsets,
`SumsWithin` bounds it (a least set that exceeds the bound would have a smaller
one in it), and from these come `AverageIs` (an average of percentages is one) and
`WeightedIs` (so is the index, whose weights add up to 100). That there are finitely
many dependency chains (`PathsFinite`) is what makes their counts numbers.

**`ControlPlane_Proofs`**, governance: `GovernanceReportsPass` (`[]GovernanceTypeOK`), for
any index whose score is a percentage (`ScoresAssumption`). `ContractsInv` adds to
`FlowInv` that titles are of the catalogue, that dossiers are numbered by their report
and that an edit by hand leaves a dossier in shape; verdicts and scores of readiness
(`EvaluationIs`) and the status of a queue item (`ItemIs`) follow.

**`ControlPlane_Proofs`**, composition: `ControlInvariant` puts the invariants of the five
parts beside each other (`ControlInv`): a step of the run's instance is a step of one
part and leaves the others alone (`PartsStep`). `ControlTypeCorrect`
(`[]ControlTypeOK`) and `ControlIsSafe` (the other safety invariants of the run)
follow; the stores' part of the types is `StoreTypes`: what a file, a temporary file
and a process hold is one table or does not parse (`UpdateIsContent`).

**`Kernel_Proofs`**, DAG engine: `DependenciesComeFirst` (`[]DependenciesFirst`), for every graph
whose dependencies are nodes of it (`GraphAssumption`), cyclic ones included.
Inductive with it are: a task beyond its claim is a running node's, a task exists
only where all dependencies are processed, what is in `done_q` is done, and a
prefetcher looks up only nodes whose dependencies are done.

`OutputsAreFresh` (`[]ResultsAreFresh`): what an output stands for is the set of
(node, version) that running the node and all it needs would read. `FreshInv`
says so of every cache entry for some version, and of fingerprints, tasks and
look-ups of a run no edit has fallen into for the present one. The lemmas
`NeedsUnfold` and `ReadsUnfold` unfold that set along `depends_on`, which is how
`FingerprintWhole` puts a fingerprint together; injectivity of fingerprints is
that of the hash. The file's contents are one of `Versions` from the start
(`VersionAssumption`).

`DagTypeCorrect` (`[]DagTypeOK`): a cache object, a look-up and a task beyond its
claim have fingerprints made of the graph's nodes and the file's versions, and a node
has a result exactly when it is done, with the fingerprint of its own call
(`TypesInv`; the bounds on runs and edits are natural numbers, `BoundsAssumption`).

**`Kernel_Proofs`**, handshake pipeline: `BuildsAreAudited` (`[]BuiltAfterAudits`) and
`HandshakeTypeCorrect`, for any policies, number of offices and cache contents
the offices before can have left. The property looks at the end of the pipeline
only; `FlowInv` follows the one packet: how many stages produced, how many
hand-offs the verifier followed and how many were passed on determine what each
of the seven coroutines and six queues may hold.

**`Kernel_Proofs`**, rollup engine: `BatchesAreSlices` (`[]BatchesMatchJournal`) and
`RollupTypeCorrect`, for any callers, traces, batch sizes, flushes, restarts and
appends that raise. `JournalInv` is about the attempted appends, whatever became of
their lines: they are numbered without gap (`NumberedInv`), what is pending is their
end (`PendingInv`), and each batch is an interval of the rest that begins after the
batch before it (`SlicesInv`). `LinesInv` is about the lines: as long as no append
raised, readers accept each one with an id. `RootInv`: a candidate has bound a head,
a committed one that of its height. `SliceMatches` shows when such an interval is what
`verify_rollup_payload` recomputes from the lines it accepts: when all of its own
are accepted. After a restart numbers repeat and
`JournalInv` is given up, as is the property.

**`Kernel_Proofs`**, composition: each part above is kept as a pair of lemmas (what
holds at the start, what a step keeps: `FlowInductive`, `RollupInductive`,
`DagInductive`, `FreshInductive`, `TypesInductive`, and `LedgerStepInv` of the ledger), so that
the argument does not depend on a component's own specification. `KernelSteps` puts
them together for the instance of the run: a step of it is a step of one component
and leaves the others alone (`ComponentsStep`). `KernelTypeCorrect` (`[]KernelTypeOK`) and
`KernelIsSafe` (the other safety properties of the run) follow.

**`AgentLoop_Proofs`**: `PromptStaysCapped` (`[]ContextCapped`), for every cap, base
text, tool output and snapshot length. Inductive with it is that at the head of a
round nothing above the cap is kept, so that only the snapshot of this round can
exceed it (`ContextInv`). `Total` is a recursive function; what it computes of an
appended, split or empty list (`TotalAppend`, `TotalSplit`, `TotalEmpty`) is shown
by looking at the least position at which two tables of partial sums would differ
(`LeastNat`, `SumsAgree`), and `FitSpec` says what `append_context` keeps.
`EffectsCleared` (`[]EffectsAreCleared`), for every set of profiles: `ClearedInv` says
what the branch has made sure of when a call waits for the twin, and that a call
that is carried out has the twin's approval besides.

**`ProofLedger_Proofs`**: for any number of office processes, monitors, appends and
crashes and a ledger of any length,

- `ChoiceIsBest` (`[]ChosenIsBest`). `PathsAreChains` shows that the level-by-level
  search of `_best_chain` finds exactly the chains of valid blocks (least
  counterexample over the levels); the last hash determines a chain, so there are
  finitely many (`LastDeterminesChain`, `PathsFinite`) and the key of length, quorum,
  signature and hash has one maximum (`BestExists`: the chain with the fewest chains
  above it). `ChainIsLinked` lays a set of blocks that is a chain out as one, and
  with `BestIsLongest` no chain beats the chosen one; `ReplayAgrees` and
  `AuditedIsChosen` compare it with the replay and with an audited file.
- `OrphansAreRecorded` (`NothingPrunedSilently`). The property is about a step and
  needs `LedgerInv`: the valid blocks of the file and of each auditor's chain have
  hashes of their own, none above the number of blocks created; an auditor that has
  chosen has a chain (this is where the choice must be well defined); and what a
  rewrite will prune is in the orphan log before it (`LedgerInvariant`,
  `LedgerTypeCorrect`).

**`WorkChain_Proofs`**: for every source tree `WorkAssumption` admits, all limits, any
number of refreshes of each report and every order of the commands,

- `QueueCanBeFollowed` (`[]WorkInOrder`). The heart is `TopologicalOrderIs`, about the
  walk over any list of packages. `WalkOK` holds after every call: what a put
  package waits for was put before it; what an open visit waits for is put or
  above it on the stack; what was seen is put or open; ranks fall along the stack,
  so that no visit finds an open one (`NeedsDown`: contract tests wait for updates, the
  rest for plain tests, plain tests for nothing); every package that is not put is
  still on the stack. That the walk ends is counted (`FuelOK`): a call takes one entry
  off the stack, and each of the n packages pushes at most n entries once. A cut by
  `--limit` keeps a beginning of the order. `ReadinessIs` bounds the score of an item
  with a dependency below 85.
- `NoFindingIsLost` (`[]NothingForgotten`), whatever words the names contain. Lemma by lemma a report keeps the files of the
  one before: `ItemsAre` (the sort loses none, since `BeforeOrders` its key is total),
  `BatchesAre` (every item is in the batch of its priority and in no other), `PackageIs`,
  `SplitDivides` and `RefineDivides` (the parts of a package divide its files, and
  `OwnCommandMatches` sends the command of a test file where the file goes), `NarrowIs`
  (the concatenation of the parts).
- `DossiersAreOfTheirQueue` (`[]DossiersMatchQueue`). `WorkInv` says that the identifiers of a
  report carry a generation that was drawn before, and that a queue item and a
  refined package with one identifier hold the same work (`SameWork`), whichever of
  the two reports is older.
- `ChecksPass` (`[]WorkTypeOK`): the contract checks that the actions leave out never
  fail. It is a part of `ControlTypeOK`.

What a recursive function computes is again shown by least counterexamples:
`RecursionExists` (a table of the first m steps exists for every m, and the tables
agree), from which `FlattenIs` derives what a concatenation of lists holds and where
each element comes from.

Only model-checked:

- liveness (`RunEnds`, `TaskRunsOrOrphan`, `LoopEnds`, `LedgerHeals`, `StagesEnd`, `HandshakeEnds`,
  `PortfolioSettles`): fairness and ENABLED are beyond the prover;
- the runs that find a violation: a counterexample needs no proof.

Every safety invariant and every action property of the passing runs is stated by a theorem.

## 5. Not modelled

Reports, prompts, wording, metrics and user interfaces; WebSocket framing; the
validators' and schemas' checks of text (a payload is valid or not); hashing and
signatures (taken to be injective and unforgeable where a model depends on
them). And these parts, named in `PROJECT.json`:

- release gates, readiness and centre; strategic missions and briefings; schema
  versions; the control-plane orchestrator: they collect reports in one pass of
  one process and score them by fixed tables. There is no state, order or failure
  in them that a model would add to, and a property would restate the table;
- tool router and the policy evaluation of repository governance: tables of rules;
- graphics sandbox, semantic memory, workspace mounter, MCP bridge: input and output;
- catching up of a BFT node: the code has none.

## 6. Plan

In order of weight:

1. `WorkspaceTransaction` as a module of its own: deletes, double opens, the lock
   fallback, with an abstract all-or-nothing commit that it implements.
2. `BFTConsensus` composed with `Rollup`: candidates and progress under a bounded
   partition.
