--------------------------- MODULE OfficePipeline ---------------------------
(***************************************************************************)
(* The autonomous office runtime: run_autonomous_office.py main, the       *)
(* Orchestrator, the three-stage handshake pipeline with its staged        *)
(* workspace transactions, the checkpoint file and the governance log.     *)
(*                                                                         *)
(* One process runs at a time.  It may crash between any two steps; what   *)
(* the disk holds (live workspace, staging directories, checkpoint,        *)
(* governance log) survives, everything else is lost.  A later process is  *)
(* started by an operator for some business case, with or without          *)
(* --resolve-intervention.                                                 *)
(*                                                                         *)
(* Stages 1, 2 and 3 are intake_to_architecture, architecture_to_risk and  *)
(* risk_to_build_execution; 4 is the build.  Each is an asyncio task of one *)
(* TaskGroup; q1, q2 and q3, of one place each, join it to the next.  A     *)
(* task that handed its envelope on waits at its own queue again, until it  *)
(* gets the STOP mark there and passes it on: only then does it return, and *)
(* the group ends when all its tasks have.  One envelope is under way, so   *)
(* that one stage is at work at a time, while the others wait for an        *)
(* envelope, or pass the mark on whenever that stage awaits something.      *)
(*                                                                         *)
(* Each execution of a stage opens a transaction with a fresh uuid; that   *)
(* uuid is an attempt number here, and the content the attempt writes to a *)
(* file is identified with it.                                             *)
(***************************************************************************)
EXTENDS BallotQuorum, Sequences

CONSTANTS
    Cases,          \* business cases (execution tokens) sharing one log directory
    Files,          \* workspace files the agents write
    SchemaAuditor,  \* the *_twin_auditor validator, which re-checks the schema
    Window,         \* governance.jsonl lines requires_manual_intervention reads (500)
    MaxRuns,        \* bound: processes started
    Faults          \* what the environment may do besides running the program:
                    \*   "crash"    the process dies (power loss, kill)
                    \*   "ckpt"     writing checkpoint_state.json fails
                    \*   "commitio" os.replace fails during a commit
                    \*   "timeout"  an agent outlives the 10 s of its stage
                    \*   "edit"     the operator edits the checkpoint payload

NoCkpt == [case |-> "none"]

ASSUME PipelineAssumption ==
    /\ SchemaAuditor \in Validators
    /\ Window \in Nat /\ Window >= 2
    /\ MaxRuns \in Nat
    /\ "none" \notin Cases

Stages == 1..3
BuildStage == 4

\* The tasks of the group: one per stage, the build, and 0 for seed_stop_task,
\* which puts the STOP mark behind the envelope of a resumed run.
Tasks == 0..4
Attempts == 1..(3 * MaxRuns)

VARIABLES
    live,    \* live[f]: the attempt whose content the workspace file holds, 0 = original
    staged,  \* staged[a]: files attempt a still has in its staging directory
    dirs,    \* attempts whose staging directory (with its manifest) exists
    ckpt,    \* checkpoint_state.json
    gov,     \* the tail of governance.jsonl, without the lines nothing reads
    pc,      \* where the process is: main, and in the group the stage at work
    queues,  \* queues[s]: what is in the queue from stage s to the next
    task,    \* task[t]: what each task of the group is about
    case,    \* its business case
    resolve, \* --resolve-intervention was given
    resume,  \* the snapshot it resumes from
    stage,   \* the stage at work, or the one that the envelope under way is for
    att,     \* the attempt it works on (0 = none)
    kind,    \* why it is halting
    zombie,  \* the thread of a timed-out agent is still running
    runs,    \* processes started so far
    next,    \* attempts made so far
    info,    \* history: what became of each attempt
    lost     \* history: since the last lock, a process died before both its lines were in
             \* the log, or one of them left the window

disk == <<live, staged, dirs, ckpt, gov>>
group == <<queues, task>>
proc == <<pc, group, case, resolve, resume, stage, att, kind, zombie>>
vars == <<disk, proc, runs, next, info, lost>>

GovEvents == {"CRITICAL_MISALIGNMENT", "QUORUM_DISSENT", "ORCHESTRATOR_ERROR",
              "INTERVENTION_REQUIRED", "Running", "Pending Intervention",
              "QUORUM_LOCKED_INTERVENTION", "Completed"}

HaltKinds == {"misaligned", "dissent", "error"}

Snapshots == [case : Cases, stage : Stages, locked : BOOLEAN,
              signed : BOOLEAN, valid : BOOLEAN]

\* "group" .. "built": inside the pipeline's TaskGroup.
PCs == {"down", "clean", "gate", "resolve", "resolved", "seed", "group", "begin", "agent",
        "vote", "record", "commit", "recordHalt", "rollback", "close", "build", "clear",
        "built", "event", "state", "result"}

\* Where no stage is at work, or the one at work awaits the sandbox or the
\* validators: there the event loop runs the other tasks.
Awaits == {"group", "agent", "vote", "build", "built"}

\* A task is not started, waits at its queue, is at work, is about to put the
\* STOP mark into the next queue, or has returned.
TaskStates == {"off", "get", "work", "stop", "done"}

NoGroup == [queues |-> [s \in Stages |-> "empty"], task |-> [t \in Tasks |-> "off"]]

AttemptInfo == [case : Cases \cup {"none"}, stage : Stages \cup {0},
                wrote : SUBSET Files, applied : SUBSET Files,
                voted : BOOLEAN, passed : SUBSET Validators, cut : BOOLEAN]

NoAttempt == [case |-> "none", stage |-> 0, wrote |-> {}, applied |-> {},
              voted |-> FALSE, passed |-> {}, cut |-> FALSE]

\* Types: no stage beyond the fourth, no file staged that agents do not write.
TypeOK ==
    /\ live \in [Files -> Attempts \cup {0}]
    /\ staged \in [Attempts -> SUBSET Files]
    /\ dirs \in SUBSET Attempts
    /\ ckpt \in Snapshots \cup {NoCkpt}
    /\ gov \in Seq(GovEvents)
    /\ Len(gov) <= Window
    /\ pc \in PCs
    /\ queues \in [Stages -> {"empty", "envelope", "STOP"}]
    /\ task \in [Tasks -> TaskStates]
    /\ case \in Cases
    /\ resolve \in BOOLEAN
    /\ resume \in Snapshots \cup {NoCkpt}
    /\ stage \in Stages \cup {BuildStage}
    /\ att \in Attempts \cup {0}
    /\ kind \in HaltKinds
    /\ zombie \in BOOLEAN
    /\ runs \in 0..MaxRuns
    /\ next \in 0..(3 * MaxRuns)
    /\ info \in [Attempts -> AttemptInfo]
    /\ lost \in BOOLEAN

Init ==
    /\ live = [f \in Files |-> 0]
    /\ staged = [a \in Attempts |-> {}]
    /\ dirs = {}
    /\ ckpt = NoCkpt
    /\ gov = <<>>
    /\ pc = "down"
    /\ queues = NoGroup.queues /\ task = NoGroup.task
    /\ case \in Cases
    /\ resolve = FALSE
    /\ resume = NoCkpt
    /\ stage = 1
    /\ att = 0
    /\ kind = "error"
    /\ zombie = FALSE
    /\ runs = 0
    /\ next = 0
    /\ info = [a \in Attempts |-> NoAttempt]
    /\ lost = FALSE

-----------------------------------------------------------------------------
(* The governance log *)

Lines(log) == {log[i] : i \in 1..Len(log)}

\* What a halt on a dissent leaves in the log, and a halt on a misalignment.
DissentLines == {"QUORUM_DISSENT", "QUORUM_LOCKED_INTERVENTION"}
MisalignmentLines == {"CRITICAL_MISALIGNMENT", "Pending Intervention"}

\* GovernanceLogger.emit_event, seen through the reader's window.  (Lines that
\* nothing reads take places of the 500 too: Window may be smaller than that.)
Emit(e) ==
    LET log == Append(IF Len(gov) = Window THEN Tail(gov) ELSE gov, e)
        pushed == DissentLines \subseteq Lines(gov) /\ ~(DissentLines \subseteq Lines(log))
    IN  /\ gov' = log
        /\ lost' = (lost \/ (pushed /\ e \notin DissentLines))

\* The lock of a quorum dissent is overlooked.
RequiresOnMisalignmentOnly == MisalignmentLines \subseteq Lines(gov)

\* CheckpointManager.requires_manual_intervention: it looks at the log alone,
\* not at the lock in the checkpoint.
RequiresManualIntervention ==
    MisalignmentLines \subseteq Lines(gov) \/ DissentLines \subseteq Lines(gov)

HaltEventOf(k) == CASE k = "dissent"    -> "QUORUM_DISSENT"
                    [] k = "misaligned" -> "CRITICAL_MISALIGNMENT"
                    [] k = "error"      -> "ORCHESTRATOR_ERROR"

HaltStateOf(k) == IF k = "dissent" THEN "QUORUM_LOCKED_INTERVENTION"
                                   ELSE "Pending Intervention"

\* The process ends: what it kept in memory is gone.
Exit ==
    /\ pc' = "down"
    /\ queues' = NoGroup.queues /\ task' = NoGroup.task
    /\ resolve' = FALSE
    /\ resume' = NoCkpt
    /\ stage' = 1
    /\ att' = 0
    /\ kind' = "error"
    /\ zombie' = FALSE

-----------------------------------------------------------------------------
(* main: load the checkpoint, replay or discard orphaned staging, the gate *)

\* CheckpointManager.load: a checkpoint of another token is no checkpoint.
Load(c) == IF ckpt # NoCkpt /\ ckpt.case = c THEN ckpt ELSE NoCkpt

Start(c, r) ==
    /\ pc = "down"
    /\ runs < MaxRuns
    /\ runs' = runs + 1
    /\ case' = c
    /\ resolve' = r
    /\ resume' = Load(c)
    /\ pc' = "clean"
    /\ UNCHANGED <<disk, stage, att, kind, zombie, next, info, group, lost>>

Mine == {a \in dirs : info[a].case = case}

ActiveStage == IF resume = NoCkpt THEN 0 ELSE resume.stage

\* cleanup_workspace_staging: a directory beyond the active stage (every
\* directory when there is no checkpoint) is removed ...
CleanRemove(a) ==
    /\ pc = "clean" /\ att = 0
    /\ a \in Mine
    /\ info[a].stage > ActiveStage
    /\ dirs' = dirs \ {a}
    /\ staged' = [staged EXCEPT ![a] = {}]
    /\ UNCHANGED <<live, ckpt, gov, proc, runs, next, info, lost>>

\* ... and one up to the active stage is replayed, whatever its manifest's
\* state, the stage directories in whatever order iterdir lists them.
CleanOpen(a) ==
    /\ pc = "clean" /\ att = 0
    /\ a \in Mine
    /\ info[a].stage <= ActiveStage
    /\ att' = a
    /\ UNCHANGED <<disk, pc, case, resolve, resume, stage, kind, zombie, runs, next,
                   info, group, lost>>

\* os.replace(staged, live) of one file of attempt att
Publish(f) ==
    /\ f \in staged[att]
    /\ live' = [live EXCEPT ![f] = att]
    /\ staged' = [staged EXCEPT ![att] = @ \ {f}]
    /\ info' = [info EXCEPT ![att].applied = @ \cup {f}]

\* recover_commit_from_manifest, one touched entry
CleanApply(f) ==
    /\ pc = "clean" /\ att # 0
    /\ Publish(f)
    /\ UNCHANGED <<dirs, ckpt, gov, proc, runs, next, lost>>

CleanClose ==
    /\ pc = "clean" /\ att # 0
    /\ staged[att] = {}
    /\ dirs' = dirs \ {att}
    /\ att' = 0
    /\ UNCHANGED <<live, staged, ckpt, gov, pc, case, resolve, resume, stage, kind, zombie,
                   runs, next, info, group, lost>>

CleanDone ==
    /\ pc = "clean" /\ att = 0
    /\ Mine = {}
    /\ pc' = "gate"
    /\ UNCHANGED <<disk, case, resolve, resume, stage, att, kind, zombie, runs, next,
                   info, group, lost>>

NeedsOperator == resume # NoCkpt /\ RequiresManualIntervention

\* Nothing behind the gate reads the option again.
GatePass ==
    /\ pc = "gate"
    /\ ~NeedsOperator
    /\ resolve' = FALSE
    /\ pc' = "seed"
    /\ UNCHANGED <<disk, case, resume, stage, att, kind, zombie, runs, next, info, group,
                   lost>>

\* INTERVENTION_REQUIRED; without --resolve-intervention main returns 2 ...
GateClosed ==
    /\ pc = "gate"
    /\ NeedsOperator
    /\ ~resolve
    /\ Emit("INTERVENTION_REQUIRED")
    /\ Exit
    /\ UNCHANGED <<live, staged, dirs, ckpt, case, runs, next, info>>

\* ... and with it goes on to resolve.
GateOpened ==
    /\ pc = "gate"
    /\ NeedsOperator
    /\ resolve
    /\ Emit("INTERVENTION_REQUIRED")
    /\ resolve' = FALSE
    /\ pc' = "resolve"
    /\ UNCHANGED <<live, staged, dirs, ckpt, case, resume, stage, att, kind, zombie, runs,
                   next, info, group>>

\* CheckpointManager.resolve_intervention raises on an invalid payload ...
ResolveInvalid ==
    /\ pc = "resolve"
    /\ ~ckpt.valid
    /\ Exit
    /\ UNCHANGED <<disk, case, runs, next, info, lost>>

\* ... and re-signs a valid one, back in state Running.  (main then calls
\* cleanup_workspace_staging again, which finds nothing left to do.)
ResolveIntervention ==
    /\ pc = "resolve"
    /\ ckpt.valid
    /\ ckpt' = [ckpt EXCEPT !.locked = FALSE, !.signed = TRUE]
    /\ resume' = ckpt'
    /\ pc' = "resolved"
    /\ UNCHANGED <<live, staged, dirs, gov, case, resolve, stage, att, kind, zombie,
                   runs, next, info, group, lost>>

SetRunning ==
    /\ pc = "resolved"
    /\ Emit("Running")
    /\ pc' = "seed"
    /\ UNCHANGED <<live, staged, dirs, ckpt, case, resolve, resume, stage, att, kind,
                   zombie,
                   runs, next, info, group>>

-----------------------------------------------------------------------------
(* Orchestrator.run and the seeding of the pipeline *)

Halt(k, where) == kind' = k /\ pc' = where

\* _load_agent: a role or class is missing.
AgentMissing ==
    /\ pc = "seed"
    /\ Halt("misaligned", "event")
    /\ UNCHANGED <<disk, case, resolve, resume, stage, att, zombie, runs, next, info,
                   group, lost>>

\* The tasks that the group starts: those behind the resumed stage (0 when there
\* is none), and seed_stop_task, which has nothing to do behind the last stage.
Started(s) ==
    [t \in Tasks |-> CASE t > s -> IF t = 1 THEN "work" ELSE "get"
                       [] t = 0 /\ s \in {1, 2} -> "stop"
                       [] OTHER -> "off"]

\* The tasks of an earlier run are started again, whatever the checkpoint says.
SeedFreshAlways ==
    /\ pc = "seed"
    /\ task' = Started(0)
    /\ stage' = 1
    /\ pc' = "begin"
    /\ UNCHANGED queues
    /\ UNCHANGED <<disk, case, resolve, resume, att, kind, zombie, runs, next, info, lost>>

\* Without a snapshot the intake starts with nothing in any queue.
SeedFresh ==
    /\ pc = "seed"
    /\ resume = NoCkpt
    /\ task' = Started(0)
    /\ stage' = 1
    /\ pc' = "begin"
    /\ UNCHANGED queues
    /\ UNCHANGED <<disk, case, resolve, resume, att, kind, zombie, runs, next, info, lost>>

\* The ballots a payload can draw: the schema auditor's is determined.
Ballots(valid) == {P \in SUBSET Validators : (SchemaAuditor \in P) <=> valid}

\* record_stage refuses an invalid payload and a stale signature; any other
\* exception, such as a failed write, is swallowed too.
CanRecord(signed, valid) == signed /\ valid

Snapshot(s, locked) == [case |-> case, stage |-> s, locked |-> locked,
                        signed |-> TRUE, valid |-> TRUE]

\* _q_put of the envelope into the queue to stage s + 1, which is empty: no other
\* envelope is under way.  The task of stage s waits for its next item; the
\* intake has none, and goes on to the STOP mark.
HandOn(s) ==
    /\ queues[s] = "empty"
    /\ queues' = [queues EXCEPT ![s] = "envelope"]
    /\ task' = [task EXCEPT ![s] = IF s = 1 THEN "stop" ELSE "get"]
    /\ stage' = s + 1
    /\ pc' = "group"

\* Resume: the quorum validates the checkpointed payload again, the stage is
\* recorded again (the result is ignored) and the next stage's queue seeded.
SeedResume(P) ==
    /\ pc = "seed"
    /\ resume # NoCkpt
    /\ P \in Ballots(resume.valid)
    /\ Accepts(P)
    /\ \/ /\ CanRecord(resume.signed, resume.valid)
          /\ ckpt' = Snapshot(resume.stage, FALSE)
       \/ /\ CanRecord(resume.signed, resume.valid) => "ckpt" \in Faults
          /\ ckpt' = ckpt
    /\ queues' = [queues EXCEPT ![resume.stage] = "envelope"]
    /\ task' = Started(resume.stage)
    /\ stage' = resume.stage + 1
    /\ pc' = "group"
    /\ UNCHANGED <<live, staged, dirs, gov, case, resolve, resume, att, kind, zombie,
                   runs, next, info, lost>>

SeedDissent(P) ==
    /\ pc = "seed"
    /\ resume # NoCkpt
    /\ P \in Ballots(resume.valid)
    /\ ~Accepts(P)
    /\ Halt("dissent", "event")
    /\ UNCHANGED <<disk, case, resolve, resume, stage, att, zombie, runs, next, info,
                   group, lost>>

-----------------------------------------------------------------------------
(* The tasks at their queues *)

\* _q_get of the envelope: stage t is at work.
GetEnvelope(t) ==
    /\ pc = "group"
    /\ task[t] = "get" /\ queues[t - 1] = "envelope"
    /\ queues' = [queues EXCEPT ![t - 1] = "empty"]
    /\ task' = [task EXCEPT ![t] = "work"]
    /\ stage' = t
    /\ pc' = IF t = BuildStage THEN "build" ELSE "begin"
    /\ UNCHANGED <<disk, case, resolve, resume, att, kind, zombie, runs, next, info, lost>>

\* A stage returns on the STOP mark without passing it on.
GetStopSilently(t) ==
    /\ pc \in Awaits
    /\ task[t] = "get" /\ queues[t - 1] = "STOP"
    /\ queues' = [queues EXCEPT ![t - 1] = "empty"]
    /\ task' = [task EXCEPT ![t] = "done"]
    /\ UNCHANGED <<disk, pc, case, resolve, resume, stage, att, kind, zombie, runs, next,
                   info, lost>>

\* _q_get of the STOP mark.  A stage is about to pass it on.  The build raises:
\* the group is cancelled, and with it the transaction of a stage at work.
GetStop(t) ==
    /\ pc \in Awaits
    /\ task[t] = "get" /\ queues[t - 1] = "STOP"
    /\ queues' = [queues EXCEPT ![t - 1] = "empty"]
    /\ IF t = BuildStage
          THEN /\ Halt("misaligned", IF att = 0 THEN "close" ELSE "rollback")
               /\ task' = [task EXCEPT ![t] = "done"]
          ELSE /\ task' = [task EXCEPT ![t] = "stop"]
               /\ UNCHANGED <<pc, kind>>
    /\ UNCHANGED <<disk, case, resolve, resume, stage, att, zombie, runs, next, info, lost>>

\* _q_put of the STOP mark, once the queue has room; then the task returns.
PutStop(t) ==
    LET s == IF t = 0 THEN resume.stage ELSE t
    IN  /\ pc \in Awaits
        /\ task[t] = "stop" /\ queues[s] = "empty"
        /\ queues' = [queues EXCEPT ![s] = "STOP"]
        /\ task' = [task EXCEPT ![t] = "done"]
        /\ UNCHANGED <<disk, pc, case, resolve, resume, stage, att, kind, zombie, runs,
                       next, info, lost>>

-----------------------------------------------------------------------------
(* One stage: transaction, agent, envelope, quorum, checkpoint, commit *)

\* validate_envelope on the stage's input.  Envelopes made in this process
\* carry their own signature; only the seeded one can fail.
InputOk == (resume # NoCkpt /\ stage = resume.stage + 1) => (resume.signed /\ resume.valid)

InputMisaligned ==
    /\ pc \in {"begin", "build"}
    /\ ~InputOk
    /\ Halt("misaligned", "close")
    /\ UNCHANGED <<disk, case, resolve, resume, stage, att, zombie, runs, next, info,
                   group, lost>>

\* WorkspaceTransaction.__enter__
Begin ==
    /\ pc = "begin"
    /\ InputOk
    /\ next < 3 * MaxRuns
    /\ next' = next + 1
    /\ att' = next + 1
    /\ dirs' = dirs \cup {next + 1}
    /\ info' = [info EXCEPT ![next + 1] = [NoAttempt EXCEPT !.case = case, !.stage = stage]]
    /\ pc' = "agent"
    /\ UNCHANGED <<live, staged, ckpt, gov, case, resolve, resume, stage, kind, zombie,
                   runs, group, lost>>

\* The agent's thread writes a file of the workspace (redirected to staging).
StageWrite(f) ==
    /\ f \notin info[att].wrote
    /\ staged' = [staged EXCEPT ![att] = @ \cup {f}]
    /\ info' = [info EXCEPT ![att].wrote = @ \cup {f}]

AgentWrite(f) ==
    /\ pc = "agent"
    /\ StageWrite(f)
    /\ UNCHANGED <<live, dirs, ckpt, gov, proc, runs, next, lost>>

\* The envelope is recorded although no validator was asked.
AgentReturnUnvoted ==
    /\ pc = "agent"
    /\ pc' = "record"
    /\ UNCHANGED <<disk, case, resolve, resume, stage, att, kind, zombie, runs, next,
                   info, group, lost>>

AgentReturn ==
    /\ pc = "agent"
    /\ pc' = "vote"
    /\ UNCHANGED <<disk, case, resolve, resume, stage, att, kind, zombie, runs, next,
                   info, group, lost>>

\* The agent raises ("error") or create_envelope rejects what it returned.
AgentFail(k) ==
    /\ pc = "agent"
    /\ Halt(k, "rollback")
    /\ UNCHANGED <<disk, case, resolve, resume, stage, att, zombie, runs, next, info,
                   group, lost>>

\* sandbox.run gives up after stage_timeout_s; its thread keeps running.
AgentTimeout ==
    /\ pc = "agent"
    /\ "timeout" \in Faults
    /\ Halt("error", "rollback")
    /\ zombie' = TRUE
    /\ UNCHANGED <<disk, case, resolve, resume, stage, att, runs, next, info, group, lost>>

Vote(P) == info' = [info EXCEPT ![att].voted = TRUE, ![att].passed = P]

QuorumPass(P) ==
    /\ pc = "vote"
    /\ P \in Ballots(TRUE)
    /\ Accepts(P)
    /\ Vote(P)
    /\ pc' = "record"
    /\ UNCHANGED <<disk, case, resolve, resume, stage, att, kind, zombie, runs, next,
                   group, lost>>

QuorumDissent(P) ==
    /\ pc = "vote"
    /\ P \in Ballots(TRUE)
    /\ ~Accepts(P)
    /\ Vote(P)
    /\ Halt("dissent", "recordHalt")
    /\ UNCHANGED <<disk, case, resolve, resume, stage, att, zombie, runs, next, group,
                   lost>>

\* The commit goes ahead although nothing was recorded.
RecordStageUnwritten ==
    /\ pc = "record"
    /\ pc' = "commit"
    /\ UNCHANGED <<disk, case, resolve, resume, stage, att, kind, zombie, runs, next,
                   info, group, lost>>

\* The stage is recorded and handed on without its commit.
RecordStageUncommitted ==
    /\ pc = "record"
    /\ ckpt' = Snapshot(stage, FALSE)
    /\ HandOn(stage)
    /\ att' = 0
    /\ UNCHANGED <<live, staged, dirs, gov, case, resolve, resume, kind, zombie, runs,
                   next, info, lost>>

\* checkpoint.record_stage returned True.
RecordStage ==
    /\ pc = "record"
    /\ ckpt' = Snapshot(stage, FALSE)
    /\ pc' = "commit"
    /\ UNCHANGED <<live, staged, dirs, gov, case, resolve, resume, stage, att, kind, zombie,
                   runs, next, info, group, lost>>

\* It returned False: the transaction is neither committed nor rolled back,
\* its directory stays, and the envelope is handed on.
RecordStageFails ==
    /\ pc = "record"
    /\ "ckpt" \in Faults
    /\ HandOn(stage)
    /\ att' = 0
    /\ UNCHANGED <<disk, case, resolve, resume, kind, zombie, runs, next, info, lost>>

\* WorkspaceTransaction.commit, one touched file
CommitFile(f) ==
    /\ pc = "commit"
    /\ Publish(f)
    /\ UNCHANGED <<dirs, ckpt, gov, proc, runs, next, lost>>

\* The staging directory of a committed transaction is left behind.
CommitDoneKeepsDir ==
    /\ pc = "commit"
    /\ staged[att] = {}
    /\ HandOn(stage)
    /\ att' = 0
    /\ UNCHANGED <<disk, case, resolve, resume, kind, zombie, runs, next, info, lost>>

CommitDone ==
    /\ pc = "commit"
    /\ staged[att] = {}
    /\ dirs' = dirs \ {att}
    /\ HandOn(stage)
    /\ att' = 0
    /\ UNCHANGED <<live, staged, ckpt, gov, case, resolve, resume, kind, zombie, runs,
                   next, info, lost>>

\* os.replace raises: WorkspaceTransactionError, and __exit__ rolls back.
CommitFails ==
    /\ pc = "commit"
    /\ "commitio" \in Faults
    /\ staged[att] # {}
    /\ Halt("error", "rollback")
    /\ UNCHANGED <<disk, case, resolve, resume, stage, att, zombie, runs, next, info,
                   group, lost>>

\* checkpoint.record_quorum_halt; its result is ignored.
RecordQuorumHalt ==
    /\ pc = "recordHalt"
    /\ \/ ckpt' = Snapshot(stage, TRUE) /\ lost' = FALSE
       \/ "ckpt" \in Faults /\ UNCHANGED <<ckpt, lost>>
    /\ pc' = "rollback"
    /\ UNCHANGED <<live, staged, dirs, gov, case, resolve, resume, stage, att, kind, zombie,
                   runs, next, info, group>>

\* WorkspaceTransaction.rollback: rmtree of the staging directory.
RollbackFile(f) ==
    /\ pc = "rollback"
    /\ f \in staged[att]
    /\ staged' = [staged EXCEPT ![att] = @ \ {f}]
    /\ UNCHANGED <<live, dirs, ckpt, gov, proc, runs, next, info, lost>>

RollbackDone ==
    /\ pc = "rollback"
    /\ staged[att] = {}
    /\ dirs' = dirs \ {att}
    /\ pc' = "close"
    /\ UNCHANGED <<live, staged, ckpt, gov, case, resolve, resume, stage, att, kind, zombie,
                   runs, next, info, group, lost>>

-----------------------------------------------------------------------------
(* The thread of a timed-out agent, and the end of the run *)

\* It still runs in the transaction's context: a write re-creates the staging
\* directory and its manifest, after the rollback too.
ZombieWrite(f) ==
    /\ zombie
    /\ StageWrite(f)
    /\ dirs' = dirs \cup {att}
    /\ UNCHANGED <<live, ckpt, gov, proc, runs, next, lost>>

ZombieEnd ==
    /\ zombie
    /\ zombie' = FALSE
    /\ UNCHANGED <<disk, pc, case, resolve, resume, stage, att, kind, runs, next, info,
                   group, lost>>

\* The group ends when all its tasks have.
Over == \A t \in Tasks : task[t] \in {"off", "done"}

\* A task raised: the group cancels the others, which wait at a queue.
CancelTasks ==
    /\ pc = "close"
    /\ ~Over
    /\ queues' = NoGroup.queues /\ task' = NoGroup.task
    /\ UNCHANGED <<disk, pc, case, resolve, resume, stage, att, kind, zombie, runs, next,
                   info, lost>>

\* AgentSandboxExecutor.aclose: shutdown(wait=True) waits for the threads.
CloseSandbox ==
    /\ pc = "close"
    /\ Over
    /\ ~zombie
    /\ pc' = "event"
    /\ att' = 0
    /\ UNCHANGED <<disk, case, resolve, resume, stage, kind, zombie, runs, next, info,
                   group, lost>>

\* Orchestrator.run's except clauses: first the event, then set_state.
HaltEvent ==
    /\ pc = "event"
    /\ Emit(HaltEventOf(kind))
    /\ pc' = "state"
    /\ UNCHANGED <<live, staged, dirs, ckpt, case, resolve, resume, stage, att, kind,
                   zombie,
                   runs, next, info, group>>

HaltState ==
    /\ pc = "state"
    /\ Emit(HaltStateOf(kind))
    /\ Exit
    /\ UNCHANGED <<live, staged, dirs, ckpt, case, runs, next, info>>

\* build_task: execute_build runs outside any transaction.
BuildOk ==
    /\ pc = "build"
    /\ InputOk
    /\ pc' = "clear"
    /\ UNCHANGED <<disk, case, resolve, resume, stage, att, kind, zombie, runs, next,
                   info, group, lost>>

BuildFails ==
    /\ pc = "build"
    /\ InputOk
    /\ Halt("error", "close")
    /\ UNCHANGED <<disk, case, resolve, resume, stage, att, zombie, runs, next, info,
                   group, lost>>

\* checkpoint.clear; an unlink that fails is ignored.
ClearCheckpoint ==
    /\ pc = "clear"
    /\ \/ ckpt' = NoCkpt
       \/ "ckpt" \in Faults /\ ckpt' = ckpt
    /\ task' = [task EXCEPT ![BuildStage] = "done"]
    /\ pc' = "built"
    /\ UNCHANGED queues
    /\ UNCHANGED <<live, staged, dirs, gov, case, resolve, resume, stage, att, kind, zombie,
                   runs, next, info, lost>>

\* build.result() is there when the other tasks have returned too.
GroupEnds ==
    /\ pc = "built"
    /\ Over
    /\ pc' = "result"
    /\ UNCHANGED <<disk, case, resolve, resume, stage, att, kind, zombie, runs, next,
                   info, group, lost>>

Complete ==
    /\ pc = "result"
    /\ Emit("Completed")
    /\ Exit
    /\ UNCHANGED <<live, staged, dirs, ckpt, case, runs, next, info>>

-----------------------------------------------------------------------------
(* The environment *)

\* A quorum dissent is being turned into a locked halt.
HaltingOnDissent == kind = "dissent" /\ pc \in {"rollback", "close", "event", "state"}

\* The process dies; perhaps before it rolled back an attempt that was refused.
Crash ==
    /\ pc # "down"
    /\ "crash" \in Faults
    /\ lost' = (lost \/ (HaltingOnDissent /\ ~(DissentLines \subseteq Lines(gov))))
    /\ info' = IF HaltingOnDissent /\ att \in dirs
                  THEN [info EXCEPT ![att].cut = TRUE] ELSE info
    /\ Exit
    /\ UNCHANGED <<disk, case, runs, next>>

\* The operator edits the payload in checkpoint_state.json by hand.
EditPayload(valid) ==
    /\ pc = "down"
    /\ "edit" \in Faults
    /\ ckpt # NoCkpt
    /\ ckpt.signed
    /\ ckpt' = [ckpt EXCEPT !.signed = FALSE, !.valid = valid]
    /\ UNCHANGED <<live, staged, dirs, gov, proc, runs, next, info, lost>>

\* All runs made and nothing left to do: the bound's stuttering.
Rest == pc = "down" /\ runs = MaxRuns /\ UNCHANGED vars

Recover ==
    \/ \E a \in Attempts : CleanRemove(a) \/ CleanOpen(a)
    \/ \E f \in Files : CleanApply(f)
    \/ CleanClose \/ CleanDone
    \/ GatePass \/ GateClosed \/ GateOpened
    \/ ResolveInvalid \/ ResolveIntervention \/ SetRunning

Seed ==
    \/ AgentMissing \/ SeedFresh
    \/ \E P \in SUBSET Validators : SeedResume(P) \/ SeedDissent(P)

QueueStep ==
    \/ \E t \in 2..BuildStage : GetEnvelope(t) \/ GetStop(t)
    \/ \E t \in 0..3 : PutStop(t)

RunStage ==
    \/ InputMisaligned \/ Begin
    \/ \E f \in Files : AgentWrite(f)
    \/ AgentReturn
    \/ \E k \in {"error", "misaligned"} : AgentFail(k)
    \/ AgentTimeout
    \/ \E P \in SUBSET Validators : QuorumPass(P) \/ QuorumDissent(P)
    \/ RecordStage \/ RecordStageFails
    \/ \E f \in Files : CommitFile(f)
    \/ CommitDone \/ CommitFails
    \/ RecordQuorumHalt
    \/ \E f \in Files : RollbackFile(f)
    \/ RollbackDone

Finish ==
    \/ CancelTasks \/ CloseSandbox \/ HaltEvent \/ HaltState
    \/ BuildOk \/ BuildFails \/ ClearCheckpoint \/ GroupEnds \/ Complete

ProcessStep == Recover \/ Seed \/ QueueStep \/ RunStage \/ Finish

Next ==
    \/ \E c \in Cases, r \in BOOLEAN : Start(c, r)
    \/ ProcessStep
    \/ \E f \in Files : ZombieWrite(f)
    \/ ZombieEnd
    \/ Crash
    \/ \E v \in BOOLEAN : EditPayload(v)
    \/ Rest

Spec == Init /\ [][Next]_vars

\* The event loop runs the process's next step, and an agent's thread returns
\* some day; nothing obliges the environment to start, crash or edit.
FairSpec == Spec /\ WF_vars(ProcessStep) /\ WF_vars(ZombieEnd)

-----------------------------------------------------------------------------
(* Properties *)

\* The more-than-two-thirds gate: a file of the live workspace comes from an
\* attempt whose ballots met the quorum.
QuorumGate ==
    \A f \in Files : live[f] # 0 =>
        /\ info[live[f]].voted
        /\ MoreThanTwoThirds(info[live[f]].passed)

\* It holds across crashes, timeouts, failures and replays, but for a refused
\* attempt that a crash saved from its rollback.
QuorumGateUnlessCut ==
    \A f \in Files : live[f] # 0 =>
        /\ info[live[f]].voted
        /\ MoreThanTwoThirds(info[live[f]].passed) \/ info[live[f]].cut

\* Crash atomicity of a stage's commit: when only part of what an attempt
\* wrote has reached the workspace, the rest is still staged and the
\* checkpoint makes the next run of this case replay it.  (A refused attempt
\* that a crash saved from its rollback was never to be committed.)
CrashAtomic ==
    \A a \in Attempts :
        info[a].applied \notin {{}, info[a].wrote} /\ ~info[a].cut =>
            /\ a \in dirs
            /\ staged[a] = info[a].wrote \ info[a].applied
            /\ ckpt # NoCkpt
            /\ ckpt.case = info[a].case
            /\ info[a].stage <= ckpt.stage

\* Recovery never puts an older version of a file over a newer one.
LiveMonotone == [][\A f \in Files : live'[f] >= live[f]]_vars

\* A stage is started only after every earlier stage of the same business
\* case was put to the vote, in this run or in the one it resumes.
NoStageSkipped ==
    pc \in {"begin", "agent", "vote", "record", "commit", "build", "clear"} =>
        \A s \in Stages : s < stage =>
            \E a \in Attempts : /\ info[a].case = case
                                /\ info[a].stage = s
                                /\ info[a].voted

\* A checkpointed stage is not executed a second time.
NoStageRerun ==
    [][next' # next => ckpt = NoCkpt \/ ckpt.case # case \/ ckpt.stage < stage]_vars

\* When the build is done nothing the stages wrote is left behind in staging.
CompletedClean == pc \in {"clear", "built", "result"} => Mine = {}

\* A case that a quorum dissent locked goes on only after an operator resolved
\* the intervention, although the gate never reads the lock: unless the process
\* that locked it died before both lines of the halt were in the log, or enough
\* was logged since to push one of them out of the reader's window.
LockedNeedsOperator == pc = "seed" => resume = NoCkpt \/ ~resume.locked \/ lost

\* Every process ends: it completes, halts for an intervention, or dies.
RunEnds == pc # "down" ~> pc = "down"

=============================================================================
