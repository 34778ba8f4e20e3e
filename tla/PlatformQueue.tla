---------------------------- MODULE PlatformQueue ----------------------------
(***************************************************************************)
(* The live task path: the gateway's in-memory scheduler and the manual    *)
(* dispatcher CLI fill the one disk slot .platform_queue/next_task.json;   *)
(* engine instances (platform_engine.py run_loop) take tasks from it under *)
(* .platform_queue/processing.lock.  All of them are separate processes:   *)
(* every file system call is a step of its own.                            *)
(*                                                                         *)
(* What the agent does with a task is reduced to its outcome (AgentLoop    *)
(* models the loop); lock age is reduced to fresh or older than            *)
(* LOCK_STALE_S.                                                           *)
(***************************************************************************)
EXTENDS Naturals, FiniteSets

CONSTANTS
    Engines,     \* engine instances
    GwTasks,     \* tasks triggered through the gateway
    CliTasks,    \* tasks enqueued with the dispatcher CLI
    Priority,    \* Priority[t]: the priority of a gateway trigger
    Poison,      \* tasks whose target repository cannot be resolved
    Worlds       \* the plants to consider: the engine instances that run, the
                 \* tasks that are submitted, the bounds on crashes (unhandled
                 \* exceptions included) and on failing moves of the slot file
                 \* to failed/, and the faults that may happen

(* Faults:                                                                 *)
(*   "torn"     an engine may open the slot between its creation and the   *)
(*              write of its content                                       *)
(*   "slow"     a task may outlast LOCK_STALE_S                            *)
(*   "flush"    the operator runs --flush-locks                            *)
(*   "gwio"     the gateway's write of the slot file may fail              *)
(*   "cliio"    the CLI's write of the slot file may fail                  *)
(*   "unlink"   the removal of a stale lock may fail                       *)

Tasks == GwTasks \cup CliTasks
NoTask == "no task"
NoLock == [owner |-> "nobody", stale |-> FALSE]

ASSUME QueueTaskAssumption ==
    /\ IsFiniteSet(GwTasks)
    /\ GwTasks \cap CliTasks = {}
    /\ NoTask \notin Tasks
    /\ "nobody" \notin Engines
    /\ Priority \in [GwTasks -> Nat]
    /\ Poison \subseteq Tasks
    /\ \A w \in Worlds :
          w.engines \subseteq Engines /\ w.crashes \in Nat /\ w.unarchived \in Nat

VARIABLES
    buffer,   \* InMemoryScheduler._heap
    seq,      \* seq[t]: the arrival number of a gateway task, 0 = not arrived
    gw,       \* the flush loop: where it is and the task it popped
    cli,      \* cli[t]: progress of the dispatcher CLI call for t
    slot,     \* the task in next_task.json
    written,  \* tasks whose slot file has its content
    lock,     \* processing.lock
    pc,       \* pc[e]: where engine e is
    task,     \* task[e]: the task data e read
    ok,       \* ok[e]: how e's task ended
    crashes,  \* engine crashes and unhandled exceptions so far
    execs,    \* history: how often each task's execution started
    outbox,   \* results handed to the outbound dispatcher
    unarchived,  \* caught failures of archive_failed_payload so far
    robbed,   \* history: the lock of an engine at work was removed by somebody
              \* else, and there has been an engine at work ever since
    world     \* the plant; never changes

queueVars == <<buffer, seq, gw>>
engVars == <<pc, task, ok>>
plantVars == <<unarchived, world>>
vars == <<queueVars, cli, slot, written, lock, engVars, crashes, execs, outbox, plantVars, robbed>>

EnginePCs == {"boot", "bootPrune", "poll", "open", "unread", "route", "lock", "prune",
              "acquire", "work", "fail", "finish", "remove", "deliver", "release",
              "dying", "dead"}

\* From the acquisition of the lock to its release.
Holding == {"work", "fail", "finish", "remove", "deliver", "release", "dying"}

\* Types: slot, buffer and archive hold tasks, never a name without one.
TypeOK ==
    /\ buffer \in SUBSET GwTasks
    /\ seq \in [GwTasks -> Nat]
    /\ gw \in [pc : {"sleep", "pop", "create", "write"}, task : GwTasks \cup {NoTask}]
    /\ cli \in [CliTasks -> {"new", "created", "done", "failed", "refused"}]
    /\ slot \in Tasks \cup {NoTask}
    /\ written \in SUBSET Tasks
    /\ lock \in [owner : Engines \cup {"nobody"}, stale : BOOLEAN]
    /\ pc \in [Engines -> EnginePCs]
    /\ task \in [Engines -> Tasks \cup {NoTask}]
    /\ ok \in [Engines -> BOOLEAN]
    /\ crashes \in 0..world.crashes
    /\ execs \in [Tasks -> Nat]
    /\ outbox \in SUBSET (Tasks \X BOOLEAN)
    /\ unarchived \in 0..world.unarchived
    /\ robbed \in BOOLEAN
    /\ world \in Worlds

Init ==
    /\ buffer = {}
    /\ seq = [t \in GwTasks |-> 0]
    /\ gw = [pc |-> "sleep", task |-> NoTask]
    /\ cli = [t \in CliTasks |-> "new"]
    /\ slot = NoTask
    /\ written = {}
    /\ lock = NoLock
    /\ pc = [e \in Engines |-> "boot"]
    /\ task = [e \in Engines |-> NoTask]
    /\ ok = [e \in Engines |-> FALSE]
    /\ crashes = 0
    /\ execs = [t \in Tasks |-> 0]
    /\ outbox = {}
    /\ unarchived = 0
    /\ robbed = FALSE
    /\ world \in Worlds

-----------------------------------------------------------------------------
(* Gateway *)

\* InMemoryScheduler.enqueue, reached from POST /api/v1/trigger and /ws/events
Trigger(t) ==
    /\ seq[t] = 0
    /\ seq' = [seq EXCEPT ![t] = 1 + Cardinality({u \in GwTasks : seq[u] # 0})]
    /\ buffer' = buffer \cup {t}
    /\ UNCHANGED <<gw, cli, slot, written, lock, engVars, crashes, execs, outbox, plantVars, robbed>>

\* The heap key (-priority, seq)
Before(t, u) == \/ Priority[t] > Priority[u]
                \/ Priority[t] = Priority[u] /\ seq[t] <= seq[u]

\* _flush_loop: neither the slot nor the lock exists ...
GwCheck ==
    /\ gw.pc = "sleep"
    /\ slot = NoTask /\ lock = NoLock
    /\ gw' = [gw EXCEPT !.pc = "pop"]
    /\ UNCHANGED <<buffer, seq, cli, slot, written, lock, engVars, crashes, execs, outbox, plantVars, robbed>>

\* ... the first task of the heap is popped, if there is one ...
GwPop ==
    /\ gw.pc = "pop"
    /\ \/ /\ buffer = {}
          /\ gw' = [gw EXCEPT !.pc = "sleep"]
          /\ UNCHANGED buffer
       \/ \E t \in buffer :
             /\ \A u \in buffer : Before(t, u)
             /\ gw' = [pc |-> "create", task |-> t]
             /\ buffer' = buffer \ {t}
    /\ UNCHANGED <<seq, cli, slot, written, lock, engVars, crashes, execs, outbox, plantVars, robbed>>

\* Two slips: FileExistsError drops the task, or the file is opened without
\* O_EXCL.
GwCreateDrops ==
    /\ gw.pc = "create"
    /\ IF slot = NoTask
         THEN slot' = gw.task /\ gw' = [gw EXCEPT !.pc = "write"]
         ELSE slot' = slot /\ gw' = [pc |-> "sleep", task |-> NoTask]
    /\ UNCHANGED <<buffer, seq, cli, written, lock, engVars, crashes, execs, outbox, plantVars, robbed>>

GwCreateOverwrites ==
    /\ gw.pc = "create"
    /\ slot' = gw.task
    /\ gw' = [gw EXCEPT !.pc = "write"]
    /\ UNCHANGED <<buffer, seq, cli, written, lock, engVars, crashes, execs, outbox, plantVars, robbed>>

\* ... and _write_new_task_file creates the slot with O_EXCL; FileExistsError
\* puts the task back.
GwCreate ==
    /\ gw.pc = "create"
    /\ IF slot = NoTask
         THEN /\ slot' = gw.task
              /\ gw' = [gw EXCEPT !.pc = "write"]
              /\ UNCHANGED buffer
         ELSE /\ buffer' = buffer \cup {gw.task}
              /\ gw' = [pc |-> "sleep", task |-> NoTask]
              /\ UNCHANGED slot
    /\ UNCHANGED <<seq, cli, written, lock, engVars, crashes, execs, outbox, plantVars, robbed>>

GwWrite ==
    /\ gw.pc = "write"
    /\ written' = written \cup {gw.task}
    /\ gw' = [pc |-> "sleep", task |-> NoTask]
    /\ UNCHANGED <<buffer, seq, cli, slot, lock, engVars, crashes, execs, outbox, plantVars, robbed>>

\* The write or its fsync fails: the file of that name is unlinked, unless
\* that fails too, and the task goes back to the heap.
GwWriteFails ==
    /\ gw.pc = "write"
    /\ "gwio" \in world.faults
    /\ slot' \in {NoTask, slot}
    /\ buffer' = buffer \cup {gw.task}
    /\ gw' = [pc |-> "sleep", task |-> NoTask]
    /\ UNCHANGED <<seq, cli, written, lock, engVars, crashes, execs, outbox, plantVars, robbed>>

-----------------------------------------------------------------------------
(* Dispatcher CLI *)

\* enqueue_platform_task: O_EXCL creation, refused when the slot is taken.
CliCreate(t) ==
    /\ cli[t] = "new"
    /\ IF slot = NoTask
         THEN slot' = t /\ cli' = [cli EXCEPT ![t] = "created"]
         ELSE slot' = slot /\ cli' = [cli EXCEPT ![t] = "refused"]
    /\ UNCHANGED <<queueVars, written, lock, engVars, crashes, execs, outbox, plantVars, robbed>>

CliWrite(t) ==
    /\ cli[t] = "created"
    /\ written' = written \cup {t}
    /\ cli' = [cli EXCEPT ![t] = "done"]
    /\ UNCHANGED <<queueVars, slot, lock, engVars, crashes, execs, outbox, plantVars, robbed>>

\* _atomic_exclusive_write does not unlink what it could not write: the file
\* stays in the slot, without its content or (fsync) with it.
CliWriteFails(t) ==
    /\ cli[t] = "created"
    /\ "cliio" \in world.faults
    /\ written' \in {written, written \cup {t}}
    /\ cli' = [cli EXCEPT ![t] = "failed"]
    /\ UNCHANGED <<queueVars, slot, lock, engVars, crashes, execs, outbox, plantVars, robbed>>

\* The lock file, about to be removed by somebody else, is that of an engine
\* at work.
Robs == lock # NoLock /\ pc[lock.owner] \in Holding

\* flush_processing_locks
FlushLocks ==
    /\ "flush" \in world.faults
    /\ lock # NoLock
    /\ lock' = NoLock
    /\ robbed' = (robbed \/ Robs)
    /\ UNCHANGED <<queueVars, cli, slot, written, engVars, crashes, execs, outbox, plantVars>>

-----------------------------------------------------------------------------
(* Engine *)

Goto(e, where) == pc' = [pc EXCEPT ![e] = where]

\* The age of the lock is not looked at.
StaleAnyAge == lock # NoLock

\* _prune_stale_processing_lock looks at the lock's age ...
Stale == lock # NoLock /\ lock.stale

\* ... on boot ...
Boot(e) ==
    /\ pc[e] = "boot"
    /\ Goto(e, IF Stale THEN "bootPrune" ELSE "poll")
    /\ UNCHANGED <<queueVars, cli, slot, written, lock, task, ok, crashes, execs, outbox, plantVars, robbed>>

\* ... and then removes the file of that name, whichever it is by then.
Prune(e) ==
    /\ pc[e] \in {"bootPrune", "prune"}
    /\ lock' = NoLock
    /\ robbed' = (robbed \/ Robs)
    /\ Goto(e, IF pc[e] = "prune" THEN "acquire" ELSE "poll")
    /\ UNCHANGED <<queueVars, cli, slot, written, task, ok, crashes, execs, outbox, plantVars>>

\* The removal fails, and with it the acquisition.
PruneFails(e) ==
    /\ pc[e] \in {"bootPrune", "prune"}
    /\ "unlink" \in world.faults
    /\ Goto(e, "poll")
    /\ UNCHANGED <<queueVars, cli, slot, written, lock, task, ok, crashes, execs, outbox, plantVars, robbed>>

Poll(e) ==
    /\ pc[e] = "poll"
    /\ slot # NoTask
    /\ Goto(e, "open")
    /\ UNCHANGED <<queueVars, cli, slot, written, lock, task, ok, crashes, execs, outbox, plantVars, robbed>>

\* Somebody has created the slot file and is about to write its content.
BeingWritten ==
    \/ gw.pc = "write" /\ gw.task = slot
    \/ slot \in CliTasks /\ cli[slot] = "created"

\* open and json.load of the slot.  It fails when the file is gone, when its
\* content has not been written yet, and when it never was.
Open(e) ==
    /\ pc[e] = "open"
    /\ BeingWritten => slot \in written \/ "torn" \in world.faults
    /\ IF slot \in written
         THEN /\ task' = [task EXCEPT ![e] = slot]
              /\ Goto(e, "route")
         ELSE /\ Goto(e, "unread")
              /\ UNCHANGED task
    /\ UNCHANGED <<queueVars, cli, slot, written, lock, ok, crashes, execs, outbox, plantVars, robbed>>

\* _handle_failure for an unreadable payload: archive_failed_payload moves
\* the slot file, whichever it is by then; without one its error is printed.
ArchiveUnread(e) ==
    /\ pc[e] = "unread"
    /\ slot' = NoTask
    /\ Goto(e, "poll")
    /\ UNCHANGED <<queueVars, cli, written, lock, task, ok, crashes, execs, outbox, plantVars, robbed>>

\* resolve_repo_root: when it fails the RuntimeError leaves run_loop.
Route(e) ==
    /\ pc[e] = "route"
    /\ Goto(e, IF task[e] \in Poison THEN "dead" ELSE "lock")
    /\ UNCHANGED <<queueVars, cli, slot, written, lock, task, ok, crashes, execs, outbox, plantVars, robbed>>

\* _try_acquire_processing_lock: the age check, then O_EXCL creation.
LockAge(e) ==
    /\ pc[e] = "lock"
    /\ Goto(e, IF Stale THEN "prune" ELSE "acquire")
    /\ UNCHANGED <<queueVars, cli, slot, written, lock, task, ok, crashes, execs, outbox, plantVars, robbed>>

\* The lock file is opened without O_EXCL.
AcquireOverwrites(e) ==
    /\ pc[e] = "acquire"
    /\ lock' = [owner |-> e, stale |-> FALSE]
    /\ execs' = [execs EXCEPT ![task[e]] = @ + 1]
    /\ Goto(e, "work")
    /\ UNCHANGED <<queueVars, cli, slot, written, task, ok, crashes, outbox, plantVars, robbed>>

Acquire(e) ==
    /\ pc[e] = "acquire"
    /\ IF lock = NoLock
         THEN /\ lock' = [owner |-> e, stale |-> FALSE]
              /\ execs' = [execs EXCEPT ![task[e]] = @ + 1]
              /\ robbed' = (robbed /\ \E x \in Engines : pc[x] \in Holding)
              /\ Goto(e, "work")
         ELSE /\ Goto(e, "poll")
              /\ UNCHANGED <<lock, execs, robbed>>
    /\ UNCHANGED <<queueVars, cli, slot, written, task, ok, crashes, outbox, plantVars>>

\* The agent loop ends; the model cannot be reached, a tool fails or the loop
\* breaker triggers in the failing case.
WorkEnds(e, success) ==
    /\ pc[e] = "work"
    /\ ok' = [ok EXCEPT ![e] = success]
    /\ Goto(e, IF success THEN "finish" ELSE "fail")
    /\ UNCHANGED <<queueVars, cli, slot, written, lock, task, crashes, execs, outbox, plantVars, robbed>>

\* The model answers JSON that is not an object, or os.remove of the finished
\* task is refused: the exception of decision.get or of os.remove leaves
\* run_loop through its finally clause, and the task file stays where it is.
WorkDies(e) ==
    /\ pc[e] \in {"work", "remove"}
    /\ crashes < world.crashes
    /\ crashes' = crashes + 1
    /\ Goto(e, "dying")
    /\ UNCHANGED <<queueVars, cli, slot, written, lock, task, ok, execs, outbox, plantVars, robbed>>

\* _handle_failure: the slot file is moved to failed/.
ArchiveFailed(e) ==
    /\ pc[e] = "fail"
    /\ slot' = NoTask
    /\ Goto(e, "deliver")
    /\ UNCHANGED <<queueVars, cli, written, lock, task, ok, crashes, execs, outbox, plantVars, robbed>>

\* archive_failed_payload raises, for an unreadable payload or for a failed
\* task: _handle_failure prints the error, run_loop goes on as if the task had
\* been archived, and the file stays in the slot for the next poll.
ArchiveFails(e) ==
    /\ pc[e] \in {"unread", "fail"}
    /\ unarchived < world.unarchived
    /\ unarchived' = unarchived + 1
    /\ Goto(e, IF pc[e] = "fail" THEN "deliver" ELSE "poll")
    /\ UNCHANGED <<queueVars, cli, slot, written, lock, task, ok, crashes, execs, outbox, world, robbed>>

\* The task file of a finished task is left in the slot.
FinishCheckKeeps(e) ==
    /\ pc[e] = "finish"
    /\ Goto(e, "deliver")
    /\ UNCHANGED <<queueVars, cli, slot, written, lock, task, ok, crashes, execs, outbox, plantVars, robbed>>

\* Success: os.path.exists(task_file), append_memory, then os.remove.
FinishCheck(e) ==
    /\ pc[e] = "finish"
    /\ Goto(e, IF slot = NoTask THEN "deliver" ELSE "remove")
    /\ UNCHANGED <<queueVars, cli, slot, written, lock, task, ok, crashes, execs, outbox, plantVars, robbed>>

\* When the file vanished in between, FileNotFoundError leaves run_loop
\* through its finally clause.
FinishRemove(e) ==
    /\ pc[e] = "remove"
    /\ slot' = NoTask
    /\ Goto(e, IF slot = NoTask THEN "dying" ELSE "deliver")
    /\ UNCHANGED <<queueVars, cli, written, lock, task, ok, crashes, execs, outbox, plantVars, robbed>>

Deliver(e) ==
    /\ pc[e] = "deliver"
    /\ outbox' = outbox \cup {<<task[e], ok[e]>>}
    /\ Goto(e, "release")
    /\ UNCHANGED <<queueVars, cli, slot, written, lock, task, ok, crashes, execs, plantVars, robbed>>

\* The finally clause forgets the lock.
ReleaseKeepsLock(e) ==
    /\ pc[e] \in {"release", "dying"}
    /\ Goto(e, IF pc[e] = "dying" THEN "dead" ELSE "poll")
    /\ task' = [task EXCEPT ![e] = NoTask]
    /\ UNCHANGED <<queueVars, cli, slot, written, lock, ok, crashes, execs, outbox, plantVars, robbed>>

\* The finally clause: _release_processing_lock removes the file, whoever
\* created it.
Release(e) ==
    /\ pc[e] \in {"release", "dying"}
    /\ lock' = NoLock
    /\ Goto(e, IF pc[e] = "dying" THEN "dead" ELSE "poll")
    /\ task' = [task EXCEPT ![e] = NoTask]
    /\ UNCHANGED <<queueVars, cli, slot, written, ok, crashes, execs, outbox, plantVars, robbed>>

Crash(e) ==
    /\ pc[e] # "dead"
    /\ crashes < world.crashes
    /\ crashes' = crashes + 1
    /\ Goto(e, "dead")
    /\ UNCHANGED <<queueVars, cli, slot, written, lock, task, ok, execs, outbox, plantVars, robbed>>

\* A service manager starts the engine again.
Restart(e) ==
    /\ pc[e] = "dead"
    /\ Goto(e, "boot")
    /\ task' = [task EXCEPT ![e] = NoTask]
    /\ UNCHANGED <<queueVars, cli, slot, written, lock, ok, crashes, execs, outbox, plantVars, robbed>>

\* Fifteen minutes pass.  A live holder is done before, unless it is slow.
LockAges ==
    /\ lock # NoLock
    /\ ~lock.stale
    /\ pc[lock.owner] \in Holding => "slow" \in world.faults
    /\ lock' = [lock EXCEPT !.stale = TRUE]
    /\ UNCHANGED <<queueVars, cli, slot, written, engVars, crashes, execs, outbox, plantVars, robbed>>

GatewayStep == GwCheck \/ GwPop \/ GwCreate \/ GwWrite \/ GwWriteFails

EngineStep(e) ==
    \/ Boot(e) \/ Prune(e) \/ Poll(e) \/ Open(e) \/ ArchiveUnread(e) \/ Route(e)
    \/ LockAge(e) \/ Acquire(e)
    \/ \E success \in BOOLEAN : WorkEnds(e, success)
    \/ ArchiveFailed(e) \/ FinishCheck(e) \/ FinishRemove(e) \/ Deliver(e) \/ Release(e)
    \/ Restart(e)

Next ==
    \/ \E t \in GwTasks \cap world.tasks : Trigger(t)
    \/ GatewayStep
    \/ \E t \in CliTasks \cap world.tasks : CliCreate(t) \/ CliWrite(t) \/ CliWriteFails(t)
    \/ FlushLocks
    \/ \E e \in world.engines :
          EngineStep(e) \/ PruneFails(e) \/ ArchiveFails(e) \/ WorkDies(e) \/ Crash(e)
    \/ LockAges

Spec == Init /\ [][Next]_vars

\* Processes that are up run on, an engine that died is restarted, a begun
\* CLI call finishes and time passes.
FairSpec ==
    /\ Spec
    /\ WF_vars(GatewayStep)
    /\ \A t \in CliTasks : WF_vars(CliWrite(t) \/ CliWriteFails(t))
    /\ \A e \in Engines : WF_vars(e \in world.engines /\ EngineStep(e))
    /\ WF_vars(LockAges)

-----------------------------------------------------------------------------
(* Properties *)

\* At most one engine is between acquiring and releasing processing.lock.
\* (With a second engine and a crash this is false of the code.)
MutualExclusion ==
    \A e1, e2 \in Engines : pc[e1] \in Holding /\ pc[e2] \in Holding => e1 = e2

\* An engine at work holds the lock under its own name, so that the release
\* in its finally clause removes its own lock.
HolderOwnsLock == \A e \in Engines : pc[e] \in Holding => lock.owner = e

\* Over crashes, stale locks, slow tasks and flushes: two engines are at work,
\* or one removes another's lock in its finally clause, only after a pruning or
\* a flush has taken the lock away from an engine at work, and only until no
\* engine is at work any more.
ExclusiveUnlessRobbed == robbed \/ (MutualExclusion /\ HolderOwnsLock)

\* A single engine instance runs.
Alone == \A e1, e2 \in world.engines : e1 = e2

\* _prune_stale_processing_lock takes the lock from an engine at work only in
\* a race of several engines, and there only after a crash, whose lock two of
\* them saw stale, or when a task outlasts LOCK_STALE_S.
RobbedNeedsRace ==
    robbed => \/ "flush" \in world.faults
              \/ ~Alone /\ (crashes > 0 \/ "slow" \in world.faults)

\* One engine, which never opens a slot file before its content is there, and
\* a gateway whose writes succeed.  (With two engines, a torn read or a failing
\* write tasks are archived or removed unexecuted.)
Reliable == Alone /\ "torn" \notin world.faults /\ "gwio" \notin world.faults

\* Tasks whose sender was told that they are queued.
Accepted == {t \in GwTasks : seq[t] # 0} \cup {t \in CliTasks : cli[t] = "done"}

\* No accepted task disappears unexecuted: until its execution has started it
\* is in the gateway's memory or in the disk slot.
NoTaskLost ==
    Reliable => \A t \in Accepted : execs[t] = 0 => t \in buffer \/ gw.task = t \/ slot = t

\* A task is executed again only after an engine crashed, was left by an
\* exception, or could not archive a task that had failed.
RerunsNeedFailure == Reliable => \A t \in Tasks : execs[t] <= 1 + crashes + unarchived

\* What an engine takes out of the slot when it is done is the task it ran.
RemovesOwnTask ==
    [][Reliable => \A e \in Engines :
          pc[e] \in {"fail", "remove"} /\ pc'[e] # pc[e] /\ slot # slot' => slot = task[e]]_vars

\* Every accepted task is executed.
EveryTaskRuns == \A t \in Tasks : t \in Accepted \ Poison ~> execs[t] > 0

\* The lock file of an engine that died with the slot already emptied.
OrphanLock ==
    /\ slot = NoTask
    /\ crashes > 0
    /\ lock # NoLock
    /\ pc[lock.owner] \notin Holding

\* Every accepted task is executed, unless a crash leaves a lock file behind
\* and the slot empty: no engine then has a reason to look at the lock's age.
TaskRunsOrOrphan ==
    \A t \in Tasks : Reliable /\ t \in Accepted \ Poison ~> execs[t] > 0 \/ OrphanLock

=============================================================================
