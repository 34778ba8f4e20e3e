------------------------ MODULE PlatformQueue_Proofs ------------------------
(***************************************************************************)
(* Mutual exclusion of the engine instances, for every number of engines   *)
(* and tasks, crashes, slow tasks, stale locks and flushes included: it is *)
(* lost only when the lock of an engine at work is pruned or flushed, and  *)
(* pruned only in a race of several engines that saw a lock grow stale.    *)
(* And delivery by a single engine, crashes, stale locks, flushes and      *)
(* failing archives included: no accepted task is lost, one is executed    *)
(* again only after a failure, and the engine removes only the task it ran.*)
(***************************************************************************)
EXTENDS PlatformQueue, FiniteSetTheorems, TLAPS

\* The engine has read a task.
HasTask == {"route", "lock", "prune", "acquire"} \cup Holding

\* What makes TypeOK inductive: whoever is about to write the slot, count an
\* execution or deliver a result has a task at hand.
TaskAtHand ==
    /\ gw.pc \in {"create", "write"} => gw.task \in GwTasks
    /\ \A e \in Engines : pc[e] \in HasTask => task[e] \in Tasks

TypeInv == TypeOK /\ TaskAtHand

\* The initial state of the queue is typed, with no task at hand.
LEMMA InitType == Init => TypeInv
<1> SUFFICES ASSUME Init PROVE TypeInv
  OBVIOUS
<1> USE DEF Init
<1>1. crashes \in 0..world.crashes /\ unarchived \in 0..world.unarchived
  BY QueueTaskAssumption DEF QueueTaskAssumption
<1>2. lock \in [owner : Engines \cup {"nobody"}, stale : BOOLEAN]
  BY DEF NoLock
<1>3. ok \in [Engines -> BOOLEAN]
  OBVIOUS
<1>4. pc \in [Engines -> EnginePCs]
  BY DEF EnginePCs
<1>5. task \in [Engines -> Tasks \cup {NoTask}] /\ execs \in [Tasks -> Nat]
  OBVIOUS
<1>6. TaskAtHand
  BY DEF TaskAtHand, HasTask, Holding
<1> QED
  BY <1>1, <1>2, <1>3, <1>4, <1>5, <1>6 DEF TypeInv, TypeOK

\* The arrival number enqueue gives a task is a positive natural number.
LEMMA ArrivalNat ==
    ASSUME NEW S \in SUBSET GwTasks
    PROVE  1 + Cardinality(S) \in Nat /\ 1 + Cardinality(S) # 0
<1>1. Cardinality(S) \in Nat
  BY QueueTaskAssumption, FS_Subset, FS_CardinalityType DEF QueueTaskAssumption
<1> QED BY <1>1

\* Every step of the gateway, the CLI and the engines keeps the types.
LEMMA TypeStep == TypeInv /\ [Next]_vars => TypeInv'
<1> SUFFICES ASSUME TypeInv, [Next]_vars PROVE TypeInv'
  OBVIOUS
<1> USE DEF TypeInv, TypeOK, TaskAtHand, HasTask, Holding, EnginePCs, Goto
<1>1. ASSUME NEW t \in GwTasks, Trigger(t) PROVE TypeInv'
  <2>1. 1 + Cardinality({u \in GwTasks : seq[u] # 0}) \in Nat
    BY ArrivalNat
  <2> QED BY <1>1, <2>1 DEF Trigger, engVars, plantVars
<1>2. CASE GwCheck
  BY <1>2 DEF GwCheck, engVars, plantVars
<1>3. CASE GwPop
  BY <1>3 DEF GwPop, engVars, plantVars
<1>4. CASE GwCreate
  BY <1>4 DEF GwCreate, engVars, Tasks, plantVars
<1>5. CASE GwWrite
  BY <1>5 DEF GwWrite, engVars, Tasks, plantVars
<1>5a. CASE GwWriteFails
  BY <1>5a DEF GwWriteFails, engVars, plantVars
<1>6. ASSUME NEW t \in CliTasks, CliCreate(t) PROVE TypeInv'
  BY <1>6 DEF CliCreate, queueVars, engVars, Tasks, plantVars
<1>7. ASSUME NEW t \in CliTasks, CliWrite(t) PROVE TypeInv'
  BY <1>7 DEF CliWrite, queueVars, engVars, Tasks, plantVars
<1>7a. ASSUME NEW t \in CliTasks, CliWriteFails(t) PROVE TypeInv'
  BY <1>7a DEF CliWriteFails, queueVars, engVars, plantVars, Tasks
<1>8. CASE FlushLocks
  BY <1>8 DEF FlushLocks, queueVars, engVars, NoLock, plantVars
<1>9. ASSUME NEW e \in Engines, Boot(e) PROVE TypeInv'
  BY <1>9 DEF Boot, queueVars, plantVars
<1>10. ASSUME NEW e \in Engines, Prune(e) PROVE TypeInv'
  BY <1>10 DEF Prune, queueVars, NoLock, plantVars
<1>10a. ASSUME NEW e \in Engines, PruneFails(e) PROVE TypeInv'
  BY <1>10a DEF PruneFails, queueVars, plantVars
<1>11. ASSUME NEW e \in Engines, Poll(e) PROVE TypeInv'
  BY <1>11 DEF Poll, queueVars, plantVars
<1>12. ASSUME NEW e \in Engines, Open(e) PROVE TypeInv'
  BY <1>12 DEF Open, queueVars, plantVars
<1>13. ASSUME NEW e \in Engines, ArchiveUnread(e) PROVE TypeInv'
  BY <1>13 DEF ArchiveUnread, queueVars, plantVars
<1>14. ASSUME NEW e \in Engines, Route(e) PROVE TypeInv'
  BY <1>14 DEF Route, queueVars, plantVars
<1>15. ASSUME NEW e \in Engines, LockAge(e) PROVE TypeInv'
  BY <1>15 DEF LockAge, queueVars, plantVars
<1>16. ASSUME NEW e \in Engines, Acquire(e) PROVE TypeInv'
  <2>1. task[e] \in Tasks
    BY <1>16 DEF Acquire
  <2>2. execs' \in [Tasks -> Nat]
    BY <1>16, <2>1 DEF Acquire
  <2>3. lock' \in [owner : Engines \cup {"nobody"}, stale : BOOLEAN]
    <3>1. lock' = [owner |-> e, stale |-> FALSE] \/ lock' = lock
      BY <1>16 DEF Acquire
    <3>2. [owner |-> e, stale |-> FALSE] \in [owner : Engines \cup {"nobody"}, stale : BOOLEAN]
      OBVIOUS
    <3> QED BY <3>1, <3>2
  <2>4. pc' \in [Engines -> EnginePCs]
    BY <1>16 DEF Acquire
  <2>5. TaskAtHand'
    BY <1>16, <2>1 DEF Acquire, queueVars
  <2>6. UNCHANGED <<buffer, seq, gw, cli, slot, written, task, ok, crashes, outbox, unarchived, world>>
    BY <1>16 DEF Acquire, queueVars, plantVars
  <2>7. robbed' \in BOOLEAN
    <3>1. robbed' = robbed \/ robbed' = (robbed /\ \E x \in Engines : pc[x] \in Holding)
      BY <1>16 DEF Acquire
    <3> QED BY <3>1
  <2> QED BY <2>2, <2>3, <2>4, <2>5, <2>6, <2>7
<1>17. ASSUME NEW e \in Engines, NEW success \in BOOLEAN, WorkEnds(e, success) PROVE TypeInv'
  BY <1>17 DEF WorkEnds, queueVars, plantVars
<1>17a. ASSUME NEW e \in Engines, WorkDies(e) PROVE TypeInv'
  BY <1>17a, QueueTaskAssumption DEF QueueTaskAssumption, WorkDies, queueVars, plantVars
<1>18. ASSUME NEW e \in Engines, ArchiveFailed(e) PROVE TypeInv'
  BY <1>18 DEF ArchiveFailed, queueVars, plantVars
<1>18a. ASSUME NEW e \in Engines, ArchiveFails(e) PROVE TypeInv'
  BY <1>18a, QueueTaskAssumption DEF QueueTaskAssumption, ArchiveFails, queueVars
<1>19. ASSUME NEW e \in Engines, FinishCheck(e) PROVE TypeInv'
  BY <1>19 DEF FinishCheck, queueVars, plantVars
<1>20. ASSUME NEW e \in Engines, FinishRemove(e) PROVE TypeInv'
  BY <1>20 DEF FinishRemove, queueVars, plantVars
<1>21. ASSUME NEW e \in Engines, Deliver(e) PROVE TypeInv'
  BY <1>21 DEF Deliver, queueVars, plantVars
<1>22. ASSUME NEW e \in Engines, Release(e) PROVE TypeInv'
  BY <1>22 DEF Release, queueVars, NoLock, plantVars
<1>23. ASSUME NEW e \in Engines, Restart(e) PROVE TypeInv'
  BY <1>23 DEF Restart, queueVars, plantVars
<1>24. ASSUME NEW e \in Engines, Crash(e) PROVE TypeInv'
  BY <1>24, QueueTaskAssumption DEF QueueTaskAssumption, Crash, queueVars, plantVars
<1>25. CASE LockAges
  BY <1>25 DEF LockAges, queueVars, engVars, plantVars
<1>26. CASE UNCHANGED vars
  BY <1>26 DEF vars, queueVars, engVars, plantVars
<1> HIDE DEF TypeInv, TypeOK, TaskAtHand, HasTask, Holding, EnginePCs, Goto
<1>27. world.engines \subseteq Engines
  BY QueueTaskAssumption DEF QueueTaskAssumption, TypeInv, TypeOK
<1> QED
  BY <1>7a, <1>10a, <1>18a, <1>27, <1>1, <1>2, <1>3, <1>4, <1>5, <1>5a, <1>6, <1>7, <1>8, <1>9, <1>10, <1>11, <1>12, <1>13, <1>14,
     <1>15, <1>16, <1>17, <1>17a, <1>18, <1>19, <1>20, <1>21, <1>22, <1>23, <1>24, <1>25, <1>26
  DEF Next, GatewayStep, EngineStep

\* Type correctness of the queue, for any engines, tasks and faults.
THEOREM QueueTypeCorrect == Spec => []TypeOK
<1>1. TypeInv => TypeOK
  BY DEF TypeInv
<1> QED
  BY InitType, TypeStep, <1>1, PTL DEF Spec

-----------------------------------------------------------------------------
(* Several engines: who may be at work                                      *)

\* Nothing has happened so far by which a lock could grow stale or vanish.
Quiet == crashes = 0 /\ "slow" \notin world.faults /\ "flush" \notin world.faults

\* An engine instance that is not run stays where it is.
NotStarted == \A e \in Engines : e \notin world.engines => pc[e] = "boot"

\* Unless an engine at work was robbed, whoever is at work has the lock.
LockOwned == ~robbed => HolderOwnsLock

\* In quiet operation the lock file names exactly the engine that is between
\* acquisition and release, is never stale, and no engine is about to prune it.
QuietInv ==
    Quiet => /\ ~robbed
             /\ \A e \in Engines : lock.owner = e => pc[e] \in Holding
             /\ lock.stale = FALSE
             /\ \A e \in Engines : pc[e] \notin {"prune", "bootPrune"}

\* A lock file is somebody's.
LockNamed == lock.owner = "nobody" => lock = NoLock

\* A single engine that prunes is not at work: it can lose its lock to a
\* flush only.
AloneInv == Alone /\ "flush" \notin world.faults => ~robbed

MutexInv == TypeInv /\ LockNamed /\ NotStarted /\ LockOwned /\ QuietInv /\ AloneInv

\* No engine holds the lock at first.
LEMMA InitMutex == Init => MutexInv
<1> SUFFICES ASSUME Init PROVE MutexInv
  OBVIOUS
<1>1. LockNamed /\ NotStarted /\ LockOwned /\ AloneInv
  BY DEF Init, LockNamed, NotStarted, LockOwned, HolderOwnsLock, AloneInv, Holding
<1>2. QuietInv
  BY QueueTaskAssumption DEF QueueTaskAssumption, Init, QuietInv, NoLock
<1> QED
  BY <1>1, <1>2, InitType DEF MutexInv

\* Whoever is at work runs.
LEMMA HoldersRun ==
    ASSUME NotStarted, NEW e \in Engines, pc[e] \in Holding
    PROVE  e \in world.engines
BY DEF NotStarted, Holding

\* A step that leaves the lock alone and neither takes an engine into the
\* critical section nor out of it.
LEMMA OutsideStep ==
    ASSUME MutexInv, NEW e \in world.engines, NEW where \in EnginePCs,
           pc' = [pc EXCEPT ![e] = where], lock' = lock,
           UNCHANGED <<robbed, world, crashes>>,
           where \in {"prune", "bootPrune"} => ~Quiet,
           pc[e] \in Holding <=> where \in Holding
    PROVE  (LockNamed /\ NotStarted /\ LockOwned /\ QuietInv /\ AloneInv)'
<1>0. pc \in [Engines -> EnginePCs]
  BY DEF MutexInv, TypeInv, TypeOK
<1>a. e \in Engines
  BY QueueTaskAssumption DEF QueueTaskAssumption, MutexInv, TypeInv, TypeOK
<1>1. NotStarted' /\ LockNamed'
  BY <1>0 DEF MutexInv, NotStarted, LockNamed
<1>2. LockOwned'
  BY <1>0, <1>a DEF MutexInv, LockOwned, HolderOwnsLock
<1>3. QuietInv'
  BY <1>0, <1>a DEF MutexInv, QuietInv, Quiet
<1>4. AloneInv'
  BY DEF MutexInv, AloneInv, Alone
<1> QED BY <1>1, <1>2, <1>3, <1>4

\* A step in which somebody removes the lock file by name, whosever it is.
LEMMA RobbingStep ==
    ASSUME MutexInv, NotStarted', \A y \in Engines : pc'[y] \in Holding => pc[y] \in Holding,
           lock' = NoLock, robbed' = (robbed \/ Robs),
           UNCHANGED <<world, crashes>>, ~Quiet,
           "flush" \in world.faults \/ (Alone => \A y \in Engines : pc[y] \notin Holding)
    PROVE  (LockNamed /\ NotStarted /\ LockOwned /\ QuietInv /\ AloneInv)'
<1>0. lock \in [owner : Engines \cup {"nobody"}, stale : BOOLEAN] /\ "nobody" \notin Engines
  BY QueueTaskAssumption DEF QueueTaskAssumption, MutexInv, TypeInv, TypeOK
<1>1. LockNamed'
  BY DEF LockNamed
<1>2. LockOwned'
  <2> SUFFICES ASSUME ~robbed', NEW e \in Engines, pc'[e] \in Holding PROVE FALSE
    BY DEF LockOwned, HolderOwnsLock
  <2>1. pc[e] \in Holding
    OBVIOUS
  <2>2. ~robbed /\ ~Robs
    OBVIOUS
  <2>3. lock.owner = e
    BY <2>1, <2>2 DEF MutexInv, LockOwned, HolderOwnsLock
  <2>4. lock # NoLock
    BY <2>3, <1>0 DEF NoLock
  <2> QED BY <2>1, <2>2, <2>3, <2>4 DEF Robs
<1>3. QuietInv'
  BY DEF QuietInv, Quiet
<1>4. AloneInv'
  <2> SUFFICES ASSUME Alone, "flush" \notin world.faults PROVE ~robbed'
    BY DEF AloneInv, Alone
  <2>1. ~robbed
    BY DEF MutexInv, AloneInv
  <2>2. \A y \in Engines : pc[y] \notin Holding
    OBVIOUS
  <2>3. ~Robs
    <3> SUFFICES ASSUME lock # NoLock, pc[lock.owner] \in Holding PROVE FALSE
      BY DEF Robs
    <3>1. lock.owner \in Engines
      BY <1>0 DEF MutexInv, LockNamed
    <3> QED BY <2>2, <3>1
  <2> QED BY <2>1, <2>3
<1> QED BY <1>1, <1>2, <1>3, <1>4

\* Every step keeps account of who has the lock.
LEMMA MutexStep == MutexInv /\ [Next]_vars => MutexInv'
<1> SUFFICES ASSUME MutexInv, [Next]_vars
             PROVE  (LockNamed /\ NotStarted /\ LockOwned /\ QuietInv /\ AloneInv)'
  BY TypeStep DEF MutexInv
<1> DEFINE Goal == (LockNamed /\ NotStarted /\ LockOwned /\ QuietInv /\ AloneInv)'
<1>a. /\ TypeOK /\ LockNamed /\ NotStarted /\ LockOwned /\ QuietInv /\ AloneInv
      /\ pc \in [Engines -> EnginePCs] /\ world.engines \subseteq Engines
      /\ lock \in [owner : Engines \cup {"nobody"}, stale : BOOLEAN]
      /\ "nobody" \notin Engines
  BY QueueTaskAssumption DEF QueueTaskAssumption, MutexInv, TypeInv, TypeOK
<1>b. Quiet => ~Stale
  BY <1>a DEF Stale, QuietInv
<1>1. ASSUME UNCHANGED <<pc, lock, robbed, world, crashes>> PROVE Goal
  BY <1>1, <1>a DEF LockNamed, NotStarted, LockOwned, HolderOwnsLock, QuietInv, Quiet, AloneInv, Alone
<1>2. ASSUME NEW t \in GwTasks, Trigger(t) PROVE Goal
  BY <1>1, <1>2 DEF Trigger, engVars, plantVars
<1>3. CASE GatewayStep
  BY <1>1, <1>3 DEF GatewayStep, GwCheck, GwPop, GwCreate, GwWrite, GwWriteFails, engVars, plantVars
<1>4. ASSUME NEW t \in CliTasks, CliCreate(t) \/ CliWrite(t) \/ CliWriteFails(t) PROVE Goal
  BY <1>1, <1>4 DEF CliCreate, CliWrite, CliWriteFails, engVars, plantVars
<1>5. CASE FlushLocks
  <2>1. NotStarted' /\ ~Quiet /\ pc' = pc
    BY <1>5, <1>a DEF FlushLocks, engVars, plantVars, NotStarted, Quiet
  <2> QED
    BY <1>5, <2>1, RobbingStep DEF FlushLocks, plantVars
<1>6. ASSUME NEW e \in world.engines, EngineStep(e) PROVE Goal
  <2> USE DEF Goto, Holding, EnginePCs
  <2>e. e \in Engines
    BY <1>a
  <2>1. CASE Boot(e)
    BY <2>1, <1>b, OutsideStep DEF Boot, plantVars
  <2>2. CASE Prune(e)
    <3>1. ~Quiet
      BY <2>2, <2>e, <1>a DEF Prune, QuietInv
    <3>2. NotStarted'
      BY <2>2, <1>a DEF Prune, plantVars, NotStarted
    <3>3. \A y \in Engines : pc'[y] \in Holding => pc[y] \in Holding
      BY <2>2, <1>a DEF Prune
    <3>4. Alone => \A y \in Engines : pc[y] \notin Holding
      BY <2>2, <1>a, HoldersRun DEF Prune, Alone
    <3> QED
      BY <2>2, <3>1, <3>2, <3>3, <3>4, RobbingStep DEF Prune, plantVars
  <2>3. CASE Poll(e)
    BY <2>3, OutsideStep DEF Poll, plantVars
  <2>4. CASE Open(e)
    BY <2>4, OutsideStep DEF Open, plantVars
  <2>5. CASE ArchiveUnread(e)
    BY <2>5, OutsideStep DEF ArchiveUnread, plantVars
  <2>6. CASE Route(e)
    BY <2>6, OutsideStep DEF Route, plantVars
  <2>7. CASE LockAge(e)
    BY <2>7, <1>b, OutsideStep DEF LockAge, plantVars
  <2>8. CASE Acquire(e)
    <3>1. CASE lock = NoLock
      <4>1. /\ pc' = [pc EXCEPT ![e] = "work"] /\ lock' = [owner |-> e, stale |-> FALSE]
            /\ robbed' = (robbed /\ \E x \in Engines : pc[x] \in Holding)
            /\ UNCHANGED <<world, crashes>>
        BY <2>8, <3>1 DEF Acquire, plantVars
      <4>2. ~robbed => \A x \in Engines : pc[x] \notin Holding
        BY <3>1, <1>a DEF LockOwned, HolderOwnsLock, NoLock
      <4>3. ~robbed' => \A x \in Engines : pc[x] \notin Holding
        BY <4>1, <4>2
      <4>4. LockNamed' /\ NotStarted'
        BY <4>1, <1>a DEF LockNamed, NotStarted
      <4>5. LockOwned'
        BY <4>1, <4>3, <1>a, <2>e DEF LockOwned, HolderOwnsLock
      <4>6. QuietInv'
        BY <4>1, <1>a, <2>e DEF QuietInv, Quiet
      <4>7. AloneInv'
        BY <4>1, <1>a DEF AloneInv, Alone
      <4> QED BY <4>4, <4>5, <4>6, <4>7
    <3>2. CASE lock # NoLock
      BY <2>8, <3>2, OutsideStep DEF Acquire, plantVars
    <3> QED BY <3>1, <3>2
  <2>9. ASSUME NEW success \in BOOLEAN, WorkEnds(e, success) PROVE Goal
    BY <2>9, OutsideStep DEF WorkEnds, plantVars
  <2>10. CASE ArchiveFailed(e)
    BY <2>10, OutsideStep DEF ArchiveFailed, plantVars
  <2>11. CASE FinishCheck(e)
    BY <2>11, OutsideStep DEF FinishCheck, plantVars
  <2>12. CASE FinishRemove(e)
    BY <2>12, OutsideStep DEF FinishRemove, plantVars
  <2>13. CASE Deliver(e)
    BY <2>13, OutsideStep DEF Deliver, plantVars
  <2>14. CASE Release(e)
    <3>1. /\ pc[e] \in Holding /\ lock' = NoLock /\ UNCHANGED <<robbed, world, crashes>>
          /\ pc' \in {[pc EXCEPT ![e] = "dead"], [pc EXCEPT ![e] = "poll"]}
      BY <2>14 DEF Release, plantVars
    <3>2. ~robbed => lock.owner = e
      BY <3>1, <2>e, <1>a DEF LockOwned, HolderOwnsLock
    <3>3. ~robbed => \A x \in Engines : x # e => pc[x] \notin Holding
      BY <3>2, <1>a DEF LockOwned, HolderOwnsLock
    <3>4. LockNamed' /\ NotStarted'
      BY <3>1, <1>a DEF LockNamed, NotStarted
    <3>5. LockOwned'
      BY <3>1, <3>3, <2>e, <1>a DEF LockOwned, HolderOwnsLock
    <3>6. QuietInv'
      BY <3>1, <2>e, <1>a DEF QuietInv, Quiet, NoLock
    <3>7. AloneInv'
      BY <3>1, <1>a DEF AloneInv, Alone
    <3> QED BY <3>4, <3>5, <3>6, <3>7
  <2>15. CASE Restart(e)
    BY <2>15, OutsideStep DEF Restart, plantVars
  <2> QED
    BY <1>6, <2>1, <2>2, <2>3, <2>4, <2>5, <2>6, <2>7, <2>8, <2>9, <2>10, <2>11, <2>12, <2>13,
       <2>14, <2>15 DEF EngineStep
<1>7. ASSUME NEW e \in world.engines, PruneFails(e) \/ ArchiveFails(e) PROVE Goal
  BY <1>7, OutsideStep DEF PruneFails, ArchiveFails, plantVars, Goto, Holding, EnginePCs
<1>8. ASSUME NEW e \in world.engines, WorkDies(e) \/ Crash(e) PROVE Goal
  <2>1. /\ crashes' = crashes + 1 /\ UNCHANGED <<lock, robbed, world>>
        /\ \A y \in Engines : pc'[y] \in Holding => pc[y] \in Holding
        /\ \A y \in Engines : y \notin world.engines => pc'[y] = pc[y]
    BY <1>8, <1>a DEF WorkDies, Crash, plantVars, Goto, Holding
  <2>2. ~Quiet'
    BY <2>1, QueueTaskAssumption DEF QueueTaskAssumption, MutexInv, TypeInv, TypeOK, Quiet
  <2> QED
    BY <2>1, <2>2, <1>a DEF LockNamed, NotStarted, LockOwned, HolderOwnsLock, QuietInv, AloneInv, Alone
<1>9. CASE LockAges
  <2>1. lock.owner \in Engines
    BY <1>9, <1>a DEF LockAges, LockNamed
  <2>2. /\ lock' = [lock EXCEPT !.stale = TRUE] /\ UNCHANGED <<pc, robbed, world, crashes>>
        /\ pc[lock.owner] \in Holding => "slow" \in world.faults
    BY <1>9 DEF LockAges, engVars, plantVars
  <2>3. ~Quiet
    BY <2>1, <2>2, <1>a DEF Quiet, QuietInv
  <2>4. lock'.owner = lock.owner
    BY <2>2, <1>a
  <2> QED
    BY <2>1, <2>2, <2>3, <2>4, <1>a
    DEF LockNamed, NotStarted, LockOwned, HolderOwnsLock, QuietInv, Quiet, AloneInv, Alone
<1>10. CASE UNCHANGED vars
  BY <1>1, <1>10 DEF vars, engVars, plantVars
<1> QED
  BY <1>2, <1>3, <1>4, <1>5, <1>6, <1>7, <1>8, <1>9, <1>10 DEF Next

\* For any number of engines, through crashes, stale locks, slow tasks and
\* flushes: two engines are in run_loop's critical section together, or one is
\* there without its lock, only after the lock of an engine at work has been
\* removed by a pruning or a flush, and until all engines have left the section.
THEOREM EnginesExclusive == Spec => []ExclusiveUnlessRobbed
<1>1. MutexInv => ExclusiveUnlessRobbed
  BY DEF MutexInv, LockOwned, HolderOwnsLock, ExclusiveUnlessRobbed, MutualExclusion
<1> QED
  BY InitMutex, MutexStep, <1>1, PTL DEF Spec

\* _prune_stale_processing_lock takes the lock of an engine at work only when
\* several engines race for it, after a crash or over a task that outlasts
\* LOCK_STALE_S; a single engine never loses its lock to a pruning.
THEOREM LocksAreLostInRaces == Spec => []RobbedNeedsRace
<1>1. MutexInv => RobbedNeedsRace
  <2> SUFFICES ASSUME MutexInv, robbed, "flush" \notin world.faults
               PROVE  ~Alone /\ (crashes > 0 \/ "slow" \in world.faults)
    BY DEF RobbedNeedsRace
  <2>1. ~Alone
    BY DEF MutexInv, AloneInv
  <2>2. ~Quiet
    BY DEF MutexInv, QuietInv
  <2>3. crashes \in Nat
    BY QueueTaskAssumption DEF QueueTaskAssumption, MutexInv, TypeInv, TypeOK
  <2> QED BY <2>1, <2>2, <2>3 DEF Quiet
<1> QED
  BY InitMutex, MutexStep, <1>1, PTL DEF Spec

-----------------------------------------------------------------------------
(* A single reliable engine: no task is lost, run again without a failure,  *)
(* or taken out of the slot by mistake                                      *)

\* The engine has read the slot's task and has not taken it out yet; from the
\* acquisition of the lock on, the task's execution has started.
AtWork == {"work", "fail", "finish", "remove"}
TaskRead == {"route", "lock", "prune", "acquire"} \cup AtWork

\* A task that has not reached the slot yet.
Waiting(t) ==
    \/ t \in GwTasks /\ (seq[t] = 0 \/ t \in buffer)
    \/ gw.pc = "create" /\ gw.task = t
    \/ t \in CliTasks /\ cli[t] \in {"new", "refused"}

\* A task waits in one place only, and reaches the slot for the first time
\* without having been written or executed.
WaitingInv ==
    /\ \A t \in Tasks : Waiting(t) => t # slot /\ t \notin written
    /\ \A t \in Tasks : t \notin written => execs[t] = 0
    /\ gw.pc \in {"sleep", "pop"} => gw.task = NoTask
    /\ gw.pc \in {"create", "write"} => gw.task \notin buffer /\ seq[gw.task] # 0
    /\ buffer \subseteq Accepted

\* Whoever created the slot file and has not written it yet finds it there,
\* and nobody else leaves a slot file without content than a CLI call that
\* failed, and said so.
CreatorInv ==
    /\ gw.pc = "write" => slot = gw.task /\ slot \notin written
    /\ \A t \in CliTasks : cli[t] = "created" => slot = t /\ slot \notin written
    /\ slot # NoTask /\ slot \notin written /\ ~BeingWritten =>
          slot \in CliTasks /\ cli[slot] = "failed"

\* The slot keeps the task the engine read until the engine takes it out.
SlotInv ==
    \A e \in Engines :
        /\ pc[e] = "open" => slot # NoTask
        /\ pc[e] = "unread" => slot \in CliTasks /\ cli[slot] = "failed" /\ slot \notin written
        /\ pc[e] \in TaskRead => slot = task[e] /\ slot \in written
        /\ pc[e] \in AtWork => execs[slot] > 0

\* Every execution of the slot's task but the one under way ended in a crash,
\* or in a failure whose archiving failed.
CountInv ==
    /\ slot # NoTask /\ (\A e \in Engines : pc[e] \notin AtWork) =>
          execs[slot] <= crashes + unarchived
    /\ \A t \in Tasks : execs[t] <= 1 + crashes + unarchived

\* NoTaskLost, without its condition
Kept == \A t \in Accepted : execs[t] = 0 => t \in buffer \/ gw.task = t \/ slot = t

DeliveryInv == WaitingInv /\ CreatorInv /\ SlotInv /\ CountInv /\ Kept

QueueInv == MutexInv /\ (Reliable => DeliveryInv)

\* No task has been accepted at first.
LEMMA InitDelivery == Init => QueueInv
<1> SUFFICES ASSUME Init PROVE DeliveryInv
  BY InitMutex DEF QueueInv
<1> USE DEF Init
<1>2. WaitingInv
  BY QueueTaskAssumption DEF QueueTaskAssumption, WaitingInv, Waiting, Tasks
<1>3. CreatorInv /\ SlotInv /\ CountInv
  BY DEF CreatorInv, SlotInv, CountInv, AtWork, TaskRead
<1>4. Kept
  BY DEF Kept, Accepted
<1> QED BY <1>2, <1>3, <1>4 DEF DeliveryInv

\* Every step of one reliable engine, the gateway, the CLI and the operator
\* keeps track of every accepted task.
LEMMA DeliveryStep == QueueInv /\ [Next]_vars => QueueInv'
<1> SUFFICES ASSUME MutexInv, Reliable, DeliveryInv, [Next]_vars PROVE DeliveryInv'
  <2>1. ASSUME QueueInv, [Next]_vars PROVE MutexInv' /\ world' = world
    <3>1. world' = world
      BY <2>1 DEF Next, vars, GatewayStep, EngineStep, Trigger, GwCheck, GwPop, GwCreate, GwWrite,
         GwWriteFails, CliCreate, CliWrite, CliWriteFails, FlushLocks, Boot, Prune, PruneFails, Poll,
         Open, ArchiveUnread, Route, LockAge, Acquire, WorkEnds, WorkDies, ArchiveFailed,
         ArchiveFails, FinishCheck, FinishRemove, Deliver, Release, Crash, Restart, LockAges, plantVars
    <3> QED BY <2>1, <3>1, MutexStep DEF QueueInv
  <2>2. ASSUME world' = world PROVE Reliable' <=> Reliable
    BY <2>2 DEF Reliable, Alone
  <2> QED BY <2>1, <2>2 DEF QueueInv
<1>a. TypeInv /\ TypeInv' /\ world.engines \subseteq Engines
  BY TypeStep, QueueTaskAssumption DEF QueueTaskAssumption, MutexInv, TypeInv, TypeOK
<1>b. \A e \in world.engines : \A y \in Engines : y = e \/ pc[y] = "boot"
  BY DEF MutexInv, NotStarted, Reliable, Alone
<1>b2. "torn" \notin world.faults /\ "gwio" \notin world.faults
  BY DEF Reliable
<1>c. NoTask \notin Tasks /\ GwTasks \subseteq Tasks /\ CliTasks \subseteq Tasks /\ GwTasks \cap CliTasks = {}
  BY QueueTaskAssumption DEF QueueTaskAssumption, Tasks
<1>d. crashes \in Nat /\ unarchived \in Nat
  BY <1>a, QueueTaskAssumption DEF QueueTaskAssumption, TypeInv, TypeOK
<1> USE <1>a, <1>b, <1>b2, <1>c, <1>d
<1> USE DEF DeliveryInv, TypeInv, TypeOK, TaskAtHand, WaitingInv, Waiting, CreatorInv, BeingWritten, SlotInv,
            CountInv, Kept, Accepted, AtWork, TaskRead, Goto, queueVars, engVars, plantVars
<1>1. ASSUME NEW t \in GwTasks, Trigger(t) PROVE DeliveryInv'
  <2> DEFINE n == 1 + Cardinality({u \in GwTasks : seq[u] # 0})
  <2>1. n \in Nat /\ n # 0
    <3> HIDE DEF DeliveryInv
    <3> QED BY ArrivalNat
  <2>2. seq' = [seq EXCEPT ![t] = n] /\ seq[t] = 0 /\ buffer' = buffer \cup {t}
    BY <1>1 DEF Trigger
  <2>3. UNCHANGED <<gw, cli, slot, written, pc, task, crashes, execs, unarchived>>
    BY <1>1 DEF Trigger
  <2> HIDE DEF n
  <2>4. \A u \in GwTasks : seq'[u] = 0 => seq[u] = 0
    BY <2>1, <2>2
  <2>5. \A u \in Tasks : Waiting(u)' => Waiting(u)
    BY <2>2, <2>3, <2>4
  <2>6. \A u \in GwTasks : seq[u] # 0 \/ u = t => seq'[u] # 0
    BY <2>1, <2>2
  <2>7. buffer' \subseteq Accepted'
    BY <2>2, <2>3, <2>6
  <2>8. gw'.pc \in {"create", "write"} => gw'.task \notin buffer' /\ seq'[gw'.task] # 0
    BY <2>2, <2>3, <2>6
  <2>9. WaitingInv'
    BY <2>3, <2>5, <2>7, <2>8
  <2>10. Kept'
    BY <2>2, <2>3
  <2> QED BY <2>3, <2>9, <2>10
<1>2. CASE GwCheck
  BY <1>2 DEF GwCheck
<1>3. CASE GwPop
  BY <1>3 DEF GwPop
<1>4. CASE GwCreate
  BY <1>4 DEF GwCreate
<1>5. CASE GwWrite
  BY <1>5 DEF GwWrite
<1>6. CASE GwWriteFails
  BY <1>6 DEF GwWriteFails
<1>7. ASSUME NEW t \in CliTasks, CliCreate(t) PROVE DeliveryInv'
  BY <1>7 DEF CliCreate
<1>8. ASSUME NEW t \in CliTasks, CliWrite(t) PROVE DeliveryInv'
  BY <1>8 DEF CliWrite
<1>8a. ASSUME NEW t \in CliTasks, CliWriteFails(t) PROVE DeliveryInv'
  BY <1>8a DEF CliWriteFails
<1>9. CASE FlushLocks
  BY <1>9 DEF FlushLocks
<1>10. ASSUME NEW e \in world.engines, Boot(e) PROVE DeliveryInv'
  BY <1>10 DEF Boot
<1>11. ASSUME NEW e \in world.engines, Prune(e) PROVE DeliveryInv'
  BY <1>11 DEF Prune
<1>11a. ASSUME NEW e \in world.engines, PruneFails(e) PROVE DeliveryInv'
  BY <1>11a DEF PruneFails
<1>12. ASSUME NEW e \in world.engines, Poll(e) PROVE DeliveryInv'
  BY <1>12 DEF Poll
<1>13. ASSUME NEW e \in world.engines, Open(e) PROVE DeliveryInv'
  BY <1>13 DEF Open
<1>14. ASSUME NEW e \in world.engines, ArchiveUnread(e) PROVE DeliveryInv'
  BY <1>14 DEF ArchiveUnread
<1>15. ASSUME NEW e \in world.engines, Route(e) PROVE DeliveryInv'
  BY <1>15 DEF Route
<1>16. ASSUME NEW e \in world.engines, LockAge(e) PROVE DeliveryInv'
  BY <1>16 DEF LockAge
<1>17. ASSUME NEW e \in world.engines, Acquire(e) PROVE DeliveryInv'
  BY <1>17 DEF Acquire
<1>18. ASSUME NEW e \in world.engines, NEW success \in BOOLEAN, WorkEnds(e, success) PROVE DeliveryInv'
  BY <1>18 DEF WorkEnds
<1>19. ASSUME NEW e \in world.engines, WorkDies(e) PROVE DeliveryInv'
  BY <1>19 DEF WorkDies
<1>20. ASSUME NEW e \in world.engines, ArchiveFailed(e) PROVE DeliveryInv'
  BY <1>20 DEF ArchiveFailed
<1>20a. ASSUME NEW e \in world.engines, ArchiveFails(e) PROVE DeliveryInv'
  BY <1>20a DEF ArchiveFails
<1>21. ASSUME NEW e \in world.engines, FinishCheck(e) PROVE DeliveryInv'
  BY <1>21 DEF FinishCheck
<1>22. ASSUME NEW e \in world.engines, FinishRemove(e) PROVE DeliveryInv'
  BY <1>22 DEF FinishRemove
<1>23. ASSUME NEW e \in world.engines, Deliver(e) PROVE DeliveryInv'
  BY <1>23 DEF Deliver
<1>24. ASSUME NEW e \in world.engines, Release(e) PROVE DeliveryInv'
  BY <1>24 DEF Release
<1>25. ASSUME NEW e \in world.engines, Restart(e) PROVE DeliveryInv'
  BY <1>25 DEF Restart
<1>26. ASSUME NEW e \in world.engines, Crash(e) PROVE DeliveryInv'
  BY <1>26 DEF Crash
<1>27. CASE LockAges
  BY <1>27 DEF LockAges
<1>28. CASE UNCHANGED vars
  BY <1>28 DEF vars
<1> HIDE DEF DeliveryInv
<1> QED
  BY <1>8a, <1>11a, <1>20a, <1>1, <1>2, <1>3, <1>4, <1>5, <1>6, <1>7, <1>8, <1>9, <1>10, <1>11, <1>12, <1>13, <1>14,
     <1>15, <1>16, <1>17, <1>18, <1>19, <1>20, <1>21, <1>22, <1>23, <1>24, <1>25, <1>26, <1>27,
     <1>28
  DEF Next, GatewayStep, EngineStep

\* With one engine that reads whole slot files, and a gateway whose writes
\* succeed, no accepted task disappears unexecuted: not in the gateway's heap,
\* not between its pop and the creation of the slot, not when an engine crashes
\* anywhere, dies on a poisoned task, cannot archive, outlasts its lock or loses
\* it to a flush, and not when a CLI call leaves an unreadable file behind.
THEOREM NoTaskEverLost == Spec => []NoTaskLost
<1>1. QueueInv => NoTaskLost
  BY DEF QueueInv, DeliveryInv, Kept, NoTaskLost
<1> QED BY InitDelivery, DeliveryStep, <1>1, PTL DEF Spec

\* Under the same conditions a task is executed once, and once more for each
\* crash or unhandled exception of the engine and for each failed move of the
\* slot file to failed/.
THEOREM RerunsAreFailures == Spec => []RerunsNeedFailure
<1>1. QueueInv => RerunsNeedFailure
  BY DEF QueueInv, DeliveryInv, CountInv, RerunsNeedFailure
<1> QED BY InitDelivery, DeliveryStep, <1>1, PTL DEF Spec

\* Under the same conditions _handle_failure and the os.remove of a finished
\* task take out of the slot the task the engine ran, never one that was
\* dropped there meanwhile.
THEOREM EngineRemovesOwnTask == Spec => RemovesOwnTask
<1> DEFINE A == Reliable => \A e \in Engines :
                   pc[e] \in {"fail", "remove"} /\ pc'[e] # pc[e] /\ slot # slot' => slot = task[e]
<1>1. QueueInv => A
  BY DEF QueueInv, DeliveryInv, SlotInv, TaskRead, AtWork
<1>2. RemovesOwnTask <=> [][A]_vars
  BY DEF RemovesOwnTask
<1> HIDE DEF A
<1> QED BY InitDelivery, DeliveryStep, <1>1, <1>2, PTL DEF Spec
=============================================================================
