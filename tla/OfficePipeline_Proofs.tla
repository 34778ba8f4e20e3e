----------------------- MODULE OfficePipeline_Proofs ------------------------
(***************************************************************************)
(* What the office pipeline promises, for every set of business cases,     *)
(* files and validators and every number of runs:                          *)
(*   - the quorum gate of the live workspace;                              *)
(*   - stages in order, and none executed twice;                           *)
(*   - clean staging, no older file over a newer one, crash-atomic commits;*)
(*   - the operator's lock after a quorum dissent.                         *)
(* Crashes and time-outs are always allowed; a theorem that excludes other *)
(* faults names them.                                                      *)
(***************************************************************************)
EXTENDS OfficePipeline, FiniteSetTheorems, TLAPS

\* The pcs at which a transaction is open, and those without an attempt.
Working == {"agent", "vote", "record", "commit", "recordHalt", "rollback"}
Idle == {"down", "gate", "resolve", "resolved", "seed", "group", "begin", "event", "state",
         "build", "clear", "built", "result"}

\* The attempt's ballots met the quorum, or a crash saved it from its rollback.
Good(a) == info[a].voted /\ (Accepts(info[a].passed) \/ info[a].cut)

\* The next run of the attempt's case would replay its staging directory.
Replayable(a) == ckpt # NoCkpt /\ ckpt.case = info[a].case /\ info[a].stage <= ckpt.stage

\* Which attempt the process works on, and where; and that an envelope in a queue
\* is the one under way, unless the group is being cancelled.
AttemptInv ==
    /\ pc \in Idle => att = 0
    /\ pc \in Working => att # 0
    /\ att # 0 /\ pc # "clean" => info[att].case = case /\ info[att].stage = stage
    /\ pc \in {"begin"} \cup (Working \ {"rollback"}) => stage \in Stages
    /\ zombie => /\ pc \in {"rollback", "close"}
                 /\ att # 0
                 /\ kind = "error"
                 /\ stage \in Stages
    /\ pc = "recordHalt" => kind = "dissent"
    /\ \A s \in Stages : queues[s] = "envelope" =>
          (pc = "group" /\ stage = s + 1) \/ pc \in {"rollback", "close", "event", "state"}

\* Attempt numbers beyond next are unused.
FreshInv ==
    /\ att <= next
    /\ \A a \in dirs : a <= next /\ info[a].stage \in Stages
    /\ \A f \in Files : live[f] <= next

\* How the checkpoint relates to where the process is.
CheckpointInv ==
    /\ pc \in {"clean", "gate", "resolve", "resolved", "seed"} => resume = Load(case)
    /\ pc = "resolve" => resume # NoCkpt
    /\ pc \in {"group", "begin", "agent", "vote", "record", "recordHalt"} \/ zombie =>
          Load(case) = NoCkpt \/ ckpt.stage < stage
    /\ pc = "commit" => Load(case) = NoCkpt \/ ckpt.stage <= stage

\* Only attempts that met the quorum are live, or could be replayed.
LiveGood == \A f \in Files : live[f] # 0 => Good(live[f])

DirsGood ==
    \A a \in dirs : Replayable(a) =>
        Good(a) \/ (a = att /\ kind = "dissent" /\ pc = "rollback")

\* From the end of the clean-up on, a directory of this case is one that met
\* the quorum or the one at work.
MineGood ==
    pc \in {"gate", "resolve", "resolved", "seed", "group", "begin"} \cup (Working \ {"rollback"}) =>
        \A a \in dirs : info[a].case = case => Good(a) \/ a = att

AttemptGood ==
    /\ pc \in {"agent", "vote"} => ~info[att].voted
    /\ pc \in {"record", "commit"} \/ (pc = "clean" /\ att # 0) => Good(att)
    /\ pc = "recordHalt" \/ (pc = "rollback" /\ kind = "dissent") => info[att].voted

QuorumInv == LiveGood /\ DirsGood /\ MineGood /\ AttemptGood

\* The first three parts are inductive by themselves, whatever the faults.
BaseInv == TypeOK /\ AttemptInv /\ FreshInv /\ CheckpointInv

GateInv == BaseInv /\ QuorumInv

-----------------------------------------------------------------------------
(* The threshold *)

\* What _enforce_quorum accepts is strictly more than two thirds of the
\* ballots, in either mode and for any number of validators.
LEMMA AcceptedIsTwoThirds ==
    ASSUME NEW P \in SUBSET Validators, Accepts(P)
    PROVE  MoreThanTwoThirds(P)
<1> DEFINE n == Cardinality(Validators)
           p == Cardinality(P)
<1>1. IsFiniteSet(Validators) /\ n \in Nat /\ n # 0
  BY QuorumAssumption, FS_CardinalityType, FS_EmptySet DEF QuorumAssumption
<1>2. p \in Nat
  BY <1>1, FS_Subset, FS_CardinalityType
<1>3. p >= RequiredPasses(n)
  BY DEF Accepts
<1>4. RequiredPasses(n) = n \/ RequiredPasses(n) = (2 * n) \div 3 + 1
  BY <1>1 DEF RequiredPasses
<1> HIDE DEF n, p
<1>5. 3 * p > 2 * n
  BY <1>1, <1>2, <1>3, <1>4
<1> QED
  BY <1>5 DEF MoreThanTwoThirds, n, p

-----------------------------------------------------------------------------
(* Types *)

\* emit_event keeps the log's tail within the reader's window.
LEMMA EmitType ==
    ASSUME TypeOK, NEW e \in GovEvents, Emit(e)
    PROVE  gov' \in Seq(GovEvents) /\ Len(gov') <= Window /\ lost' \in BOOLEAN
<1>0. lost' \in BOOLEAN
  BY DEF Emit
<1>1. Window \in Nat \ {0}
  BY PipelineAssumption DEF PipelineAssumption
<1>2. CASE Len(gov) = Window
  <2>1. Tail(gov) \in Seq(GovEvents) /\ Len(Tail(gov)) = Window - 1
    BY <1>1, <1>2 DEF TypeOK
  <2> QED BY <1>0, <1>1, <1>2, <2>1 DEF Emit
<1>3. CASE Len(gov) # Window
  BY <1>0, <1>1, <1>3 DEF Emit, TypeOK
<1> QED BY <1>2, <1>3

\* A process that ends leaves typed variables behind.
LEMMA ExitType ==
    ASSUME Exit
    PROVE  /\ pc' \in PCs /\ resolve' \in BOOLEAN /\ resume' \in Snapshots \cup {NoCkpt}
           /\ stage' \in Stages \cup {BuildStage} /\ att' \in Attempts \cup {0}
           /\ kind' \in HaltKinds /\ zombie' \in BOOLEAN
           /\ queues' \in [Stages -> {"empty", "envelope", "STOP"}] /\ task' \in [Tasks -> TaskStates]
           /\ \A s \in Stages : queues'[s] = "empty"
<1>0. queues' = [s \in Stages |-> "empty"] /\ task' = [t \in Tasks |-> "off"]
  BY DEF Exit, NoGroup
<1>1. stage' \in Stages \cup {BuildStage}
  BY DEF Exit, Stages
<1>2. resolve' \in BOOLEAN /\ zombie' \in BOOLEAN
  BY DEF Exit
<1>3. pc' \in PCs /\ kind' \in HaltKinds
  BY DEF Exit, PCs, HaltKinds
<1> QED BY <1>0, <1>1, <1>2, <1>3 DEF Exit, TaskStates

\* The hand-off from a stage leads to the queue of a stage or of the build.
LEMMA HandOnType ==
    ASSUME TypeOK, NEW s \in Stages, HandOn(s)
    PROVE  /\ stage' \in Stages \cup {BuildStage} /\ pc' \in PCs
           /\ queues' \in [Stages -> {"empty", "envelope", "STOP"}] /\ task' \in [Tasks -> TaskStates]
<1>1. stage' \in Stages \cup {BuildStage}
  BY DEF HandOn, Stages, BuildStage
<1>2. pc' \in PCs
  BY DEF HandOn, PCs
<1>3. queues' \in [Stages -> {"empty", "envelope", "STOP"}] /\ task' \in [Tasks -> TaskStates]
  BY DEF HandOn, TypeOK, TaskStates
<1> QED BY <1>1, <1>2, <1>3

\* The group starts with each task at its queue, at work, or not at all.
LEMMA StartedType ==
    ASSUME NEW s \in Nat
    PROVE  Started(s) \in [Tasks -> TaskStates]
<1> SUFFICES ASSUME NEW t \in Tasks
             PROVE  (CASE t > s -> IF t = 1 THEN "work" ELSE "get"
                       [] t = 0 /\ s \in {1, 2} -> "stop"
                       [] OTHER -> "off") \in TaskStates
  BY DEF Started
<1>1. {"work", "get", "stop", "off"} \subseteq TaskStates
  BY DEF TaskStates
<1>2. CASE t > s
  BY <1>1, <1>2 DEF Tasks
<1>3. CASE ~(t > s) /\ t = 0 /\ s \in {1, 2}
  BY <1>1, <1>3
<1>4. CASE ~(t > s) /\ ~(t = 0 /\ s \in {1, 2})
  BY <1>1, <1>4
<1> QED BY <1>2, <1>3, <1>4

\* The bounded counters stay within their bounds.
LEMMA CounterType ==
    ASSUME TypeOK
    PROVE  /\ runs < MaxRuns => runs + 1 \in 0..MaxRuns
           /\ next < 3 * MaxRuns => next + 1 \in 0..(3 * MaxRuns) /\ next + 1 \in Attempts
           /\ 1 \in Stages
BY PipelineAssumption DEF PipelineAssumption, TypeOK, Attempts, Stages

\* CheckpointManager.load returns a snapshot or nothing.
LEMMA LoadType ==
    ASSUME TypeOK, NEW c
    PROVE  Load(c) \in Snapshots \cup {NoCkpt}
BY DEF TypeOK, Load

\* What record_stage writes is a snapshot.
LEMMA SnapshotType ==
    ASSUME TypeOK, NEW s \in Stages, NEW b \in BOOLEAN
    PROVE  Snapshot(s, b) \in Snapshots
BY DEF TypeOK, Snapshot, Snapshots

\* The ways the history of an attempt is changed.
LEMMA InfoType ==
    ASSUME TypeOK, NEW f \in Files, NEW a
    PROVE  /\ [info EXCEPT ![a].applied = @ \cup {f}] \in [Attempts -> AttemptInfo]
           /\ [info EXCEPT ![a].wrote = @ \cup {f}] \in [Attempts -> AttemptInfo]
<1>1. info \in [Attempts -> AttemptInfo]
  BY DEF TypeOK
<1>2. ASSUME NEW i \in AttemptInfo
      PROVE  /\ [i EXCEPT !.applied = i.applied \cup {f}] \in AttemptInfo
             /\ [i EXCEPT !.wrote = i.wrote \cup {f}] \in AttemptInfo
  BY DEF AttemptInfo
<1>3. CASE a \in Attempts
  <2>1. info[a] \in AttemptInfo
    BY <1>1, <1>3
  <2> QED BY <1>1, <1>2, <2>1
<1>4. CASE a \notin Attempts
  BY <1>1, <1>4
<1> QED BY <1>3, <1>4

\* A crash marks the refused attempt that it saves from its rollback, and no other.
LEMMA CutType ==
    ASSUME TypeOK, NEW a
    PROVE  [info EXCEPT ![a].cut = TRUE] \in [Attempts -> AttemptInfo]
<1>1. ASSUME NEW x \in AttemptInfo PROVE [x EXCEPT !.cut = TRUE] \in AttemptInfo
  BY DEF AttemptInfo
<1> QED BY <1>1 DEF TypeOK

\* The ballots of an attempt are validators.
LEMMA VoteType ==
    ASSUME TypeOK, NEW P \in SUBSET Validators, Vote(P)
    PROVE  info' \in [Attempts -> AttemptInfo]
<1>1. ASSUME NEW x \in AttemptInfo
      PROVE  [x EXCEPT !.voted = TRUE] \in AttemptInfo /\ [x EXCEPT !.passed = P] \in AttemptInfo
  BY DEF AttemptInfo
<1> QED BY <1>1 DEF TypeOK, Vote

\* The history of a fresh transaction is typed.
LEMMA NewAttemptType ==
    ASSUME TypeOK, NEW a, stage \in Stages
    PROVE  [info EXCEPT ![a] = [NoAttempt EXCEPT !.case = case, !.stage = stage]]
             \in [Attempts -> AttemptInfo]
<1>1. [NoAttempt EXCEPT !.case = case, !.stage = stage] \in AttemptInfo
  BY DEF TypeOK, NoAttempt, AttemptInfo
<1> QED BY <1>1 DEF TypeOK

\* The initial state satisfies the whole invariant.
LEMMA InitGate == Init => GateInv
<1> SUFFICES ASSUME Init PROVE GateInv
  OBVIOUS
<1> USE DEF Init
<1>1. TypeOK
  <2>1. MaxRuns \in Nat /\ Window \in Nat
    BY PipelineAssumption DEF PipelineAssumption
  <2>2. NoAttempt \in AttemptInfo
    BY DEF NoAttempt, AttemptInfo
  <2>3. info \in [Attempts -> AttemptInfo]
    BY <2>2
  <2>4. gov \in Seq(GovEvents) /\ Len(gov) <= Window
    BY <2>1
  <2>5. zombie \in BOOLEAN /\ resolve \in BOOLEAN
    OBVIOUS
  <2>6. queues = [s \in Stages |-> "empty"] /\ task = [t \in Tasks |-> "off"] /\ lost = FALSE
    BY DEF NoGroup
  <2>7. queues \in [Stages -> {"empty", "envelope", "STOP"}] /\ task \in [Tasks -> TaskStates]
    BY ONLY <2>6 DEF TaskStates
  <2>8. live \in [Files -> Attempts \cup {0}] /\ staged \in [Attempts -> SUBSET Files]
    OBVIOUS
  <2>9. pc \in PCs /\ kind \in HaltKinds /\ stage \in Stages
    BY DEF PCs, HaltKinds, Stages
  <2>10. lost \in BOOLEAN /\ case \in Cases
    BY <2>6
  <2>11. dirs = {} /\ ckpt = NoCkpt /\ resume = NoCkpt /\ att = 0 /\ runs = 0 /\ next = 0
    OBVIOUS
  <2> HIDE DEF Init
  <2> QED BY <2>1, <2>3, <2>4, <2>5, <2>7, <2>8, <2>9, <2>10, <2>11 DEF TypeOK
<1>2. next \in Nat /\ (\A f \in Files : live[f] = 0) /\ (\A s \in Stages : queues[s] = "empty")
  BY DEF NoGroup
<1> QED
  BY <1>1, <1>2 DEF GateInv, BaseInv, AttemptInv, FreshInv, CheckpointInv, QuorumInv, LiveGood, DirsGood, MineGood,
     AttemptGood, Idle, Working

\* A step that changes nothing keeps them.
LEMMA TypeStutter == TypeOK /\ UNCHANGED vars => TypeOK'
BY DEF TypeOK, vars, disk, proc, group

\* Every step keeps the types.
LEMMA TypeStep == BaseInv /\ [Next]_vars => TypeOK'
<1> SUFFICES ASSUME BaseInv, [Next]_vars PROVE TypeOK'
  OBVIOUS
<1> USE DEF BaseInv, TypeOK, AttemptInv, CheckpointInv, Idle, Working, PCs, HaltKinds, Stages, BuildStage,
           Attempts, GovEvents, group
<1>1. ASSUME NEW c \in Cases, NEW r \in BOOLEAN, Start(c, r) PROVE TypeOK'
  <2>1. runs' \in 0..MaxRuns
    BY <1>1, CounterType DEF Start
  <2>2. resume' \in Snapshots \cup {NoCkpt}
    BY <1>1, LoadType DEF Start
  <2> QED BY <1>1, <2>1, <2>2 DEF Start, disk
<1>2. ASSUME NEW a \in Attempts, CleanRemove(a) PROVE TypeOK'
  BY <1>2 DEF CleanRemove, proc, Mine
<1>3. ASSUME NEW a \in Attempts, CleanOpen(a) PROVE TypeOK'
  BY <1>3 DEF CleanOpen, disk, Mine
<1>4. ASSUME NEW f \in Files, CleanApply(f) PROVE TypeOK'
  <2>1. info' \in [Attempts -> AttemptInfo]
    BY <1>4, InfoType DEF CleanApply, Publish
  <2>2. live' \in [Files -> Attempts \cup {0}] /\ staged' \in [Attempts -> SUBSET Files]
    BY <1>4 DEF CleanApply, Publish
  <2> QED BY <1>4, <2>1, <2>2 DEF CleanApply, proc
<1>5. CASE CleanClose
  BY <1>5 DEF CleanClose
<1>6. CASE CleanDone
  BY <1>6 DEF CleanDone, disk
<1>7. CASE GatePass
  BY <1>7 DEF GatePass, disk
<1>8. CASE GateClosed
  BY <1>8, EmitType, ExitType DEF GateClosed
<1>9. CASE GateOpened
  BY <1>9, EmitType DEF GateOpened
<1>10. CASE ResolveInvalid
  BY <1>10, ExitType DEF ResolveInvalid, disk
<1>11. CASE ResolveIntervention
  <2>1. ckpt \in Snapshots
    BY <1>11 DEF ResolveIntervention, Load
  <2>2. ckpt' \in Snapshots
    BY <1>11, <2>1 DEF ResolveIntervention, Snapshots
  <2> QED BY <1>11, <2>2 DEF ResolveIntervention
<1>12. CASE SetRunning
  BY <1>12, EmitType DEF SetRunning
<1>13. CASE AgentMissing
  BY <1>13 DEF AgentMissing, Halt, disk
<1>14. CASE SeedFresh
  <2>1. stage' \in Stages \cup {BuildStage}
    BY <1>14, CounterType DEF SeedFresh
  <2>2. task' \in [Tasks -> TaskStates]
    BY <1>14, StartedType DEF SeedFresh
  <2> QED BY <1>14, <2>1, <2>2 DEF SeedFresh, disk
<1>15. ASSUME NEW P \in SUBSET Validators, SeedResume(P) PROVE TypeOK'
  <2>1. resume \in Snapshots /\ resume.stage \in Stages
    BY <1>15 DEF SeedResume, Snapshots
  <2>2. ckpt' \in Snapshots \cup {NoCkpt}
    BY <1>15, <2>1, SnapshotType DEF SeedResume
  <2>3. stage' \in Stages \cup {BuildStage} /\ pc' \in PCs
    <3>1. stage' = resume.stage + 1 /\ pc' = "group"
      BY <1>15 DEF SeedResume
    <3> QED BY ONLY <2>1, <3>1 DEF Stages, BuildStage, PCs
  <2>4. task' \in [Tasks -> TaskStates]
    <3>1. task' = Started(resume.stage)
      BY <1>15 DEF SeedResume
    <3>2. resume.stage \in Nat
      BY ONLY <2>1 DEF Stages
    <3> QED BY ONLY <3>1, <3>2, StartedType
  <2>5. queues' \in [Stages -> {"empty", "envelope", "STOP"}]
    BY <1>15 DEF SeedResume
  <2> QED BY <1>15, <2>2, <2>3, <2>4, <2>5 DEF SeedResume
<1>16. ASSUME NEW P \in SUBSET Validators, SeedDissent(P) PROVE TypeOK'
  BY <1>16 DEF SeedDissent, Halt, disk
<1>17. CASE InputMisaligned
  BY <1>17 DEF InputMisaligned, Halt, disk
<1>18. CASE Begin
  <2>1. info' \in [Attempts -> AttemptInfo]
    BY <1>18, NewAttemptType DEF Begin
  <2>2. next + 1 \in 0..(3 * MaxRuns) /\ next + 1 \in Attempts
    BY <1>18, CounterType DEF Begin
  <2> QED BY <1>18, <2>1, <2>2 DEF Begin
<1>19. ASSUME NEW f \in Files, AgentWrite(f) PROVE TypeOK'
  BY <1>19, InfoType DEF AgentWrite, StageWrite, proc
<1>20. CASE AgentReturn
  BY <1>20 DEF AgentReturn, disk
<1>21. ASSUME NEW k \in {"error", "misaligned"}, AgentFail(k) PROVE TypeOK'
  BY <1>21 DEF AgentFail, Halt, disk
<1>22. CASE AgentTimeout
  BY <1>22 DEF AgentTimeout, Halt, disk
<1>23. ASSUME NEW P \in SUBSET Validators, QuorumPass(P) PROVE TypeOK'
  BY <1>23, VoteType DEF QuorumPass, disk
<1>24. ASSUME NEW P \in SUBSET Validators, QuorumDissent(P) PROVE TypeOK'
  BY <1>24, VoteType DEF QuorumDissent, Halt, disk
<1>25. CASE RecordStage
  BY <1>25, SnapshotType DEF RecordStage
<1>26. CASE RecordStageFails
  <2>1. /\ stage' \in Stages \cup {BuildStage} /\ pc' \in PCs
        /\ queues' \in [Stages -> {"empty", "envelope", "STOP"}] /\ task' \in [Tasks -> TaskStates]
    BY <1>26, HandOnType DEF RecordStageFails
  <2> QED BY <1>26, <2>1 DEF RecordStageFails, disk
<1>27. ASSUME NEW f \in Files, CommitFile(f) PROVE TypeOK'
  BY <1>27, InfoType DEF CommitFile, Publish, proc
<1>28. CASE CommitDone
  <2>1. /\ stage' \in Stages \cup {BuildStage} /\ pc' \in PCs
        /\ queues' \in [Stages -> {"empty", "envelope", "STOP"}] /\ task' \in [Tasks -> TaskStates]
    BY <1>28, HandOnType DEF CommitDone
  <2> QED BY <1>28, <2>1 DEF CommitDone
<1>29. CASE CommitFails
  BY <1>29 DEF CommitFails, Halt, disk
<1>30. CASE RecordQuorumHalt
  BY <1>30, SnapshotType DEF RecordQuorumHalt
<1>31. ASSUME NEW f \in Files, RollbackFile(f) PROVE TypeOK'
  BY <1>31 DEF RollbackFile, proc
<1>32. CASE RollbackDone
  BY <1>32 DEF RollbackDone
<1>33. ASSUME NEW f \in Files, ZombieWrite(f) PROVE TypeOK'
  BY <1>33, InfoType DEF ZombieWrite, StageWrite, proc
<1>34. CASE ZombieEnd
  BY <1>34 DEF ZombieEnd, disk
<1>35. CASE CloseSandbox
  BY <1>35 DEF CloseSandbox, disk
<1>36. CASE HaltEvent
  <2>1. HaltEventOf(kind) \in GovEvents
    BY DEF HaltEventOf
  <2> QED BY <1>36, <2>1, EmitType DEF HaltEvent
<1>37. CASE HaltState
  <2>1. HaltStateOf(kind) \in GovEvents
    BY DEF HaltStateOf
  <2> QED BY <1>37, <2>1, EmitType, ExitType DEF HaltState
<1>38. CASE BuildOk
  BY <1>38 DEF BuildOk, disk
<1>39. CASE BuildFails
  BY <1>39 DEF BuildFails, Halt, disk
<1>40. CASE ClearCheckpoint
  <2>1. task' \in [Tasks -> TaskStates]
    BY <1>40 DEF ClearCheckpoint, TaskStates
  <2> QED BY <1>40, <2>1 DEF ClearCheckpoint
<1>41. CASE Complete
  BY <1>41, EmitType, ExitType DEF Complete
<1>42. CASE Crash
  <2>1. info' \in [Attempts -> AttemptInfo]
    BY <1>42, CutType DEF Crash
  <2>2. lost' \in BOOLEAN
    BY <1>42 DEF Crash
  <2> QED BY <1>42, <2>1, <2>2, ExitType DEF Crash, disk
<1>43. ASSUME NEW v \in BOOLEAN, EditPayload(v) PROVE TypeOK'
  <2>1. ckpt' \in Snapshots
    BY <1>43 DEF EditPayload, Snapshots
  <2> QED BY <1>43, <2>1 DEF EditPayload, proc
<1>44. ASSUME NEW t \in 2..BuildStage, GetEnvelope(t) PROVE TypeOK'
  <2>1. stage' \in Stages \cup {BuildStage} /\ pc' \in PCs
    <3>1. stage' = t /\ pc' \in {"build", "begin"}
      BY <1>44 DEF GetEnvelope
    <3> QED BY ONLY <3>1, t \in 2..BuildStage DEF Stages, BuildStage, PCs
  <2>2. queues' \in [Stages -> {"empty", "envelope", "STOP"}] /\ task' \in [Tasks -> TaskStates]
    BY <1>44 DEF GetEnvelope, TaskStates
  <2> QED BY <1>44, <2>1, <2>2 DEF GetEnvelope, disk
<1>45. ASSUME NEW t \in 2..BuildStage, GetStop(t) PROVE TypeOK'
  <2>1. queues' \in [Stages -> {"empty", "envelope", "STOP"}] /\ task' \in [Tasks -> TaskStates]
    BY <1>45 DEF GetStop, TaskStates
  <2>2. pc' \in PCs /\ kind' \in HaltKinds
    BY <1>45 DEF GetStop, Halt
  <2> QED BY <1>45, <2>1, <2>2 DEF GetStop, disk
<1>46. ASSUME NEW t \in 0..3, PutStop(t) PROVE TypeOK'
  <2>1. queues' \in [Stages -> {"empty", "envelope", "STOP"}] /\ task' \in [Tasks -> TaskStates]
    BY <1>46 DEF PutStop, TaskStates
  <2>2. UNCHANGED <<disk, pc, case, resolve, resume, stage, att, kind, zombie, runs, next, info, lost>>
    BY <1>46 DEF PutStop
  <2> HIDE DEF PCs, HaltKinds, Stages, BuildStage, Attempts, GovEvents
  <2> QED BY <2>1, <2>2 DEF disk
<1>47. CASE CancelTasks
  <2>1. queues' \in [Stages -> {"empty", "envelope", "STOP"}] /\ task' \in [Tasks -> TaskStates]
    BY <1>47 DEF CancelTasks, NoGroup, TaskStates
  <2> QED BY <1>47, <2>1 DEF CancelTasks, disk
<1>48. CASE GroupEnds
  BY <1>48 DEF GroupEnds, disk
<1>49. CASE UNCHANGED vars
  BY <1>49, TypeStutter
<1> QED
  BY <1>1, <1>2, <1>3, <1>4, <1>5, <1>6, <1>7, <1>8, <1>9, <1>10, <1>11, <1>12, <1>13, <1>14,
     <1>15, <1>16, <1>17, <1>18, <1>19, <1>20, <1>21, <1>22, <1>23, <1>24, <1>25, <1>26, <1>27,
     <1>28, <1>29, <1>30, <1>31, <1>32, <1>33, <1>34, <1>35, <1>36, <1>37, <1>38, <1>39, <1>40,
     <1>41, <1>42, <1>43, <1>44, <1>45, <1>46, <1>47, <1>48, <1>49
  DEF Next, ProcessStep, Recover, Seed, QueueStep, RunStage, Finish, Rest

-----------------------------------------------------------------------------
(* Where the process is, and what the checkpoint says *)

\* Writing to a staging directory and publishing a file change neither whose
\* attempt it is nor how it was voted on.
SameVerdicts ==
    \A a \in Attempts : /\ info'[a].case = info[a].case
                        /\ info'[a].stage = info[a].stage
                        /\ info'[a].voted = info[a].voted
                        /\ info'[a].passed = info[a].passed
                        /\ info'[a].cut = info[a].cut

\* Writing or publishing a file keeps the verdict on every attempt.
LEMMA VerdictsKept ==
    ASSUME TypeOK, NEW f \in Files, Publish(f) \/ StageWrite(f)
    PROVE  SameVerdicts
<1> SUFFICES ASSUME NEW a \in Attempts
             PROVE  /\ info'[a].case = info[a].case
                    /\ info'[a].stage = info[a].stage
                    /\ info'[a].voted = info[a].voted
                    /\ info'[a].passed = info[a].passed
                    /\ info'[a].cut = info[a].cut
  BY DEF SameVerdicts
<1>1. info \in [Attempts -> AttemptInfo] /\ info[a] \in AttemptInfo
  BY DEF TypeOK
<1>2. CASE Publish(f)
  BY <1>1, <1>2 DEF Publish, AttemptInfo
<1>3. CASE StageWrite(f)
  BY <1>1, <1>3 DEF StageWrite, AttemptInfo
<1> QED BY <1>2, <1>3

\* What WorkspaceTransaction.__enter__ leaves behind.
LEMMA BeginFacts ==
    ASSUME TypeOK, Begin
    PROVE  /\ att' = next + 1 /\ att' \in Attempts /\ att' # 0
           /\ info'[att'].case = case /\ info'[att'].stage = stage
           /\ ~info'[att'].voted
           /\ \A a \in Attempts : a # att' => info'[a] = info[a]
<1>1. att' = next + 1 /\ att' \in Attempts /\ att' # 0
  BY CounterType DEF Begin, Attempts
<1>2. info'[att'] = [NoAttempt EXCEPT !.case = case, !.stage = stage]
  BY <1>1 DEF Begin, TypeOK
<1>3. /\ info'[att'].case = case /\ info'[att'].stage = stage
      /\ info'[att'].voted = FALSE
  BY <1>2 DEF NoAttempt
<1>4. \A a \in Attempts : a # att' => info'[a] = info[a]
  BY <1>1 DEF Begin, TypeOK
<1> QED BY <1>1, <1>3, <1>4

\* What a crash does to the history: it may mark the attempt at work.
LEMMA CrashFacts ==
    ASSUME TypeOK, Crash
    PROVE  /\ \A a \in Attempts : /\ info'[a].case = info[a].case
                                 /\ info'[a].stage = info[a].stage
                                 /\ info'[a].wrote = info[a].wrote
                                 /\ info'[a].applied = info[a].applied
                                 /\ info'[a].voted = info[a].voted
                                 /\ info'[a].passed = info[a].passed
                                 /\ info[a].cut => info'[a].cut
           /\ HaltingOnDissent /\ att \in dirs => info'[att].cut
<1>1. info \in [Attempts -> AttemptInfo] /\ dirs \subseteq Attempts
  BY DEF TypeOK
<1>2. CASE info' = info /\ ~(HaltingOnDissent /\ att \in dirs)
  BY <1>2
<1>3. CASE HaltingOnDissent /\ att \in dirs /\ info' = [info EXCEPT ![att].cut = TRUE]
  <2>1. ASSUME NEW a \in Attempts
        PROVE  info'[a] = IF a = att THEN [info[a] EXCEPT !.cut = TRUE] ELSE info[a]
    BY <1>1, <1>3
  <2>2. \A a \in Attempts : info[a] \in AttemptInfo
    BY <1>1
  <2>3. att \in Attempts
    BY <1>1, <1>3
  <2> QED BY <2>1, <2>2, <2>3 DEF AttemptInfo
<1> QED BY <1>2, <1>3 DEF Crash

\* A checkpoint that counts for the process is the one on disk.
LEMMA LoadFacts ==
    ASSUME TypeOK, NEW c, Load(c) # NoCkpt
    PROVE  /\ Load(c) = ckpt /\ ckpt # NoCkpt /\ ckpt.case = c
           /\ ckpt \in Snapshots /\ ckpt.stage \in Stages
BY DEF Load, TypeOK, Snapshots

\* Seeding a resumed run records the resumed stage again or leaves the file.
LEMMA SeedFacts ==
    ASSUME BaseInv, NEW P \in SUBSET Validators, SeedResume(P)
    PROVE  /\ resume = ckpt /\ ckpt # NoCkpt /\ ckpt.case = case
           /\ ckpt.stage \in Stages
           /\ ckpt' # NoCkpt /\ ckpt'.case = case /\ ckpt'.stage = ckpt.stage
           /\ stage' = ckpt.stage + 1
           /\ pc' = "group"
           /\ queues' = [queues EXCEPT ![ckpt.stage] = "envelope"]
<1>1. resume = Load(case) /\ resume # NoCkpt /\ TypeOK
  BY DEF BaseInv, CheckpointInv, SeedResume
<1>2. /\ resume = ckpt /\ ckpt # NoCkpt /\ ckpt.case = case
      /\ ckpt \in Snapshots /\ ckpt.stage \in Stages
  BY <1>1, LoadFacts
<1>3. ckpt' = Snapshot(ckpt.stage, FALSE) \/ ckpt' = ckpt
  BY <1>2 DEF SeedResume
<1>4. Snapshot(ckpt.stage, FALSE) # NoCkpt
  BY <1>2 DEF Snapshot, NoCkpt
<1>5. ckpt' # NoCkpt /\ ckpt'.case = case /\ ckpt'.stage = ckpt.stage
  BY <1>2, <1>3, <1>4 DEF Snapshot
<1>6. /\ stage' = ckpt.stage + 1 /\ pc' = "group"
      /\ queues' = [queues EXCEPT ![ckpt.stage] = "envelope"]
  BY <1>2 DEF SeedResume
<1> QED BY <1>2, <1>5, <1>6

\* Every step keeps the facts about the attempt at work.
LEMMA AttemptStep == BaseInv /\ [Next]_vars => AttemptInv'
<1> SUFFICES ASSUME BaseInv, [Next]_vars PROVE AttemptInv'
  OBVIOUS
<1> USE DEF BaseInv, TypeOK, AttemptInv, Idle, Working, Stages, BuildStage, group
<1>1. ASSUME NEW c \in Cases, NEW r \in BOOLEAN, Start(c, r) PROVE AttemptInv'
  BY <1>1 DEF Start, Load
<1>2. ASSUME NEW a \in Attempts, CleanRemove(a) PROVE AttemptInv'
  BY <1>2 DEF CleanRemove, proc, Mine
<1>3. ASSUME NEW a \in Attempts, CleanOpen(a) PROVE AttemptInv'
  BY <1>3 DEF CleanOpen, disk, Mine
<1>4. ASSUME NEW f \in Files, CleanApply(f) PROVE AttemptInv'
  BY <1>4, VerdictsKept DEF CleanApply, Publish, SameVerdicts, proc
<1>5. CASE CleanClose
  BY <1>5 DEF CleanClose
<1>6. CASE CleanDone
  BY <1>6 DEF CleanDone, disk
<1>7. CASE GatePass
  BY <1>7 DEF GatePass, disk
<1>8. CASE GateClosed
  BY <1>8 DEF GateClosed, Exit, NoGroup
<1>9. CASE GateOpened
  BY <1>9 DEF GateOpened
<1>10. CASE ResolveInvalid
  BY <1>10 DEF ResolveInvalid, Exit, NoGroup, disk
<1>11. CASE ResolveIntervention
  BY <1>11 DEF ResolveIntervention
<1>12. CASE SetRunning
  BY <1>12 DEF SetRunning
<1>13. CASE AgentMissing
  BY <1>13 DEF AgentMissing, Halt, disk
<1>14. CASE SeedFresh
  BY <1>14 DEF SeedFresh, disk
<1>15. ASSUME NEW P \in SUBSET Validators, SeedResume(P) PROVE AttemptInv'
  BY <1>15, SeedFacts DEF SeedResume
<1>16. ASSUME NEW P \in SUBSET Validators, SeedDissent(P) PROVE AttemptInv'
  BY <1>16 DEF SeedDissent, Halt, disk
<1>17. CASE InputMisaligned
  BY <1>17 DEF InputMisaligned, Halt, disk
<1>18. CASE Begin
  BY <1>18, BeginFacts DEF Begin
<1>19. ASSUME NEW f \in Files, AgentWrite(f) PROVE AttemptInv'
  BY <1>19, VerdictsKept DEF AgentWrite, StageWrite, SameVerdicts, proc
<1>20. CASE AgentReturn
  BY <1>20 DEF AgentReturn, disk
<1>21. ASSUME NEW k \in {"error", "misaligned"}, AgentFail(k) PROVE AttemptInv'
  BY <1>21 DEF AgentFail, Halt, disk
<1>22. CASE AgentTimeout
  BY <1>22 DEF AgentTimeout, Halt, disk
<1>23. ASSUME NEW P \in SUBSET Validators, QuorumPass(P) PROVE AttemptInv'
  BY <1>23 DEF QuorumPass, Vote, disk
<1>24. ASSUME NEW P \in SUBSET Validators, QuorumDissent(P) PROVE AttemptInv'
  BY <1>24 DEF QuorumDissent, Vote, Halt, disk
<1>25. CASE RecordStage
  BY <1>25 DEF RecordStage, Snapshot
<1>26. CASE RecordStageFails
  BY <1>26 DEF RecordStageFails, HandOn, disk
<1>27. ASSUME NEW f \in Files, CommitFile(f) PROVE AttemptInv'
  BY <1>27, VerdictsKept DEF CommitFile, Publish, SameVerdicts, proc
<1>28. CASE CommitDone
  BY <1>28 DEF CommitDone, HandOn
<1>29. CASE CommitFails
  BY <1>29 DEF CommitFails, Halt, disk
<1>30. CASE RecordQuorumHalt
  BY <1>30 DEF RecordQuorumHalt, Snapshot
<1>31. ASSUME NEW f \in Files, RollbackFile(f) PROVE AttemptInv'
  BY <1>31 DEF RollbackFile, proc
<1>32. CASE RollbackDone
  BY <1>32 DEF RollbackDone
<1>33. ASSUME NEW f \in Files, ZombieWrite(f) PROVE AttemptInv'
  BY <1>33, VerdictsKept DEF ZombieWrite, StageWrite, SameVerdicts, proc
<1>34. CASE ZombieEnd
  BY <1>34 DEF ZombieEnd, disk
<1>35. CASE CloseSandbox
  BY <1>35 DEF CloseSandbox, disk
<1>36. CASE HaltEvent
  BY <1>36 DEF HaltEvent, HaltEventOf
<1>37. CASE HaltState
  BY <1>37 DEF HaltState, HaltStateOf, Exit, NoGroup
<1>38. CASE BuildOk
  BY <1>38 DEF BuildOk, disk
<1>39. CASE BuildFails
  BY <1>39 DEF BuildFails, Halt, disk
<1>40. CASE ClearCheckpoint
  BY <1>40 DEF ClearCheckpoint
<1>41. CASE Complete
  BY <1>41 DEF Complete, Exit, NoGroup
<1>42. CASE Crash
  BY <1>42, CrashFacts DEF Crash, Exit, NoGroup, disk
<1>43. ASSUME NEW v \in BOOLEAN, EditPayload(v) PROVE AttemptInv'
  BY <1>43 DEF EditPayload, proc
<1>44. ASSUME NEW t \in 2..BuildStage, GetEnvelope(t) PROVE AttemptInv'
  BY <1>44 DEF GetEnvelope, disk
<1>45. ASSUME NEW t \in 2..BuildStage, GetStop(t) PROVE AttemptInv'
  BY <1>45 DEF GetStop, Halt, Awaits, disk
<1>46. ASSUME NEW t \in 0..3, PutStop(t) PROVE AttemptInv'
  BY <1>46 DEF PutStop, Awaits, disk
<1>47. CASE CancelTasks
  BY <1>47 DEF CancelTasks, NoGroup, disk
<1>48. CASE GroupEnds
  BY <1>48 DEF GroupEnds, disk
<1>49. CASE UNCHANGED vars
  BY <1>49 DEF vars, disk, proc
<1> QED
  BY <1>1, <1>2, <1>3, <1>4, <1>5, <1>6, <1>7, <1>8, <1>9, <1>10, <1>11, <1>12, <1>13, <1>14,
     <1>15, <1>16, <1>17, <1>18, <1>19, <1>20, <1>21, <1>22, <1>23, <1>24, <1>25, <1>26, <1>27,
     <1>28, <1>29, <1>30, <1>31, <1>32, <1>33, <1>34, <1>35, <1>36, <1>37, <1>38, <1>39, <1>40,
     <1>41, <1>42, <1>43, <1>44, <1>45, <1>46, <1>47, <1>48, <1>49
  DEF Next, ProcessStep, Recover, Seed, QueueStep, RunStage, Finish, Rest

\* Every step keeps the checkpoint and the resumed snapshot in agreement.
LEMMA CheckpointStep == BaseInv /\ [Next]_vars => CheckpointInv'
<1> SUFFICES ASSUME BaseInv, [Next]_vars PROVE CheckpointInv'
  OBVIOUS
<1> USE DEF BaseInv, TypeOK, AttemptInv, CheckpointInv, Idle, Working, Load, Stages, BuildStage, group
<1>1. ASSUME NEW c \in Cases, NEW r \in BOOLEAN, Start(c, r) PROVE CheckpointInv'
  BY <1>1 DEF Start, disk, Load
<1>2. ASSUME NEW a \in Attempts, CleanRemove(a) PROVE CheckpointInv'
  BY <1>2 DEF CleanRemove, proc, Mine
<1>3. ASSUME NEW a \in Attempts, CleanOpen(a) PROVE CheckpointInv'
  BY <1>3 DEF CleanOpen, disk, Mine
<1>4. ASSUME NEW f \in Files, CleanApply(f) PROVE CheckpointInv'
  BY <1>4, VerdictsKept DEF CleanApply, Publish, SameVerdicts, proc
<1>5. CASE CleanClose
  BY <1>5 DEF CleanClose
<1>6. CASE CleanDone
  BY <1>6 DEF CleanDone, disk
<1>7. CASE GatePass
  BY <1>7 DEF GatePass, disk
<1>8. CASE GateClosed
  BY <1>8 DEF GateClosed, Exit
<1>9. CASE GateOpened
  BY <1>9 DEF GateOpened, NeedsOperator
<1>10. CASE ResolveInvalid
  BY <1>10 DEF ResolveInvalid, Exit, disk
<1>11. CASE ResolveIntervention
  BY <1>11 DEF ResolveIntervention
<1>12. CASE SetRunning
  BY <1>12 DEF SetRunning
<1>13. CASE AgentMissing
  BY <1>13 DEF AgentMissing, Halt, disk
<1>14. CASE SeedFresh
  BY <1>14 DEF SeedFresh, disk
<1>15. ASSUME NEW P \in SUBSET Validators, SeedResume(P) PROVE CheckpointInv'
  <2>1. ckpt'.stage < stage'
    BY <1>15, SeedFacts
  <2> QED BY <1>15, <2>1, SeedFacts DEF SeedResume
<1>16. ASSUME NEW P \in SUBSET Validators, SeedDissent(P) PROVE CheckpointInv'
  BY <1>16 DEF SeedDissent, Halt, disk
<1>17. CASE InputMisaligned
  BY <1>17 DEF InputMisaligned, Halt, disk
<1>18. CASE Begin
  BY <1>18 DEF Begin
<1>19. ASSUME NEW f \in Files, AgentWrite(f) PROVE CheckpointInv'
  BY <1>19, VerdictsKept DEF AgentWrite, StageWrite, SameVerdicts, proc
<1>20. CASE AgentReturn
  BY <1>20 DEF AgentReturn, disk
<1>21. ASSUME NEW k \in {"error", "misaligned"}, AgentFail(k) PROVE CheckpointInv'
  BY <1>21 DEF AgentFail, Halt, disk
<1>22. CASE AgentTimeout
  BY <1>22 DEF AgentTimeout, Halt, disk
<1>23. ASSUME NEW P \in SUBSET Validators, QuorumPass(P) PROVE CheckpointInv'
  BY <1>23 DEF QuorumPass, Vote, disk
<1>24. ASSUME NEW P \in SUBSET Validators, QuorumDissent(P) PROVE CheckpointInv'
  BY <1>24 DEF QuorumDissent, Vote, Halt, disk
<1>25. CASE RecordStage
  BY <1>25 DEF RecordStage, Snapshot
<1>26. CASE RecordStageFails
  <2>1. Load(case) = NoCkpt \/ ckpt.stage < stage + 1
    BY <1>26, LoadFacts DEF RecordStageFails
  <2> QED BY <1>26, <2>1 DEF RecordStageFails, HandOn, disk
<1>27. ASSUME NEW f \in Files, CommitFile(f) PROVE CheckpointInv'
  BY <1>27, VerdictsKept DEF CommitFile, Publish, SameVerdicts, proc
<1>28. CASE CommitDone
  <2>1. Load(case) = NoCkpt \/ ckpt.stage < stage + 1
    BY <1>28, LoadFacts DEF CommitDone
  <2> QED BY <1>28, <2>1 DEF CommitDone, HandOn
<1>29. CASE CommitFails
  BY <1>29 DEF CommitFails, Halt, disk
<1>30. CASE RecordQuorumHalt
  BY <1>30 DEF RecordQuorumHalt, Snapshot
<1>31. ASSUME NEW f \in Files, RollbackFile(f) PROVE CheckpointInv'
  BY <1>31 DEF RollbackFile, proc
<1>32. CASE RollbackDone
  BY <1>32 DEF RollbackDone
<1>33. ASSUME NEW f \in Files, ZombieWrite(f) PROVE CheckpointInv'
  BY <1>33, VerdictsKept DEF ZombieWrite, StageWrite, SameVerdicts, proc
<1>34. CASE ZombieEnd
  BY <1>34 DEF ZombieEnd, disk
<1>35. CASE CloseSandbox
  BY <1>35 DEF CloseSandbox, disk
<1>36. CASE HaltEvent
  BY <1>36 DEF HaltEvent, HaltEventOf
<1>37. CASE HaltState
  BY <1>37 DEF HaltState, HaltStateOf, Exit
<1>38. CASE BuildOk
  BY <1>38 DEF BuildOk, disk
<1>39. CASE BuildFails
  BY <1>39 DEF BuildFails, Halt, disk
<1>40. CASE ClearCheckpoint
  BY <1>40 DEF ClearCheckpoint
<1>41. CASE Complete
  BY <1>41 DEF Complete, Exit
<1>42. CASE Crash
  BY <1>42 DEF Crash, Exit, disk
<1>43. ASSUME NEW v \in BOOLEAN, EditPayload(v) PROVE CheckpointInv'
  BY <1>43 DEF EditPayload, proc
<1>44. ASSUME NEW t \in 2..BuildStage, GetEnvelope(t) PROVE CheckpointInv'
  BY <1>44 DEF GetEnvelope, disk
<1>45. ASSUME NEW t \in 2..BuildStage, GetStop(t) PROVE CheckpointInv'
  BY <1>45 DEF GetStop, Halt, Awaits, disk
<1>46. ASSUME NEW t \in 0..3, PutStop(t) PROVE CheckpointInv'
  BY <1>46 DEF PutStop, Awaits, disk
<1>47. CASE CancelTasks
  BY <1>47 DEF CancelTasks, disk
<1>48. CASE GroupEnds
  BY <1>48 DEF GroupEnds, disk
<1>49. CASE UNCHANGED vars
  BY <1>49 DEF vars, disk, proc
<1> QED
  BY <1>1, <1>2, <1>3, <1>4, <1>5, <1>6, <1>7, <1>8, <1>9, <1>10, <1>11, <1>12, <1>13, <1>14,
     <1>15, <1>16, <1>17, <1>18, <1>19, <1>20, <1>21, <1>22, <1>23, <1>24, <1>25, <1>26, <1>27,
     <1>28, <1>29, <1>30, <1>31, <1>32, <1>33, <1>34, <1>35, <1>36, <1>37, <1>38, <1>39, <1>40,
     <1>41, <1>42, <1>43, <1>44, <1>45, <1>46, <1>47, <1>48, <1>49
  DEF Next, ProcessStep, Recover, Seed, QueueStep, RunStage, Finish, Rest

\* A vote concerns the attempt at work only.
LEMMA VoteFacts ==
    ASSUME TypeOK, NEW P \in SUBSET Validators, Vote(P), att # 0
    PROVE  /\ info'[att].voted /\ info'[att].passed = P
           /\ info'[att].case = info[att].case /\ info'[att].stage = info[att].stage
           /\ \A a \in Attempts : a # att => info'[a] = info[a]
<1>1. att \in Attempts /\ info \in [Attempts -> AttemptInfo] /\ info[att] \in AttemptInfo
  BY DEF TypeOK
<1>2. /\ info'[att].passed = P
      /\ info'[att].case = info[att].case /\ info'[att].stage = info[att].stage
  BY <1>1 DEF Vote, AttemptInfo
<1>3. info'[att].voted = TRUE
  BY <1>1 DEF Vote, AttemptInfo
<1>4. \A a \in Attempts : a # att => info'[a] = info[a]
  BY <1>1 DEF Vote
<1> QED BY <1>2, <1>3, <1>4

\* Every step leaves the attempts not yet made untouched.
LEMMA FreshStep == BaseInv /\ [Next]_vars => FreshInv'
<1> SUFFICES ASSUME BaseInv, [Next]_vars PROVE FreshInv'
  OBVIOUS
<1> USE DEF BaseInv, TypeOK, AttemptInv, FreshInv, Idle, Working, group
<1>1. ASSUME NEW c \in Cases, NEW r \in BOOLEAN, Start(c, r) PROVE FreshInv'
  BY <1>1 DEF Start, disk
<1>2. ASSUME NEW a \in Attempts, CleanRemove(a) PROVE FreshInv'
  BY <1>2 DEF CleanRemove, proc, Mine
<1>3. ASSUME NEW a \in Attempts, CleanOpen(a) PROVE FreshInv'
  BY <1>3 DEF CleanOpen, disk, Mine
<1>4. ASSUME NEW f \in Files, CleanApply(f) PROVE FreshInv'
  BY <1>4, VerdictsKept DEF CleanApply, Publish, SameVerdicts, proc
<1>5. CASE CleanClose
  BY <1>5 DEF CleanClose
<1>6. CASE CleanDone
  BY <1>6 DEF CleanDone, disk
<1>7. CASE GatePass
  BY <1>7 DEF GatePass, disk
<1>8. CASE GateClosed
  BY <1>8 DEF GateClosed, Exit
<1>9. CASE GateOpened
  BY <1>9 DEF GateOpened
<1>10. CASE ResolveInvalid
  BY <1>10 DEF ResolveInvalid, Exit, disk
<1>11. CASE ResolveIntervention
  BY <1>11 DEF ResolveIntervention
<1>12. CASE SetRunning
  BY <1>12 DEF SetRunning
<1>13. CASE AgentMissing
  BY <1>13 DEF AgentMissing, Halt, disk
<1>14. CASE SeedFresh
  BY <1>14 DEF SeedFresh, disk
<1>15. ASSUME NEW P \in SUBSET Validators, SeedResume(P) PROVE FreshInv'
  BY <1>15 DEF SeedResume, HandOn, Snapshot
<1>16. ASSUME NEW P \in SUBSET Validators, SeedDissent(P) PROVE FreshInv'
  BY <1>16 DEF SeedDissent, Halt, disk
<1>17. CASE InputMisaligned
  BY <1>17 DEF InputMisaligned, Halt, disk
<1>18. CASE Begin
  <2>1. next' = next + 1 /\ att' = next + 1 /\ dirs' = dirs \cup {att'} /\ live' = live
    BY <1>18 DEF Begin
  <2>2. next \in Nat /\ \A f \in Files : live[f] \in Nat
    BY DEF Attempts
  <2>3. \A a \in dirs : a \in Nat /\ a <= next /\ info'[a].stage \in Stages
    <3>1. \A a \in dirs : a \in Attempts /\ a # att' /\ info'[a] = info[a]
      BY <1>18, <2>1, BeginFacts DEF Attempts
    <3> QED BY <3>1 DEF Attempts
  <2>4. info'[att'].stage \in Stages
    BY <1>18, BeginFacts DEF Begin
  <2> QED BY <2>1, <2>2, <2>3, <2>4
<1>19. ASSUME NEW f \in Files, AgentWrite(f) PROVE FreshInv'
  BY <1>19, VerdictsKept DEF AgentWrite, StageWrite, SameVerdicts, proc
<1>20. CASE AgentReturn
  BY <1>20 DEF AgentReturn, disk
<1>21. ASSUME NEW k \in {"error", "misaligned"}, AgentFail(k) PROVE FreshInv'
  BY <1>21 DEF AgentFail, Halt, disk
<1>22. CASE AgentTimeout
  BY <1>22 DEF AgentTimeout, Halt, disk
<1>23. ASSUME NEW P \in SUBSET Validators, QuorumPass(P) PROVE FreshInv'
  BY <1>23 DEF QuorumPass, Vote, disk
<1>24. ASSUME NEW P \in SUBSET Validators, QuorumDissent(P) PROVE FreshInv'
  BY <1>24 DEF QuorumDissent, Vote, Halt, disk
<1>25. CASE RecordStage
  BY <1>25 DEF RecordStage, Snapshot
<1>26. CASE RecordStageFails
  BY <1>26 DEF RecordStageFails, HandOn, disk
<1>27. ASSUME NEW f \in Files, CommitFile(f) PROVE FreshInv'
  BY <1>27, VerdictsKept DEF CommitFile, Publish, SameVerdicts, proc
<1>28. CASE CommitDone
  BY <1>28 DEF CommitDone, HandOn
<1>29. CASE CommitFails
  BY <1>29 DEF CommitFails, Halt, disk
<1>30. CASE RecordQuorumHalt
  BY <1>30 DEF RecordQuorumHalt, Snapshot
<1>31. ASSUME NEW f \in Files, RollbackFile(f) PROVE FreshInv'
  BY <1>31 DEF RollbackFile, proc
<1>32. CASE RollbackDone
  BY <1>32 DEF RollbackDone
<1>33. ASSUME NEW f \in Files, ZombieWrite(f) PROVE FreshInv'
  BY <1>33, VerdictsKept DEF ZombieWrite, StageWrite, SameVerdicts, proc
<1>34. CASE ZombieEnd
  BY <1>34 DEF ZombieEnd, disk
<1>35. CASE CloseSandbox
  BY <1>35 DEF CloseSandbox, disk
<1>36. CASE HaltEvent
  BY <1>36 DEF HaltEvent, HaltEventOf
<1>37. CASE HaltState
  BY <1>37 DEF HaltState, HaltStateOf, Exit
<1>38. CASE BuildOk
  BY <1>38 DEF BuildOk, disk
<1>39. CASE BuildFails
  BY <1>39 DEF BuildFails, Halt, disk
<1>40. CASE ClearCheckpoint
  BY <1>40 DEF ClearCheckpoint
<1>41. CASE Complete
  BY <1>41 DEF Complete, Exit
<1>42. CASE Crash
  BY <1>42, CrashFacts DEF Crash, Exit, disk
<1>43. ASSUME NEW v \in BOOLEAN, EditPayload(v) PROVE FreshInv'
  BY <1>43 DEF EditPayload, proc
<1>44. ASSUME NEW t \in 2..BuildStage, GetEnvelope(t) PROVE FreshInv'
  BY <1>44 DEF GetEnvelope, disk
<1>45. ASSUME NEW t \in 2..BuildStage, GetStop(t) PROVE FreshInv'
  BY <1>45 DEF GetStop, Halt, Awaits, disk
<1>46. ASSUME NEW t \in 0..3, PutStop(t) PROVE FreshInv'
  BY <1>46 DEF PutStop, Awaits, disk
<1>47. CASE CancelTasks
  BY <1>47 DEF CancelTasks, disk
<1>48. CASE GroupEnds
  BY <1>48 DEF GroupEnds, disk
<1>49. CASE UNCHANGED vars
  BY <1>49 DEF vars, disk, proc
<1> QED
  BY <1>1, <1>2, <1>3, <1>4, <1>5, <1>6, <1>7, <1>8, <1>9, <1>10, <1>11, <1>12, <1>13, <1>14,
     <1>15, <1>16, <1>17, <1>18, <1>19, <1>20, <1>21, <1>22, <1>23, <1>24, <1>25, <1>26, <1>27,
     <1>28, <1>29, <1>30, <1>31, <1>32, <1>33, <1>34, <1>35, <1>36, <1>37, <1>38, <1>39, <1>40,
     <1>41, <1>42, <1>43, <1>44, <1>45, <1>46, <1>47, <1>48, <1>49
  DEF Next, ProcessStep, Recover, Seed, QueueStep, RunStage, Finish, Rest

\* Every step keeps unaccepted content out of the live workspace and out of
\* the reach of a replay.
LEMMA QuorumStep == GateInv /\ [Next]_vars => QuorumInv'
<1> SUFFICES ASSUME GateInv, [Next]_vars PROVE QuorumInv'
  OBVIOUS
<1> USE DEF GateInv, BaseInv, TypeOK, AttemptInv, FreshInv, CheckpointInv, QuorumInv, LiveGood, DirsGood, MineGood,
           AttemptGood, Good, Replayable, Idle, Working, Load, Mine, group
<1>1. ASSUME NEW c \in Cases, NEW r \in BOOLEAN, Start(c, r) PROVE QuorumInv'
  BY <1>1 DEF Start, disk
<1>2. ASSUME NEW a \in Attempts, CleanRemove(a) PROVE QuorumInv'
  BY <1>2 DEF CleanRemove, proc, Mine
<1>3. ASSUME NEW a \in Attempts, CleanOpen(a) PROVE QuorumInv'
  <2>1. info[a].stage \in Stages /\ info[a].case = case /\ a \in dirs
    BY <1>3 DEF CleanOpen
  <2>2. resume # NoCkpt /\ info[a].stage <= resume.stage
    BY <1>3, <2>1 DEF CleanOpen, ActiveStage, Stages
  <2>3. resume = ckpt /\ ckpt.case = case
    BY <1>3, <2>2 DEF CleanOpen
  <2>4. Good(a)
    BY <1>3, <2>1, <2>2, <2>3 DEF CleanOpen
  <2> QED BY <1>3, <2>4 DEF CleanOpen, disk
<1>4. ASSUME NEW f \in Files, CleanApply(f) PROVE QuorumInv'
  BY <1>4, VerdictsKept DEF CleanApply, Publish, SameVerdicts, proc
<1>5. CASE CleanClose
  BY <1>5 DEF CleanClose
<1>6. CASE CleanDone
  BY <1>6 DEF CleanDone, disk
<1>7. CASE GatePass
  BY <1>7 DEF GatePass, disk
<1>8. CASE GateClosed
  BY <1>8 DEF GateClosed, Exit
<1>9. CASE GateOpened
  BY <1>9 DEF GateOpened
<1>10. CASE ResolveInvalid
  BY <1>10 DEF ResolveInvalid, Exit, disk
<1>11. CASE ResolveIntervention
  BY <1>11 DEF ResolveIntervention
<1>12. CASE SetRunning
  BY <1>12 DEF SetRunning
<1>13. CASE AgentMissing
  BY <1>13 DEF AgentMissing, Halt, disk
<1>14. CASE SeedFresh
  BY <1>14 DEF SeedFresh, disk
<1>15. ASSUME NEW P \in SUBSET Validators, SeedResume(P) PROVE QuorumInv'
  BY <1>15, SeedFacts DEF SeedResume
<1>16. ASSUME NEW P \in SUBSET Validators, SeedDissent(P) PROVE QuorumInv'
  BY <1>16 DEF SeedDissent, Halt, disk
<1>17. CASE InputMisaligned
  BY <1>17 DEF InputMisaligned, Halt, disk
<1>18. CASE Begin
  <2>1. \A a \in Attempts : a <= next => a # att' /\ info'[a] = info[a]
    BY <1>18, BeginFacts
  <2>2. LiveGood'
    BY <1>18, <2>1 DEF Begin
  <2>3. /\ ckpt' = ckpt /\ case' = case /\ pc' = "agent" /\ dirs' = dirs \cup {att'}
        /\ info'[att'].case = case /\ info'[att'].stage = stage
        /\ stage \in Stages /\ ckpt \in Snapshots \cup {NoCkpt}
    BY <1>18, BeginFacts DEF Begin
  <2>4. \A a \in dirs : a \in Attempts /\ info'[a] = info[a]
    BY <2>1
  <2>5. DirsGood'
    <3> SUFFICES ASSUME NEW a \in dirs', Replayable(a)' PROVE Good(a)'
      BY DEF DirsGood
    <3>1. a # att'
      <4>1. Load(case) = NoCkpt \/ ckpt.stage < stage
        BY <1>18 DEF Begin
      <4>2. ckpt # NoCkpt => ckpt.stage \in Stages
        BY <2>3 DEF Snapshots
      <4> HIDE DEF GateInv
      <4> QED BY <2>3, <4>1, <4>2 DEF Replayable, Load, Stages
    <3>2. a \in dirs /\ Replayable(a)
      BY <3>1, <2>3, <2>4 DEF Replayable
    <3>3. Good(a)
      BY <1>18, <3>2 DEF Begin
    <3> QED BY <3>2, <3>3, <2>4 DEF Good
  <2>7. MineGood'
    <3> SUFFICES ASSUME NEW a \in dirs, info[a].case = case PROVE Good(a)'
      BY <2>3, <2>4 DEF MineGood
    <3>1. att = 0 /\ a # 0
      BY <1>18, <2>4 DEF Begin, Attempts
    <3>2. Good(a)
      BY <1>18, <3>1 DEF Begin
    <3> QED BY <3>2, <2>4 DEF Good
  <2>6. AttemptGood'
    BY <1>18, BeginFacts DEF Begin
  <2> QED BY <2>2, <2>5, <2>6, <2>7
<1>19. ASSUME NEW f \in Files, AgentWrite(f) PROVE QuorumInv'
  BY <1>19, VerdictsKept DEF AgentWrite, StageWrite, SameVerdicts, proc
<1>20. CASE AgentReturn
  BY <1>20 DEF AgentReturn, disk
<1>21. ASSUME NEW k \in {"error", "misaligned"}, AgentFail(k) PROVE QuorumInv'
  BY <1>21 DEF AgentFail, Halt, disk
<1>22. CASE AgentTimeout
  BY <1>22 DEF AgentTimeout, Halt, disk
<1>23. ASSUME NEW P \in SUBSET Validators, QuorumPass(P) PROVE QuorumInv'
  <2>1. /\ att # 0 /\ Accepts(P) /\ Vote(P) /\ pc = "vote" /\ pc' = "record"
        /\ UNCHANGED <<live, staged, dirs, ckpt, case, resume, stage, att, kind>>
    BY <1>23 DEF QuorumPass, disk
  <2>2. /\ info'[att].voted /\ info'[att].passed = P
        /\ info'[att].case = info[att].case /\ info'[att].stage = info[att].stage
        /\ \A a \in Attempts : a # att => info'[a] = info[a]
    BY <2>1, VoteFacts
  <2> QED BY <2>1, <2>2
<1>24. ASSUME NEW P \in SUBSET Validators, QuorumDissent(P) PROVE QuorumInv'
  BY <1>24, VoteFacts DEF QuorumDissent, Halt, disk
<1>25. CASE RecordStage
  BY <1>25 DEF RecordStage, Snapshot
<1>26. CASE RecordStageFails
  BY <1>26 DEF RecordStageFails, HandOn, disk
<1>27. ASSUME NEW f \in Files, CommitFile(f) PROVE QuorumInv'
  BY <1>27, VerdictsKept DEF CommitFile, Publish, SameVerdicts, proc
<1>28. CASE CommitDone
  BY <1>28 DEF CommitDone, HandOn
<1>29. CASE CommitFails
  BY <1>29 DEF CommitFails, Halt, disk
<1>30. CASE RecordQuorumHalt
  BY <1>30 DEF RecordQuorumHalt, Snapshot
<1>31. ASSUME NEW f \in Files, RollbackFile(f) PROVE QuorumInv'
  BY <1>31 DEF RollbackFile, proc
<1>32. CASE RollbackDone
  BY <1>32 DEF RollbackDone
<1>33. ASSUME NEW f \in Files, ZombieWrite(f) PROVE QuorumInv'
  <2>1. SameVerdicts
    BY <1>33, VerdictsKept DEF ZombieWrite
  <2>2. ~Replayable(att)
    BY <1>33 DEF ZombieWrite, Snapshots, Stages
  <2> QED BY <1>33, <2>1, <2>2 DEF ZombieWrite, SameVerdicts, proc
<1>34. CASE ZombieEnd
  BY <1>34 DEF ZombieEnd, disk
<1>35. CASE CloseSandbox
  BY <1>35 DEF CloseSandbox, disk
<1>36. CASE HaltEvent
  BY <1>36 DEF HaltEvent, HaltEventOf
<1>37. CASE HaltState
  BY <1>37 DEF HaltState, HaltStateOf, Exit
<1>38. CASE BuildOk
  BY <1>38 DEF BuildOk, disk
<1>39. CASE BuildFails
  BY <1>39 DEF BuildFails, Halt, disk
<1>40. CASE ClearCheckpoint
  BY <1>40 DEF ClearCheckpoint
<1>41. CASE Complete
  BY <1>41 DEF Complete, Exit
<1>42. CASE Crash
  BY <1>42, CrashFacts DEF Crash, Exit, HaltingOnDissent, disk
<1>43. ASSUME NEW v \in BOOLEAN, EditPayload(v) PROVE QuorumInv'
  BY <1>43 DEF EditPayload, proc
<1>44. ASSUME NEW t \in 2..BuildStage, GetEnvelope(t) PROVE QuorumInv'
  BY <1>44 DEF GetEnvelope, disk
<1>45. ASSUME NEW t \in 2..BuildStage, GetStop(t) PROVE QuorumInv'
  BY <1>45 DEF GetStop, Halt, Awaits, disk
<1>46. ASSUME NEW t \in 0..3, PutStop(t) PROVE QuorumInv'
  BY <1>46 DEF PutStop, Awaits, disk
<1>47. CASE CancelTasks
  BY <1>47 DEF CancelTasks, disk
<1>48. CASE GroupEnds
  BY <1>48 DEF GroupEnds, disk
<1>49. CASE UNCHANGED vars
  BY <1>49 DEF vars, disk, proc
<1> QED
  BY <1>1, <1>2, <1>3, <1>4, <1>5, <1>6, <1>7, <1>8, <1>9, <1>10, <1>11, <1>12, <1>13, <1>14,
     <1>15, <1>16, <1>17, <1>18, <1>19, <1>20, <1>21, <1>22, <1>23, <1>24, <1>25, <1>26, <1>27,
     <1>28, <1>29, <1>30, <1>31, <1>32, <1>33, <1>34, <1>35, <1>36, <1>37, <1>38, <1>39, <1>40,
     <1>41, <1>42, <1>43, <1>44, <1>45, <1>46, <1>47, <1>48, <1>49
  DEF Next, ProcessStep, Recover, Seed, QueueStep, RunStage, Finish, Rest

-----------------------------------------------------------------------------
(* The theorems *)

\* Type correctness of the pipeline's state, for any faults.
THEOREM PipelineTypeCorrect == Spec => []TypeOK
<1>1. Init => BaseInv
  BY InitGate DEF GateInv
<1>2. BaseInv /\ [Next]_vars => BaseInv'
  BY TypeStep, AttemptStep, FreshStep, CheckpointStep DEF BaseInv
<1>3. BaseInv => TypeOK
  BY DEF BaseInv
<1> QED BY <1>1, <1>2, <1>3, PTL DEF Spec

\* The gate's invariant holds throughout, whatever crashes, time-outs and
\* write failures occur.
THEOREM GateInvariant == Spec => []GateInv
<1>1. GateInv /\ [Next]_vars => GateInv'
  BY TypeStep, AttemptStep, FreshStep, CheckpointStep, QuorumStep DEF GateInv, BaseInv
<1> QED BY InitGate, <1>1, PTL DEF Spec

\* A file of the live workspace comes from an attempt that got more than two
\* thirds of the ballots, the promise of core/quorum.py, across commits, crashes
\* and the replay of staging directories by the next run; or else from one that
\* was refused, and that a crash saved from its rollback.
THEOREM QuorumGateHolds == Spec => []QuorumGateUnlessCut
<1>1. GateInv => QuorumGateUnlessCut
  <2> SUFFICES ASSUME GateInv, NEW f \in Files, live[f] # 0
               PROVE  /\ info[live[f]].voted
                      /\ MoreThanTwoThirds(info[live[f]].passed) \/ info[live[f]].cut
    BY DEF QuorumGateUnlessCut
  <2>1. Good(live[f])
    BY DEF GateInv, QuorumInv, LiveGood
  <2>2. info[live[f]].passed \in SUBSET Validators
    BY DEF GateInv, BaseInv, TypeOK, AttemptInfo
  <2> QED BY <2>1, <2>2, AcceptedIsTwoThirds DEF Good
<1> QED BY GateInvariant, <1>1, PTL

-----------------------------------------------------------------------------
(* Stages in order: what the checkpoint and the process build on was voted on *)

\* Every stage of case c up to s was put to the vote, in history h.
Covered(h, c, s) ==
    \A r \in Stages : r <= s =>
        \E a \in Attempts : h[a].case = c /\ h[a].stage = r /\ h[a].voted

\* A ballot concerns an attempt that was made; the stage at work was voted on
\* before it is recorded; a checkpoint covers the stages up to its own, and
\* the process every stage before the one it is at.
HistoryInv ==
    /\ \A a \in Attempts : info[a].voted => a <= next
    /\ pc \in {"record", "commit", "recordHalt"} => info[att].voted
    /\ ckpt # NoCkpt => Covered(info, ckpt.case, ckpt.stage)
    /\ pc \in {"group", "begin", "agent", "vote", "record", "commit", "recordHalt", "build",
              "clear"} => Covered(info, case, stage - 1)

\* No step takes a ballot back.
VotesKept ==
    \A a \in Attempts : info[a].voted =>
        info'[a].voted /\ info'[a].case = info[a].case /\ info'[a].stage = info[a].stage

\* What was covered stays covered.
LEMMA CoveredKept ==
    ASSUME VotesKept, NEW c, NEW s, Covered(info, c, s)
    PROVE  Covered(info', c, s)
BY DEF VotesKept, Covered

\* One more stage is covered once an attempt at it was voted on.
LEMMA CoveredNext ==
    ASSUME NEW h, NEW c, NEW s \in Stages, Covered(h, c, s - 1),
           NEW a \in Attempts, h[a].case = c, h[a].stage = s, h[a].voted
    PROVE  Covered(h, c, s)
<1> SUFFICES ASSUME NEW r \in Stages, r <= s
             PROVE  \E b \in Attempts : h[b].case = c /\ h[b].stage = r /\ h[b].voted
  BY DEF Covered
<1>1. CASE r = s
  BY <1>1
<1>2. CASE r # s
  <2>1. r <= s - 1
    BY <1>2 DEF Stages
  <2> QED BY <2>1 DEF Covered
<1> QED BY <1>1, <1>2

\* Only a vote, a write, a publication or a new transaction touch the history.
LEMMA KeepsVotes == BaseInv /\ HistoryInv /\ [Next]_vars => VotesKept
<1> SUFFICES ASSUME BaseInv, HistoryInv, [Next]_vars PROVE VotesKept
  OBVIOUS
<1>a. TypeOK
  BY DEF BaseInv
<1>1. CASE info' = info
  BY <1>1 DEF VotesKept
<1>2. ASSUME NEW f \in Files, Publish(f) \/ StageWrite(f) PROVE VotesKept
  BY <1>2, <1>a, VerdictsKept DEF VotesKept, SameVerdicts
<1>3. CASE Begin
  <2>1. \A a \in Attempts : info[a].voted => a # next + 1
    BY <1>a DEF HistoryInv, TypeOK, Attempts
  <2> QED BY <1>3, <1>a, <2>1, BeginFacts DEF VotesKept
<1>4. ASSUME NEW P \in SUBSET Validators, Vote(P), pc = "vote" PROVE VotesKept
  <2>1. att # 0
    BY <1>4 DEF BaseInv, AttemptInv, Working
  <2> QED BY <1>4, <1>a, <2>1, VoteFacts DEF VotesKept
<1>5. CASE Recover
  BY <1>5, <1>1, <1>2 DEF Recover, CleanRemove, CleanOpen, CleanApply, CleanClose, CleanDone,
     GatePass, GateClosed, GateOpened, ResolveInvalid, ResolveIntervention, SetRunning
<1>6. CASE Seed
  BY <1>6, <1>1 DEF Seed, AgentMissing, SeedFresh, SeedResume, SeedDissent
<1>7. CASE RunStage
  BY <1>7, <1>1, <1>2, <1>3, <1>4 DEF RunStage, InputMisaligned, AgentWrite, AgentReturn,
     AgentFail, AgentTimeout, QuorumPass, QuorumDissent, RecordStage, RecordStageFails, CommitFile,
     CommitDone, CommitFails, RecordQuorumHalt, RollbackFile, RollbackDone
<1>8. CASE Finish
  BY <1>8, <1>1 DEF Finish, CancelTasks, CloseSandbox, HaltEvent, HaltState, BuildOk, BuildFails,
     ClearCheckpoint, GroupEnds, Complete
<1>9. CASE QueueStep
  BY <1>9, <1>1 DEF QueueStep, GetEnvelope, GetStop, PutStop
<1>10. CASE Crash
  <2>1. \A a \in Attempts : /\ info'[a].voted = info[a].voted
                            /\ info'[a].case = info[a].case
                            /\ info'[a].stage = info[a].stage
    BY <1>10, <1>a, CrashFacts DEF Crash
  <2> QED BY <2>1 DEF VotesKept
<1> QED
  BY <1>1, <1>2, <1>5, <1>6, <1>7, <1>8, <1>9, <1>10 DEF Next, ProcessStep, Start, ZombieWrite,
     ZombieEnd, EditPayload, Rest, vars

\* Every step goes to the next stage only, and records only what was voted on.
LEMMA HistoryStep == BaseInv /\ HistoryInv /\ [Next]_vars => HistoryInv'
<1> SUFFICES ASSUME BaseInv, HistoryInv, [Next]_vars PROVE HistoryInv'
  OBVIOUS
<1>a. TypeOK /\ TypeOK'
  BY TypeStep DEF BaseInv
<1>b. VotesKept
  BY KeepsVotes
<1>c. \A c, s : Covered(info, c, s) => Covered(info', c, s)
  BY <1>b, CoveredKept
<1> USE <1>a, <1>b, <1>c
<1> USE DEF BaseInv, TypeOK, AttemptInv, CheckpointInv, HistoryInv, Idle, Working, group
<1>1. ASSUME NEW c \in Cases, NEW r \in BOOLEAN, Start(c, r) PROVE HistoryInv'
  BY <1>1 DEF Start, disk
<1>2. ASSUME NEW a \in Attempts, CleanRemove(a) PROVE HistoryInv'
  BY <1>2 DEF CleanRemove, proc, Mine
<1>3. ASSUME NEW a \in Attempts, CleanOpen(a) PROVE HistoryInv'
  BY <1>3 DEF CleanOpen, disk, Mine
<1>4. ASSUME NEW f \in Files, CleanApply(f) PROVE HistoryInv'
  BY <1>4, VerdictsKept DEF CleanApply, Publish, SameVerdicts, proc
<1>5. CASE CleanClose
  BY <1>5 DEF CleanClose
<1>6. CASE CleanDone
  BY <1>6 DEF CleanDone, disk
<1>7. CASE GatePass
  BY <1>7 DEF GatePass, disk
<1>8. CASE GateClosed
  BY <1>8 DEF GateClosed, Exit
<1>9. CASE GateOpened
  BY <1>9 DEF GateOpened
<1>10. CASE ResolveInvalid
  BY <1>10 DEF ResolveInvalid, Exit, disk
<1>11. CASE ResolveIntervention
  <2>1. ckpt # NoCkpt /\ ckpt \in Snapshots
    BY <1>11 DEF ResolveIntervention, Load
  <2>2. ckpt'.case = ckpt.case /\ ckpt'.stage = ckpt.stage
    BY <1>11, <2>1 DEF ResolveIntervention, Snapshots
  <2> QED BY <1>11, <2>1, <2>2 DEF ResolveIntervention
<1>12. CASE SetRunning
  BY <1>12 DEF SetRunning
<1>13. CASE AgentMissing
  BY <1>13 DEF AgentMissing, Halt, disk
<1>14. CASE SeedFresh
  <2>1. Covered(info', case', stage' - 1)
    BY <1>14 DEF SeedFresh, Covered, Stages
  <2> QED BY <1>14, <2>1 DEF SeedFresh, disk
<1>15. ASSUME NEW P \in SUBSET Validators, SeedResume(P) PROVE HistoryInv'
  <2>1. Covered(info, ckpt.case, ckpt.stage)
    BY <1>15, SeedFacts
  <2>2. stage' - 1 = ckpt.stage
    <3>1. stage' = ckpt.stage + 1 /\ ckpt.stage \in Stages
      BY <1>15, SeedFacts
    <3> QED BY ONLY <3>1 DEF Stages
  <2>3. UNCHANGED <<info, next, case>>
    BY <1>15 DEF SeedResume
  <2> QED BY <1>15, <2>1, <2>2, <2>3, SeedFacts
<1>16. ASSUME NEW P \in SUBSET Validators, SeedDissent(P) PROVE HistoryInv'
  BY <1>16 DEF SeedDissent, Halt, disk
<1>17. CASE InputMisaligned
  BY <1>17 DEF InputMisaligned, Halt, disk
<1>18. CASE Begin
  <2>1. \A a \in Attempts : info'[a].voted => a <= next'
    BY <1>18, BeginFacts DEF Begin, Attempts
  <2> QED BY <1>18, <2>1 DEF Begin
<1>19. ASSUME NEW f \in Files, AgentWrite(f) PROVE HistoryInv'
  BY <1>19, VerdictsKept DEF AgentWrite, StageWrite, SameVerdicts, proc
<1>20. CASE AgentReturn
  BY <1>20 DEF AgentReturn, disk
<1>21. ASSUME NEW k \in {"error", "misaligned"}, AgentFail(k) PROVE HistoryInv'
  BY <1>21 DEF AgentFail, Halt, disk
<1>22. CASE AgentTimeout
  BY <1>22 DEF AgentTimeout, Halt, disk
<1>23. ASSUME NEW P \in SUBSET Validators, QuorumPass(P) PROVE HistoryInv'
  <2>1. info'[att].voted /\ \A a \in Attempts : a # att => info'[a] = info[a]
    BY <1>23, VoteFacts DEF QuorumPass
  <2>2. \A a \in Attempts : info'[a].voted => a <= next
    BY <2>1 DEF FreshInv
  <2> QED BY <1>23, <2>1, <2>2 DEF QuorumPass, disk
<1>24. ASSUME NEW P \in SUBSET Validators, QuorumDissent(P) PROVE HistoryInv'
  <2>1. info'[att].voted /\ \A a \in Attempts : a # att => info'[a] = info[a]
    BY <1>24, VoteFacts DEF QuorumDissent
  <2>2. \A a \in Attempts : info'[a].voted => a <= next
    BY <2>1 DEF FreshInv
  <2> QED BY <1>24, <2>1, <2>2 DEF QuorumDissent, Halt, disk
<1>25. CASE RecordStage
  <2>1. Covered(info, case, stage)
    BY <1>25, CoveredNext DEF RecordStage
  <2> QED BY <1>25, <2>1 DEF RecordStage, Snapshot
<1>26. CASE RecordStageFails
  <2>1. Covered(info, case, stage)
    BY <1>26, CoveredNext DEF RecordStageFails
  <2>2. stage' - 1 = stage
    BY <1>26 DEF RecordStageFails, HandOn, Stages
  <2> QED BY <1>26, <2>1, <2>2 DEF RecordStageFails, HandOn, disk
<1>27. ASSUME NEW f \in Files, CommitFile(f) PROVE HistoryInv'
  BY <1>27, VerdictsKept DEF CommitFile, Publish, SameVerdicts, proc
<1>28. CASE CommitDone
  <2>1. Covered(info, case, stage)
    BY <1>28, CoveredNext DEF CommitDone
  <2>2. stage' - 1 = stage
    BY <1>28 DEF CommitDone, HandOn, Stages
  <2> QED BY <1>28, <2>1, <2>2 DEF CommitDone, HandOn
<1>29. CASE CommitFails
  BY <1>29 DEF CommitFails, Halt, disk
<1>30. CASE RecordQuorumHalt
  <2>1. Covered(info, case, stage)
    BY <1>30, CoveredNext DEF RecordQuorumHalt
  <2> QED BY <1>30, <2>1 DEF RecordQuorumHalt, Snapshot
<1>31. ASSUME NEW f \in Files, RollbackFile(f) PROVE HistoryInv'
  BY <1>31 DEF RollbackFile, proc
<1>32. CASE RollbackDone
  BY <1>32 DEF RollbackDone
<1>33. ASSUME NEW f \in Files, ZombieWrite(f) PROVE HistoryInv'
  BY <1>33, VerdictsKept DEF ZombieWrite, StageWrite, SameVerdicts, proc
<1>34. CASE ZombieEnd
  BY <1>34 DEF ZombieEnd, disk
<1>35. CASE CloseSandbox
  BY <1>35 DEF CloseSandbox, disk
<1>36. CASE HaltEvent
  BY <1>36 DEF HaltEvent, HaltEventOf
<1>37. CASE HaltState
  BY <1>37 DEF HaltState, HaltStateOf, Exit
<1>38. CASE BuildOk
  BY <1>38 DEF BuildOk, disk
<1>39. CASE BuildFails
  BY <1>39 DEF BuildFails, Halt, disk
<1>40. CASE ClearCheckpoint
  BY <1>40 DEF ClearCheckpoint
<1>41. CASE Complete
  BY <1>41 DEF Complete, Exit
<1>42. CASE Crash
  <2>1. \A a \in Attempts : info'[a].voted = info[a].voted
    BY <1>42, CrashFacts DEF Crash
  <2>2. pc' = "down" /\ UNCHANGED <<ckpt, next>>
    BY <1>42 DEF Crash, Exit, disk
  <2> QED BY <2>1, <2>2
<1>43. ASSUME NEW v \in BOOLEAN, EditPayload(v) PROVE HistoryInv'
  <2>1. ckpt \in Snapshots /\ ckpt'.case = ckpt.case /\ ckpt'.stage = ckpt.stage
    BY <1>43 DEF EditPayload, Snapshots
  <2> QED BY <1>43, <2>1 DEF EditPayload, proc
<1>44. ASSUME NEW t \in 2..BuildStage, GetEnvelope(t) PROVE HistoryInv'
  BY <1>44 DEF GetEnvelope, disk
<1>45. ASSUME NEW t \in 2..BuildStage, GetStop(t) PROVE HistoryInv'
  BY <1>45 DEF GetStop, Halt, Awaits, disk
<1>46. ASSUME NEW t \in 0..3, PutStop(t) PROVE HistoryInv'
  BY <1>46 DEF PutStop, Awaits, disk
<1>47. CASE CancelTasks
  BY <1>47 DEF CancelTasks, disk
<1>48. CASE GroupEnds
  BY <1>48 DEF GroupEnds, disk
<1>49. CASE UNCHANGED vars
  BY <1>49 DEF vars, disk, proc
<1> HIDE DEF HistoryInv
<1> QED
  BY <1>1, <1>2, <1>3, <1>4, <1>5, <1>6, <1>7, <1>8, <1>9, <1>10, <1>11, <1>12, <1>13, <1>14,
     <1>15, <1>16, <1>17, <1>18, <1>19, <1>20, <1>21, <1>22, <1>23, <1>24, <1>25, <1>26, <1>27,
     <1>28, <1>29, <1>30, <1>31, <1>32, <1>33, <1>34, <1>35, <1>36, <1>37, <1>38, <1>39, <1>40,
     <1>41, <1>42, <1>43, <1>44, <1>45, <1>46, <1>47, <1>48, <1>49
  DEF Next, ProcessStep, Recover, Seed, QueueStep, RunStage, Finish, Rest

\* No history at first.
LEMMA InitHistory == Init => HistoryInv
<1> SUFFICES ASSUME Init PROVE HistoryInv
  OBVIOUS
<1>1. \A a \in Attempts : info[a].voted = FALSE
  BY DEF Init, NoAttempt
<1> QED BY <1>1 DEF Init, HistoryInv

\* The base invariant is inductive, whatever the faults.
LEMMA BaseInductive == (Init => BaseInv) /\ (BaseInv /\ [Next]_vars => BaseInv')
BY InitGate, TypeStep, AttemptStep, FreshStep, CheckpointStep DEF GateInv, BaseInv

\* A stage is started only after every earlier stage of the same case was put
\* to the vote, across crashes, failed checkpoint writes and resumed runs.
THEOREM StagesInOrder == Spec => []NoStageSkipped
<1>1. BaseInv /\ HistoryInv => NoStageSkipped
  <2> SUFFICES ASSUME BaseInv, HistoryInv, NEW s \in Stages, s < stage, Covered(info, case, stage - 1)
               PROVE  \E a \in Attempts : info[a].case = case /\ info[a].stage = s /\ info[a].voted
    BY DEF NoStageSkipped, HistoryInv
  <2>1. s <= stage - 1
    BY DEF BaseInv, TypeOK, Stages, BuildStage
  <2> QED BY <2>1 DEF Covered
<1> QED BY BaseInductive, InitHistory, HistoryStep, <1>1, PTL DEF Spec

\* A transaction is opened only for a stage beyond the checkpointed one: what
\* record_stage wrote is never executed again for that case, whatever fails.
THEOREM StagesNotRerun == Spec => NoStageRerun
<1> DEFINE A == next' # next => ckpt = NoCkpt \/ ckpt.case # case \/ ckpt.stage < stage
<1>1. BaseInv /\ [Next]_vars => [A]_vars
  <2> SUFFICES ASSUME BaseInv, Next, next' # next
               PROVE  ckpt = NoCkpt \/ ckpt.case # case \/ ckpt.stage < stage
    OBVIOUS
  <2>1. Begin
    BY DEF Next, ProcessStep, Recover, Seed, QueueStep, RunStage, Finish, Rest, vars, Start, CleanRemove,
       CleanOpen, CleanApply, CleanClose, CleanDone, GatePass, GateClosed, GateOpened, ResolveInvalid,
       ResolveIntervention, SetRunning, AgentMissing, SeedFresh, SeedResume, SeedDissent,
       InputMisaligned, AgentWrite, AgentReturn, AgentFail, AgentTimeout, QuorumPass, QuorumDissent,
       RecordStage, RecordStageFails, CommitFile, CommitDone, CommitFails, RecordQuorumHalt,
       RollbackFile, RollbackDone, ZombieWrite, ZombieEnd, CloseSandbox, HaltEvent, HaltState,
       BuildOk, BuildFails, ClearCheckpoint, Complete, Crash, EditPayload, GetEnvelope, GetStop,
       PutStop, CancelTasks, GroupEnds
  <2> QED BY <2>1 DEF Begin, BaseInv, CheckpointInv, Load
<1>2. NoStageRerun <=> [][A]_vars
  BY DEF NoStageRerun
<1> HIDE DEF A
<1> QED BY BaseInductive, <1>1, <1>2, PTL DEF Spec

-----------------------------------------------------------------------------
(* Staging directories: who still has files to publish *)

\* After the clean-up a run finds no directory of its case but the one of the
\* attempt at work.
MineInv ==
    /\ pc \in {"gate", "resolve", "resolved", "seed", "group", "begin", "build", "clear", "built",
              "result"} => Mine = {}
    /\ pc \in Working => Mine \subseteq {att} /\ att = next

\* At most one directory can be replayed, and nothing newer is live.
ReplayInv ==
    /\ \A a, b \in dirs : Replayable(a) /\ Replayable(b) => a = b
    /\ \A a \in dirs : Replayable(a) => \A f \in Files : live[f] <= a
    /\ pc = "commit" => ckpt # NoCkpt /\ ckpt.case = case /\ ckpt.stage = stage
    /\ pc = "clean" /\ att # 0 => att \in dirs /\ Replayable(att)

OrderInv == BaseInv /\ MineInv /\ ReplayInv

\* Every step of a run that could write its checkpoints leaves at most its own
\* directory behind.
LEMMA MineStep == "ckpt" \notin Faults /\ OrderInv /\ [Next]_vars => MineInv'
<1> SUFFICES ASSUME "ckpt" \notin Faults, OrderInv, [Next]_vars PROVE MineInv'
  OBVIOUS
<1> USE DEF OrderInv, BaseInv, TypeOK, AttemptInv, MineInv, Mine, Idle, Working, group
<1>1. ASSUME NEW c \in Cases, NEW r \in BOOLEAN, Start(c, r) PROVE MineInv'
  BY <1>1 DEF Start, disk
<1>2. ASSUME NEW a \in Attempts, CleanRemove(a) PROVE MineInv'
  BY <1>2 DEF CleanRemove, proc, Mine
<1>3. ASSUME NEW a \in Attempts, CleanOpen(a) PROVE MineInv'
  BY <1>3 DEF CleanOpen, disk, Mine
<1>4. ASSUME NEW f \in Files, CleanApply(f) PROVE MineInv'
  BY <1>4, VerdictsKept DEF CleanApply, Publish, SameVerdicts, proc
<1>5. CASE CleanClose
  BY <1>5 DEF CleanClose
<1>6. CASE CleanDone
  BY <1>6 DEF CleanDone, disk
<1>7. CASE GatePass
  BY <1>7 DEF GatePass, disk
<1>8. CASE GateClosed
  BY <1>8 DEF GateClosed, Exit
<1>9. CASE GateOpened
  BY <1>9 DEF GateOpened
<1>10. CASE ResolveInvalid
  BY <1>10 DEF ResolveInvalid, Exit, disk
<1>11. CASE ResolveIntervention
  BY <1>11 DEF ResolveIntervention
<1>12. CASE SetRunning
  BY <1>12 DEF SetRunning
<1>13. CASE AgentMissing
  BY <1>13 DEF AgentMissing, Halt, disk
<1>14. CASE SeedFresh
  BY <1>14 DEF SeedFresh, disk
<1>15. ASSUME NEW P \in SUBSET Validators, SeedResume(P) PROVE MineInv'
  BY <1>15 DEF SeedResume, HandOn, Snapshot
<1>16. ASSUME NEW P \in SUBSET Validators, SeedDissent(P) PROVE MineInv'
  BY <1>16 DEF SeedDissent, Halt, disk
<1>17. CASE InputMisaligned
  BY <1>17 DEF InputMisaligned, Halt, disk
<1>18. CASE Begin
  <2>1. \A a \in dirs : a \in Attempts /\ a # att' /\ info'[a] = info[a]
    BY <1>18, BeginFacts DEF FreshInv
  <2> QED BY <1>18, <2>1, BeginFacts DEF Begin
<1>19. ASSUME NEW f \in Files, AgentWrite(f) PROVE MineInv'
  BY <1>19, VerdictsKept DEF AgentWrite, StageWrite, SameVerdicts, proc
<1>20. CASE AgentReturn
  BY <1>20 DEF AgentReturn, disk
<1>21. ASSUME NEW k \in {"error", "misaligned"}, AgentFail(k) PROVE MineInv'
  BY <1>21 DEF AgentFail, Halt, disk
<1>22. CASE AgentTimeout
  BY <1>22 DEF AgentTimeout, Halt, disk
<1>23. ASSUME NEW P \in SUBSET Validators, QuorumPass(P) PROVE MineInv'
  BY <1>23, VoteFacts DEF QuorumPass, disk
<1>24. ASSUME NEW P \in SUBSET Validators, QuorumDissent(P) PROVE MineInv'
  BY <1>24, VoteFacts DEF QuorumDissent, Halt, disk
<1>25. CASE RecordStage
  BY <1>25 DEF RecordStage, Snapshot
<1>26. CASE RecordStageFails
  BY <1>26 DEF RecordStageFails, HandOn, disk
<1>27. ASSUME NEW f \in Files, CommitFile(f) PROVE MineInv'
  BY <1>27, VerdictsKept DEF CommitFile, Publish, SameVerdicts, proc
<1>28. CASE CommitDone
  BY <1>28 DEF CommitDone, HandOn
<1>29. CASE CommitFails
  BY <1>29 DEF CommitFails, Halt, disk
<1>30. CASE RecordQuorumHalt
  BY <1>30 DEF RecordQuorumHalt, Snapshot
<1>31. ASSUME NEW f \in Files, RollbackFile(f) PROVE MineInv'
  BY <1>31 DEF RollbackFile, proc
<1>32. CASE RollbackDone
  BY <1>32 DEF RollbackDone
<1>33. ASSUME NEW f \in Files, ZombieWrite(f) PROVE MineInv'
  BY <1>33, VerdictsKept DEF ZombieWrite, StageWrite, SameVerdicts, proc
<1>34. CASE ZombieEnd
  BY <1>34 DEF ZombieEnd, disk
<1>35. CASE CloseSandbox
  BY <1>35 DEF CloseSandbox, disk
<1>36. CASE HaltEvent
  BY <1>36 DEF HaltEvent, HaltEventOf
<1>37. CASE HaltState
  BY <1>37 DEF HaltState, HaltStateOf, Exit
<1>38. CASE BuildOk
  BY <1>38 DEF BuildOk, disk
<1>39. CASE BuildFails
  BY <1>39 DEF BuildFails, Halt, disk
<1>40. CASE ClearCheckpoint
  BY <1>40 DEF ClearCheckpoint
<1>41. CASE Complete
  BY <1>41 DEF Complete, Exit
<1>42. CASE Crash
  BY <1>42, CrashFacts DEF Crash, Exit, disk
<1>43. ASSUME NEW v \in BOOLEAN, EditPayload(v) PROVE MineInv'
  BY <1>43 DEF EditPayload, proc
<1>44. ASSUME NEW t \in 2..BuildStage, GetEnvelope(t) PROVE MineInv'
  BY <1>44 DEF GetEnvelope, disk
<1>45. ASSUME NEW t \in 2..BuildStage, GetStop(t) PROVE MineInv'
  BY <1>45 DEF GetStop, Halt, Awaits, disk
<1>46. ASSUME NEW t \in 0..3, PutStop(t) PROVE MineInv'
  BY <1>46 DEF PutStop, Awaits, disk
<1>47. CASE CancelTasks
  BY <1>47 DEF CancelTasks, disk
<1>48. CASE GroupEnds
  BY <1>48 DEF GroupEnds, disk
<1>49. CASE UNCHANGED vars
  BY <1>49 DEF vars, disk, proc
<1> QED
  BY <1>1, <1>2, <1>3, <1>4, <1>5, <1>6, <1>7, <1>8, <1>9, <1>10, <1>11, <1>12, <1>13, <1>14,
     <1>15, <1>16, <1>17, <1>18, <1>19, <1>20, <1>21, <1>22, <1>23, <1>24, <1>25, <1>26, <1>27,
     <1>28, <1>29, <1>30, <1>31, <1>32, <1>33, <1>34, <1>35, <1>36, <1>37, <1>38, <1>39, <1>40,
     <1>41, <1>42, <1>43, <1>44, <1>45, <1>46, <1>47, <1>48, <1>49
  DEF Next, ProcessStep, Recover, Seed, QueueStep, RunStage, Finish, Rest

\* Every step keeps what can be replayed unique and the newest of its files.
LEMMA ReplayStep == "ckpt" \notin Faults /\ OrderInv /\ [Next]_vars => ReplayInv'
<1> SUFFICES ASSUME "ckpt" \notin Faults, OrderInv, [Next]_vars PROVE ReplayInv'
  OBVIOUS
<1> USE DEF OrderInv, BaseInv, TypeOK, AttemptInv, FreshInv, CheckpointInv, MineInv, ReplayInv,
           Replayable, Mine, Load, Idle, Working, group
<1>1. ASSUME NEW c \in Cases, NEW r \in BOOLEAN, Start(c, r) PROVE ReplayInv'
  BY <1>1 DEF Start, disk
<1>2. ASSUME NEW a \in Attempts, CleanRemove(a) PROVE ReplayInv'
  BY <1>2 DEF CleanRemove, proc, Mine
<1>3. ASSUME NEW a \in Attempts, CleanOpen(a) PROVE ReplayInv'
  <2>1. info[a].stage \in Stages /\ info[a].case = case /\ a \in dirs
    BY <1>3 DEF CleanOpen
  <2>2. resume # NoCkpt /\ info[a].stage <= resume.stage
    BY <1>3, <2>1 DEF CleanOpen, ActiveStage, Stages
  <2>3. Replayable(a)
    BY <1>3, <2>1, <2>2 DEF CleanOpen
  <2> QED BY <1>3, <2>1, <2>3 DEF CleanOpen, disk
<1>4. ASSUME NEW f \in Files, CleanApply(f) PROVE ReplayInv'
  <2>1. \A a \in dirs : a \in Attempts /\ (Replayable(a)' <=> Replayable(a))
    BY <1>4, VerdictsKept DEF CleanApply, SameVerdicts
  <2>2. \A a \in dirs : Replayable(a) => a = att
    BY <1>4 DEF CleanApply
  <2>3. \A g \in Files : live'[g] <= att
    BY <1>4 DEF CleanApply, Publish, Attempts
  <2>4. UNCHANGED <<dirs, ckpt, pc, case, stage, att>>
    BY <1>4 DEF CleanApply, proc
  <2>5. \A a \in dirs : Replayable(a)' => a = att /\ Replayable(a)
    BY <2>1, <2>2
  <2>6. pc = "clean" => att \in dirs /\ Replayable(att)'
    BY <1>4, <2>4, VerdictsKept DEF CleanApply, SameVerdicts
  <2> HIDE DEF Replayable
  <2> QED BY <2>3, <2>4, <2>5, <2>6
<1>5. CASE CleanClose
  BY <1>5 DEF CleanClose
<1>6. CASE CleanDone
  BY <1>6 DEF CleanDone, disk
<1>7. CASE GatePass
  BY <1>7 DEF GatePass, disk
<1>8. CASE GateClosed
  BY <1>8 DEF GateClosed, Exit
<1>9. CASE GateOpened
  BY <1>9 DEF GateOpened
<1>10. CASE ResolveInvalid
  BY <1>10 DEF ResolveInvalid, Exit, disk
<1>11. CASE ResolveIntervention
  BY <1>11 DEF ResolveIntervention
<1>12. CASE SetRunning
  BY <1>12 DEF SetRunning
<1>13. CASE AgentMissing
  BY <1>13 DEF AgentMissing, Halt, disk
<1>14. CASE SeedFresh
  BY <1>14 DEF SeedFresh, disk
<1>15. ASSUME NEW P \in SUBSET Validators, SeedResume(P) PROVE ReplayInv'
  BY <1>15 DEF SeedResume, HandOn, Snapshot
<1>16. ASSUME NEW P \in SUBSET Validators, SeedDissent(P) PROVE ReplayInv'
  BY <1>16 DEF SeedDissent, Halt, disk
<1>17. CASE InputMisaligned
  BY <1>17 DEF InputMisaligned, Halt, disk
<1>18. CASE Begin
  <2>1. \A a \in dirs : a \in Attempts /\ a # att' /\ info'[a] = info[a]
    BY <1>18, BeginFacts
  <2>2. ~Replayable(att)'
    <3>1. Load(case) = NoCkpt \/ ckpt.stage < stage
      BY <1>18 DEF Begin
    <3>2. ckpt # NoCkpt => ckpt.stage \in Stages
      BY DEF Snapshots
    <3>3. ckpt' = ckpt /\ info'[att'].case = case /\ info'[att'].stage = stage /\ stage \in Stages
      BY <1>18, BeginFacts DEF Begin
    <3> HIDE DEF OrderInv
    <3> QED BY <3>1, <3>2, <3>3 DEF Replayable, Load, Stages
  <2>3. dirs' = dirs \cup {att'} /\ pc' = "agent" /\ UNCHANGED <<ckpt, live>>
    BY <1>18 DEF Begin
  <2>4. \A a \in dirs' : Replayable(a)' => a \in dirs /\ Replayable(a)
    BY <2>1, <2>2, <2>3
  <2> HIDE DEF Replayable
  <2> QED BY <2>3, <2>4
<1>19. ASSUME NEW f \in Files, AgentWrite(f) PROVE ReplayInv'
  <2>1. SameVerdicts
    BY <1>19, VerdictsKept DEF AgentWrite
  <2>2. UNCHANGED <<dirs, ckpt, live, pc, case, stage, att>> /\ pc = "agent"
    BY <1>19 DEF AgentWrite, proc
  <2>3. \A a \in dirs : Replayable(a)' <=> Replayable(a)
    BY <2>1, <2>2 DEF SameVerdicts
  <2> HIDE DEF Replayable
  <2> QED BY <2>2, <2>3
<1>20. CASE AgentReturn
  BY <1>20 DEF AgentReturn, disk
<1>21. ASSUME NEW k \in {"error", "misaligned"}, AgentFail(k) PROVE ReplayInv'
  BY <1>21 DEF AgentFail, Halt, disk
<1>22. CASE AgentTimeout
  BY <1>22 DEF AgentTimeout, Halt, disk
<1>23. ASSUME NEW P \in SUBSET Validators, QuorumPass(P) PROVE ReplayInv'
  BY <1>23, VoteFacts DEF QuorumPass, disk
<1>24. ASSUME NEW P \in SUBSET Validators, QuorumDissent(P) PROVE ReplayInv'
  BY <1>24, VoteFacts DEF QuorumDissent, Halt, disk
<1>25. CASE RecordStage
  <2>1. ckpt' # NoCkpt /\ ckpt'.case = case /\ ckpt'.stage = stage
    BY <1>25 DEF RecordStage, Snapshot, NoCkpt
  <2>2. \A a \in dirs : Replayable(a)' => a = att
    BY <1>25, <2>1 DEF RecordStage
  <2>3. \A f \in Files : live[f] <= att
    BY <1>25 DEF RecordStage
  <2>4. pc' = "commit" /\ UNCHANGED <<dirs, live, case, stage, att, info>>
    BY <1>25 DEF RecordStage
  <2> HIDE DEF Replayable
  <2> QED BY <2>1, <2>2, <2>3, <2>4
<1>26. CASE RecordStageFails
  BY <1>26 DEF RecordStageFails, HandOn, disk
<1>27. ASSUME NEW f \in Files, CommitFile(f) PROVE ReplayInv'
  BY <1>27, VerdictsKept DEF CommitFile, Publish, SameVerdicts, proc
<1>28. CASE CommitDone
  BY <1>28 DEF CommitDone, HandOn
<1>29. CASE CommitFails
  BY <1>29 DEF CommitFails, Halt, disk
<1>30. CASE RecordQuorumHalt
  BY <1>30 DEF RecordQuorumHalt, Snapshot
<1>31. ASSUME NEW f \in Files, RollbackFile(f) PROVE ReplayInv'
  BY <1>31 DEF RollbackFile, proc
<1>32. CASE RollbackDone
  BY <1>32 DEF RollbackDone
<1>33. ASSUME NEW f \in Files, ZombieWrite(f) PROVE ReplayInv'
  <2>1. SameVerdicts
    BY <1>33, VerdictsKept DEF ZombieWrite
  <2>2. ~Replayable(att)
    BY <1>33 DEF ZombieWrite, Snapshots, Stages
  <2>3. att \in Attempts /\ dirs' = dirs \cup {att} /\ UNCHANGED <<ckpt, live, pc, att, case, stage>>
    BY <1>33 DEF ZombieWrite, proc
  <2>4. \A a \in dirs' : Replayable(a)' => a \in dirs /\ Replayable(a)
    BY <2>1, <2>2, <2>3 DEF SameVerdicts
  <2>5. pc \in {"rollback", "close"}
    BY <1>33 DEF ZombieWrite
  <2> HIDE DEF Replayable
  <2> QED BY <2>3, <2>4, <2>5
<1>34. CASE ZombieEnd
  BY <1>34 DEF ZombieEnd, disk
<1>35. CASE CloseSandbox
  BY <1>35 DEF CloseSandbox, disk
<1>36. CASE HaltEvent
  BY <1>36 DEF HaltEvent, HaltEventOf
<1>37. CASE HaltState
  BY <1>37 DEF HaltState, HaltStateOf, Exit
<1>38. CASE BuildOk
  BY <1>38 DEF BuildOk, disk
<1>39. CASE BuildFails
  BY <1>39 DEF BuildFails, Halt, disk
<1>40. CASE ClearCheckpoint
  BY <1>40 DEF ClearCheckpoint
<1>41. CASE Complete
  BY <1>41 DEF Complete, Exit
<1>42. CASE Crash
  BY <1>42, CrashFacts DEF Crash, Exit, disk
<1>43. ASSUME NEW v \in BOOLEAN, EditPayload(v) PROVE ReplayInv'
  BY <1>43 DEF EditPayload, proc
<1>44. ASSUME NEW t \in 2..BuildStage, GetEnvelope(t) PROVE ReplayInv'
  BY <1>44 DEF GetEnvelope, disk
<1>45. ASSUME NEW t \in 2..BuildStage, GetStop(t) PROVE ReplayInv'
  BY <1>45 DEF GetStop, Halt, Awaits, disk
<1>46. ASSUME NEW t \in 0..3, PutStop(t) PROVE ReplayInv'
  BY <1>46 DEF PutStop, Awaits, disk
<1>47. CASE CancelTasks
  BY <1>47 DEF CancelTasks, disk
<1>48. CASE GroupEnds
  BY <1>48 DEF GroupEnds, disk
<1>49. CASE UNCHANGED vars
  BY <1>49 DEF vars, disk, proc
<1> QED
  BY <1>1, <1>2, <1>3, <1>4, <1>5, <1>6, <1>7, <1>8, <1>9, <1>10, <1>11, <1>12, <1>13, <1>14,
     <1>15, <1>16, <1>17, <1>18, <1>19, <1>20, <1>21, <1>22, <1>23, <1>24, <1>25, <1>26, <1>27,
     <1>28, <1>29, <1>30, <1>31, <1>32, <1>33, <1>34, <1>35, <1>36, <1>37, <1>38, <1>39, <1>40,
     <1>41, <1>42, <1>43, <1>44, <1>45, <1>46, <1>47, <1>48, <1>49
  DEF Next, ProcessStep, Recover, Seed, QueueStep, RunStage, Finish, Rest

\* The clean-up invariant holds as long as checkpoints can be written.
LEMMA OrderInductive ==
    ASSUME "ckpt" \notin Faults
    PROVE  (Init => OrderInv) /\ (OrderInv /\ [Next]_vars => OrderInv')
<1>1. Init => MineInv /\ ReplayInv
  BY DEF Init, MineInv, ReplayInv, Working
<1> QED BY <1>1, BaseInductive, MineStep, ReplayStep DEF OrderInv

\* When the build is done nothing the stages wrote is left in a staging
\* directory, as long as record_stage can write the checkpoint: whatever
\* crashes, time-outs and failed commits came before.
THEOREM CompletedRunsClean == ASSUME "ckpt" \notin Faults PROVE Spec => []CompletedClean
<1>1. OrderInv => CompletedClean
  BY DEF OrderInv, MineInv, CompletedClean
<1> QED BY OrderInductive, <1>1, PTL DEF Spec

\* Neither a commit nor the replay of a left-over staging directory puts an
\* older version of a workspace file over a newer one, for any number of cases
\* sharing the log directory, as long as record_stage can write the checkpoint.
THEOREM LiveNeverGoesBack == ASSUME "ckpt" \notin Faults PROVE Spec => LiveMonotone
<1> DEFINE A == \A f \in Files : live'[f] >= live[f]
<1>1. OrderInv /\ [Next]_vars => [A]_vars
  <2> SUFFICES ASSUME OrderInv, Next PROVE A
    OBVIOUS
  <2>a. TypeOK /\ \A f \in Files : live[f] \in Nat
    BY DEF OrderInv, BaseInv, TypeOK, Attempts
  <2>1. CASE live' = live
    BY <2>1, <2>a
  <2>2. ASSUME NEW g \in Files, CleanApply(g) \/ CommitFile(g) PROVE A
    <3>1. att \in Nat /\ \A f \in Files : live[f] <= att
      BY <2>2 DEF OrderInv, BaseInv, TypeOK, FreshInv, MineInv, ReplayInv, Working, CleanApply,
         CommitFile, Attempts
    <3>2. live' = [live EXCEPT ![g] = att]
      BY <2>2 DEF CleanApply, CommitFile, Publish
    <3> QED BY <2>a, <3>1, <3>2 DEF TypeOK
  <2> HIDE DEF A
  <2> QED
    BY <2>1, <2>2 DEF Next, ProcessStep, Recover, Seed, QueueStep, RunStage, Finish, Rest, vars, disk, Start,
       CleanRemove, CleanOpen, CleanClose, CleanDone, GatePass, GateClosed, GateOpened,
       ResolveInvalid, ResolveIntervention, SetRunning, AgentMissing, SeedFresh, SeedResume,
       SeedDissent, InputMisaligned, Begin, AgentWrite, AgentReturn, AgentFail, AgentTimeout,
       QuorumPass, QuorumDissent, RecordStage, RecordStageFails, CommitDone, CommitFails,
       RecordQuorumHalt, RollbackFile, RollbackDone, ZombieWrite, ZombieEnd, CloseSandbox,
       HaltEvent, HaltState, BuildOk, BuildFails, ClearCheckpoint, Complete, Crash, EditPayload,
       GetEnvelope, GetStop, PutStop, CancelTasks, GroupEnds
<1>2. LiveMonotone <=> [][A]_vars
  BY DEF LiveMonotone
<1> HIDE DEF A
<1> QED BY OrderInductive, <1>1, <1>2, PTL DEF Spec

\* What an attempt has staged is what it wrote and has not published.
Whole(a) == staged[a] = info[a].wrote \ info[a].applied

StagedInv ==
    /\ \A a \in Attempts : info[a].applied \subseteq info[a].wrote /\ staged[a] \subseteq info[a].wrote
    /\ \A a \in Attempts : a \notin dirs => staged[a] = {}
    /\ \A a \in dirs : info[a].case \in Cases
    /\ \A a \in dirs : Replayable(a) =>
          Whole(a) \/ info[a].cut \/ (a = att /\ kind = "dissent" /\ pc = "rollback")
    /\ pc \in Working \ {"rollback"} => att \in dirs /\ Whole(att)
    /\ pc = "rollback" /\ kind # "dissent" => ~Replayable(att)
    /\ (pc \in Working \ {"commit"} \/ pc = "close") /\ att # 0 => info[att].applied = {}

\* One business case uses the log directory, and every write of a checkpoint or
\* commit runs to its end or to a crash before it.
OneCaseWritesSucceed ==
    /\ \A c, d \in Cases : c = d
    /\ Faults \cap {"ckpt", "commitio"} = {}

AtomicInv == OrderInv /\ StagedInv /\ CrashAtomic

\* What os.replace of one staged file changes.
LEMMA PublishFacts ==
    ASSUME TypeOK, NEW f \in Files, Publish(f), att # 0
    PROVE  /\ staged'[att] = staged[att] \ {f} /\ f \in staged[att]
           /\ info'[att].applied = info[att].applied \cup {f}
           /\ info'[att].wrote = info[att].wrote
           /\ \A a \in Attempts : a # att => staged'[a] = staged[a] /\ info'[a] = info[a]
<1>1. /\ att \in Attempts /\ info \in [Attempts -> AttemptInfo] /\ info[att] \in AttemptInfo
      /\ staged \in [Attempts -> SUBSET Files]
  BY DEF TypeOK
<1> QED BY <1>1 DEF Publish, AttemptInfo

\* What one redirected write of an agent changes.
LEMMA WriteFacts ==
    ASSUME TypeOK, NEW f \in Files, StageWrite(f), att # 0
    PROVE  /\ staged'[att] = staged[att] \cup {f}
           /\ info'[att].wrote = info[att].wrote \cup {f}
           /\ info'[att].applied = info[att].applied
           /\ \A a \in Attempts : a # att => staged'[a] = staged[a] /\ info'[a] = info[a]
<1>1. /\ att \in Attempts /\ info \in [Attempts -> AttemptInfo] /\ info[att] \in AttemptInfo
      /\ staged \in [Attempts -> SUBSET Files]
  BY DEF TypeOK
<1> QED BY <1>1 DEF StageWrite, AttemptInfo

\* An edited checkpoint names the same case and stage.
LEMMA EditedSnapshot ==
    ASSUME NEW s \in Snapshots, NEW v \in BOOLEAN
    PROVE  LET e == [s EXCEPT !.signed = FALSE, !.valid = v]
           IN  e.case = s.case /\ e.stage = s.stage /\ e # NoCkpt
BY DEF Snapshots, NoCkpt

\* Every step keeps what an attempt wrote, staged and published in balance.
LEMMA AtomicStep == OneCaseWritesSucceed /\ AtomicInv /\ [Next]_vars => (StagedInv /\ CrashAtomic)'
<1> SUFFICES ASSUME OneCaseWritesSucceed, AtomicInv, [Next]_vars PROVE (StagedInv /\ CrashAtomic)'
  OBVIOUS
<1> USE DEF OneCaseWritesSucceed, AtomicInv, OrderInv, BaseInv, TypeOK, AttemptInv, FreshInv,
           CheckpointInv, MineInv, ReplayInv, StagedInv, CrashAtomic, Whole, Replayable, Mine,
           Load, Idle, Working, group
<1>1. ASSUME NEW c \in Cases, NEW r \in BOOLEAN, Start(c, r) PROVE (StagedInv /\ CrashAtomic)'
  BY <1>1 DEF Start, disk
<1>2. ASSUME NEW a \in Attempts, CleanRemove(a) PROVE (StagedInv /\ CrashAtomic)'
  <2>1. info[a].applied \in {{}, info[a].wrote} \/ info[a].cut
    <3> SUFFICES ASSUME info[a].applied \notin {{}, info[a].wrote}, ~info[a].cut PROVE FALSE
      OBVIOUS
    <3>1. ckpt # NoCkpt /\ ckpt.case = info[a].case /\ info[a].stage <= ckpt.stage
      OBVIOUS
    <3>2. resume = ckpt /\ ckpt.stage \in Stages /\ info[a].stage \in Stages
      BY <1>2, <3>1 DEF CleanRemove, Snapshots
    <3> HIDE DEF AtomicInv
    <3> QED BY <1>2, <3>1, <3>2 DEF CleanRemove, ActiveStage, Stages
  <2>2. /\ a \in dirs /\ dirs' = dirs \ {a} /\ staged' = [staged EXCEPT ![a] = {}]
        /\ UNCHANGED <<ckpt, info, pc, att, case, kind>> /\ pc = "clean" /\ att = 0
    BY <1>2 DEF CleanRemove, proc
  <2> QED BY <2>1, <2>2
<1>3. ASSUME NEW a \in Attempts, CleanOpen(a) PROVE (StagedInv /\ CrashAtomic)'
  BY <1>3 DEF CleanOpen, disk, Mine
<1>4. ASSUME NEW f \in Files, CleanApply(f) PROVE (StagedInv /\ CrashAtomic)'
  <2>1. SameVerdicts
    BY <1>4, VerdictsKept DEF CleanApply
  <2>2. /\ staged'[att] = staged[att] \ {f} /\ f \in staged[att]
        /\ info'[att].applied = info[att].applied \cup {f}
        /\ info'[att].wrote = info[att].wrote
        /\ \A a \in Attempts : a # att => staged'[a] = staged[a] /\ info'[a] = info[a]
    BY <1>4, PublishFacts DEF CleanApply
  <2>3. pc = "clean" /\ att # 0 /\ UNCHANGED <<dirs, ckpt, pc, att, case, stage, kind>>
    BY <1>4 DEF CleanApply, proc
  <2>4. att \in dirs /\ Replayable(att) /\ (Whole(att) \/ info[att].cut)
    BY <2>3
  <2>5. StagedInv'
    <3>1. \A a \in dirs : a \in Attempts /\ (Replayable(a)' <=> Replayable(a))
      BY <2>1, <2>3 DEF SameVerdicts
    <3>2. \A a \in dirs : Whole(a) => Whole(a)'
      BY <2>2
    <3>3. \A a \in Attempts : info'[a].applied \subseteq info'[a].wrote
      BY <2>2, <2>4
    <3>4. \A a \in Attempts : a \notin dirs => staged'[a] = {}
      BY <2>2, <2>4
    <3>5. \A a \in dirs : info'[a].case \in Cases
      BY <2>1 DEF SameVerdicts
    <3>6. \A a \in dirs : Replayable(a)' => Whole(a)' \/ info'[a].cut
      BY <2>1, <2>3, <3>1, <3>2 DEF SameVerdicts
    <3>7. \A a \in Attempts : staged'[a] \subseteq info'[a].wrote
      BY <2>2
    <3> HIDE DEF Whole, Replayable, AtomicInv
    <3> QED BY <2>3, <3>3, <3>4, <3>5, <3>6, <3>7
  <2>6. CrashAtomic'
    BY <2>1, <2>2, <2>3, <2>4 DEF SameVerdicts
  <2> QED BY <2>5, <2>6
<1>5. CASE CleanClose
  <2>1. att \in dirs /\ (Whole(att) \/ info[att].cut)
    BY <1>5 DEF CleanClose
  <2>2. info[att].applied = info[att].wrote \/ info[att].cut
    <3>1. staged[att] = {} /\ att \in Attempts
      BY <1>5, <2>1 DEF CleanClose
    <3>2. info[att].applied \subseteq info[att].wrote
      BY <3>1
    <3>3. staged[att] = info[att].wrote \ info[att].applied \/ info[att].cut
      BY <2>1
    <3> QED BY ONLY <3>1, <3>2, <3>3
  <2> QED BY <1>5, <2>2 DEF CleanClose
<1>6. CASE CleanDone
  BY <1>6 DEF CleanDone, disk
<1>7. CASE GatePass
  BY <1>7 DEF GatePass, disk
<1>8. CASE GateClosed
  BY <1>8 DEF GateClosed, Exit
<1>9. CASE GateOpened
  BY <1>9 DEF GateOpened
<1>10. CASE ResolveInvalid
  BY <1>10 DEF ResolveInvalid, Exit, disk
<1>11. CASE ResolveIntervention
  BY <1>11 DEF ResolveIntervention
<1>12. CASE SetRunning
  BY <1>12 DEF SetRunning
<1>13. CASE AgentMissing
  BY <1>13 DEF AgentMissing, Halt, disk
<1>14. CASE SeedFresh
  BY <1>14 DEF SeedFresh, disk
<1>15. ASSUME NEW P \in SUBSET Validators, SeedResume(P) PROVE (StagedInv /\ CrashAtomic)'
  BY <1>15 DEF SeedResume, HandOn, Snapshot
<1>16. ASSUME NEW P \in SUBSET Validators, SeedDissent(P) PROVE (StagedInv /\ CrashAtomic)'
  BY <1>16 DEF SeedDissent, Halt, disk
<1>17. CASE InputMisaligned
  BY <1>17 DEF InputMisaligned, Halt, disk
<1>18. CASE Begin
  <2>1. \A a \in dirs : a # att'
    BY <1>18, BeginFacts
  <2>2. /\ info'[att'].wrote = {} /\ info'[att'].applied = {} /\ info'[att'].case = case
        /\ \A a \in Attempts : a # att' => info'[a] = info[a]
    BY <1>18, BeginFacts DEF Begin, NoAttempt
  <2>3. staged[att'] = {} /\ att' \in Attempts
    BY <1>18, <2>1, BeginFacts
  <2>4. pc' = "agent" /\ dirs' = dirs \cup {att'} /\ UNCHANGED <<staged, ckpt, case, stage>>
    BY <1>18 DEF Begin
  <2>5. att = 0 /\ pc = "begin"
    BY <1>18 DEF Begin
  <2>6. StagedInv'
    BY <2>1, <2>2, <2>3, <2>4, <2>5
  <2>7. CrashAtomic'
    BY <2>1, <2>2, <2>3, <2>4, <2>5
  <2> QED BY <2>6, <2>7
<1>19. ASSUME NEW f \in Files, AgentWrite(f) PROVE (StagedInv /\ CrashAtomic)'
  BY <1>19, VerdictsKept DEF AgentWrite, StageWrite, SameVerdicts, proc
<1>20. CASE AgentReturn
  BY <1>20 DEF AgentReturn, disk
<1>21. ASSUME NEW k \in {"error", "misaligned"}, AgentFail(k) PROVE (StagedInv /\ CrashAtomic)'
  <2>1. ~Replayable(att)
    BY <1>21 DEF AgentFail, Snapshots, Stages
  <2> QED BY <1>21, <2>1 DEF AgentFail, Halt, disk
<1>22. CASE AgentTimeout
  <2>1. ~Replayable(att)
    BY <1>22 DEF AgentTimeout, Snapshots, Stages
  <2> QED BY <1>22, <2>1 DEF AgentTimeout, Halt, disk
<1>23. ASSUME NEW P \in SUBSET Validators, QuorumPass(P) PROVE (StagedInv /\ CrashAtomic)'
  BY <1>23 DEF QuorumPass, Vote, disk
<1>24. ASSUME NEW P \in SUBSET Validators, QuorumDissent(P) PROVE (StagedInv /\ CrashAtomic)'
  BY <1>24 DEF QuorumDissent, Vote, Halt, disk
<1>25. CASE RecordStage
  BY <1>25 DEF RecordStage, Snapshot
<1>26. CASE RecordStageFails
  BY <1>26 DEF RecordStageFails, HandOn, disk
<1>27. ASSUME NEW f \in Files, CommitFile(f) PROVE (StagedInv /\ CrashAtomic)'
  BY <1>27, VerdictsKept DEF CommitFile, Publish, SameVerdicts, proc
<1>28. CASE CommitDone
  <2>a. att \in Attempts /\ Whole(att) /\ info[att].applied \subseteq info[att].wrote
    BY <1>28 DEF CommitDone
  <2>1. info[att].applied = info[att].wrote
    <3> HIDE DEF AtomicInv
    <3> QED BY <1>28, <2>a DEF CommitDone
  <2>2. pc' = "group" /\ att' = 0
    BY <1>28 DEF CommitDone, HandOn
  <2>3. dirs' = dirs \ {att} /\ UNCHANGED <<staged, ckpt, case, info>>
    BY <1>28 DEF CommitDone
  <2>4. staged[att] = {} /\ pc = "commit"
    BY <1>28 DEF CommitDone
  <2> QED BY <2>1, <2>2, <2>3, <2>4
<1>29. CASE CommitFails
  BY <1>29 DEF CommitFails, Halt, disk
<1>30. CASE RecordQuorumHalt
  BY <1>30 DEF RecordQuorumHalt, Snapshot
<1>31. ASSUME NEW f \in Files, RollbackFile(f) PROVE (StagedInv /\ CrashAtomic)'
  BY <1>31 DEF RollbackFile, proc
<1>32. CASE RollbackDone
  BY <1>32 DEF RollbackDone
<1>33. ASSUME NEW f \in Files, ZombieWrite(f) PROVE (StagedInv /\ CrashAtomic)'
  <2>1. SameVerdicts
    BY <1>33, VerdictsKept DEF ZombieWrite
  <2>2. ~Replayable(att)
    BY <1>33 DEF ZombieWrite, Snapshots, Stages
  <2>3. /\ att # 0 /\ att \in Attempts /\ pc \in {"rollback", "close"} /\ kind = "error"
        /\ info[att].applied = {} /\ info[att].case = case
    BY <1>33 DEF ZombieWrite
  <2>4. /\ staged'[att] = staged[att] \cup {f}
        /\ info'[att].wrote = info[att].wrote \cup {f}
        /\ info'[att].applied = info[att].applied
        /\ \A a \in Attempts : a # att => staged'[a] = staged[a] /\ info'[a] = info[a]
    BY <1>33, <2>3, WriteFacts DEF ZombieWrite
  <2>5. dirs' = dirs \cup {att} /\ UNCHANGED <<ckpt, pc, att, case, stage, kind>>
    BY <1>33 DEF ZombieWrite, proc
  <2>6. StagedInv'
    <3>1. ~Replayable(att)' /\ \A a \in Attempts \ {att} : Replayable(a)' <=> Replayable(a)
      BY <2>1, <2>2, <2>3, <2>4, <2>5 DEF SameVerdicts
    <3>2. \A a \in dirs' : Replayable(a)' => Whole(a)' \/ info'[a].cut
      BY <2>1, <2>2, <2>3, <2>4, <2>5, <3>1 DEF SameVerdicts
    <3> QED BY <2>1, <2>2, <2>3, <2>4, <2>5, <3>1, <3>2 DEF SameVerdicts
  <2>7. CrashAtomic'
    BY <2>1, <2>2, <2>3, <2>4, <2>5 DEF SameVerdicts
  <2> QED BY <2>6, <2>7
<1>34. CASE ZombieEnd
  BY <1>34 DEF ZombieEnd, disk
<1>35. CASE CloseSandbox
  BY <1>35 DEF CloseSandbox, disk
<1>36. CASE HaltEvent
  BY <1>36 DEF HaltEvent, HaltEventOf
<1>37. CASE HaltState
  BY <1>37 DEF HaltState, HaltStateOf, Exit
<1>38. CASE BuildOk
  BY <1>38 DEF BuildOk, disk
<1>39. CASE BuildFails
  BY <1>39 DEF BuildFails, Halt, disk
<1>40. CASE ClearCheckpoint
  BY <1>40 DEF ClearCheckpoint
<1>41. CASE Complete
  BY <1>41 DEF Complete, Exit
<1>42. CASE Crash
  BY <1>42, CrashFacts DEF Crash, Exit, HaltingOnDissent, disk
<1>43. ASSUME NEW v \in BOOLEAN, EditPayload(v) PROVE (StagedInv /\ CrashAtomic)'
  <2>1. ckpt \in Snapshots /\ ckpt'.case = ckpt.case /\ ckpt'.stage = ckpt.stage /\ ckpt' # NoCkpt
    <3>1. ckpt \in Snapshots /\ ckpt' = [ckpt EXCEPT !.signed = FALSE, !.valid = v]
      BY <1>43 DEF EditPayload
    <3> QED BY ONLY <3>1, v \in BOOLEAN, EditedSnapshot
  <2> QED BY <1>43, <2>1 DEF EditPayload, proc
<1>44. ASSUME NEW t \in 2..BuildStage, GetEnvelope(t) PROVE (StagedInv /\ CrashAtomic)'
  BY <1>44 DEF GetEnvelope, disk
<1>45. ASSUME NEW t \in 2..BuildStage, GetStop(t) PROVE (StagedInv /\ CrashAtomic)'
  <2>1. att # 0 => ~Replayable(att)
    BY <1>45 DEF GetStop, Awaits, Snapshots, Stages
  <2>2. /\ UNCHANGED <<dirs, staged, info, ckpt, case, stage, att>>
        /\ (pc' = pc /\ kind' = kind) \/ (pc' = "close" /\ att = 0) \/ (pc' = "rollback" /\ kind' = "misaligned" /\ att # 0)
        /\ pc \in Awaits
    BY <1>45 DEF GetStop, Halt, disk
  <2> QED BY <2>1, <2>2 DEF Awaits
<1>46. ASSUME NEW t \in 0..3, PutStop(t) PROVE (StagedInv /\ CrashAtomic)'
  BY <1>46 DEF PutStop, Awaits, disk
<1>47. CASE CancelTasks
  BY <1>47 DEF CancelTasks, disk
<1>48. CASE GroupEnds
  BY <1>48 DEF GroupEnds, disk
<1>49. CASE UNCHANGED vars
  BY <1>49 DEF vars, disk, proc
<1> HIDE DEF OneCaseWritesSucceed, AtomicInv, OrderInv, BaseInv, TypeOK, AttemptInv, FreshInv,
            CheckpointInv, MineInv, ReplayInv, StagedInv, CrashAtomic, Whole, Replayable, Mine,
            Load, Idle, Working
<1> QED
  BY <1>1, <1>2, <1>3, <1>4, <1>5, <1>6, <1>7, <1>8, <1>9, <1>10, <1>11, <1>12, <1>13, <1>14,
     <1>15, <1>16, <1>17, <1>18, <1>19, <1>20, <1>21, <1>22, <1>23, <1>24, <1>25, <1>26, <1>27,
     <1>28, <1>29, <1>30, <1>31, <1>32, <1>33, <1>34, <1>35, <1>36, <1>37, <1>38, <1>39, <1>40,
     <1>41, <1>42, <1>43, <1>44, <1>45, <1>46, <1>47, <1>48, <1>49
  DEF Next, ProcessStep, Recover, Seed, QueueStep, RunStage, Finish, Rest

\* The commit of a stage is crash-atomic: when a process dies half-way through
\* it, or half-way through the replay of it, what is missing is still staged
\* and the checkpoint makes the next run of the case publish it.
THEOREM CommitsCrashAtomic == ASSUME OneCaseWritesSucceed PROVE Spec => []CrashAtomic
<1>1. Init => AtomicInv
  <2> SUFFICES ASSUME Init PROVE StagedInv /\ CrashAtomic
    BY OrderInductive DEF AtomicInv, OneCaseWritesSucceed
  <2>1. \A a \in Attempts : info[a].applied = {} /\ info[a].wrote = {} /\ staged[a] = {}
    BY DEF Init, NoAttempt
  <2> QED BY <2>1 DEF Init, StagedInv, CrashAtomic, Working
<1>2. AtomicInv /\ [Next]_vars => AtomicInv'
  BY OrderInductive, AtomicStep DEF AtomicInv, OneCaseWritesSucceed
<1>3. AtomicInv => CrashAtomic
  BY DEF AtomicInv
<1> QED BY <1>1, <1>2, <1>3, PTL DEF Spec

-----------------------------------------------------------------------------
(* The lock of a quorum dissent *)

Locked == ckpt # NoCkpt /\ ckpt.locked

\* A locked checkpoint is known to the log, or the process that locked it is
\* on its way to log it, unless a line of the log was lost.
LockInv ==
    /\ Locked /\ ~lost => DissentLines \subseteq Lines(gov) \/ HaltingOnDissent
    /\ pc = "state" /\ kind = "dissent" => Len(gov) > 0 /\ gov[Len(gov)] = "QUORUM_DISSENT"
    /\ pc = "resolved" => ckpt # NoCkpt /\ ~ckpt.locked
    /\ LockedNeedsOperator

GuardInv == BaseInv /\ LockInv

\* emit_event adds its line and keeps the one before it; that it pushed a dissent's
\* line out of the reader's window is noted.
LEMMA EmitLines ==
    ASSUME TypeOK, NEW e \in GovEvents, Emit(e)
    PROVE  /\ Len(gov') > 0 /\ gov'[Len(gov')] = e /\ e \in Lines(gov')
           /\ Len(gov) > 0 => gov[Len(gov)] \in Lines(gov')
           /\ ~lost' /\ e \notin DissentLines /\ DissentLines \subseteq Lines(gov) =>
                 DissentLines \subseteq Lines(gov')
<1>1. Window \in Nat /\ Window >= 2 /\ gov \in Seq(GovEvents) /\ Len(gov) <= Window
  BY PipelineAssumption DEF PipelineAssumption, TypeOK
<1> DEFINE kept == IF Len(gov) = Window THEN Tail(gov) ELSE gov
           d == IF Len(gov) = Window THEN 1 ELSE 0
<1>2. /\ kept \in Seq(GovEvents) /\ Len(kept) = Len(gov) - d /\ d \in {0, 1}
      /\ \A i \in 1..Len(gov) : i > d => kept[i - d] = gov[i]
  BY <1>1
<1>3. d = 1 => Len(gov) = Window
  OBVIOUS
<1>4. gov' = Append(kept, e)
  BY DEF Emit
<1>5. ~lost' /\ e \notin DissentLines /\ DissentLines \subseteq Lines(gov) =>
        DissentLines \subseteq Lines(gov')
  BY DEF Emit
<1> HIDE DEF kept, d
<1>6. Len(gov') = Len(gov) + 1 - d /\ gov'[Len(gov')] = e /\ Len(gov') > 0
  BY <1>1, <1>2, <1>4
<1>7. Len(gov') \in 1..Len(gov')
  BY <1>1, <1>2, <1>6
<1>8. ASSUME Len(gov) > 0 PROVE gov[Len(gov)] \in Lines(gov')
  <2>1. Len(gov) > d
    BY <1>1, <1>2, <1>3, <1>8
  <2>2. Len(gov) - d \in 1..Len(gov') /\ gov'[Len(gov) - d] = gov[Len(gov)]
    BY <1>1, <1>2, <1>4, <1>6, <1>8, <2>1
  <2> QED BY <2>2 DEF Lines
<1> QED BY <1>5, <1>6, <1>7, <1>8 DEF Lines

\* Every step keeps the lock of a dissent in the log, or leads there.
LEMMA LockStep == GuardInv /\ [Next]_vars => LockInv'
<1> SUFFICES ASSUME GuardInv, [Next]_vars PROVE LockInv'
  OBVIOUS
<1>a. TypeOK /\ TypeOK'
  BY TypeStep DEF BaseInv, GuardInv
<1> USE <1>a
<1> USE DEF GuardInv, BaseInv, AttemptInv, CheckpointInv, LockInv, Locked, LockedNeedsOperator,
           HaltingOnDissent, Idle, Working, group
<1>1. ASSUME NEW c \in Cases, NEW r \in BOOLEAN, Start(c, r) PROVE LockInv'
  BY <1>1 DEF Start, disk
<1>2. ASSUME NEW a \in Attempts, CleanRemove(a) PROVE LockInv'
  BY <1>2 DEF CleanRemove, proc, Mine
<1>3. ASSUME NEW a \in Attempts, CleanOpen(a) PROVE LockInv'
  BY <1>3 DEF CleanOpen, disk, Mine
<1>4. ASSUME NEW f \in Files, CleanApply(f) PROVE LockInv'
  BY <1>4, VerdictsKept DEF CleanApply, Publish, SameVerdicts, proc
<1>5. CASE CleanClose
  BY <1>5 DEF CleanClose
<1>6. CASE CleanDone
  BY <1>6 DEF CleanDone, disk
<1>7. CASE GatePass
  <2>1. resume # NoCkpt /\ Locked /\ ~lost => DissentLines \subseteq Lines(gov)
    BY <1>7 DEF GatePass
  <2>2. resume = NoCkpt \/ ~Locked \/ lost
    BY <1>7, <2>1 DEF GatePass, NeedsOperator, RequiresManualIntervention
  <2>3. resume # NoCkpt => resume = ckpt
    BY <1>7 DEF GatePass, Load
  <2> QED BY <1>7, <2>2, <2>3 DEF GatePass, disk
<1>8. CASE GateClosed
  <2>1. ~lost' /\ DissentLines \subseteq Lines(gov) => DissentLines \subseteq Lines(gov')
    BY <1>8, EmitLines DEF GateClosed, GovEvents, DissentLines
  <2>2. ~lost' => ~lost
    BY <1>8 DEF GateClosed, Emit
  <2> QED BY <1>8, <2>1, <2>2 DEF GateClosed, Exit
<1>9. CASE GateOpened
  <2>1. ~lost' /\ DissentLines \subseteq Lines(gov) => DissentLines \subseteq Lines(gov')
    BY <1>9, EmitLines DEF GateOpened, GovEvents, DissentLines
  <2>2. ~lost' => ~lost
    BY <1>9 DEF GateOpened, Emit
  <2> QED BY <1>9, <2>1, <2>2 DEF GateOpened
<1>10. CASE ResolveInvalid
  BY <1>10 DEF ResolveInvalid, Exit, disk
<1>11. CASE ResolveIntervention
  <2>1. ckpt \in Snapshots
    BY <1>11 DEF ResolveIntervention, Load, TypeOK
  <2>2. ckpt' # NoCkpt /\ ckpt'.locked = FALSE
    BY <1>11, <2>1 DEF ResolveIntervention, Snapshots, NoCkpt
  <2> QED BY <1>11, <2>2 DEF ResolveIntervention
<1>12. CASE SetRunning
  <2>1. resume # NoCkpt => resume = ckpt
    BY <1>12 DEF SetRunning, Load
  <2>2. ckpt # NoCkpt /\ ~ckpt.locked
    BY <1>12 DEF SetRunning
  <2> QED BY <1>12, <2>1, <2>2 DEF SetRunning
<1>13. CASE AgentMissing
  BY <1>13 DEF AgentMissing, Halt, disk
<1>14. CASE SeedFresh
  BY <1>14 DEF SeedFresh, disk
<1>15. ASSUME NEW P \in SUBSET Validators, SeedResume(P) PROVE LockInv'
  BY <1>15 DEF SeedResume, HandOn, Snapshot
<1>16. ASSUME NEW P \in SUBSET Validators, SeedDissent(P) PROVE LockInv'
  BY <1>16 DEF SeedDissent, Halt, disk
<1>17. CASE InputMisaligned
  BY <1>17 DEF InputMisaligned, Halt, disk
<1>18. CASE Begin
  BY <1>18 DEF Begin
<1>19. ASSUME NEW f \in Files, AgentWrite(f) PROVE LockInv'
  BY <1>19, VerdictsKept DEF AgentWrite, StageWrite, SameVerdicts, proc
<1>20. CASE AgentReturn
  BY <1>20 DEF AgentReturn, disk
<1>21. ASSUME NEW k \in {"error", "misaligned"}, AgentFail(k) PROVE LockInv'
  BY <1>21 DEF AgentFail, Halt, disk
<1>22. CASE AgentTimeout
  BY <1>22 DEF AgentTimeout, Halt, disk
<1>23. ASSUME NEW P \in SUBSET Validators, QuorumPass(P) PROVE LockInv'
  BY <1>23 DEF QuorumPass, Vote, disk
<1>24. ASSUME NEW P \in SUBSET Validators, QuorumDissent(P) PROVE LockInv'
  BY <1>24 DEF QuorumDissent, Vote, Halt, disk
<1>25. CASE RecordStage
  BY <1>25 DEF RecordStage, Snapshot
<1>26. CASE RecordStageFails
  BY <1>26 DEF RecordStageFails, HandOn, disk
<1>27. ASSUME NEW f \in Files, CommitFile(f) PROVE LockInv'
  BY <1>27, VerdictsKept DEF CommitFile, Publish, SameVerdicts, proc
<1>28. CASE CommitDone
  BY <1>28 DEF CommitDone, HandOn
<1>29. CASE CommitFails
  BY <1>29 DEF CommitFails, Halt, disk
<1>30. CASE RecordQuorumHalt
  BY <1>30 DEF RecordQuorumHalt, Snapshot
<1>31. ASSUME NEW f \in Files, RollbackFile(f) PROVE LockInv'
  BY <1>31 DEF RollbackFile, proc
<1>32. CASE RollbackDone
  BY <1>32 DEF RollbackDone
<1>33. ASSUME NEW f \in Files, ZombieWrite(f) PROVE LockInv'
  BY <1>33, VerdictsKept DEF ZombieWrite, StageWrite, SameVerdicts, proc
<1>34. CASE ZombieEnd
  BY <1>34 DEF ZombieEnd, disk
<1>35. CASE CloseSandbox
  BY <1>35 DEF CloseSandbox, disk
<1>36. CASE HaltEvent
  <2>1. /\ HaltEventOf(kind) \in GovEvents
        /\ IF kind = "dissent" THEN HaltEventOf(kind) = "QUORUM_DISSENT"
                              ELSE HaltEventOf(kind) \notin DissentLines
    BY DEF HaltEventOf, GovEvents, HaltKinds, TypeOK, DissentLines
  <2>2. pc = "event" /\ pc' = "state" /\ UNCHANGED <<ckpt, kind>> /\ (~lost' => ~lost)
    BY <1>36 DEF HaltEvent, Emit
  <2>3. CASE kind = "dissent"
    <3>1. Len(gov') > 0 /\ gov'[Len(gov')] = "QUORUM_DISSENT"
      BY <1>36, <2>1, <2>3, EmitLines DEF HaltEvent
    <3> QED BY <2>2, <2>3, <3>1
  <2>4. CASE kind # "dissent"
    <3>1. ~lost' /\ DissentLines \subseteq Lines(gov) => DissentLines \subseteq Lines(gov')
      BY <1>36, <2>1, <2>4, EmitLines DEF HaltEvent
    <3> QED BY <2>2, <2>4, <3>1
  <2> QED BY <2>3, <2>4
<1>37. CASE HaltState
  <2>1. /\ HaltStateOf(kind) \in GovEvents
        /\ IF kind = "dissent" THEN HaltStateOf(kind) = "QUORUM_LOCKED_INTERVENTION"
                              ELSE HaltStateOf(kind) \notin DissentLines
    BY DEF HaltStateOf, GovEvents, DissentLines
  <2>2. pc = "state" /\ pc' = "down" /\ UNCHANGED ckpt /\ (~lost' => ~lost)
    BY <1>37 DEF HaltState, Emit, Exit
  <2>3. CASE kind = "dissent"
    <3>1. Len(gov) > 0 /\ gov[Len(gov)] = "QUORUM_DISSENT"
      BY <2>2, <2>3
    <3>2. "QUORUM_DISSENT" \in Lines(gov') /\ "QUORUM_LOCKED_INTERVENTION" \in Lines(gov')
      BY <1>37, <2>1, <2>3, <3>1, EmitLines DEF HaltState
    <3> QED BY <2>2, <3>2 DEF DissentLines
  <2>4. CASE kind # "dissent"
    <3>1. ~lost' /\ DissentLines \subseteq Lines(gov) => DissentLines \subseteq Lines(gov')
      BY <1>37, <2>1, <2>4, EmitLines DEF HaltState
    <3> QED BY <2>2, <2>4, <3>1
  <2> QED BY <2>3, <2>4
<1>38. CASE BuildOk
  BY <1>38 DEF BuildOk, disk
<1>39. CASE BuildFails
  BY <1>39 DEF BuildFails, Halt, disk
<1>40. CASE ClearCheckpoint
  BY <1>40 DEF ClearCheckpoint
<1>41. CASE Complete
  <2>1. ~lost' /\ DissentLines \subseteq Lines(gov) => DissentLines \subseteq Lines(gov')
    BY <1>41, EmitLines DEF Complete, GovEvents, DissentLines
  <2>2. ~lost' => ~lost
    BY <1>41 DEF Complete, Emit
  <2> QED BY <1>41, <2>1, <2>2 DEF Complete, Exit
<1>42. CASE Crash
  <2>1. pc' = "down" /\ UNCHANGED <<ckpt, gov>>
    BY <1>42 DEF Crash, Exit, disk
  <2>2. ~lost' => ~lost /\ (HaltingOnDissent => DissentLines \subseteq Lines(gov))
    BY <1>42 DEF Crash
  <2> QED BY <2>1, <2>2
<1>43. ASSUME NEW v \in BOOLEAN, EditPayload(v) PROVE LockInv'
  BY <1>43 DEF EditPayload, proc
<1>44. ASSUME NEW t \in 2..BuildStage, GetEnvelope(t) PROVE LockInv'
  BY <1>44 DEF GetEnvelope, disk
<1>45. ASSUME NEW t \in 2..BuildStage, GetStop(t) PROVE LockInv'
  BY <1>45 DEF GetStop, Halt, Awaits, disk
<1>46. ASSUME NEW t \in 0..3, PutStop(t) PROVE LockInv'
  BY <1>46 DEF PutStop, Awaits, disk
<1>47. CASE CancelTasks
  BY <1>47 DEF CancelTasks, disk
<1>48. CASE GroupEnds
  BY <1>48 DEF GroupEnds, disk
<1>49. CASE UNCHANGED vars
  BY <1>49 DEF vars, disk, proc
<1> QED
  BY <1>1, <1>2, <1>3, <1>4, <1>5, <1>6, <1>7, <1>8, <1>9, <1>10, <1>11, <1>12, <1>13, <1>14,
     <1>15, <1>16, <1>17, <1>18, <1>19, <1>20, <1>21, <1>22, <1>23, <1>24, <1>25, <1>26, <1>27,
     <1>28, <1>29, <1>30, <1>31, <1>32, <1>33, <1>34, <1>35, <1>36, <1>37, <1>38, <1>39, <1>40,
     <1>41, <1>42, <1>43, <1>44, <1>45, <1>46, <1>47, <1>48, <1>49
  DEF Next, ProcessStep, Recover, Seed, QueueStep, RunStage, Finish, Rest

\* A checkpoint locked by a quorum dissent is resumed only after an operator
\* resolved the intervention, across crashes, failed writes and any number of
\* business cases, although requires_manual_intervention reads only the tail of
\* the log: unless the process died between the lock and its two lines, or one
\* of them was pushed out of the window.
THEOREM LockNeedsOperator == Spec => []LockedNeedsOperator
<1>1. Init => GuardInv
  <2> SUFFICES ASSUME Init PROVE LockInv
    BY BaseInductive DEF GuardInv
  <2> QED BY DEF Init, LockInv, Locked, LockedNeedsOperator
<1>2. GuardInv /\ [Next]_vars => GuardInv'
  BY BaseInductive, LockStep DEF GuardInv
<1>3. GuardInv => LockedNeedsOperator
  BY DEF GuardInv, LockInv
<1> QED BY <1>1, <1>2, <1>3, PTL DEF Spec
=============================================================================
