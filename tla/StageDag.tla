------------------------------ MODULE StageDag ------------------------------
(***************************************************************************)
(* core/dag_engine.py and core/cache.py: WorkspaceDAGEngine runs a graph   *)
(* of agent calls, independent nodes concurrently, each in a workspace     *)
(* transaction, and serves their outputs from a content-addressed cache    *)
(* on disk that outlives the run.  A prefetcher looks up nodes that are    *)
(* ready but not started and completes them before their task does.        *)
(*                                                                         *)
(* A step runs from one await to the next.  The files that                 *)
(* compute_workspace_file_hashes reads are one file with a version.  An    *)
(* output is what it was computed from: the nodes and the versions they    *)
(* read, its own and those of every output it was given.  A fingerprint is *)
(* the same for the versions that were hashed, with the outputs passed as  *)
(* arguments.  Start gates are open.                                       *)
(***************************************************************************)
EXTENDS Integers, FiniteSets

CONSTANTS
    Graphs,       \* dependency graphs to run: functions from nodes to sets of nodes
    Versions,     \* contents of the fingerprinted file
    FirstVersion, \* the one it has at first
    Prefetchers,  \* of "scheduler" and "background", the ones that look ahead
    MaxRuns,      \* bound: runs over one cache, crashed ones included
    MaxEdits      \* bound: changes of the file

\* A node depends on nodes of its graph (another name is a KeyError in _run_node).
ASSUME GraphAssumption == \A g \in Graphs : \A n \in DOMAIN g : g[n] \subseteq DOMAIN g

ASSUME VersionAssumption == FirstVersion \in Versions

ASSUME BoundsAssumption == MaxRuns \in Nat \ {0} /\ MaxEdits \in Nat

\* compile_blueprint_from_workspace_files: ISA, then SAS for every project of
\* PF_REPO_INVENTORY_LIST at once (or for the whole workspace), then CRS, BOA.
Blueprint(projects) ==
    LET sas == IF projects = {} THEN {"workspace"} ELSE projects
    IN  [n \in {"ISA", "CRS", "BOA"} \cup sas |->
            CASE n = "ISA" -> {} [] n = "CRS" -> sas [] n = "BOA" -> {"CRS"}
              [] OTHER -> {"ISA"}]

VARIABLES
    deps,       \* depends_on of the nodes registered by add_node
    version,    \* the file on disk
    cache,      \* .workspace_cache/objects: output by fingerprint
    run,        \* the run: "active", "done" or "failed"
    status,     \* _NodeRuntime.status
    result,     \* _NodeRuntime.result
    work,       \* work[n]: where the task of n stands and the fingerprint it uses
    finished,   \* done_q
    processed,  \* processed
    peek,       \* peek[p]: the node and fingerprint prefetcher p looks up
    warmed,     \* _prefetch_ready of the scheduler completed a node
    runs, edits,
    raced       \* history: an edit fell into an active run

dagVars == <<deps, version, cache, run, status, result, work, finished, processed,
             peek, warmed, runs, edits, raced>>
dagRunVars == <<run, status, result, work, finished, processed, peek, warmed>>

Nodes == DOMAIN deps

\* What outputs and fingerprints are made of.
Readings(S) == S \X Versions
Fingerprints == [node : Nodes, hashed : SUBSET Readings(Nodes), args : SUBSET Readings(Nodes)]

NoFp == [node |-> "none", hashed |-> {}, args |-> {}]
NoResult == [value |-> {}, fp |-> NoFp, cached |-> "none"]
NoTask == [at |-> "none", fp |-> NoFp, value |-> {}]

\* Types; a result has the fingerprint of its node.
DagTypeOK ==
    /\ deps \in Graphs /\ version \in Versions
    /\ DOMAIN cache \subseteq Fingerprints
    /\ \A f \in DOMAIN cache : cache[f] \subseteq Readings(Nodes)
    /\ run \in {"active", "done", "failed"}
    /\ status \in [Nodes -> {"pending", "running", "done", "failed"}]
    /\ \A n \in Nodes : IF status[n] = "done" THEN result[n].fp.node = n ELSE result[n] = NoResult
    /\ finished \subseteq Nodes /\ processed \subseteq Nodes
    /\ runs \in 1..MaxRuns /\ edits \in 0..MaxEdits /\ {raced, warmed} \subseteq BOOLEAN

Fresh(nodes) ==
    /\ run' = "active"
    /\ status' = [n \in nodes |-> "pending"]
    /\ result' = [n \in nodes |-> NoResult]
    /\ work' = [n \in nodes |-> NoTask]
    /\ finished' = {} /\ processed' = {}
    /\ peek' = [p \in Prefetchers |-> NoFp] /\ warmed' = FALSE

DagInit ==
    /\ deps \in Graphs
    /\ version = FirstVersion
    /\ cache = [f \in {} |-> {}]
    /\ run = "active"
    /\ status = [n \in Nodes |-> "pending"]
    /\ result = [n \in Nodes |-> NoResult]
    /\ work = [n \in Nodes |-> NoTask]
    /\ finished = {} /\ processed = {}
    /\ peek = [p \in Prefetchers |-> NoFp] /\ warmed = FALSE
    /\ runs = 1 /\ edits = 0 /\ raced = FALSE

-----------------------------------------------------------------------------
\* _build_kwargs: the outputs of the dependencies.
Kwargs(n) == UNION {result[d].value : d \in deps[n]}

\* Mutant of FingerprintFor: the fingerprints upstream without the file hashes.
FingerprintUpstream(n) ==
    [node |-> n,
     hashed |-> UNION {result[d].fp.hashed : d \in deps[n]},
     args |-> Kwargs(n)]

\* _fingerprint_for: agent and call, file hashes, fingerprints upstream.
FingerprintFor(n) ==
    [node |-> n,
     hashed |-> {<<n, version>>} \cup UNION {result[d].fp.hashed : d \in deps[n]},
     args |-> Kwargs(n)]

DepsDone(n) == \A d \in deps[n] : status[d] = "done"

KeepFile == UNCHANGED <<deps, version, runs, edits, raced>>

\* _prefetch_ready, up to its look-up in a thread.  An object that is not there
\* does not appear while the node is pending, so a look-up in vain is no step.
PrefetchStart(p, n) ==
    /\ run = "active" /\ peek[p] = NoFp
    /\ status[n] = "pending" /\ DepsDone(n)
    /\ FingerprintFor(n) \in DOMAIN cache
    /\ peek' = [peek EXCEPT ![p] = FingerprintFor(n)]
    /\ KeepFile /\ UNCHANGED <<cache, run, status, result, work, finished, processed, warmed>>

\* The node is still pending: it is done.
PrefetchHit(p) ==
    /\ run = "active" /\ peek[p] # NoFp
    /\ LET n == peek[p].node
       IN  /\ status[n] = "pending"
           /\ status' = [status EXCEPT ![n] = "done"]
           /\ result' = [result EXCEPT ![n] = [value |-> cache[peek[p]], fp |-> peek[p],
                                               cached |-> "PREDICTIVE_CACHE_HIT"]]
    /\ peek' = [peek EXCEPT ![p] = NoFp]
    /\ warmed' = (warmed \/ p = "scheduler")
    /\ KeepFile /\ UNCHANGED <<cache, run, work, finished, processed>>

\* Its task was faster.
PrefetchMiss(p) ==
    /\ run = "active" /\ peek[p] # NoFp
    /\ status[peek[p].node] # "pending"
    /\ peek' = [peek EXCEPT ![p] = NoFp]
    /\ KeepFile /\ UNCHANGED <<cache, run, status, result, work, finished, processed, warmed>>

-----------------------------------------------------------------------------
\* _execute_all

\* The scheduler does nothing else while its own look-up is under way.
SchedulerTurn == run = "active" /\ ("scheduler" \in Prefetchers => peek["scheduler"] = NoFp)

\* Mutant of Ready: one processed dependency is enough.
ReadyEarly(n) ==
    /\ deps[n] = {} \/ deps[n] \cap processed # {}
    /\ n \notin processed /\ work[n].at = "none"

\* ready: every dependency has been processed, and the node was not taken from
\* the list yet.
Ready(n) == deps[n] \subseteq processed /\ n \notin processed /\ work[n].at = "none"

\* A node from the list: done already, or a task is created for it.
ScheduleDone(n) ==
    /\ SchedulerTurn /\ Ready(n) /\ status[n] = "done"
    /\ processed' = processed \cup {n}
    /\ KeepFile /\ UNCHANGED <<cache, run, status, result, work, finished, peek, warmed>>

ScheduleTask(n) ==
    /\ SchedulerTurn /\ Ready(n) /\ status[n] = "pending"
    /\ work' = [work EXCEPT ![n].at = "waiting"]
    /\ KeepFile /\ UNCHANGED <<cache, run, status, result, finished, processed, peek, warmed>>

\* After a hit of its own, the scheduler processes every node that is done.
ProcessWarmed ==
    /\ SchedulerTurn /\ warmed
    /\ processed' = {n \in Nodes : status[n] = "done"}
    /\ warmed' = FALSE
    /\ KeepFile /\ UNCHANGED <<cache, run, status, result, work, finished, peek>>

\* done_q.get
ProcessFinished(n) ==
    /\ SchedulerTurn /\ n \in finished
    /\ finished' = finished \ {n}
    /\ processed' = processed \cup {n}
    /\ KeepFile /\ UNCHANGED <<cache, run, status, result, work, peek, warmed>>

DagDone ==
    /\ SchedulerTurn /\ processed = Nodes
    /\ run' = "done"
    /\ KeepFile /\ UNCHANGED <<cache, status, result, work, finished, processed, peek, warmed>>

-----------------------------------------------------------------------------
\* _run_node and WorkspaceCacheEngine.run_stage

TaskAt(n, where) == run = "active" /\ work[n].at = where

\* Mutant of ClaimNode: a node a prefetcher completed is not reported to done_q.
ClaimNodeQuiet(n) ==
    /\ TaskAt(n, "waiting") /\ DepsDone(n)
    /\ \/ /\ status[n] = "pending"
          /\ status' = [status EXCEPT ![n] = "running"]
          /\ work' = [work EXCEPT ![n].at = "lookup", ![n].fp = FingerprintFor(n)]
       \/ /\ status[n] = "done"
          /\ work' = [work EXCEPT ![n].at = "ended"]
          /\ UNCHANGED status
    /\ KeepFile /\ UNCHANGED <<cache, run, result, finished, processed, peek, warmed>>

\* Every dependency has its done event; the node is claimed and fingerprinted,
\* or a prefetcher was faster and there is nothing left to do.
ClaimNode(n) ==
    /\ TaskAt(n, "waiting") /\ DepsDone(n)
    /\ \/ /\ status[n] = "pending"
          /\ status' = [status EXCEPT ![n] = "running"]
          /\ work' = [work EXCEPT ![n].at = "lookup", ![n].fp = FingerprintFor(n)]
          /\ UNCHANGED finished
       \/ /\ status[n] = "done"
          /\ work' = [work EXCEPT ![n].at = "ended"]
          /\ finished' = finished \cup {n}
          /\ UNCHANGED status
    /\ KeepFile /\ UNCHANGED <<cache, run, result, processed, peek, warmed>>

LookUp(n) ==
    /\ TaskAt(n, "lookup")
    /\ work' = IF work[n].fp \in DOMAIN cache
               THEN [work EXCEPT ![n].at = "hit", ![n].value = cache[work[n].fp]]
               ELSE [work EXCEPT ![n].at = "execute"]
    /\ KeepFile /\ UNCHANGED <<cache, run, status, result, finished, processed, peek, warmed>>

\* The sandboxed agent reads the file as it is by now.
Execute(n) ==
    /\ TaskAt(n, "execute")
    /\ work' = [work EXCEPT ![n].at = "store", ![n].value = {<<n, version>>} \cup Kwargs(n)]
    /\ KeepFile /\ UNCHANGED <<cache, run, status, result, finished, processed, peek, warmed>>

Store(n) ==
    /\ TaskAt(n, "store")
    /\ cache' = [f \in DOMAIN cache \cup {work[n].fp} |->
                    IF f = work[n].fp THEN work[n].value ELSE cache[f]]
    /\ work' = [work EXCEPT ![n].at = "miss"]
    /\ KeepFile /\ UNCHANGED <<run, status, result, finished, processed, peek, warmed>>

\* tx.commit, then the result is published and the task ends.
CommitNode(n) ==
    /\ TaskAt(n, "hit") \/ TaskAt(n, "miss")
    /\ status' = [status EXCEPT ![n] = "done"]
    /\ result' = [result EXCEPT ![n] =
          [value |-> work[n].value, fp |-> work[n].fp,
           cached |-> IF work[n].at = "hit" THEN "CACHE_HIT" ELSE "CACHE_MISS"]]
    /\ work' = [work EXCEPT ![n].at = "ended"]
    /\ finished' = finished \cup {n}
    /\ KeepFile /\ UNCHANGED <<cache, run, processed, peek, warmed>>

\* The agent, the cache or the commit raises: the node fails, and the task group
\* cancels every other task, whose nodes fail with it, and the scheduler.
FailNode(n) ==
    /\ run = "active" /\ work[n].at \in {"execute", "hit", "miss"}
    /\ run' = "failed"
    /\ status' = [m \in Nodes |-> IF status[m] = "running" THEN "failed" ELSE status[m]]
    /\ work' = [m \in Nodes |-> [work[m] EXCEPT !.at = "ended"]]
    /\ KeepFile /\ UNCHANGED <<cache, result, finished, processed, peek, warmed>>

-----------------------------------------------------------------------------
\* Another run over the same cache: after the last one, or after it crashed.
RunAgain ==
    /\ runs < MaxRuns
    /\ runs' = runs + 1
    /\ Fresh(Nodes)
    /\ UNCHANGED <<deps, version, cache, edits, raced>>

EditFile ==
    /\ edits < MaxEdits
    /\ version' \in Versions \ {version}
    /\ edits' = edits + 1
    /\ raced' = (raced \/ run = "active")
    /\ UNCHANGED <<deps, cache, runs, dagRunVars>>

TaskStep(n) == ClaimNode(n) \/ LookUp(n) \/ Execute(n) \/ Store(n) \/ CommitNode(n) \/ FailNode(n)

SchedulerStep ==
    \/ \E n \in Nodes : ScheduleDone(n) \/ ScheduleTask(n) \/ ProcessFinished(n)
    \/ ProcessWarmed \/ DagDone

LookUpEnds(p) == PrefetchHit(p) \/ PrefetchMiss(p)

PrefetcherStep(p) == (\E n \in Nodes : PrefetchStart(p, n)) \/ LookUpEnds(p)

DagNext ==
    \/ SchedulerStep
    \/ \E n \in Nodes : TaskStep(n)
    \/ \E p \in Prefetchers : PrefetcherStep(p)
    \/ RunAgain \/ EditFile

\* What the engine does on its own.
EngineStep ==
    \/ SchedulerStep
    \/ \E p \in Prefetchers : LookUpEnds(p)
    \/ \E n \in Nodes : TaskStep(n)

\* The event loop goes on as long as something can run: the sandbox ends every
\* call by its time-out, a look-up on disk ends.
DagSpec == DagInit /\ [][DagNext]_dagVars /\ WF_dagVars(EngineStep)

-----------------------------------------------------------------------------
\* Properties

\* Whatever the scheduler, the tasks and two prefetchers do in between, a node
\* runs, or is completed from the cache, only when every node it depends on is
\* done, and it is processed only when they are.
DependenciesFirst ==
    \A n \in Nodes :
        /\ status[n] \in {"running", "done"} => \A d \in deps[n] : status[d] = "done"
        /\ n \in processed => status[n] = "done" /\ deps[n] \subseteq processed

\* The nodes n needs, itself included.
Needs(n) ==
    CHOOSE S \in SUBSET Nodes :
        /\ n \in S /\ \A m \in S : deps[m] \subseteq S
        /\ \A R \in SUBSET Nodes : n \in R /\ (\A m \in R : deps[m] \subseteq R) => S \subseteq R

\* However an output came about (run, cache hit, predictive hit, a cache that
\* crashed and failed runs over other versions of the file left behind), it is
\* what running the whole graph on the present file gives, as long as nobody
\* edits the file in the middle of a run.
ResultsAreFresh ==
    ~raced /\ run = "active" =>
        \A n \in Nodes : status[n] = "done" => result[n].value = Readings(Needs(n)) \cap (Nodes \X {version})

\* A graph without a cycle: every non-empty set of nodes has one that depends
\* on none of the others.
Acyclic == \A S \in SUBSET Nodes \ {{}} : \E n \in S : deps[n] \cap S = {}

\* A run over an acyclic graph ends, done or failed: no completion is lost
\* between prefetchers, done_q and the list of ready nodes.
DagEnds == Acyclic /\ run = "active" ~> run # "active"

=============================================================================
