------------------------------ MODULE StoreOps ------------------------------
(***************************************************************************)
(* The tables that the control plane keeps in JSON files, and what one     *)
(* call of a store does to the table it has loaded.  Seven stores work     *)
(* alike:                                                                  *)
(*                                                                         *)
(*   scheduler    .scheduler/state.json: workers, leases, events           *)
(*   decisions    governance_decisions/decisions.json                      *)
(*   lifecycle    .lifecycle/agents.json: profiles, agents, events         *)
(*   repository   .governance/repositories.json                            *)
(*   missions     .missions/<id>.json: one mission                         *)
(*   memory       .memory/graph.json: nodes and edges                      *)
(*   metrics      consensus_metrics.json                                   *)
(*                                                                         *)
(* An operation names its method, its argument and its caller; the caller  *)
(* stands for the payload, so that what a call wrote can be told apart.    *)
(***************************************************************************)
EXTENDS Integers, Sequences

StoreKinds == {"scheduler", "decisions", "lifecycle", "repository", "missions", "memory", "metrics"}

\* The stores that write through one fixed name, ".<file>.tmp"; the others
\* put their process id and the time into the name.
SharesTemp(k) == k \in {"scheduler", "decisions", "lifecycle", "repository"}

\* The stores that take a file that does not parse for an empty table; the
\* others raise.
Lenient(k) == k \in {"decisions", "lifecycle", "metrics"}

Nothing == <<>>

\* What a missing file is read as.  A mission that does not exist has the
\* status "missing".
EmptyTable(k) ==
    CASE k = "scheduler" -> [workers |-> Nothing, leases |-> Nothing, scheduler_events |-> <<>>]
      [] k = "decisions" -> [decisions |-> <<>>]
      [] k = "lifecycle" -> [profiles |-> Nothing, agents |-> Nothing, events |-> <<>>]
      [] k = "repository" -> [profiles |-> Nothing, snapshots |-> <<>>, audits |-> <<>>]
      [] k = "missions" -> [status |-> "missing", tasks |-> <<>>, approvals |-> <<>>,
                            consensus |-> <<>>, telemetry |-> <<>>]
      [] k = "memory" -> [nodes |-> Nothing, edges |-> Nothing]
      [] k = "metrics" -> [reviews |-> 0, rejections |-> 0, refinements |-> 0]

\* The table that a load returns.
Loaded(k, content) == IF content = {} THEN EmptyTable(k) ELSE CHOOSE t \in content : TRUE

-----------------------------------------------------------------------------
Put(f, key, value) == [x \in DOMAIN f \cup {key} |-> IF x = key THEN value ELSE f[x]]

\* Upserts keep the metadata of the record they replace and add their own.
Metadata(f, key) == IF key \in DOMAIN f THEN f[key].metadata ELSE {}

OpenLease == {"active", "renewed"}

\* SchedulerStateStore.  create_lease looks at no other lease, renew_lease
\* and release_lease not at the status; expire_stale_leases takes a time
\* later than every expiry, and saves only if it expired something.
SchedulerUpdate(op, t) ==
    LET due == {l \in DOMAIN t.leases : t.leases[l].status \in OpenLease}
    IN CASE op.name = "register_worker" ->
              {[t EXCEPT !.workers = Put(@, op.arg,
                    [status |-> "idle", metadata |-> Metadata(@, op.arg) \cup {op.by}])]}
         [] op.name = "update_worker_status" /\ op.arg \in DOMAIN t.workers ->
              {[t EXCEPT !.workers[op.arg].status = "busy"]}
         [] op.name = "create_lease" ->
              {[t EXCEPT !.leases = Put(@, op.arg,
                    [status |-> "active", metadata |-> Metadata(@, op.arg) \cup {op.by}])]}
         [] op.name = "renew_lease" /\ op.arg \in DOMAIN t.leases ->
              {[t EXCEPT !.leases[op.arg].status = "renewed"]}
         [] op.name = "release_lease" /\ op.arg \in DOMAIN t.leases ->
              {[t EXCEPT !.leases[op.arg].status = "released"]}
         [] op.name = "expire_stale_leases" /\ due # {} ->
              {[t EXCEPT !.leases = [l \in DOMAIN @ |->
                    IF l \in due THEN [@[l] EXCEPT !.status = "expired"] ELSE @[l]]]}
         [] op.name = "append_scheduler_event" ->
              {[t EXCEPT !.scheduler_events = Append(@, op.by)]}
         [] OTHER -> {}

\* append_decision: in place of the decision with the same id, if there is one.
DecisionsUpdate(op, t) ==
    LET same == {i \in DOMAIN t.decisions : t.decisions[i].id = op.arg}
        rec == [id |-> op.arg, by |-> op.by]
    IN {[t EXCEPT !.decisions =
            IF same = {} THEN Append(@, rec)
            ELSE [@ EXCEPT ![CHOOSE i \in same : \A j \in same : i <= j] = rec]]}

\* LifecycleStore: updates of an unknown agent return without saving.
LifecycleUpdate(op, t) ==
    CASE op.name = "upsert_capability_profile" -> {[t EXCEPT !.profiles = Put(@, op.arg, op.by)]}
      [] op.name = "register_agent" ->
           {[t EXCEPT !.agents = Put(@, op.arg, [health |-> "unknown", availability |-> op.by])]}
      [] op.name = "update_agent_health" /\ op.arg \in DOMAIN t.agents ->
           {[t EXCEPT !.agents[op.arg].health = op.by]}
      [] op.name = "update_agent_availability" /\ op.arg \in DOMAIN t.agents ->
           {[t EXCEPT !.agents[op.arg].availability = op.by]}
      [] op.name = "append_lifecycle_event" -> {[t EXCEPT !.events = Append(@, op.by)]}
      [] OTHER -> {}

RepositoryUpdate(op, t) ==
    CASE op.name = "upsert_profile" ->
           {[t EXCEPT !.profiles = Put(@, op.arg, [metadata |-> Metadata(@, op.arg) \cup {op.by}])]}
      [] op.name = "append_health_snapshot" -> {[t EXCEPT !.snapshots = Append(@, op.by)]}
      [] op.name = "append_audit_record" -> {[t EXCEPT !.audits = Append(@, op.by)]}

\* The status of the approval record that each transition yields.
ApprovalAfter ==
    [create_approval_request |-> "requested", approve_record |-> "approved",
     reject_record |-> "rejected", request_changes_record |-> "changes_requested",
     expire_record |-> "expired"]

\* MissionStore: everything but create_mission raises if the file is missing.
MissionUpdate(op, t) ==
    CASE op.name = "create_mission" /\ t.status = "missing" -> {[t EXCEPT !.status = "draft"]}
      [] op.name \in {"update_mission_status", "archive_mission"} /\ t.status # "missing" ->
           {[t EXCEPT !.status = op.arg]}
      [] op.name = "append_telemetry_event" /\ t.status # "missing" ->
           {[t EXCEPT !.telemetry = Append(@, op.by)]}
      [] op.name = "append_task" /\ t.status # "missing" ->
           {[t EXCEPT !.tasks = Append(@, op.by),
                      !.status = IF @ = "draft" THEN "planned" ELSE @]}
      [] op.name = "append_approval" /\ t.status # "missing" ->
           {[t EXCEPT !.approvals = Append(@, ApprovalAfter[op.arg])]}
      [] op.name = "append_consensus_record" /\ t.status # "missing" ->
           {[t EXCEPT !.consensus = Append(@, op.arg)]}
      [] OTHER -> {}

MemoryUpdate(op, t) ==
    CASE op.name = "upsert_node" ->
           {[t EXCEPT !.nodes = Put(@, op.arg, [metadata |-> Metadata(@, op.arg) \cup {op.by}])]}
      [] op.name = "upsert_edge" ->
           {[t EXCEPT !.edges = Put(@, op.arg, [metadata |-> Metadata(@, op.arg) \cup {op.by}])]}

\* record_consensus_metrics_update: a review, rejected or not; a refinement.
MetricsUpdate(op, t) ==
    CASE op.name = "review" -> {[t EXCEPT !.reviews = @ + 1]}
      [] op.name = "rejected_review" -> {[t EXCEPT !.reviews = @ + 1, !.rejections = @ + 1]}
      [] op.name = "refinement" -> {[t EXCEPT !.refinements = @ + 1]}

\* A call that has loaded table t: {u} if it goes on to save u, {} if it
\* raises or returns without saving.
Update(k, op, t) ==
    CASE k = "scheduler" -> SchedulerUpdate(op, t)
      [] k = "decisions" -> DecisionsUpdate(op, t)
      [] k = "lifecycle" -> LifecycleUpdate(op, t)
      [] k = "repository" -> RepositoryUpdate(op, t)
      [] k = "missions" -> MissionUpdate(op, t)
      [] k = "memory" -> MemoryUpdate(op, t)
      [] k = "metrics" -> MetricsUpdate(op, t)

-----------------------------------------------------------------------------
Pairs(names, args) == names \X args

\* The calls of each store, as pairs of method and argument.
Methods(k) ==
    CASE k = "scheduler" ->
           Pairs({"register_worker", "update_worker_status", "append_scheduler_event"}, {"w"})
             \cup Pairs({"create_lease", "renew_lease", "release_lease", "expire_stale_leases"}, {"l"})
      [] k = "decisions" -> Pairs({"append_decision"}, {"d1", "d2"})
      [] k = "lifecycle" ->
           Pairs({"upsert_capability_profile", "register_agent", "update_agent_health",
                  "update_agent_availability", "append_lifecycle_event"}, {"a"})
      [] k = "repository" ->
           Pairs({"upsert_profile", "append_health_snapshot", "append_audit_record"}, {"r"})
      [] k = "missions" ->
           Pairs({"create_mission", "append_telemetry_event", "append_task"}, {"m"})
             \cup {<<"update_mission_status", "failed">>, <<"archive_mission", "archived">>}
             \cup Pairs({"append_approval"}, {"create_approval_request", "approve_record"})
             \cup {<<"append_consensus_record", "rejected">>}
      [] k = "memory" -> Pairs({"upsert_node", "upsert_edge"}, {"n"})
      [] k = "metrics" -> Pairs({"review", "rejected_review", "refinement"}, {"-"})

OpsOf(k, callers) ==
    {[name |-> m[1], arg |-> m[2], by |-> c] : m \in Methods(k), c \in callers}
=============================================================================
