--------------------------- MODULE GovernanceFlow ---------------------------
(***************************************************************************)
(* From the governance index to an approved manual action.  Six command    *)
(* lines hand reports to each other: governance_recovery plans actions for *)
(* weak components, governance_recovery_dossiers writes a dossier for each *)
(* action, governance_approval_readiness evaluates the dossiers,           *)
(* governance_approval_packets makes packets of those that may be          *)
(* reviewed, governance_decisions records what a reviewer decides, and     *)
(* manual_execution_queue lists the packets with their decisions.          *)
(*                                                                         *)
(* Nothing ties the reports together but ids: operators run the commands   *)
(* in any order, run some of them again, or edit a dossier by hand.  An    *)
(* action, dossier or packet is named by its title; its id is fresh in     *)
(* every report, hence the pair of the report's number and the title.      *)
(***************************************************************************)
EXTENDS Integers, Sequences, FiniteSetsExt

CONSTANTS
    ScoreSets,      \* possible governance index reports: a score per component
    MaxScoreChanges,
    MaxDossiers,    \* bound on dossier reports
    MaxPackets,     \* bound on packet reports
    MaxDecisions,   \* bound on recorded decisions
    HandFlaws,      \* the flaws that editing a dossier by hand may leave in it
    MaxAmends       \* bound on dossiers edited by hand

\* The index report gives a percentage.
ASSUME ScoresAssumption ==
    /\ \A sc \in ScoreSets : sc["index"] \in 0..100
    /\ MaxScoreChanges \in Nat /\ MaxDossiers \in Nat /\ MaxPackets \in Nat /\ MaxAmends \in Nat

ASSUME HandFlawsAssumption ==
    HandFlaws \subseteq {"advisory", "runtime_path", "commands", "rollback", "checklist", "prompt",
                         "wording", "scope"}

VARIABLES
    scores,         \* portfolio_governance_index/latest.json, its components
    changes,
    plan,           \* titles of governance_recovery/latest.json
    dossiers,       \* governance_recovery_dossiers/latest.json: title -> dossier
    dossierReports, \* number of dossier reports so far
    readiness,      \* governance_approval_readiness/latest.json: title -> record
    packets,        \* governance_approval_packets/latest.json: title -> packet
    packetReports,  \* number of packet reports so far
    decisions,      \* governance_decisions/decisions.json
    decided,        \* the decisions listed in governance_decisions/latest.json
    manualQueue,    \* manual_execution_queue/latest.json: title -> item
    amends

governanceVars == <<scores, changes, plan, dossiers, dossierReports, readiness, packets,
                    packetReports, decisions, decided, manualQueue, amends>>

-----------------------------------------------------------------------------
(* The recovery plan.                                                      *)

RecoveryAction(component, below, priority, impact, artifacts) ==
    [component |-> component, below |-> below, priority |-> priority,
     impact |-> impact, artifacts |-> artifacts]

\* The actions of _actions_from_components, with the number of artifacts that
\* their wording makes _target_artifacts_for_action list.
Catalogue ==
    [validate_onboarding |-> RecoveryAction("readiness", 50, "P1", 15, 4),
     generate_baselines |-> RecoveryAction("readiness", 50, "P1", 10, 4),
     resolve_onboarding |-> RecoveryAction("onboarding", 50, "P1", 12, 4),
     refresh_onboarding |-> RecoveryAction("onboarding", 50, "P2", 5, 4),
     reduce_findings |-> RecoveryAction("dependencies", 70, "P2", 12, 3),
     resolve_drift |-> RecoveryAction("drift", 70, "P2", 8, 6),
     regenerate_roadmap |-> RecoveryAction("roadmap", 70, "P2", 7, 6),
     build_history |-> RecoveryAction("progress", 70, "P3", 4, 3),
     execute_critical |-> RecoveryAction("critical_path", 70, "P2", 8, 1)]

Titles == DOMAIN Catalogue

Planned(sc) == {t \in Titles : sc[Catalogue[t].component] < Catalogue[t].below}

WaveOf(t) ==
    CASE Catalogue[t].priority \in {"P0", "P1"} -> "wave_1"
      [] Catalogue[t].priority = "P2" -> "wave_2"
      [] OTHER -> "wave_3"

TargetScore(sc, titles) ==
    LET reached == sc["index"] + MapThenSumSet(LAMBDA t : Catalogue[t].impact, titles)
    IN IF reached > 100 THEN 100 ELSE reached

-----------------------------------------------------------------------------
(* Dossiers and their evaluation.                                          *)

ExecutionRisk(priority) ==
    CASE priority = "P0" -> "critical" [] priority = "P1" -> "high"
      [] priority = "P2" -> "medium" [] OTHER -> "low"

\* What _evaluate_dossier can hold against a dossier: six requirements, the
\* wording of a rejected one, and a scope that asks for review.
Requirements == {"advisory", "runtime_path", "commands", "rollback", "checklist", "prompt"}
Flaws == Requirements \cup {"wording", "scope"}

DossierFor(t, number) ==
    [id |-> <<number, t>>, wave |-> WaveOf(t),
     risk |-> ExecutionRisk(Catalogue[t].priority),
     flaws |-> IF Catalogue[t].artifacts > 6 THEN {"scope"} ELSE {}]

ApprovalStatus(d) ==
    LET missing == d.flaws \cap Requirements
        blocking == missing \cap {"advisory", "runtime_path", "commands"}
        review == d.risk \in {"high", "critical"} \/ "scope" \in d.flaws
    IN CASE "wording" \in d.flaws -> "rejected_advisory"
         [] "wording" \notin d.flaws /\ blocking # {} -> "blocked"
         [] "wording" \notin d.flaws /\ blocking = {} /\ review -> "needs_review"
         [] "wording" \notin d.flaws /\ ~review /\ missing = {} -> "ready_for_review"
         [] OTHER -> "unknown"

ReadinessScore(d) ==
    LET base == [ready_for_review |-> 90, needs_review |-> 65, blocked |-> 25,
                 rejected_advisory |-> 10, unknown |-> 40]
        missing == 5 * Cardinality(d.flaws \cap Requirements)
        score == base[ApprovalStatus(d)]
                    - (CASE d.risk = "critical" -> 20 [] d.risk = "high" -> 10 [] OTHER -> 0)
                    - (IF missing > 20 THEN 20 ELSE missing)
    IN IF score < 0 THEN 0 ELSE score

EvaluateDossier(d) ==
    [dossier |-> d.id, status |-> ApprovalStatus(d), score |-> ReadinessScore(d), risk |-> d.risk,
     human |-> \/ ApprovalStatus(d) \in {"needs_review", "blocked", "rejected_advisory"}
               \/ d.risk \in {"high", "critical"}]

-----------------------------------------------------------------------------
(* Packets, decisions and the manual queue.                                *)

Reviewable == {"ready_for_review", "needs_review"}

\* A wrong PacketId: derived from the title, the same in every report.
PacketIdByTitle(number, t) == <<1, t>>

\* new_id: fresh for every packet of every report.
PacketId(number, t) == <<number, t>>

\* The dossier a packet quotes: the one its record names, or the one of the
\* same title, or none.  (Within one report a title is an id.)
QuotedDossier(t) == IF t \in DOMAIN dossiers THEN {dossiers[t]} ELSE {}

BuildPacket(t, number) ==
    [id |-> PacketId(number, t), dossier |-> readiness[t].dossier, status |-> readiness[t].status,
     risk |-> readiness[t].risk, body |-> QuotedDossier(t)]

AllowedDecisions == {"approve_for_manual_execution", "request_changes", "reject", "defer"}

RequiredAcks == {"runtime_paths", "queue_mutation", "validation_commands", "rollback", "manual_only"}

\* _validate_decision_requirements.
DecisionValid(d) ==
    /\ d.decision \in AllowedDecisions
    /\ d.decision = "approve_for_manual_execution" => RequiredAcks \subseteq d.acks

\* What a reviewer types: acknowledgements matter to an approval only.
AcksGiven(decision) ==
    IF decision = "approve_for_manual_execution" THEN {RequiredAcks, {"rollback"}} ELSE {{}}

\* The last decision of a list on a packet, if there is one.
LastOn(list, id) ==
    {list[i] : i \in {j \in DOMAIN list :
        list[j].packet = id /\ \A k \in DOMAIN list : k > j => list[k].packet # id}}

DecisionOn(list, id) ==
    IF LastOn(list, id) = {} THEN "pending_review" ELSE (CHOOSE d \in LastOn(list, id) : TRUE).decision

\* The packet ids of the decision report, by what was decided.
PacketsDecided(decision) == {t \in DOMAIN packets : DecisionOn(decisions, packets[t].id) = decision}

QueueStatus(decision) ==
    CASE decision = "approve_for_manual_execution" -> "approved_manual"
      [] decision = "defer" -> "deferred"
      [] decision = "request_changes" -> "needs_changes"
      [] decision = "reject" -> "rejected"
      [] decision = "pending_review" -> "pending_review"
      [] OTHER -> "unknown"

QueuePriority(status) ==
    CASE status = "approved_manual" -> "P1" [] status = "deferred" -> "P3"
      [] status \in {"needs_changes", "pending_review"} -> "P2" [] OTHER -> "P4"

QueueItem(p) ==
    LET status == QueueStatus(DecisionOn(decided, p.id))
    IN [packet |-> p, status |-> status, priority |-> QueuePriority(status)]

-----------------------------------------------------------------------------
(* The command lines.                                                      *)

GovernanceInit ==
    /\ scores \in ScoreSets /\ changes = 0
    /\ plan = {} /\ dossiers = <<>> /\ dossierReports = 0
    /\ readiness = <<>>
    /\ packets = <<>> /\ packetReports = 0
    /\ decisions = <<>> /\ decided = <<>>
    /\ manualQueue = <<>> /\ amends = 0

\* The governance index is computed anew.
ReassessIndex ==
    /\ changes < MaxScoreChanges
    /\ \E sc \in ScoreSets \ {scores} : scores' = sc
    /\ changes' = changes + 1
    /\ UNCHANGED <<plan, dossiers, dossierReports, readiness, packets, packetReports, decisions,
                   decided, manualQueue, amends>>

PlanRecovery ==
    /\ plan' = Planned(scores)
    /\ UNCHANGED <<scores, changes, dossiers, dossierReports, readiness, packets, packetReports,
                   decisions, decided, manualQueue, amends>>

WriteDossiers ==
    /\ dossierReports < MaxDossiers
    /\ dossierReports' = dossierReports + 1
    /\ dossiers' = [t \in plan |-> DossierFor(t, dossierReports + 1)]
    /\ UNCHANGED <<scores, changes, plan, readiness, packets, packetReports, decisions, decided,
                   manualQueue, amends>>

\* Somebody edits a dossier of the latest report.
AmendDossier(t, f) ==
    /\ amends < MaxAmends
    /\ t \in DOMAIN dossiers
    /\ dossiers' = [dossiers EXCEPT ![t].flaws = {f}]
    /\ amends' = amends + 1
    /\ UNCHANGED <<scores, changes, plan, dossierReports, readiness, packets, packetReports,
                   decisions, decided, manualQueue>>

EvaluateReadiness ==
    /\ readiness' = [t \in DOMAIN dossiers |-> EvaluateDossier(dossiers[t])]
    /\ UNCHANGED <<scores, changes, plan, dossiers, dossierReports, packets, packetReports,
                   decisions, decided, manualQueue, amends>>

WritePackets ==
    /\ packetReports < MaxPackets
    /\ packetReports' = packetReports + 1
    /\ packets' = [t \in {u \in DOMAIN readiness : readiness[u].status \in Reviewable} |->
                        BuildPacket(t, packetReports + 1)]
    /\ UNCHANGED <<scores, changes, plan, dossiers, dossierReports, readiness, decisions, decided,
                   manualQueue, amends>>

\* --record-decision, with or without --export.  "seen" is the packet as the
\* reviewer found it in the report; the stored record does not have it.
RecordDecision(t, decision, acks, export) ==
    /\ Len(decisions) < MaxDecisions
    /\ t \in DOMAIN packets
    /\ LET d == [packet |-> packets[t].id, decision |-> decision, acks |-> acks, seen |-> packets[t]]
       IN DecisionValid(d) /\ decisions' = Append(decisions, d)
    /\ decided' = IF export THEN decisions' ELSE decided
    /\ UNCHANGED <<scores, changes, plan, dossiers, dossierReports, readiness, packets,
                   packetReports, manualQueue, amends>>

ExportDecisions ==
    /\ decided' = decisions
    /\ UNCHANGED <<scores, changes, plan, dossiers, dossierReports, readiness, packets,
                   packetReports, decisions, manualQueue, amends>>

BuildManualQueue ==
    /\ manualQueue' = [t \in DOMAIN packets |-> QueueItem(packets[t])]
    /\ UNCHANGED <<scores, changes, plan, dossiers, dossierReports, readiness, packets,
                   packetReports, decisions, decided, amends>>

GovernanceNext ==
    \/ ReassessIndex \/ PlanRecovery \/ WriteDossiers \/ EvaluateReadiness \/ WritePackets
    \/ \E t \in Titles, f \in HandFlaws : AmendDossier(t, f)
    \/ \E t \in Titles, decision \in AllowedDecisions, export \in BOOLEAN :
          \E acks \in AcksGiven(decision) : RecordDecision(t, decision, acks, export)
    \/ ExportDecisions \/ BuildManualQueue

GovernanceSpec == GovernanceInit /\ [][GovernanceNext]_governanceVars

-----------------------------------------------------------------------------
(* The contracts that each command checks before it writes.                *)

PlanContract ==
    /\ plan \subseteq Titles
    /\ TargetScore(scores, Planned(scores)) \in scores["index"] .. 100

DossierContract(d) ==
    /\ d.risk \in {"low", "medium", "high", "critical"}
    /\ d.wave \in {"wave_1", "wave_2", "wave_3"}
    /\ d.id \in (1 .. dossierReports) \X Titles
    /\ d.flaws \subseteq Flaws

ReadinessContract(rec) ==
    /\ rec.status \in {"ready_for_review", "needs_review", "blocked", "rejected_advisory", "unknown"}
    /\ rec.score \in 0 .. 100
    /\ rec.risk \in {"low", "medium", "high", "critical", "unknown"}
    /\ rec.human \in BOOLEAN

PacketContract(p) ==
    /\ p.id \in (1 .. packetReports) \X Titles
    /\ p.status \in {"ready_for_review", "needs_review", "blocked", "rejected_advisory", "unknown"}
    /\ \A d \in p.body : DossierContract(d)

\* The report lists every packet under exactly one decision, and valid decisions.
DecisionReportContract ==
    /\ \A i \in DOMAIN decisions : DecisionValid(decisions[i])
    /\ \A t \in DOMAIN packets :
          \E decision \in AllowedDecisions \cup {"pending_review"} : t \in PacketsDecided(decision)

QueueContract(item) ==
    /\ item.status \in {"approved_manual", "deferred", "needs_changes", "pending_review", "rejected"}
    /\ item.priority \in {"P1", "P2", "P3", "P4"}

\* Types; every report passes the contract its command checks.
GovernanceTypeOK ==
    /\ scores \in ScoreSets /\ PlanContract
    /\ \A t \in DOMAIN dossiers : DossierContract(dossiers[t])
    /\ \A t \in DOMAIN readiness : ReadinessContract(readiness[t])
    /\ \A t \in DOMAIN packets : PacketContract(packets[t])
    /\ DecisionReportContract
    /\ \A t \in DOMAIN manualQueue : QueueContract(manualQueue[t])
    /\ dossierReports \in 0 .. MaxDossiers /\ packetReports \in 0 .. MaxPackets
    /\ changes \in 0 .. MaxScoreChanges /\ amends \in 0 .. MaxAmends

(* An item of the manual queue is approved only if a reviewer approved,    *)
(* with every acknowledgement, this very packet: the one whose dossier and *)
(* commands the item shows.  Whatever is generated again in between, an    *)
(* approval is never carried over to other contents, and what was blocked  *)
(* or rejected by the evaluation is never in the queue.                    *)
ApprovedAsReviewed ==
    \A t \in DOMAIN manualQueue :
        /\ manualQueue[t].packet.status \in Reviewable
        /\ manualQueue[t].status = "approved_manual" =>
             \E i \in DOMAIN decisions :
                /\ decisions[i].decision = "approve_for_manual_execution"
                /\ RequiredAcks \subseteq decisions[i].acks
                /\ decisions[i].seen = manualQueue[t].packet
=============================================================================
