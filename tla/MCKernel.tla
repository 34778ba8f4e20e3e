------------------------------ MODULE MCKernel ------------------------------
(***************************************************************************)
(* The parts of core/ around the office pipeline, in one instance: the     *)
(* proof ledger and its auditor, the rollup engine, the DAG engine with    *)
(* its cache, and the audited handshake pipeline.  They share no state in  *)
(* the models, so every interleaving of two of them is a shuffle of their  *)
(* own behaviours; the instance explores each one by itself.               *)
(***************************************************************************)
EXTENDS ProofLedger, Rollup, StageDag, HandshakeAudit, TLC

VARIABLE focus     \* the component that runs

kernelVars == <<focus, ledgerVars, rollupVars, dagVars, handshakeVars>>

MCPolicies == {PipelineOrder, <<"ISA", "SAS", "BOA">>}

\* The compiled blueprint up to CRS, a join, and a graph with a cycle.
MCBlueprint == [n \in {"ISA", "workspace", "CRS"} |-> Blueprint({})[n]]

MCGraphs ==
    {MCBlueprint,
     "ISA" :> {} @@ "CRS" :> {} @@ "BOA" :> {"ISA", "CRS"},
     "ISA" :> {} @@ "CRS" :> {"ISA", "BOA"} @@ "BOA" :> {"CRS"}}

KernelInit ==
    /\ LedgerInit /\ RollupInit /\ DagInit /\ HandshakeInit
    /\ \/ focus = "ledger" /\ deps = MCBlueprint /\ policy = PipelineOrder
       \/ focus = "rollup" /\ deps = MCBlueprint /\ policy = PipelineOrder
       \/ focus = "dag" /\ policy = PipelineOrder
       \/ focus = "handshake" /\ deps = MCBlueprint

RunsLedger(A) == focus = "ledger" /\ A /\ UNCHANGED <<focus, rollupVars, dagVars, handshakeVars>>
RunsRollup(A) == focus = "rollup" /\ A /\ UNCHANGED <<focus, ledgerVars, dagVars, handshakeVars>>
RunsDag(A) == focus = "dag" /\ A /\ UNCHANGED <<focus, ledgerVars, rollupVars, handshakeVars>>
RunsHandshake(A) == focus = "handshake" /\ A /\ UNCHANGED <<focus, ledgerVars, rollupVars, dagVars>>

KernelNext ==
    \/ RunsLedger(LedgerNext) \/ RunsRollup(RollupNext)
    \/ RunsDag(DagNext) \/ RunsHandshake(HandshakeNext)

KernelSpec ==
    /\ KernelInit /\ [][KernelNext]_kernelVars
    /\ \A m \in Monitors : WF_kernelVars(RunsLedger(AuditorStep(m)))
    /\ WF_kernelVars(RunsDag(EngineStep))
    /\ WF_kernelVars(RunsHandshake(OfficeStep))

\* Types of the four components.
KernelTypeOK == LedgerTypeOK /\ RollupTypeOK /\ DagTypeOK /\ HandshakeTypeOK

\* Liveness, each where its component runs.
LedgerHeals == focus = "ledger" => Heals
StagesEnd == focus = "dag" => DagEnds
HandshakeEnds == focus = "handshake" => OfficeEnds
=============================================================================
