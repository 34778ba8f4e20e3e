--------------------------- MODULE HandshakeAudit ---------------------------
(***************************************************************************)
(* HandshakePipeline.run of core/handshake.py (the office behind           *)
(* run_autonomous_office.py's _amain) with core/matrix_verifier.py and     *)
(* core/telemetry.py: ISA, SAS, CRS and BOA are coroutines joined by       *)
(* queues, a twin auditor (ITA, ATA, RTA) stands between each pair, and a  *)
(* MatrixVerifier follows the hand-offs.  Six tasks are gathered, BOA's is *)
(* awaited after them.  A step runs from one await to the next.            *)
(*                                                                         *)
(* A packet is what its auditor can tell: plain (no handshake_hash),       *)
(* signed (the right one), forged (another one), malformed (not of the     *)
(* schema).  Outputs are cached on disk under the outputs they depend on.  *)
(***************************************************************************)
EXTENDS Integers, Sequences, FiniteSets

CONSTANTS
    Policies,      \* governance policies: the allowed_path of MatrixVerifier
    MaxOffices     \* bound: runs of the office over one cache

ASSUME OfficesAssumption == MaxOffices \in Nat \ {0}

PipelineOrder == <<"ISA", "SAS", "CRS", "BOA">>
Positions == 1..4
Hops == 1..3

Packets == {"plain", "signed", "forged", "malformed"}
None == "None"      \* the sentinel that ends a queue

VARIABLES
    policy,       \* allowed_path
    lastAgent,    \* MatrixVerifier._last_agent, 0 before the first hop
    audited,      \* MatrixVerifier._audited, as the positions handed off from
    handshakes,   \* state["telemetry"]
    outQ,         \* outQ[i]: q_isa_out, q_sas_out, q_crs_out
    inQ,          \* inQ[i]: q_sas_in, q_crs_in, q_boa_in, filled by auditor i
    stageAt,      \* stageAt[i]: "idle", "busy", "ended", "failed", "traced" or "closed"
    auditorAt,    \* auditorAt[i]: "idle", "signed", "ended", "failed" or "closed"
    given,        \* given[i]: the packet stage i works on
    hop,          \* hop[i]: the packet auditor i signed and has not passed on
    outputs,      \* stage_fps and packets: outputs so far, in stage order
    objects,      \* the cache: output by the outputs it depends on
    pipelineState,\* state["pipeline_state"]
    buildFile,    \* logs/BUILD_ARTIFACT.json exists
    traceFile,    \* logs/TELEMETRY_TRACE.json: "none", "audit" or "tracer"
    offices

handshakeVars == <<policy, lastAgent, audited, handshakes, outQ, inQ, stageAt, auditorAt,
                   given, hop, outputs, objects, pipelineState, buildFile, traceFile, offices>>
runStateVars == <<policy, objects, buildFile, offices>>

\* Types; a stage is busy with a packet its auditor passed on.
HandshakeTypeOK ==
    /\ policy \in Policies /\ lastAgent \in 0..3
    /\ audited \in Seq(Hops) /\ handshakes \in Seq(Hops)
    /\ stageAt \in [Positions -> {"idle", "busy", "ended", "failed", "traced", "closed"}]
    /\ auditorAt \in [Hops -> {"idle", "signed", "ended", "failed", "closed"}]
    /\ \A i \in Positions : stageAt[i] = "busy" /\ i > 1 => given[i] \in {"plain", "signed"}
    /\ outputs \in Seq(Packets) /\ Len(outputs) <= 4
    /\ pipelineState \in {"RUNNING", "COMPLETED", "DEAD_HALT"}
    /\ traceFile \in {"none", "audit", "tracer"} /\ buildFile \in BOOLEAN
    /\ offices \in 1..MaxOffices

FreshOffice ==
    /\ lastAgent' = 0 /\ audited' = <<>> /\ handshakes' = <<>>
    /\ outQ' = [i \in Hops |-> <<>>] /\ inQ' = [i \in Hops |-> <<>>]
    /\ stageAt' = [i \in Positions |-> IF i = 1 THEN "busy" ELSE "idle"]
    /\ auditorAt' = [i \in Hops |-> "idle"]
    /\ given' = [i \in Positions |-> None] /\ hop' = [i \in Hops |-> None]
    /\ outputs' = <<>> /\ pipelineState' = "RUNNING"

HandshakeInit ==
    /\ policy \in Policies
    /\ lastAgent = 0 /\ audited = <<>> /\ handshakes = <<>>
    /\ outQ = [i \in Hops |-> <<>>] /\ inQ = [i \in Hops |-> <<>>]
    /\ stageAt = [i \in Positions |-> IF i = 1 THEN "busy" ELSE "idle"]
    /\ auditorAt = [i \in Hops |-> "idle"]
    /\ given = [i \in Positions |-> None] /\ hop = [i \in Hops |-> None]
    /\ outputs = <<>> /\ objects = [k \in {} |-> None]
    /\ pipelineState = "RUNNING" /\ buildFile = FALSE /\ traceFile = "none"
    /\ offices = 1

-----------------------------------------------------------------------------
\* MatrixVerifier

\* GovernancePolicy.expected_next
ExpectedNext(agent) ==
    IF \E k \in 1..(Len(policy) - 1) : policy[k] = agent
    THEN policy[1 + CHOOSE k \in 1..(Len(policy) - 1) : policy[k] = agent]
    ELSE None

\* _verify_governance_transition accepts the hop from stage i to stage i + 1.
TransitionAllowed(i) ==
    /\ IF lastAgent = 0
       THEN policy = <<>> \/ PipelineOrder[i] = policy[1]
       ELSE ExpectedNext(PipelineOrder[lastAgent]) = PipelineOrder[i]
    /\ ExpectedNext(PipelineOrder[i]) = PipelineOrder[i + 1]

\* validate_trace_complete
TraceComplete == Len(policy) < 2 \/ Len(audited) = Len(policy) - 1

\* Mutant of SignOff: the hash is not compared.
SignOffSchema(pkt) == pkt # "malformed"

\* TwinAuditor.sign_off: the schema, and the hash when the packet carries one.
SignOff(pkt) == pkt \in {"plain", "signed"}

-----------------------------------------------------------------------------
\* A stage takes the next packet of its queue, or the sentinel, which it hands
\* on; BOA has no use for it.
TakePacket(i) ==
    /\ stageAt[i] = "idle" /\ inQ[i - 1] # <<>> /\ Head(inQ[i - 1]) # None
    /\ given' = [given EXCEPT ![i] = Head(inQ[i - 1])]
    /\ inQ' = [inQ EXCEPT ![i - 1] = Tail(@)]
    /\ stageAt' = [stageAt EXCEPT ![i] = "busy"]
    /\ UNCHANGED <<runStateVars, lastAgent, audited, handshakes, outQ, auditorAt, hop, outputs,
                   pipelineState, traceFile>>

TakeSentinel(i) ==
    /\ stageAt[i] = "idle" /\ inQ[i - 1] # <<>> /\ Head(inQ[i - 1]) = None
    /\ inQ' = [inQ EXCEPT ![i - 1] = Tail(@)]
    /\ \/ /\ i < 4
          /\ outQ' = [outQ EXCEPT ![i] = Append(@, None)]
          /\ stageAt' = [stageAt EXCEPT ![i] = "ended"]
       \/ /\ i = 4
          /\ stageAt' = [stageAt EXCEPT ![i] = "failed"]
          /\ UNCHANGED outQ
    /\ UNCHANGED <<runStateVars, lastAgent, audited, handshakes, auditorAt, given, hop, outputs,
                   pipelineState, traceFile>>

\* Mutants of Emit: ISA queues its packet again; ISA forgets the sentinel.
EmitTwice(i, pkt) ==
    outQ' = [outQ EXCEPT ![i] = IF i = 1 THEN <<pkt, pkt, None>> ELSE Append(@, pkt)]

EmitOpenEnded(i, pkt) == outQ' = [outQ EXCEPT ![i] = Append(@, pkt)]

\* What a stage does with its output: the next packet, for ISA the sentinel too.
Emit(i, pkt) ==
    outQ' = [outQ EXCEPT ![i] = IF i = 1 THEN <<pkt, None>> ELSE Append(@, pkt)]

\* cache.run_stage, then the packet is queued; BOA ends the pipeline instead.
\* The agent runs, and writes the build artifact, only when the cache does not
\* have its output.
StageOutput(i, pkt) ==
    /\ stageAt[i] = "busy"
    /\ IF outputs \in DOMAIN objects
       THEN pkt = objects[outputs] /\ UNCHANGED <<objects, buildFile>>
       ELSE /\ objects' = [k \in DOMAIN objects \cup {outputs} |->
                              IF k = outputs THEN pkt ELSE objects[k]]
            /\ buildFile' = (buildFile \/ i = 4)
    /\ outputs' = Append(outputs, pkt)
    /\ \/ /\ i < 4
          /\ Emit(i, pkt)
          /\ stageAt' = [stageAt EXCEPT ![i] = IF i = 1 THEN "ended" ELSE "idle"]
          /\ UNCHANGED pipelineState
       \/ /\ i = 4
          /\ pipelineState' = "COMPLETED"
          /\ stageAt' = [stageAt EXCEPT ![i] = "ended"]
          /\ UNCHANGED outQ
    /\ UNCHANGED <<policy, offices, lastAgent, audited, handshakes, inQ, auditorAt, given, hop,
                   traceFile>>

\* The sandboxed agent raises or times out.
StageFails(i) ==
    /\ stageAt[i] = "busy" /\ outputs \notin DOMAIN objects
    /\ stageAt' = [stageAt EXCEPT ![i] = "failed"]
    /\ UNCHANGED <<runStateVars, lastAgent, audited, handshakes, outQ, inQ, auditorAt, given, hop,
                   outputs, pipelineState, traceFile>>

\* _auditor_task: the verifier follows the hop, then the auditor signs off.
Audit(i) ==
    /\ auditorAt[i] = "idle" /\ outQ[i] # <<>> /\ Head(outQ[i]) # None
    /\ outQ' = [outQ EXCEPT ![i] = Tail(@)]
    /\ IF TransitionAllowed(i)
       THEN lastAgent' = i /\ audited' = Append(audited, i)
       ELSE UNCHANGED <<lastAgent, audited>>
    /\ auditorAt' = [auditorAt EXCEPT ![i] =
          IF TransitionAllowed(i) /\ SignOff(Head(outQ[i])) THEN "signed" ELSE "failed"]
    /\ hop' = [hop EXCEPT ![i] = Head(outQ[i])]
    /\ UNCHANGED <<runStateVars, handshakes, inQ, stageAt, given, outputs, pipelineState, traceFile>>

\* The hand-off is logged and the packet passed on.
PassOn(i) ==
    /\ auditorAt[i] = "signed"
    /\ handshakes' = Append(handshakes, i)
    /\ inQ' = [inQ EXCEPT ![i] = Append(@, hop[i])]
    /\ hop' = [hop EXCEPT ![i] = None]
    /\ auditorAt' = [auditorAt EXCEPT ![i] = "idle"]
    /\ UNCHANGED <<runStateVars, lastAgent, audited, outQ, stageAt, given, outputs, pipelineState,
                   traceFile>>

PassSentinel(i) ==
    /\ auditorAt[i] = "idle" /\ outQ[i] # <<>> /\ Head(outQ[i]) = None
    /\ outQ' = [outQ EXCEPT ![i] = Tail(@)]
    /\ inQ' = [inQ EXCEPT ![i] = Append(@, None)]
    /\ auditorAt' = [auditorAt EXCEPT ![i] = "ended"]
    /\ UNCHANGED <<runStateVars, lastAgent, audited, handshakes, stageAt, given, hop, outputs,
                   pipelineState, traceFile>>

-----------------------------------------------------------------------------
GatherRaised == (\E i \in Hops : stageAt[i] = "failed" \/ auditorAt[i] = "failed")
GatherReturned == (\A i \in Hops : stageAt[i] = "ended" /\ auditorAt[i] = "ended")

\* No task of the office is left.
OfficeClosed == \A i \in Hops : stageAt[i] = "closed"

CloseTasks ==
    /\ stageAt' = [i \in Positions |-> "closed"]
    /\ auditorAt' = [i \in Hops |-> "closed"]

\* gather and artifact_task have returned: the verifier writes the trace, if the
\* build artifact is there and the hand-offs are complete.
WriteTelemetryTrace ==
    /\ GatherReturned /\ stageAt[4] = "ended"
    /\ traceFile' = IF buildFile /\ TraceComplete THEN "audit" ELSE traceFile
    /\ stageAt' = [stageAt EXCEPT ![4] = "traced"]
    /\ UNCHANGED <<runStateVars, lastAgent, audited, handshakes, outQ, inQ, auditorAt, given, hop,
                   outputs, pipelineState>>

\* The finally clause: flush_trace writes over the same file.
Complete ==
    /\ stageAt[4] = "traced"
    /\ traceFile' = "tracer"
    /\ CloseTasks
    /\ UNCHANGED <<runStateVars, lastAgent, audited, handshakes, outQ, inQ, given, hop, outputs,
                   pipelineState>>

\* A gathered task raised, or BOA's did and the others have ended: every task
\* is cancelled and awaited, the state is dumped, the trace flushed.
DeadHalt ==
    /\ GatherRaised \/ (GatherReturned /\ stageAt[4] = "failed")
    /\ pipelineState' = "DEAD_HALT"
    /\ traceFile' = "tracer"
    /\ CloseTasks
    /\ UNCHANGED <<runStateVars, lastAgent, audited, handshakes, outQ, inQ, given, hop, outputs>>

\* The office is run again on the same source, after the last run or a crash.
OfficeAgain ==
    /\ offices < MaxOffices
    /\ offices' = offices + 1
    /\ FreshOffice
    /\ UNCHANGED <<policy, objects, buildFile, traceFile>>

OfficeStep ==
    \/ \E i \in Positions \ {1} : TakePacket(i) \/ TakeSentinel(i)
    \/ \E i \in Positions : StageFails(i) \/ \E pkt \in Packets : StageOutput(i, pkt)
    \/ \E i \in Hops : Audit(i) \/ PassOn(i) \/ PassSentinel(i)
    \/ WriteTelemetryTrace \/ Complete \/ DeadHalt

HandshakeNext == OfficeStep \/ OfficeAgain

\* The event loop runs every task that can run; the sandbox ends every call.
HandshakeSpec == HandshakeInit /\ [][HandshakeNext]_handshakeVars /\ WF_handshakeVars(OfficeStep)

-----------------------------------------------------------------------------
\* Properties

\* BOA works, and the pipeline is COMPLETED, only when the three hand-offs were
\* followed by the verifier and signed off by their auditors, each once and in
\* order; and once BOA has built, none of the other tasks can still raise and
\* turn the finished build into a DEAD_HALT.
BuiltAfterAudits ==
    stageAt[4] = "busy" \/ pipelineState = "COMPLETED" =>
        /\ audited = <<1, 2, 3>> /\ handshakes = <<1, 2, 3>>
        /\ ~GatherRaised

\* Whatever fails where, a run ends: its tasks are finished or cancelled, and it
\* is COMPLETED or DEAD_HALT.  No task waits for a packet or a sentinel that
\* never comes.
OfficeEnds == pipelineState = "RUNNING" ~> (OfficeClosed /\ pipelineState # "RUNNING")
=============================================================================
