------------------------------ MODULE AgentLoop ------------------------------
(***************************************************************************)
(* One task inside platform_engine.py run_loop: up to max_loops rounds of  *)
(* asking the local model and executing the tool it names (execute_tool),  *)
(* the twin review of writes and scripts, the accounting of the prompt's   *)
(* size against max_context_chars and the compression of tool logs.        *)
(*                                                                         *)
(* Texts are reduced to their lengths, in units chosen by the instance;    *)
(* the model, the twin and the tools answer anything.                      *)
(***************************************************************************)
EXTENDS Naturals, Sequences

CONSTANTS
    MaxLoops,        \* max_loops (5)
    Cap,             \* max_context_chars
    Base,            \* length of system context, memories and instruction, joined
    Outputs,         \* lengths a tool observation can have
    Snapshots,       \* lengths an intermediate-log snapshot can have (500 and a prefix)
    Profiles,        \* the routes a task can take: whether it falls back to the default
                     \* diagnostic profile, and whether its execution constraints make
                     \* scripts read-only and cut them off the network
    MaxUnarchived    \* bound: failing moves of the payload to failed/

ASSUME LoopAssumption ==
    /\ MaxLoops \in Nat \ {0} /\ Cap \in Nat /\ Base \in Nat
    /\ Outputs \subseteq Nat /\ Snapshots \subseteq Nat
    /\ Profiles \subseteq [diagnostic : BOOLEAN, readonly : BOOLEAN, offline : BOOLEAN]
    /\ MaxUnarchived \in Nat

Tools == {"write", "read", "script", "trace", "network", "other"}

VARIABLES
    profile,     \* the route's profile; never changes
    loop,        \* current_loop
    phase,       \* "loop" (while condition), "ask", "act" (execute_tool), "review",
                 \* "perform", "archive" (_handle_failure), "after", "done"; "died"
    completed, failed,
    queued,      \* the payload is in the slot
    archived,    \* ... or has been moved to failed/
    unarchived,  \* caught failures of archive_failed_payload so far
    chunks,      \* log_chunks, by length
    size,        \* current_context_size
    rejections,  \* _active_task_twin_rejection_count
    refined,     \* _active_task_refinement_recorded
    call,        \* the tool the model named, and whether the arguments are within
                 \* what the tool and the repository's constraints allow
    verdict,     \* the twin's review of this call
    effects      \* history: what was carried out, and under which checks

ctxVars == <<chunks, size>>
endVars == <<completed, failed>>
payloadVars == <<queued, archived, unarchived>>
callVars == <<call, verdict>>
twinVars == <<rejections, refined>>
vars == <<profile, loop, phase, endVars, payloadVars, ctxVars, twinVars, callVars, effects>>

NoCall == [tool |-> "none", clean |-> FALSE]

\* run_loop takes the payload from the slot.
Init ==
    /\ profile \in Profiles
    /\ loop = 0 /\ phase = "loop"
    /\ completed = FALSE /\ failed = FALSE
    /\ chunks = <<>> /\ size = Base
    /\ rejections = 0 /\ refined = FALSE
    /\ call = NoCall /\ verdict = "none"
    /\ queued = TRUE /\ archived = FALSE /\ unarchived = 0
    /\ effects = {}

-----------------------------------------------------------------------------
\* The length of a list of chunks as the prompt renders them
Total(s) ==
    LET upTo[i \in 0..Len(s)] == IF i = 0 THEN 0 ELSE upTo[i - 1] + s[i] + 1
    IN  upTo[Len(s)]

\* append_context: drop the oldest entries until the prompt fits or none is
\* left; Fit(s, n) is the longest suffix of s that does.
Fit(s, n) ==
    LET Kept(k) == SubSeq(s, k + 1, Len(s))
        SizeAt(k) == n - Total(SubSeq(s, 1, k))
        k == CHOOSE i \in 0..Len(s) :
                /\ SizeAt(i) <= Cap \/ i = Len(s)
                /\ \A j \in 0..(i - 1) : SizeAt(j) > Cap
    IN  [chunks |-> Kept(k), size |-> SizeAt(k)]

\* The separator is not counted.
AppendContextMiscounted(c) ==
    LET fit == Fit(Append(chunks, c), size + c)
    IN  chunks' = fit.chunks /\ size' = fit.size

AppendContext(c) ==
    LET fit == Fit(Append(chunks, c), size + c + 1)
    IN  chunks' = fit.chunks /\ size' = fit.size

NearLimit == size >= (17 * Cap) \div 20      \* int(max_context_chars * 0.85)

\* The round is not counted.
NextRoundUncounted ==
    /\ phase = "loop" /\ ~completed
    /\ phase' = "ask"
    /\ UNCHANGED <<profile, loop, endVars, payloadVars, ctxVars, twinVars, callVars, effects>>

\* The head of the while loop: in rounds 3 and 4 a nearly full context is
\* replaced by one snapshot, without regard to the limit.
NextRound ==
    /\ phase = "loop"
    /\ loop < MaxLoops /\ ~completed
    /\ loop' = loop + 1
    /\ IF loop + 1 \in {3, 4} /\ chunks # <<>> /\ NearLimit
         THEN \E c \in Snapshots : chunks' = <<c>> /\ size' = Base + c + 1
         ELSE UNCHANGED ctxVars
    /\ phase' = "ask"
    /\ UNCHANGED <<profile, endVars, payloadVars, twinVars, callVars, effects>>

LeaveLoop ==
    /\ phase = "loop"
    /\ loop = MaxLoops \/ completed
    /\ phase' = "after"
    /\ UNCHANGED <<profile, loop, endVars, payloadVars, ctxVars, twinVars, callVars, effects>>

\* The task has failed: on to _handle_failure, and out of the loop.
Fail ==
    /\ failed' = TRUE /\ completed' = TRUE
    /\ phase' = "archive"
    /\ UNCHANGED ctxVars

\* The model cannot be reached, or answers something that is not JSON.
ModelFails ==
    /\ phase = "ask"
    /\ Fail
    /\ UNCHANGED <<profile, loop, payloadVars, twinVars, callVars, effects>>

\* It answers JSON that is not an object: the exception of decision.get leaves
\* run_loop, and the payload stays in the queue.
NotAnObject ==
    /\ phase = "ask"
    /\ phase' = "died"
    /\ UNCHANGED <<profile, loop, endVars, payloadVars, ctxVars, twinVars, callVars, effects>>

FinalResponse ==
    /\ phase = "ask"
    /\ completed' = TRUE
    /\ phase' = "loop"
    /\ UNCHANGED <<profile, loop, failed, payloadVars, ctxVars, twinVars, callVars, effects>>

NameTool(t, clean) ==
    /\ phase = "ask"
    /\ call' = [tool |-> t, clean |-> clean] /\ verdict' = "none"
    /\ phase' = "act"
    /\ UNCHANGED <<profile, loop, endVars, payloadVars, ctxVars, twinVars, effects>>

-----------------------------------------------------------------------------
(* execute_tool: every branch makes its own checks *)

\* The branch raises; or it returns an observation, which is appended.
Raises == Fail
Returns ==
    /\ \E c \in Outputs : AppendContext(c)
    /\ phase' = "loop"
    /\ UNCHANGED endVars

\* The call passed the checks that its branch makes before asking the twin.
ToReview == phase' = "review" /\ UNCHANGED <<endVars, ctxVars>>

\* The call is carried out, a script with what the sandbox prelude forbids.
Effect(readonly, offline) ==
    effects' = effects \cup {[tool |-> call.tool, clean |-> call.clean, verdict |-> verdict,
                              readonly |-> readonly, offline |-> offline]}

\* workspace_file_router, write: the default profile forbids it, the path is
\* held against the constraints, the twin reviews it ...
RouterWrite ==
    /\ phase = "act" /\ call.tool = "write"
    /\ IF profile.diagnostic \/ ~call.clean THEN Raises ELSE ToReview
    /\ UNCHANGED <<profile, loop, payloadVars, twinVars, callVars, effects>>

\* ... and the file is opened, which truncates it, and written.
WriteFile ==
    /\ phase = "perform" /\ call.tool = "write"
    /\ \/ Effect(FALSE, FALSE) /\ (Returns \/ Raises)
       \/ Raises /\ UNCHANGED effects
    /\ UNCHANGED <<profile, loop, payloadVars, twinVars, callVars>>

\* workspace_file_router, read
RouterRead ==
    /\ phase = "act" /\ call.tool = "read"
    /\ Raises \/ (call.clean /\ Returns)
    /\ UNCHANGED <<profile, loop, payloadVars, twinVars, callVars, effects>>

\* execute_isolated_task goes to the twin under every profile ...
IsolatedTask ==
    /\ phase = "act" /\ call.tool = "script"
    /\ IF ~call.clean THEN Raises ELSE ToReview
    /\ UNCHANGED <<profile, loop, payloadVars, twinVars, callVars, effects>>

\* The prelude of the sandbox looks at the constraints only.
RunScriptUnconfined ==
    /\ phase = "perform" /\ call.tool = "script"
    /\ \/ Effect(profile.readonly, profile.offline) /\ (Returns \/ Raises)
       \/ Raises /\ UNCHANGED effects
    /\ UNCHANGED <<profile, loop, payloadVars, twinVars, callVars>>

\* ... and runs in the sandbox; a script that times out raises after its
\* effects.
RunScript ==
    /\ phase = "perform" /\ call.tool = "script"
    /\ \/ /\ Effect(profile.diagnostic \/ profile.readonly, profile.diagnostic \/ profile.offline)
          /\ Returns \/ Raises
       \/ Raises /\ UNCHANGED effects
    /\ UNCHANGED <<profile, loop, payloadVars, twinVars, callVars>>

\* trace_asset_compilation runs the compile command for the active repository
\* only; a failing compilation is an observation, explained by the twin if it
\* answers, and no error.
TraceCompilation ==
    /\ phase = "act" /\ call.tool = "trace"
    /\ \/ ~call.clean /\ Raises /\ UNCHANGED effects
       \/ call.clean /\ Returns /\ (Effect(FALSE, FALSE) \/ UNCHANGED effects)
    /\ UNCHANGED <<profile, loop, payloadVars, twinVars, callVars>>

\* network_data_fetch: the default profile forbids it; an HTTP error status
\* raises after the request.
NetworkFetch ==
    /\ phase = "act" /\ call.tool = "network"
    /\ \/ Raises /\ UNCHANGED effects
       \/ ~profile.diagnostic /\ Effect(FALSE, FALSE) /\ (Returns \/ Raises)
    /\ UNCHANGED <<profile, loop, payloadVars, twinVars, callVars>>

\* The graphics tools compute; an unknown tool raises.
OtherTool ==
    /\ phase = "act" /\ call.tool = "other"
    /\ Returns \/ Raises
    /\ UNCHANGED <<profile, loop, payloadVars, twinVars, callVars, effects>>

\* verify_with_twin_agent approves; the first approval after a rejection
\* counts as a refinement.
TwinApproves ==
    /\ phase = "review"
    /\ verdict' = "approved"
    /\ refined' = (refined \/ rejections > 0)
    /\ phase' = "perform"
    /\ UNCHANGED <<profile, loop, endVars, payloadVars, ctxVars, rejections, call, effects>>

\* The twin rejects.  execute_tool raises TwinRejectedError, which its own
\* "except Exception" turns into a RuntimeError, so that run_loop's handler
\* for TwinRejectedError is never reached.
TwinRejects ==
    /\ phase = "review"
    /\ verdict' = "rejected"
    /\ rejections' = rejections + 1
    /\ Raises
    /\ UNCHANGED <<profile, loop, payloadVars, refined, call, effects>>

\* The twin cannot be reached.
TwinFails ==
    /\ phase = "review"
    /\ Raises
    /\ UNCHANGED <<profile, loop, payloadVars, twinVars, callVars, effects>>

-----------------------------------------------------------------------------
(* The end of the task *)

\* After the loop: the loop breaker, or the removal of the task file.
AfterLoop ==
    /\ phase = "after"
    /\ IF completed
         THEN phase' = "done" /\ queued' = FALSE /\ UNCHANGED failed
         ELSE phase' = "archive" /\ failed' = TRUE /\ UNCHANGED queued
    /\ UNCHANGED <<profile, loop, completed, archived, unarchived, ctxVars, twinVars, callVars,
                   effects>>

\* os.remove is refused: the exception leaves run_loop.
RemoveFails ==
    /\ phase = "after" /\ completed
    /\ phase' = "died"
    /\ UNCHANGED <<profile, loop, endVars, payloadVars, ctxVars, twinVars, callVars, effects>>

\* _handle_failure moves the payload to failed/ ...
Archive ==
    /\ phase = "archive"
    /\ archived' = TRUE /\ queued' = FALSE
    /\ phase' = "done"
    /\ UNCHANGED <<profile, loop, endVars, unarchived, ctxVars, twinVars, callVars, effects>>

\* ... or prints that it could not, and the payload stays in the slot.
ArchiveFails ==
    /\ phase = "archive"
    /\ unarchived < MaxUnarchived
    /\ unarchived' = unarchived + 1
    /\ phase' = "done"
    /\ UNCHANGED <<profile, loop, endVars, queued, archived, ctxVars, twinVars, callVars, effects>>

\* The payload left in the slot is taken again by the next poll, afresh.
PollAgain ==
    /\ phase = "done" /\ queued
    /\ loop' = 0 /\ phase' = "loop"
    /\ completed' = FALSE /\ failed' = FALSE
    /\ chunks' = <<>> /\ size' = Base
    /\ rejections' = 0 /\ refined' = FALSE
    /\ call' = NoCall /\ verdict' = "none"
    /\ UNCHANGED <<profile, payloadVars, effects>>

Done == phase \in {"done", "died"} /\ (phase = "done" => ~queued) /\ UNCHANGED vars

ExecuteTool ==
    \/ RouterWrite \/ WriteFile \/ RouterRead \/ IsolatedTask \/ RunScript
    \/ TraceCompilation \/ NetworkFetch \/ OtherTool
    \/ TwinApproves \/ TwinRejects \/ TwinFails

Step == \/ NextRound \/ LeaveLoop \/ ModelFails \/ NotAnObject \/ FinalResponse
        \/ \E t \in Tools, clean \in BOOLEAN : NameTool(t, clean)
        \/ ExecuteTool
        \/ AfterLoop \/ RemoveFails \/ Archive \/ ArchiveFails \/ PollAgain

Next == Step \/ Done

Spec == Init /\ [][Next]_vars /\ WF_vars(Step)

-----------------------------------------------------------------------------
(* Properties *)

\* max_context_chars caps the prompt as it really is: the running count agrees
\* with the logs it stands for through appends, evictions and compressions, and
\* a log is kept only while the whole prompt fits.  The exception is the
\* snapshot of rounds 3 and 4, which replaces the logs without regard to the
\* cap and stays until the next append.
ContextCapped ==
    /\ size = Base + Total(chunks)
    /\ size > Cap => chunks = <<>> \/ (Len(chunks) = 1 /\ loop \in {3, 4})

\* The checks that a call must have passed before its effect: a write and a
\* script the twin's, a write and a fetch that the profile is not the default
\* one, a write, a script and a compilation those of the constraints on their
\* arguments; and a script is confined wherever the profile or the constraints
\* demand it.
Cleared(x) ==
    /\ x.tool \in {"write", "script"} => x.verdict = "approved"
    /\ x.tool \in {"write", "network"} => ~profile.diagnostic
    /\ x.tool \in {"write", "script", "trace"} => x.clean
    /\ x.tool = "script" =>
          /\ profile.diagnostic \/ profile.readonly => x.readonly
          /\ profile.diagnostic \/ profile.offline => x.offline

\* Whatever the branches of execute_tool carry out was cleared for this very
\* call, in every order of rounds, rejections, failures and runs of the task.
EffectsAreCleared == \A x \in effects : Cleared(x)

\* A twin rejection goes back into the loop, for the model to answer it.
RejectionsFedBack == [][rejections' > rejections => phase' = "loop"]_vars

\* The task ends within max_loops rounds, whatever the model answers, and
\* leaves the slot: archived when it failed and removed when it did not, a tool
\* that fails after its effect and an archive that fails and is run again
\* included.
LoopEnds ==
    <>(phase = "died" \/ (phase = "done" /\ ~queued /\ (archived <=> failed)))
=============================================================================
