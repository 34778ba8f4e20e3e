--------------------------- MODULE MissionIntake ----------------------------
(***************************************************************************)
(* Mission command lines and the legacy task slot.  Each process creates a *)
(* mission with its own file, and with --enqueue offers the mission's      *)
(* first task to the slot .platform_queue/next_task.json, from which the   *)
(* platform engine takes it.  The slot is created first and written next,  *)
(* and only afterwards does the mission file record what became of the     *)
(* task; a process may die in between.                                     *)
(***************************************************************************)
EXTENDS Integers

CONSTANTS
    Missions,        \* missions, each with a command line of its own
    MaxDeaths        \* bound on processes that die

ASSUME MissionAssumption == "free" \notin Missions /\ "none" \notin Missions /\ MaxDeaths \in Nat

VARIABLES
    enqueue,         \* whether the command line got --enqueue
    step,            \* where each command line is
    mission,         \* the mission file: status and the first task's status
    slot,            \* the mission whose task is in the slot, or "free"
    slotWritten,     \* whether the slot's payload is on disk
    working,         \* the mission whose task the engine works on, or "none"
    taken,           \* how often the engine took each mission's task
    unreadable,      \* missions whose task the engine archived unread
    lostProcesses

missionVars == <<enqueue, step, mission, slot, slotWritten, working, taken, unreadable, lostProcesses>>

NoMission == [status |-> "missing", task |-> "none"]

MissionInit ==
    /\ enqueue \in [Missions -> BOOLEAN]
    /\ step = [m \in Missions |-> "start"]
    /\ mission = [m \in Missions |-> NoMission]
    /\ slot = "free" /\ slotWritten = FALSE
    /\ working = "none" /\ taken = [m \in Missions |-> 0] /\ unreadable = {}
    /\ lostProcesses = 0

\* create_mission, plan_mission, MissionStore.create_mission.
CreateMission(m) ==
    /\ step[m] = "start"
    /\ step' = [step EXCEPT ![m] = "created"]
    /\ mission' = [mission EXCEPT ![m] = [status |-> "planned", task |-> "pending"]]
    /\ UNCHANGED <<enqueue, slot, slotWritten, working, taken, unreadable, lostProcesses>>

\* The MISSION_CREATED event; without --enqueue the process ends.
LogCreation(m) ==
    /\ step[m] = "created"
    /\ step' = [step EXCEPT ![m] = IF enqueue[m] THEN "offer" ELSE "done"]
    /\ UNCHANGED <<enqueue, mission, slot, slotWritten, working, taken, unreadable, lostProcesses>>

\* A wrong EnqueueTask: the slot is opened without O_EXCL.
EnqueueTaskOverwrites(m) ==
    /\ step[m] = "offer"
    /\ step' = [step EXCEPT ![m] = "opened"]
    /\ slot' = m /\ slotWritten' = FALSE
    /\ UNCHANGED <<enqueue, mission, working, taken, unreadable, lostProcesses>>

\* enqueue_task: create the slot exclusively, or find it occupied.
EnqueueTask(m) ==
    /\ step[m] = "offer"
    /\ \/ /\ slot = "free"
          /\ slot' = m /\ slotWritten' = FALSE
          /\ step' = [step EXCEPT ![m] = "opened"]
       \/ /\ slot # "free"
          /\ step' = [step EXCEPT ![m] = "blocked"]
          /\ UNCHANGED <<slot, slotWritten>>
    /\ UNCHANGED <<enqueue, mission, working, taken, unreadable, lostProcesses>>

\* The payload goes into the file it has open, which the engine may have
\* removed by then.
WritePayload(m) ==
    /\ step[m] = "opened"
    /\ step' = [step EXCEPT ![m] = "enqueued"]
    /\ slotWritten' = (slotWritten \/ slot = m)
    /\ UNCHANGED <<enqueue, mission, slot, working, taken, unreadable, lostProcesses>>

\* read_mission, then write_mission with what enqueue_task returned.
RecordResult(m) ==
    /\ step[m] \in {"enqueued", "blocked"}
    /\ mission' = [mission EXCEPT ![m] =
                        IF step[m] = "enqueued" THEN [status |-> "scheduled", task |-> "queued"]
                        ELSE [@ EXCEPT !.task = "blocked"]]
    /\ step' = [step EXCEPT ![m] = "done"]
    /\ UNCHANGED <<enqueue, slot, slotWritten, working, taken, unreadable, lostProcesses>>

Die(m) ==
    /\ step[m] \notin {"start", "done", "dead"}
    /\ lostProcesses < MaxDeaths
    /\ step' = [step EXCEPT ![m] = "dead"]
    /\ lostProcesses' = lostProcesses + 1
    /\ UNCHANGED <<enqueue, mission, slot, slotWritten, working, taken, unreadable>>

\* The engine reads the task and works on it ...
TakeTask ==
    /\ slot # "free" /\ slotWritten /\ working = "none"
    /\ working' = slot
    /\ taken' = [taken EXCEPT ![slot] = @ + 1]
    /\ UNCHANGED <<enqueue, step, mission, slot, slotWritten, unreadable, lostProcesses>>

\* ... and removes the file when it is done.
RemoveTask ==
    /\ working # "none"
    /\ working' = "none"
    /\ slot' = "free" /\ slotWritten' = FALSE
    /\ UNCHANGED <<enqueue, step, mission, taken, unreadable, lostProcesses>>

\* A payload that does not parse is archived and removed.
ArchiveUnread ==
    /\ slot # "free" /\ ~slotWritten /\ working = "none"
    /\ unreadable' = unreadable \cup {slot}
    /\ slot' = "free"
    /\ UNCHANGED <<enqueue, step, mission, slotWritten, working, taken, lostProcesses>>

MissionNext ==
    \/ \E m \in Missions :
          \/ CreateMission(m) \/ LogCreation(m) \/ EnqueueTask(m) \/ WritePayload(m)
          \/ RecordResult(m) \/ Die(m)
    \/ TakeTask \/ RemoveTask \/ ArchiveUnread

MissionSpec == MissionInit /\ [][MissionNext]_missionVars

-----------------------------------------------------------------------------
MissionTypeOK ==
    /\ enqueue \in [Missions -> BOOLEAN]
    /\ step \in [Missions -> {"start", "created", "offer", "opened", "enqueued", "blocked",
                              "done", "dead"}]
    /\ mission \in [Missions -> [status : {"missing", "planned", "scheduled"},
                                 task : {"none", "pending", "queued", "blocked"}]]
    /\ slot \in Missions \cup {"free"} /\ slotWritten \in BOOLEAN
    /\ working \in Missions \cup {"none"}
    /\ taken \in [Missions -> 0 .. 1]
    /\ unreadable \subseteq Missions
    /\ lostProcesses \in 0 .. MaxDeaths

\* How often the task of m got hold of the slot and was not yet done with.
Claims(m) ==
    (IF slot = m /\ working # m THEN 1 ELSE 0) + taken[m] + (IF m \in unreadable THEN 1 ELSE 0)

(* The slot serves one mission at a time and a mission file does not lie   *)
(* about it: a task marked queued got the slot, and is there, or was taken *)
(* by the engine once, or was archived as unreadable, and never two of     *)
(* these; a task marked blocked never got it; and while the engine works,  *)
(* the slot still holds the task it works on.                              *)
QueuedOnce ==
    /\ \A m \in Missions :
          /\ Claims(m) <= 1
          /\ mission[m].task = "queued" => Claims(m) = 1
          /\ mission[m].task = "blocked" => Claims(m) = 0
    /\ working # "none" => slot = working
=============================================================================
