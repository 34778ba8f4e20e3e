--------------------------- MODULE MCPlatformQueue ---------------------------
(* Model values and plants for the runs of PlatformQueue. *)
EXTENDS PlatformQueue

CONSTANTS e1, e2, g1, g2, d1

TwoEngines == {e1, e2}
TwoGwTasks == {g1, g2}
OneCliTask == {d1}
NoTasks == {}
RisingPriority == [t \in GwTasks |-> IF t = g2 THEN 1 ELSE 0]

\* One engine that may crash and fail to archive.
Single == [engines |-> {e1}, tasks |-> {g1, g2, d1}, crashes |-> 1, unarchived |-> 1,
           faults |-> {"cliio"}]

\* One engine that may crash, and an operator who flushes its lock.
Flushed == [Single EXCEPT !.tasks = {g1, d1}, !.unarchived = 0, !.faults = {"flush"}]

\* Two engines that neither crash nor run too long, over a failing disk.
Pair == [engines |-> {e1, e2}, tasks |-> {g1, d1}, crashes |-> 0, unarchived |-> 0,
         faults |-> {"torn", "gwio", "cliio"}]

\* Two engines of which one may crash: its lock becomes stale.
Race == [engines |-> {e1, e2}, tasks |-> {g1, g2}, crashes |-> 1, unarchived |-> 0,
         faults |-> {"unlink"}]

\* Two engines, tasks that outlast their lock, an operator who flushes it.
Slow == [engines |-> {e1, e2}, tasks |-> {g1, g2}, crashes |-> 0, unarchived |-> 0,
         faults |-> {"slow", "flush"}]

\* One engine and one crash.
Crashing == [Single EXCEPT !.tasks = {g1, g2}, !.unarchived = 0, !.faults = {}]

AllWorlds == {Single, Flushed, Pair, Race, Slow}
OneEngineCrashing == {Crashing}
TwoEnginesCrashing == {Race}
=============================================================================
