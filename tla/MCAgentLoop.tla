----------------------------- MODULE MCAgentLoop -----------------------------
(* Lengths and profiles for the runs of AgentLoop: the cap is 20 units. *)
EXTENDS AgentLoop

OutputLengths == {0, 4, 9, 25}
SnapshotLengths == {0, 6, 14}

\* The default profile, a repository without constraints and one with.
MCProfiles == {[diagnostic |-> TRUE, readonly |-> FALSE, offline |-> FALSE],
               [diagnostic |-> FALSE, readonly |-> FALSE, offline |-> FALSE],
               [diagnostic |-> FALSE, readonly |-> TRUE, offline |-> FALSE]}
=============================================================================
