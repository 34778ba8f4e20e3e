--------------------------- MODULE MCBFTConsensus ---------------------------
(* A cluster of four, as in config/cluster_topology.json. *)
EXTENDS BFTConsensus

CONSTANTS va, vb

TwoValues == {va, vb}

\* The first leader is byzantine: one height, two rival blocks.
Byzantine == [faulty |-> {1}, amnesic |-> {}, down |-> {}, flushed |-> {},
              disputed |-> {vb}, submitted |-> {va, vb}, height |-> 1]

\* The first leader crashes and restarts, and may then propose another block;
\* a second node is down.
Forgetful == [faulty |-> {}, amnesic |-> {1}, down |-> {4}, flushed |-> {3},
              disputed |-> {}, submitted |-> {va, vb}, height |-> 1]

\* Two heights under rotating leaders, the second of which crashes and restarts.
Rotation == [faulty |-> {}, amnesic |-> {2}, down |-> {4}, flushed |-> {},
             disputed |-> {}, submitted |-> {va}, height |-> 2]

Scenarios == {Byzantine, Forgetful, Rotation}
=============================================================================
