---------------------------- MODULE BallotQuorum ----------------------------
(***************************************************************************)
(* The decision rule of core/quorum.py: QuorumPolicy.required_passes and   *)
(* ValidationQuorumManager._enforce_quorum.  A validator's ballot is       *)
(* reduced to whether it passed; a validator that raises counts as a       *)
(* failed ballot (_run_one), so every validator casts exactly one.         *)
(***************************************************************************)
EXTENDS Naturals, FiniteSets

CONSTANTS
    Validators,         \* the validators registered for a stage
    Mode,               \* QuorumPolicy.mode
    HaltOnAnyDissent    \* QuorumPolicy.halt_on_any_dissent

ASSUME QuorumAssumption ==
    /\ IsFiniteSet(Validators)
    /\ Validators # {}
    /\ Mode \in {"unanimous", "supermajority"}
    /\ HaltOnAnyDissent \in BOOLEAN

\* A plausible slip in the threshold: "at least two thirds" for "more than".
RequiredPassesAtLeast(total) ==
    IF Mode = "unanimous" THEN total ELSE (2 * total) \div 3

\* QuorumPolicy.required_passes
RequiredPasses(total) ==
    IF total = 0 THEN 0
    ELSE IF Mode = "unanimous" THEN total
    ELSE (2 * total) \div 3 + 1

\* _enforce_quorum does not raise: enough ballots passed, and no ballot
\* failed when the policy halts on any dissent.
Accepts(passed) ==
    /\ Cardinality(passed) >= RequiredPasses(Cardinality(Validators))
    /\ HaltOnAnyDissent => Validators \ passed = {}

\* The threshold read independently of the code's arithmetic: strictly more
\* than two thirds of the ballots.
MoreThanTwoThirds(passed) == 3 * Cardinality(passed) > 2 * Cardinality(Validators)
=============================================================================
