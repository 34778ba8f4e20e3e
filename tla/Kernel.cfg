SPECIFICATION KernelSpec
CONSTANTS
    Writers = {w1, w2}
    Monitors = {m}
    Signatures = {1}
    MaxAppends = 3
    MaxFaults = 1
    Callers = {c1, c2}
    Traces = {t1}
    Anonymous = {t1}
    BatchSize = 2
    MaxBatches = 2
    MaxHeight = 2
    MaxEvents = 3
    Graphs <- MCGraphs
    Versions = {0, 1}
    FirstVersion = 0
    Prefetchers = {"scheduler", "background"}
    MaxRuns = 2
    MaxEdits = 1
    Policies <- MCPolicies
    MaxOffices = 2
INVARIANTS KernelTypeOK ChosenIsBest BatchesMatchJournal DependenciesFirst ResultsAreFresh BuiltAfterAudits
PROPERTIES NothingPrunedSilently LedgerHeals StagesEnd HandshakeEnds
CHECK_DEADLOCK FALSE
