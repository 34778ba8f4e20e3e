SPECIFICATION ControlSpec
CONSTANTS
    RepoOrder <- MCOrder
    Worlds <- MCWorlds
    Depends <- MCDepends
    DependencyKey = "repositories"
    MaxWorldEdits = 1
    MaxSlips = 1
    ScoreSets <- MCScores
    MaxScoreChanges = 1
    MaxDossiers = 1
    MaxPackets = 2
    MaxDecisions = 2
    MaxAmends = 1
    HandFlaws = {"runtime_path"}
    Repositories <- MCRepositories
    ModuleOrder <- MCModules
    ContractModules = {"api_contracts"}
    RouterModules = {"routers"}
    StrategyModules = {}
    Naming <- MCNaming
    Limits = {0, 2}
    MaxRefreshes <- MCRefreshes
    Clients = {"p", "q"}
    MaxCalls = 3
    MaxCrashes = 1
    Missions = {"m1", "m2", "m3"}
    MaxDeaths = 1
INVARIANT DriftReadsRegistry
CHECK_DEADLOCK FALSE
