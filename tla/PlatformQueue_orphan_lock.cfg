SPECIFICATION FairSpec
CONSTANTS
  e1 = e1  e2 = e2  g1 = g1  g2 = g2  d1 = d1
  Engines <- TwoEngines
  GwTasks <- TwoGwTasks
  CliTasks <- NoTasks
  Priority <- RisingPriority
  Poison <- NoTasks
  Worlds <- OneEngineCrashing
PROPERTIES EveryTaskRuns
CHECK_DEADLOCK FALSE
