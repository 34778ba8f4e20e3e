SPECIFICATION FairSpec
CONSTANTS
  e1 = e1  e2 = e2  g1 = g1  g2 = g2  d1 = d1
  Engines <- TwoEngines
  GwTasks <- TwoGwTasks
  CliTasks <- OneCliTask
  Priority <- RisingPriority
  Poison <- NoTasks
  Worlds <- AllWorlds
INVARIANTS NoTaskLost RerunsNeedFailure ExclusiveUnlessRobbed RobbedNeedsRace
PROPERTIES RemovesOwnTask TaskRunsOrOrphan
CHECK_DEADLOCK FALSE
