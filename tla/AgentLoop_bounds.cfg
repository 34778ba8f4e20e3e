SPECIFICATION Spec
CONSTANTS
  MaxLoops = 5
  Cap = 20
  Base = 8
  Outputs <- OutputLengths
  Snapshots <- SnapshotLengths
  Profiles <- MCProfiles
  MaxUnarchived = 1
INVARIANTS ContextCapped EffectsAreCleared
PROPERTIES LoopEnds
