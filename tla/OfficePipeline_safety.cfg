SPECIFICATION Spec
CONSTANTS
  f1 = f1  f2 = f2  c1 = c1  v1 = v1  v2 = v2
  Cases <- OneCase
  Files <- TwoFiles
  Validators <- TwoValidators
  SchemaAuditor = v1
  Mode = "supermajority"
  HaltOnAnyDissent = FALSE
  Window = 3
  MaxRuns = 2
  Faults <- Crashes
SYMMETRY FileSymmetry
INVARIANTS CrashAtomic QuorumGateUnlessCut CompletedClean 
PROPERTIES LiveMonotone
