SPECIFICATION Spec
CONSTANTS
  f1 = f1  f2 = f2  c1 = c1  v1 = v1  v2 = v2
  Cases <- OneCase
  Files <- OneFile
  Validators <- TwoValidators
  SchemaAuditor = v1
  Mode = "unanimous"
  HaltOnAnyDissent = TRUE
  Window = 6
  MaxRuns = 2
  Faults <- CrashesOnly
INVARIANTS QuorumGate
