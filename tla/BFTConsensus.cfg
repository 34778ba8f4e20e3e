SPECIFICATION Spec
CONSTANTS
  va = va  vb = vb
  N = 4
  Values <- TwoValues
  Adversaries <- Scenarios
INVARIANTS Agreement LedgerBacked CommitContinuity
PROPERTIES LedgerAppendOnly
CHECK_DEADLOCK FALSE
