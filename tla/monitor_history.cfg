SPECIFICATION Spec
CONSTANTS
  Endpoints = {"a", "b"}
  Schemas = {"s", "t"}
  Keep = 1
  None = None
  MaxRuns = 3
CHECK_DEADLOCK FALSE
INVARIANTS
  SuccessReportsDrift
  SilentDriftIsMarked
  RawSamplesBounded
