SPECIFICATION Spec
CONSTANTS
  Events = {1, 2}
  Subs = {1, 2}
  Consumers = {1, 2}
  w1 = w1  w2 = w2
  Workers = {w1}
  ConsumerOf <- TwoConsumers
  Threshold <- MCThreshold
  SinceVersion <- MCSinceVersion
  Severity <- MCSeverity
  NewVersion <- MCNewVersion
  MaxAttempts = 2
  BatchSize = 2
  Inline = FALSE
  MaxPatches = 1
  MaxFailures = 2
CHECK_DEADLOCK FALSE
INVARIANTS
  RetriesBounded
  StrandedByFailure
PROPERTIES
  OutcomeIsFinal
