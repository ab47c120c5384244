SPECIFICATION FairSpec
CONSTANTS
  Events = {1}
  Subs = {1, 2}
  Consumers = {1}
  w1 = w1  w2 = w2
  Workers = {w1, w2}
  ConsumerOf <- OneConsumer
  Threshold <- MCThreshold
  SinceVersion <- MCSinceVersion
  Severity <- MCSeverity
  NewVersion <- MCNewVersion
  MaxAttempts = 2
  BatchSize = 2
  Inline = TRUE
  MaxPatches = 0
  MaxFailures = 1
CHECK_DEADLOCK FALSE
INVARIANTS
  NoSilentLoss
  AnnouncedIsEnqueued
  HeardIsPublished
PROPERTIES
  EverythingSettles
