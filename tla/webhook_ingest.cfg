SPECIFICATION IngestSpec
CONSTANTS
  Requests = {r1, r2}
  Keys = {k1, k2}
  NoKey = NoKey
  MaxRestarts = 1
  Fingerprints = {"f", "g"}
  Retries = 2
  MaxFaults = 2
  None = None
SYMMETRY Symmetry
CHECK_DEADLOCK FALSE
INVARIANTS
  IngestTypeOK
  AcceptedTwiceOnlyInOverlap
  AnsweredIsRegistered
  TracesNameVersions
  AnnouncedOnce
  AnsweredIsTraced
