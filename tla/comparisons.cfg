SPECIFICATION MCSpec
CONSTANTS
  Names = {"a", "b"}
  Payloads <- MCPayloads
  Bodies <- MCBodies
  Oversized <- MCOversized
  ENUM_THRESHOLD = 1
  Submissions <- MCSubmissions
  Documents <- MCDocuments
  Other = Other
  Types = {"integer", "string"}
  NoLonger = {"no longer used"}
INVARIANTS
  RemovalIsBreaking
  SafeStepsCompose
  SafeDiffsKeepReaders
  OrderIsNoDrift
  UncomparedIsRearranged
  UnloggedKeepsReaders
  LegacyWarnsNoEarlier
  PassKeepsSenders
  ChecksAgree
