SPECIFICATION Spec
CONSTANTS
  Names = {"type", "b"}
  Payloads <- FewPayloads
INVARIANTS
  RemovalIsBreaking
