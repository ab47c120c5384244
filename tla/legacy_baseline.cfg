SPECIFICATION Spec
CONSTANTS
  Requests = {r1, r2, r3, r4}
  Endpoints = {e1, e2}
  RouteOf <- OneRoute
  Fingerprints = {f1, f2, f3}
  None = None
SYMMETRY Symmetry
INVARIANTS
  NoRegistrationConflict
  BaselineWasChosen
PROPERTIES
  BaselineIsStable
