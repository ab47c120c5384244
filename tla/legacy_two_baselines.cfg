SPECIFICATION Spec
CONSTANTS
  Requests = {r1, r2}
  Endpoints = {e1}
  RouteOf <- OneRoute
  Fingerprints = {f1, f2, f3}
  None = None
SYMMETRY Symmetry
INVARIANTS
  SingleBaseline
