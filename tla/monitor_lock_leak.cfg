SPECIFICATION ServiceSpec
CONSTANTS
  Runs = {t1, t2}
  Readers = {q1, q2}
  Conns = {c1, c2, c3}
  PoolSize = 2
  Faults = FALSE
  None = None
  Reports = {}
SYMMETRY Symmetry
CHECK_DEADLOCK FALSE
INVARIANTS
  AlwaysReleased
