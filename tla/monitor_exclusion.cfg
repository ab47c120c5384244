SPECIFICATION ServiceSpec
CONSTANTS
  Runs = {t1, t2}
  Readers = {q1, q2}
  Conns = {c1, c2, c3}
  PoolSize = 2
  Faults = TRUE
  None = None
  Reports = {s1}
SYMMETRY Symmetry
CHECK_DEADLOCK FALSE
INVARIANTS
  OneRunAtATime
  HistoryShowsFinishedRuns
  NobodyWaitsForAll
