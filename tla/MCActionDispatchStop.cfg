SPECIFICATION Spec
CHECK_DEADLOCK FALSE
CONSTANTS
  Threads = {t1, t2}
  Stoppers = {s1, s2}
INVARIANTS
  StopNeverRaises
