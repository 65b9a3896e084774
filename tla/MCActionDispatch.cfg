SPECIFICATION FairSpec
CHECK_DEADLOCK FALSE
CONSTANTS
  Threads = {t1, t2}
  Stoppers = {s1, s2}
INVARIANTS
  OutcomeHonest
PROPERTIES
  ErrorMeansDown
  ActionsAnswered
  AbandonedJobsEnd
