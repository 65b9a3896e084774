SPECIFICATION Spec
CHECK_DEADLOCK FALSE
CONSTANTS
  Names = {"a"}
  ComparedNames = {"a", "$s"}
  MaxEntries = 3
  Level <- MCLevel
  Dollar <- MCDollar
  Raw <- MCRaw
  Compared <- MCCompared
  Topics <- MCTopics
  Received <- MCReceived
INVARIANTS
  TypeOK
  CoversExact
  IntersectionExact
  RefusedForCause
  MostSpecificTraced
  DeliveredOnce
