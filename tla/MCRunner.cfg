SPECIFICATION FairSpec
CHECK_DEADLOCK FALSE
CONSTANTS
  Clients = {b1, b2}
  MaxReconnects = 1
INVARIANTS
  ContactRequired
  FailureHasCause
  RunningCrashExits1
PROPERTIES
  NeverStuck
