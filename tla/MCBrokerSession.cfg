SPECIFICATION FairSpec
CHECK_DEADLOCK FALSE
CONSTANTS
  Level <- MCLevel
  Dollar <- MCDollar
  Configured <- MCConfigured
  Requests <- MCRequests
  Denied <- MCDeniedAll
  Calls = {c1, c2}
  Serve = Serve
  NoCall = NoCall
  ReconnectInitial = 2
  ReconnectMax = 3
  MaxFaults = 2
INVARIANTS
  AnsweredKept
  NoGap
  SettledExact
  AnsweredListed
  RetryPaced
PROPERTIES
  ImplementsWanted
  CallsAnswered
  Recovers
  ImplementsLifecycle
