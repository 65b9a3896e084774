SPECIFICATION Spec
CHECK_DEADLOCK FALSE
CONSTANTS
  Level <- MCLevel
  Dollar <- MCDollar
  Configured <- MCConfigured
  Requests <- MCRequests
  Denied <- MCNoneDenied
  Calls = {c1}
  Serve = Serve
  NoCall = NoCall
  ReconnectInitial = 2
  ReconnectMax = 3
  MaxFaults = 0
INVARIANTS
  NoCopies
