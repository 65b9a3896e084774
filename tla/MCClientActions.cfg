SPECIFICATION Spec
CHECK_DEADLOCK FALSE
CONSTANTS
  Threads = {t1, t2}
  Topics = {"x.y", "x_y", "empty", "mapped"}
  Fields <- MCFields
  EventName <- MCEventName
  MapFields <- MCMapFields
  NoEvent = ""
  MaxConnections = 2
  MaxMessages = 2
SYMMETRY Symmetry
INVARIANTS
  MapListsAll
  PublishHonest
PROPERTIES
  NeverBackToConnecting
  DropsShow
