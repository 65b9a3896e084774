SPECIFICATION Spec
CHECK_DEADLOCK FALSE
CONSTANTS
  Payloads <- MCPayloads
  FieldName <- MCFieldName
  EventName <- MCEventName
  Entries <- MCEntries
  MapEvents <- MCMapEvents
  BoolWords = {"on"}
  NumberWords = {"7"}
  TooLarge = {"300"}
  MaxMessages = 3
INVARIANTS
  RowsFit
  ListedUnderOwn
  RoundTrip
PROPERTIES
  LayoutFixed
  Carried
  NothingSilent
