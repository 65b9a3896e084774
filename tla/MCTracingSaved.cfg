SPECIFICATION Spec
CHECK_DEADLOCK FALSE
CONSTANTS
  Payloads <- MCPayloadsFew
  FieldName <- MCFieldName
  EventName <- MCEventName
  Entries <- MCEntries
  MapEvents <- MCMapEvents
  BoolWords = {"on"}
  NumberWords = {"7"}
  TooLarge = {"300"}
  MaxMessages = 1
INVARIANTS
  SavedComplete
