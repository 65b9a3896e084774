SPECIFICATION FairSpec
CHECK_DEADLOCK FALSE
CONSTANTS
  Text <- MCText
  Sanitize <- MCSanitize
  Suffixed <- MCSuffixed
  Number <- MCNumber
  LogName = "log"
  LogSourceName = "mqtt_log"
  DemoName = "demo"
  Forms <- MCForms
  Answers <- MCAnswers
  Advanced <- MCAdvanced
  MaxBrokers = 3
INVARIANTS
  TracePathsApart
  BrokersFound
  ProbeServes
  UpMeansListening
  StopHeard
  RecordsAll
PROPERTIES
  Exits
