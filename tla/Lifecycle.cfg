SPECIFICATION Spec
CONSTANTS
  Pid <- Pids5
  Port <- Ports2
  MaxBirths = 5
  Scenarios <- SafetyScenarios
INVARIANTS
  TypeOK
  RefcountExact
  ServedWhileAttached
  NoUnrecordedDaemon
  LastOutStopsProxy
  StrandedAreWarned
  SignalsOnlyDaemons
PROPERTIES
  OverlayOutlivesSessions
CHECK_DEADLOCK FALSE
