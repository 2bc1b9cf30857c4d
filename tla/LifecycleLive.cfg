SPECIFICATION FairSpec
CONSTANTS
  Pid <- Pids5
  Port <- Ports1
  MaxBirths = 5
  Scenarios <- PlainScenarios
PROPERTIES
  FlockReleased
  RunsGetIn
  DaemonsGoWithLastRun
  ImplementsSharedProxy
CHECK_DEADLOCK FALSE
