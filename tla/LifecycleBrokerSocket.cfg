SPECIFICATION Spec
CONSTANTS
  Pid <- Pids6
  Port <- Ports1
  MaxBirths = 6
  Scenarios <- NoFaults
INVARIANTS
  RecordedBrokerReachable
CHECK_DEADLOCK FALSE
