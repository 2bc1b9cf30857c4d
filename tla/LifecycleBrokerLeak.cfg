SPECIFICATION Spec
CONSTANTS
  Pid <- Pids6
  Port <- Ports1
  MaxBirths = 6
  Scenarios <- CrashOnly
INVARIANTS
  BrokerSharesProxyLifetime
CHECK_DEADLOCK FALSE
