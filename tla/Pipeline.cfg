SPECIFICATION FairSpec
CONSTANTS
  Cmds = {c1, c2}
  Runs = {s1, s2}
  Rules = {r1, r2}
  RuleOf <- OwnRules
  MaxHands = 2
  Scenarios <- PipelineScenarios
INVARIANTS
  TypeOK
  EnforcedWasConfigured
  SerialReportsHold
PROPERTIES
  ImplementsConfigStore
  ReportsReachProxy
  WatchedChangesCompile
CHECK_DEADLOCK FALSE
