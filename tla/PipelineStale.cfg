SPECIFICATION Spec
CONSTANTS
  Cmds = {c1, c2}
  Runs = {s1}
  Rules = {r1, r2}
  RuleOf <- OwnRules
  MaxHands = 0
  Scenarios <- TwoLocks
INVARIANTS
  ReportsHold
CHECK_DEADLOCK FALSE
