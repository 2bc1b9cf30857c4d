SPECIFICATION Spec
CONSTANTS
  Cmds = {c1}
  Runs = {s1, s2}
  Rules = {r1}
  RuleOf <- SameRule
  MaxHands = 0
  Scenarios <- OnceOnly
INVARIANTS
  OnceRulesExpire
CHECK_DEADLOCK FALSE
