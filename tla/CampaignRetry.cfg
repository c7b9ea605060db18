SPECIFICATION Spec
CONSTANTS
  c1 = c1  c2 = c2
  Cell = {c1, c2}
  Plan <- MCPlan
  Script <- MCScript
  MaxTurns = 2
  MaxRuns = 2
INVARIANTS
  RetryIsClean
CHECK_DEADLOCK FALSE
