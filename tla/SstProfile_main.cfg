\* All methods on dies with gaps, with one change from outside.
CONSTANTS
  instances = 3
  CoresPerDie = 2
  Levels = {0}
  Platforms <- MCPlatforms
  MaxChanges = 1
SPECIFICATION Spec
INVARIANTS ProfileIsRight CoreListOrdered
