\* Two dies, two possible instances, two levels.
CONSTANTS
  Domains = {0, 1}
  Instances = 2
  Levels = {1, 2}
  Others = {0, 1}
  MaxTries = 1
SPECIFICATION FairSpec
INVARIANTS TypeOK WokenIsFlagged DestroyedAsleep SetAllInstances
PROPERTIES DontWakeRespected MethodsEnd
