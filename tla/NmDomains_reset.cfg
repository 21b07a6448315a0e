\* The same requests, nobody else.
CONSTANTS
  Requests = {r1, r2}
  DomainIds = {ac, cpu}
  acTotalPlatformPowerDomainId = ac
  Bodies <- MCBodies
  Nobody = Nobody
  MaxOthers = 0
SYMMETRY Symmetry
SPECIFICATION Spec
CHECK_DEADLOCK FALSE
INVARIANT ResetsBoth
