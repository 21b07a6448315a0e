\* Two requests for a domain with the main node's statistics or for another, under fairness.
CONSTANTS
  Requests = {r1, r2}
  DomainIds = {ac, cpu}
  acTotalPlatformPowerDomainId = ac
  Bodies <- MCBodies
  Nobody = Nobody
  MaxOthers = 1
SPECIFICATION FairSpec
CHECK_DEADLOCK FALSE
INVARIANTS TypeOK StatusTellsOutcome ErrorIsDescribed NotTorn ReadBackFresh
PROPERTY EventuallyAnswered
