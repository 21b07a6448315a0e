\* Two requests for one policy name in two domains, one of them HWProtection.
CONSTANTS
  Requests = {r1, r2}
  PolicyIds = {id}
  DomainIds = {cpu, hw}
  HwProtection = hw
  Values = {1, 2}
  None = None
  Initial <- MCInitial
  Bodies <- MCBodies
  MaxOthers = 1
SYMMETRY Symmetry
SPECIFICATION Spec
CHECK_DEADLOCK FALSE
INVARIANTS TypeOK StatusTellsTheTruth ResponseShowsResult
PROPERTIES OwnerRespected PatchWritesWhatItRead
