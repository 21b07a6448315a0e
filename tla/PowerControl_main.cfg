\* Two requests of any kind, while a call is refused or a component comes or goes.
CONSTANTS
  Requests = {r1, r2}
  Topologies <- MCPlatforms
  Kinds = {"getAll", "patchAll", "getOne", "patchOne"}
  Names <- MCNames
  Entries <- MCEntries
  Default = Default
  MaxFaults = 1
SYMMETRY Symmetry
SPECIFICATION Spec
CHECK_DEADLOCK FALSE
INVARIANTS TypeOK AppliedWhereMeant SuccessMeansApplied OneNodeShown LimitKept
INVARIANTS ReadsWhatWasSet
