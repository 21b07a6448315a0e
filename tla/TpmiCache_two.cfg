\* Two CPUs, with features that need both writes or are locked.
CONSTANTS
  CPUs = {0, 1}
  OtherIDs = {}
  CpuPublished <- MCCpuPublishedBad
  FeaturePublished <- MCFeaturePublishedPcs
  None = None
  MaxEvents = 1
SPECIFICATION Spec
INVARIANT SetReplyFindsEntry
CHECK_DEADLOCK FALSE
