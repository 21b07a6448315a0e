\* One CPU and another feature of it, under fairness.
CONSTANTS
  CPUs = {0}
  OtherIDs = {4}
  CpuPublished <- MCCpuPublished
  FeaturePublished <- MCFeaturePublished
  None = None
  MaxEvents = 3
SPECIFICATION FairSpec
INVARIANTS DrainedAgreement EntryInv
PROPERTY EventuallyReady
CHECK_DEADLOCK FALSE
