\* One content per file, two writes or requests, two power cuts or faults.
CONSTANTS
  Values = {1}
  MaxWrites = 2
  MaxFaults = 2
SPECIFICATION Spec
INVARIANTS SavedSurvives MachineIdStable RestoreHonoured SavedAtStop NvInv
CHECK_DEADLOCK FALSE
