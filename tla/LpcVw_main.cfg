\* Two commands that may overlap, on two outputs and an input, and bad arguments.
CONSTANTS
  Procs = {p1, p2}
  Outputs = {0, 31}
  Inputs = {7}
  Indices <- MCIndices
  Values <- MCValues
SYMMETRY Symmetry
SPECIFICATION Spec
INVARIANTS KeptUnlessOverlap VwInv
PROPERTIES ImplementsBits
