\* All commands, with every failure; ranges that wrap around included.
CONSTANTS
  Size = 32
  Word = 4
  mdLen = 2
  Exes = {"md", "mw", "io"}
  Argvs <- MCArgvs
  CpuMap <- MCCpuMap
  Lines <- MCLines
  MaxLines = 2
SPECIFICATION Spec
CHECK_DEADLOCK FALSE
INVARIANTS StraightAccessInside UnmappedOnce
