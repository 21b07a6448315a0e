\* Transfers of two sessions interleaved block by block, with a lost answer or another
\* command between.
CONSTANTS
  NUL = NUL
  Bad = Bad
  a = a
  b = b
  Sessions = {s1, s2}
  Authors = {a, b}
  Other = Other
  Names <- MCNames
  Strays <- MCStrays
  IpmiHostnameLen = 2
  MaxFaults = 1
SYMMETRY Symmetry
SPECIFICATION Spec
CHECK_DEADLOCK FALSE
PROPERTY ImplementsRegister
