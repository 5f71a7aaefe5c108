SPECIFICATION Spec
CONSTANTS
  N = 3
  Words = {a, b, c}
  Calls <- ThreePrograms
  LogLimit = 1
  Meets <- Displaced
  MaxRestarts = 0
  a = a
  b = b
  c = c
INVARIANTS
  CopyingMeansPersisted
