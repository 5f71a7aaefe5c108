SPECIFICATION Spec
CONSTANTS
  N = 2
  Words = {a, b, c}
  Calls <- ThreePrograms
  LogLimit = 3
  Meets <- Displaced
  MaxRestarts = 1
  a = a
  b = b
  c = c
INVARIANTS
  AnsweredMeansDurable
