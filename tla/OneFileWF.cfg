SPECIFICATION Spec
CONSTANTS
  N = 2
  Calls <- OneAndFive
  Words = {0, 1, obj}
  Vals <- ObjectVals
  V0 = 0
  NoWord = NoWord
  Obj = obj
  obj = obj
  MAX_READ_TRIES = 1
INVARIANTS
  RoundsSuffice
  RunsLiveFunctions
PROPERTIES
  ImplementsWaitFreeObject
