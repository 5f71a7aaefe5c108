SPECIFICATION FairSpec
CONSTANTS
  N = 3
  Words = {a, b, c}
  Calls <- ThreePrograms
  LogLimit = 1
  Meets <- Displaced
  MaxRestarts = 2
  a = a
  b = b
  c = c
INVARIANTS
  RInv
  ReplicasAreWhole
  NothingIsLost
  ReadersSeeWhole
  RunsLiveFunctionsOnce
PROPERTIES
  CallsReturn
