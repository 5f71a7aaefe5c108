SPECIFICATION LRFairSpec
CONSTANTS
  N = 3
  Words = {a, b}
  Calls <- ThreePrograms
  LogLimit = 1
  Meets <- Displaced
  MaxRestarts = 1
  a = a
  b = b
INVARIANTS
  LRInv
  ReadersSeeRecent
  SurvivesFailures
PROPERTIES
  CallsReturn
