SPECIFICATION FairSpec
CONSTANTS
  N = 2
  MaxTx <- OneEach
  MaxOps <- TwoOps
  Words = {a, b}
  Vals = {0, 1}
  V0 = 0
  InitImage <- AllZero
  Fair = {0}
  NoWord = NoWord
  NoVal = NoVal
  a = a
  b = b
INVARIANTS
  Opacity
  Inv
  ClosedMeansApplied
PROPERTIES
  PublishesOnLatest
  NoLateWrite
  FairThreadsFinish
  ImplementsAtomicSTM
