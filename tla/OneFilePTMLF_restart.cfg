SPECIFICATION CrashSpec
CONSTANTS
  N = 2
  MaxTx <- TwoEach
  Words = {a, b}
  Vals = {0, 1, 2, 3, 4}
  V0 = 0
  NoWord = NoWord
  CurTxLine = CurTxLine
  Fair = {0}
  a = a
  b = b
INVARIANTS
  RecoverIsNotNeeded
