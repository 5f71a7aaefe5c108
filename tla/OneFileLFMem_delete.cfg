SPECIFICATION MSpec
CONSTANTS
  N = 2
  MaxTx <- FourForZero
  MaxOps <- DeleterAndOther
  Roots = {r}
  Objs = {x}
  Words = {r, x}
  Vals = {x, Null}
  V0 = Null
  InitImage <- OneNode
  Fair = {}
  NoWord = NoWord
  Null = Null
  r = r
  x = x
  y = y
INVARIANTS
  ProgramPointersAreLive
  RetiredOnce
  ApplyTouchesLiveWords
  HelperCopyIsExact
  PrivateState
