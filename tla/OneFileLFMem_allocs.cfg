SPECIFICATION MSpec
CONSTANTS
  N = 1
  MaxTx <- TwoForZero
  MaxOps <- OneOp
  Roots = {r}
  Objs = {x}
  Words = {r, x}
  Vals = {x, Null}
  V0 = Null
  InitImage <- EmptyList
  Fair = {}
  NoWord = NoWord
  Null = Null
  r = r
  x = x
  y = y
PROPERTIES
  FirstAttemptFreesNothing
