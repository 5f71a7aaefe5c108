SPECIFICATION FairSpec
CONSTANTS
  Words = {w1, w2, w3}
  Vals = {0, 1}
  V0 = 0
  NoWord = NoWord
  TxMaxStores = 4
  MaxArrayLookup = 1
  HashBuckets = 2
  Hash <- HashOf
  ChecksHead = FALSE
  CopiedEntries <- Leftovers
  w1 = w1
  w2 = w2
  w3 = w3
INVARIANTS
  LooksUpLikeRedoLog
  WalksOwnEntries
PROPERTIES
  AddsLikeRedoLog
  CallsEnd
