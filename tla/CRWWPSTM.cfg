SPECIFICATION FairStmSpec
CONSTANTS
  Procs = {0, 1, 2}
  MaxThreads = 3
  Lives = 1
  Fair = {0}
  Calls <- WritersAndReader
INVARIANTS
  TidsAreUnique
  RegisteredIsCovered
  NeverFull
  FunctionsExclude
  RunsLiveFunctions
PROPERTIES
  FairThreadsRegister
  CallsReturn
  ImplementsObject
