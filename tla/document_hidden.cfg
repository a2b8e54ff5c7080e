CONSTANTS
  MaxBps = 7
  MaxDiagnostics = 2
  MaxObjects = 30
  MaxHops = 3
  Documents <- MCHidden
  Parent <- MCParent
  Introduced <- MCIntroduced
  Vocabulary = {"bfd"}
SPECIFICATION Spec
CHECK_DEADLOCK FALSE
INVARIANT NoHiddenErrors
