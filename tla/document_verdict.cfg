CONSTANTS
  MaxBps = 7
  MaxDiagnostics = 4
  MaxObjects = 30
  MaxHops = 3
  Documents <- MCDocuments
  Parent <- MCParent
  Introduced <- MCIntroduced
  Vocabulary = {"bfd"}
SPECIFICATION Spec
CHECK_DEADLOCK FALSE
INVARIANTS Connected OneState Redundant WorkloadsSurvive WithinCapacity OrderInsensitive DiffComplete
