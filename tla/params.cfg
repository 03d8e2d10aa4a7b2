\* One task of up to two steps, one key that can be missing, empty or have one
\* of two values in each dictionary.
SPECIFICATION ParametersSpec
CONSTANTS
  Task = {t1}
  Worker = {w1, w2}
  NoWorker = NoWorker
  NoLease = NoLease
  MaxSteps = 2
  LeaseDuration = 1
  MaxVersion = 2
  MaxAge = 0
  Key = {key}
  v1 = v1
  v2 = v2
  EmptyText = EmptyText
  Val <- ModelValues
  Null = Null
SYMMETRY Interchangeable
INVARIANTS
  ParametersIInv
  ParametersAreSticky
  ResumedWithSameParameters
PROPERTIES
  SnapshotIsFrozen
