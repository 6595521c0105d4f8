SPECIFICATION Spec

CONSTANTS
  o1 = o1
  o2 = o2
  o3 = o3
  t1 = t1
  t2 = t2
  t3 = t3
  Objects = {o1, o2}
  NoTrace = {}
  Fields = {f1}
  Null = Null
  Threads = {t1, t2, t3}
  Calls <- Allocating
  MaxHandles = 1
  MaxStarts = 1
  IncrementalWorkBudget = 2
  AssistWorkBudget = 1
  BatchSize = 2
  Built <- NothingBuilt
  Owned <- NothingOwned
  ThresholdPercent = 50
  ThresholdShrinkPercent = 30
  MinThresholdBytes = 0
  LimitBytes = 200
  CollectionInterval = 0
  UsizeMax = 200

INVARIANTS
  AllocationListSound
  BusyExact
  BytesExact
  RootCountExact

PROPERTIES
  ImplementsAbstractHeap

SYMMETRY MutatorSymmetry

CHECK_DEADLOCK FALSE
