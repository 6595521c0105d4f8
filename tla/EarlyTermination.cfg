SPECIFICATION Spec

CONSTANTS
  o1 = o1
  o2 = o2
  o3 = o3
  t1 = t1
  t2 = t2
  t3 = t3
  Objects = {o1, o2, o3, o4, o5}
  NoTrace = {}
  Fields = {}
  Null = Null
  Threads = {t1, t3}
  Calls <- AllocatingAndDropping
  MaxHandles = 1
  MaxStarts = 1
  IncrementalWorkBudget = 8
  AssistWorkBudget = 1
  BatchSize = 8
  Built <- ThreeBuilt
  Owned <- AllOwned
  ThresholdPercent = 50
  ThresholdShrinkPercent = 30
  MinThresholdBytes = 0
  LimitBytes = 200
  CollectionInterval = 0
  UsizeMax = 200

INVARIANTS
  NoStaleTraversal

CHECK_DEADLOCK FALSE
