SPECIFICATION Spec

CONSTANTS
  o1 = o1
  o2 = o2
  o3 = o3
  t1 = t1
  t2 = t2
  t3 = t3
  Objects = {o1, o2, o3, o4}
  NoTrace = {o3, o4}
  Fields = {f1}
  Null = Null
  Threads = {t1, t2, t3}
  Calls <- FreshLeaves
  MaxHandles = 1
  MaxStarts = 1
  IncrementalWorkBudget = 1
  AssistWorkBudget = 4
  BatchSize = 1
  Built <- TwoBuilt
  Owned <- ShareFirst
  ThresholdPercent = 50
  ThresholdShrinkPercent = 30
  MinThresholdBytes = 0
  LimitBytes = 200
  CollectionInterval = 0
  UsizeMax = 200

INVARIANTS
  GrayIsQueued
  TriColor
  
  NoStaleTraversal

SYMMETRY LeafSymmetry

CHECK_DEADLOCK FALSE
