SPECIFICATION Spec

CONSTANTS
  o1 = o1
  o2 = o2
  o3 = o3
  t1 = t1
  t2 = t2
  t3 = t3
  Objects = {o1, o2, o3}
  NoTrace = {o3}
  Fields = {f1}
  Null = Null
  Threads = {t1, t2}
  Calls <- LeafCells
  MaxHandles = 1
  MaxStarts = 1
  IncrementalWorkBudget = 2
  AssistWorkBudget = 1
  BatchSize = 1
  Built <- ThreeBuilt
  Owned <- EachOwns
  ThresholdPercent = 50
  ThresholdShrinkPercent = 30
  MinThresholdBytes = 0
  LimitBytes = 0
  CollectionInterval = 1
  UsizeMax = 200

INVARIANTS
  NoDangling
  GrayIsQueued
  NoStaleTraversal

SYMMETRY ThreadSymmetry

CHECK_DEADLOCK FALSE
