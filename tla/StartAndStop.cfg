SPECIFICATION FairSpec

CONSTANTS
  o1 = o1
  o2 = o2
  o3 = o3
  t1 = t1
  t2 = t2
  t3 = t3
  Objects = {o1}
  NoTrace = {}
  Fields = {f1}
  Null = Null
  Threads = {t1, t3}
  Calls <- StartAndStop
  MaxHandles = 1
  MaxStarts = 2
  IncrementalWorkBudget = 2
  AssistWorkBudget = 1
  BatchSize = 1
  Built <- NothingBuilt
  Owned <- NothingOwned
  ThresholdPercent = 50
  ThresholdShrinkPercent = 30
  MinThresholdBytes = 0
  LimitBytes = 200
  CollectionInterval = 1
  UsizeMax = 200

PROPERTIES
  CallsReturn
  BackgroundCollects

CHECK_DEADLOCK FALSE
