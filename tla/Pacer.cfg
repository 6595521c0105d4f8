SPECIFICATION Spec

CONSTANTS
  Sizes = {3, 5}
  MaxHeap = 60
  ThresholdPercent = 50
  ThresholdShrinkPercent = 30
  MinThresholdBytes = 8
  LimitBytes = 40
  CollectionInterval = 1
  UsizeMax = 10000

INVARIANTS
  ThresholdAtLeastMin

PROPERTIES
  NotDueAgain
  ShrinksSignificantly
