SPECIFICATION Spec

CONSTANTS
  Heaps = {h1, h2}
  Concurrent = {h1}
  Threads = {t1, t2}
  Calls <- SharedHeaps
  Null = Null
  MaxStarts = 2

INVARIANTS
  TypeOK
  CurrentIsTheContext
  AliveWhileUsed
  PhaseIsGivenBack

PROPERTIES
  DropIsQuiet

SYMMETRY SameThreads

CHECK_DEADLOCK FALSE
