CONSTANTS
  N = 3
  s1 = s1
  Slot = {s1}
  NoBlock = NoBlock
  Quanta = 2
  MaxRef = 2
  SliceInHeap = FALSE
SPECIFICATION Spec
INVARIANTS TypeOK ReachableUsed CountCovers
PROPERTY EpochClean
VIEW ColorView
