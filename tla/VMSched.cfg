CONSTANTS
  Procs = {i1, i2, i3, k1}
  Interps = {i1, i2, i3}
  First = i1
  NoProc = NoProc
  MaxProgs = 2
  MaxYield = 3
SPECIFICATION Spec
INVARIANTS
  OneInside IdleMeansFree NoSleepPanic YieldCoversQueue
PROPERTY
  AcquireServed
