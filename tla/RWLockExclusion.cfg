CONSTANTS
  Procs = {s, w1, w2}
  NoProc = NoProc
  Sleeper = s
  Wakers = {w1, w2}
  Killers = {w1, w2}
SPECIFICATION HostSpec
INVARIANT
  ReadersExcludeWriter
CHECK_DEADLOCK FALSE
