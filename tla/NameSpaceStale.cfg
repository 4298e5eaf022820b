CONSTANTS
  p1 = p1  p2 = p2
  root = root  a = a  b = b  s = s  u = u  v = v
  Proc = {p1}
  Group = {1, 2, 3}
  File = {root, a, b, s}
  Plain = {}
  Root = root
  Child <- MCChild
  None = None
  HeadOrder <- MCHeadOrder
  NChan = 11
  NMount = 6
  Calls <- StaleCalls
  MaxCalls = 4
  UnmountInUse = TRUE
  CopyTogether = FALSE
  DotRace = FALSE
SPECIFICATION Spec
INVARIANT
  NoClosePanic
CHECK_DEADLOCK FALSE
