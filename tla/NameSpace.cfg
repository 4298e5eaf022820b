CONSTANTS
  p1 = p1  p2 = p2
  root = root  a = a  b = b  s = s  u = u  v = v
  Proc = {p1, p2}
  Group = {1, 2, 3}
  File = {root, a, b, s}
  Plain = {}
  Root = root
  Child <- MCChild
  None = None
  HeadOrder <- MCHeadOrder
  NChan = 11
  NMount = 6
  Calls <- MCCalls
  MaxCalls = 2
  UnmountInUse = FALSE
  CopyTogether = FALSE
  DotRace = FALSE
SPECIFICATION Spec
INVARIANTS
  RefsExact
PROPERTIES
  CopyInOrder ImplementsUnions
CHECK_DEADLOCK FALSE
