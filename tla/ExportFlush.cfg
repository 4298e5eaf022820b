CONSTANTS
  c1 = c1
  c2 = c2
  Conn = {c1, c2}
  Tag = {1}
  FlushTag = {100}
  Call = {0}
  s1 = s1
  s2 = s2
  Slave = {s1, s2}
  NoExq = NoExq
  NoSlave = NoSlave
  TailRemoved = FALSE
SPECIFICATION Spec
PROPERTY FlushesAnswered
CHECK_DEADLOCK FALSE
