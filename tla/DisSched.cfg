CONSTANTS
  p1 = p1  p2 = p2  p3 = p3
  c1 = c1  c2 = c2
  g1 = g1  g2 = g2
  Progs = {p1, p2, p3}
  KProgs = {p3}
  NoProg = NoProg
  Root = p1
  Chans = {c1, c2}
  H = H
  Globals = {g1, g2}
  Slot0 <- TwoGlobals
  AltsOf <- Crossed
  KChans = {c1}
SPECIFICATION Spec
INVARIANTS
  TypeOK     KilledNeverRuns 

  
CHECK_DEADLOCK FALSE
