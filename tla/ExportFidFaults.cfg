CONSTANTS
  f1 = f1
  f2 = f2
  Fid = {f1, f2}
  s1 = s1
  s2 = s2
  s3 = s3
  Slave = {s1, s2, s3}
  Chan = {1, 2, 3}
  Nil = Nil
  ReuseEarly = FALSE
SPECIFICATION FaultSpec
INVARIANT ClientAgrees
CONSTRAINT Followed
SYMMETRY Symmetry
CHECK_DEADLOCK FALSE
