CONSTANTS
  p1 = p1
  p2 = p2
  Proc = {p1, p2}
  NoProc = NoProc
  Tag <- MCTag
  FlushTag <- MCFlushTag
  Calls = 2
  Call <- MCCall
  MaxFlush = 2
  AnswersFlush = TRUE
  GivenMayFail = FALSE
SPECIFICATION FairSpec
INVARIANTS QueueInv GateHeld OwnReply
PROPERTY EveryCallReturns
CHECK_DEADLOCK FALSE
