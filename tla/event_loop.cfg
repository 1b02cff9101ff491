CONSTANTS
  a1 = a1
  a2 = a2
  v1 = v1
  p1 = p1
  p2 = p2
  Free = Free
  Appender = {a1, a2}
  Voter = {v1}
  Peer = {p1}
  Cap = 1
  RespCap = 1
  MaxTicks = 1
  MaxTerm = 1
SPECIFICATION FairSpec
CHECK_DEADLOCK FALSE
INVARIANTS
  ReplyHasRoom
  DrainEnds

  
  
  
