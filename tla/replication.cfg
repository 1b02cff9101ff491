CONSTANTS
  set1 = set1
  set2 = set2
  del = del
  f1 = f1
  f2 = f2
  None = None
  Op = {set1, del}
  Key <- MCKey
  KeyOf <- MCKeyOf
  ValueOf <- MCValueOf
  Follower = {f1, f2}
  LeaderTerm = 0
  FollowerTerm <- MCSameTerm
SPECIFICATION FairSpec
CHECK_DEADLOCK FALSE
INVARIANTS IndexesWithinLog AckedVisible
PROPERTIES LogAppendOnly CallsAnswered
