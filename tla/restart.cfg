CONSTANTS
  set1 = set1
  set2 = set2
  del = del
  None = None
  Op = {set1, set2, del}
  Key <- MCKey
  KeyOf <- MCKeyOf
  ValueOf <- MCValueOf
  Follower = {}
  LeaderTerm = 0
  FollowerTerm <- MCNoFollowers
  MaxRestarts = 1
SPECIFICATION RestartSpec
CHECK_DEADLOCK FALSE
INVARIANT NothingOlder
SYMMETRY Alike
