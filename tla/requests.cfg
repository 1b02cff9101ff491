CONSTANTS
  set = set
  del = del
  get = get
  g1 = g1
  g2 = g2
  None = None
  Op = {set, del}
  Key <- MCKey
  KeyOf <- MCKeyOf
  ValueOf <- MCValueOf
  Follower = {}
  LeaderTerm = 0
  FollowerTerm <- MCNoFollowers
  Reader = {get}
  ReadKey <- MCReadKey
  Gateway = {g1, g2}
  MasterGateway = g1
  MaxStarts = 3
SPECIFICATION RequestSpec
CHECK_DEADLOCK FALSE
INVARIANTS HonestAnswers ReadsSeeAcked SharedPassword
