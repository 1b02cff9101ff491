CONSTANTS
  n1 = n1
  n2 = n2
  n3 = n3
  None = None
  Node <- MCThree
  InitPeers <- MCFullPeers
  InitMaster = {n3}
  PeerReplies <- MCReplies
  Campaigns <- MCThreeElections
  MaxTerm = 2
  QueueCap = 3
  MaxTicks = 0
SPECIFICATION Spec
CHECK_DEADLOCK FALSE
INVARIANT
  ElectionSafety
