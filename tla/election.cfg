CONSTANTS
  n1 = n1
  n2 = n2
  n3 = n3
  None = None
  Node <- MCThree
  InitPeers <- MCOthers
  InitMaster = {n3}
  PeerReplies <- MCReplies
  Campaigns <- MCThreeElections
  MaxTerm = 2
  QueueCap = 2
  MaxTicks = 1
SPECIFICATION Spec
CHECK_DEADLOCK FALSE
INVARIANTS
  QuorumWinUnique
  WinHasMajority
  LeaderWonElection
  LeaderIsMaster
PROPERTY
  LeaderTermFixed
