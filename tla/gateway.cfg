CONSTANTS
  s1 = s1
  s2 = s2
  s3 = s3
  h1 = h1
  h2 = h2
  None = None
  Unmade = Unmade
  Server = {s1, s2, s3}
  Host = {h1, h2}
  HostOf <- MCHostOf
  StartsAsMaster = {s1, s3}
  MaxElections = 1
  MaxGatewayRestarts = 1
SYMMETRY MCSymmetry
SPECIFICATION Spec
CHECK_DEADLOCK FALSE
INVARIANTS
  LateMasterYields
  JoinedKnowsLeader
  RoutedToClaimant
