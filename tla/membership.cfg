SPECIFICATION FairSpec
CONSTANTS
  h1 = h1
  h2 = h2
  c1 = c1
  c2 = c2
  Host = {h1, h2}
  Self = Self
  NoHost = NoHost
  Handler = {c1, c2}
  None = None
  MaxRestarts = 1
INVARIANTS TypeOK PeersAreMembers PeersComplete
PROPERTY ViewsComplete
