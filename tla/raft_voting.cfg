CONSTANTS
  n1 = n1
  n2 = n2
  n3 = n3
  None = None
  Node <- MCNode
  Self = n1
  MaxTerm = 3
  MaxIndex = 1
  MaxCrash = 1
SYMMETRY MCSymmetry
SPECIFICATION Spec
INVARIANTS
  TypeOK
  VoteOnce
  VoteBinding
  VotedTermBound
  CampaignerVotedForSelf
PROPERTY
  VotesAtomically
