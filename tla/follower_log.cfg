CONSTANTS
  BadCommand <- MCBadCommand
  MaxTerm = 2
  MaxLen = 3
  MaxBatch = 3
  MaxAppliers = 2
  MaxSync = 3
SPECIFICATION LogSpec
INVARIANTS
  OrderPerApplier
  AppliedOnceInOrder
  CheckedPrefixKept
  FullRequestMatchesRaft
