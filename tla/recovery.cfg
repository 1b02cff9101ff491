SPECIFICATION Spec
CONSTANTS
  s1 = s1
  s2 = s2
  w1 = w1
  w2 = w2
  w3 = w3
  Node = {s1, s2}
  Master = s1
  Write = {w1, w2, w3}
  MaxStarts = 3
SYMMETRY Alike
INVARIANTS KeptOnDisk SyncedPrefix
CHECK_DEADLOCK FALSE
