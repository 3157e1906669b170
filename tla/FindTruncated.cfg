SPECIFICATION Spec
CONSTANTS
  Lines = {}
  Number = NULL
  Text = NULL
  Messages <- Identities
  Chunk = 1000
  Garbage <- Zeroes
  IntBits = 10
  NULL = NULL
CHECK_DEADLOCK FALSE
INVARIANT MessageReadWhole
