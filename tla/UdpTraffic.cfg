SPECIFICATION Spec
CONSTANTS
  A = A
  B = B
  Peers = {A, B}
  SeqMod = 8
  Setups <- Traffic
CHECK_DEADLOCK FALSE
INVARIANTS
  NoFalseAck
  DeliveredAtMostTwice
  RetryBudget
  OneRetransmissionChain
PROPERTIES
  PendingDrains
