SPECIFICATION Spec
CONSTANTS
  A = A
  B = B
  Peers = {A, B}
  SeqMod = 8
  Setups <- TwoPlain
CHECK_DEADLOCK FALSE
INVARIANTS
  PlainPacketsPass
