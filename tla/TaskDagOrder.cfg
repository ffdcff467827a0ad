SPECIFICATION Spec
CONSTANTS
  a = a
  b = b
  c = c
  x = x
  y = y
  z = z
  main = main
  other = other
  w1 = w1
  w2 = w2
  Coroutines = {a, b, c, y, z}
  Functions = {x}
  Workers = {w1, w2}
  Clients = {main, other}
  MayThrow = {x}
  Modulus = 4
  Program <- ProgramDag
CHECK_DEADLOCK FALSE
INVARIANTS
  PassedCallsCompleted
  NoDoubleResumption
PROPERTIES
  ImplementsTaskDag
  EveryClientReturns
