SPECIFICATION Spec
CONSTANTS
  a = a
  b = b
  c = c
  x = x
  y = y
  z = z
  main = main
  other = other
  w1 = w1
  w2 = w2
  Coroutines = {a, b, c}
  Functions = {}
  Workers = {w1, w2}
  Clients = {main}
  MayThrow = {}
  Modulus = 4
  Program <- ProgramRootsFirst
CHECK_DEADLOCK FALSE
INVARIANTS
  StartsAfterDependencies
