SPECIFICATION FrameSpec
CONSTANTS
  a = a
  b = b
  c = c
  now = now
  later = later
  x = x
  pause = pause
  work = work
  main = main
  w1 = w1
  w2 = w2
  Coroutines = {a, b, c, now, later, pause}
  Functions = {work, x}
  Workers = {w1, w2}
  Clients = {main}
  MayThrow = {}
  Modulus = 4
  Program <- ProgramAnything
  Name <- OwnName
CHECK_DEADLOCK FALSE
INVARIANTS
  TypeOK
  NoLostContinuation
  NoStrandedDependent
  CounterMatchesRegistrations
  BarrierCompletes
  DelayElapsesFirst
