SPECIFICATION Spec
CONSTANTS
  w1 = w1
  w2 = w2
  c1 = c1
  c2 = c2
  None = None
  Workers = {w1, w2}
  Clients = {c1, c2}
  MaxJobs = 3
  MaxStops = 2
  Restart = FALSE
CHECK_DEADLOCK FALSE
INVARIANTS
  NoSleepOnWork
  NoSleepThroughStop
  PopFindsJob
PROPERTIES
  ImplementsJobQueue
  StopReturns
  JobsAreTaken
