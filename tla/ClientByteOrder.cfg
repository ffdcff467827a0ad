SPECIFICATION Spec
CONSTANTS
  Focuses = {"client"}
  Width = 2
  Period = 2
  FileOps = {1, 2, 3}
  FilePlans <- Plans
  Files = {"p"}
  Reused <- Reuse
  AsyncKey <- K
  Strategies <- Keys
  StreamBuffer = 2
  IoWorkers = 1
  MaxFaults = 1
  EventIds = {"e", "f"}
  Priorities = {0, 1}
  Instants = {0, 1, 2}
  Intervals = {0, 1}
  MaxEvents = 2
  TimedTasks = {"e", "f"}
  TaskSpecs <- Specs
  ServerTimes = {1}
  Durations = {1, 3}
  TicksPerMs = 2
  PollInterval = 3
  TimeMod = 32
  MaxClock = 40
  MaxDelay = 2
  MaxEdits = 1
  MaxConnects = 2
  TimestampBytes = 4
  SocketThreads = {"s1", "s2"}
  Descriptors = {3, 4, 5, 6}
  invalid_socket = no_socket
INVARIANT
  AnswerIsServerTime
CHECK_DEADLOCK FALSE
