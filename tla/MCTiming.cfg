SPECIFICATION Spec
CONSTANTS
  PollMin = 1
  PollMax = 6
  BootPoll = 2
  VsockPoll = 3
  CaPoll = 1
  Delay = 6
  BootTimeout = 11
  CaTimeout = 3
  HealthInterval = 10
  MaxWork = 1
  Half = 8
  Width = 64
INVARIANTS HealthOnTime DeadlinesKept
PROPERTY ProbedBeforeGivingUp
