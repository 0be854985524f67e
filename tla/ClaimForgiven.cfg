SPECIFICATION ClockSpec
CONSTANTS
  Pids = {p1, p2}
  NoPid = NoPid
  CrashLimit = 2
  FailThreshold = 1
  TimeoutThreshold = 1
  Commands = {}
PROPERTY StrikesAreForgiven
