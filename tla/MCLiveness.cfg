SPECIFICATION FairRequestsSpec
CONSTANTS
  Pids = {p1, p2}
  NoPid = NoPid
  CrashLimit = 2
  FailThreshold = 1
  TimeoutThreshold = 1
  Commands = {"stop_all", "stop_vm", "stop_ca"}
INVARIANTS
  NoOrphans
  CleanExit
PROPERTIES
  ZombiesAreReaped
  ReapTerminates
  TermExits
  StartupSettles
