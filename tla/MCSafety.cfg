SPECIFICATION RequestsSpec
CONSTANTS
  Pids = {p1, p2}
  NoPid = NoPid
  CrashLimit = 2
  FailThreshold = 2
  TimeoutThreshold = 1
  Commands = {"start_all", "stop_all", "start_vm", "stop_vm", "start_ca", "stop_ca"}
SYMMETRY PidSymmetry
INVARIANTS
  TypeOK
  OwnedIsOurs
  StopIsNotACrash
  NoLostDeath
  StateMatchesChild
  StoppedStaysStopped
  NoLostTerm
PROPERTIES
  StartupInOrder
  ReapProgress
