--------------------------- MODULE TeeproxydProofs ---------------------------
(* Proofs about modules Teeproxyd and Requests, for every value of their constants. *)
EXTENDS Requests, FiniteSetTheorems, TLAPS

USE PidAssumption, CrashLimitAssumption, ThresholdAssumption

\* The small guards and choices inside the actions.
USE DEF NoneToReap, AfterReap, CaIsUp, RestartCa, VsockTimesOut,
        Pipe!Arrive, Pipe!Read, Pipe!ActedOn

(***************************************************************************)
(* Lemmas about the operators of Processes, Managers and HealthMonitor.    *)
(***************************************************************************)

\* Killing, spawning and reaping keep the process table a process table.
LEMMA TableType ==
  ASSUME NEW procs \in [Pids -> Proc]
  PROVE  /\ \A p \in Pids \cup {NoPid} :
              GracefulKill(procs, p) \in [Pids -> Proc]
         /\ \A p \in Pids : Reaped(procs, p) \in [Pids -> Proc]
         /\ \A p \in Pids, k \in Kinds : Spawned(procs, p, k) \in [Pids -> Proc]
<1>1. ASSUME NEW p \in Pids \cup {NoPid}
      PROVE  GracefulKill(procs, p) \in [Pids -> Proc]
  <2>1. CASE p # NoPid /\ procs[p].life = "running"
    <3>1. p \in Pids /\ procs[p] \in [kind : Kinds, life : Lives]
      BY <2>1 DEF Proc, NotOurs
    <3>2. [procs[p] EXCEPT !.life = "dying"] \in [kind : Kinds, life : Lives]
      BY <3>1 DEF Kinds, Lives
    <3> QED  BY <2>1, <3>1, <3>2 DEF GracefulKill, Proc
  <2> QED  BY <2>1 DEF GracefulKill
<1>2. ASSUME NEW p \in Pids PROVE Reaped(procs, p) \in [Pids -> Proc]
  BY DEF Reaped, Proc
<1>3. ASSUME NEW p \in Pids, NEW k \in Kinds
      PROVE  Spawned(procs, p, k) \in [Pids -> Proc]
  <2>1. [kind |-> k, life |-> "running"] \in Proc
    BY DEF Proc, Kinds, Lives
  <2> QED  BY <2>1 DEF Spawned
<1> QED  BY <1>1, <1>2, <1>3

\* The record functions of the managers stay in the managers' type.
LEMMA ManagerType ==
  ASSUME NEW S, {"Idle", "Starting", "Ready", "Error"} \subseteq S,
         NEW m \in Manager(S)
  PROVE  /\ MarkDead(m) \in Manager(S)
         /\ Stopped(m) \in Manager(S)
         /\ \A s \in S : SetState(m, s) \in Manager(S)
         /\ \A b \in BOOLEAN : MaybeResetCrashCount(m, b) \in Manager(S)
<1>1. MarkDead(m) \in Manager(S)
  BY DEF Manager, MarkDead
<1>2. Stopped(m) \in Manager(S)
  BY DEF Manager, Stopped
<1>3. ASSUME NEW s \in S PROVE SetState(m, s) \in Manager(S)
  BY DEF Manager, SetState
<1>4. ASSUME NEW b \in BOOLEAN PROVE MaybeResetCrashCount(m, b) \in Manager(S)
  BY DEF Manager, MaybeResetCrashCount
<1> QED  BY <1>1, <1>2, <1>3, <1>4

\* A probe keeps both counters within their thresholds.
LEMMA ProbeType ==
  ASSUME health \in [failures : 0..FailThreshold, timeouts : 0..TimeoutThreshold],
         NEW o \in Outcomes, Probe(o)
  PROVE  health' \in [failures : 0..FailThreshold, timeouts : 0..TimeoutThreshold]
<1>1. CASE o = "Connected"
  BY <1>1 DEF Probe, RestartNeeded, ProbeCounts, Healthy
<1>2. CASE o = "Refused"
  BY <1>2 DEF Probe, RestartNeeded, ProbeCounts
<1>3. CASE o = "TimedOut"
  <2>1. ProbeCounts(o) = [failures |-> health.failures,
                          timeouts |-> health.timeouts + 1]
    BY <1>3 DEF ProbeCounts
  <2>2. [ProbeCounts(o) EXCEPT !.timeouts = 0]
          = [failures |-> health.failures, timeouts |-> 0]
    BY <2>1
  <2> QED  BY <1>3, <2>1, <2>2 DEF Probe, RestartNeeded
<1>4. CASE o = "OtherError"
  BY <1>4 DEF Probe, RestartNeeded, ProbeCounts
<1> QED  BY <1>1, <1>2, <1>3, <1>4 DEF Outcomes

(***************************************************************************)
(* The inductive invariant.  VmOk and CaOk gather, as predicates on a      *)
(* manager and a process table, what OwnedIsOurs, StopIsNotACrash and      *)
(* StateMatchesChild say of it, so that a handler which updates both in    *)
(* several calls can be followed call by call.                             *)
(***************************************************************************)
Names(m, k, procs) ==
  m.child_pid # NoPid => /\ procs[m.child_pid].kind = k
                         /\ procs[m.child_pid].life \in {"running", "crashed"}

VmOk(m, procs) ==
  /\ m \in Manager(VmStates)
  /\ Names(m, "vm", procs)
  /\ m.state = "Booting" => m.child_pid # NoPid
  /\ m.state \in {"Idle", "Error"} => m.child_pid = NoPid

CaOk(m, procs) ==
  /\ m \in Manager(CaStates)
  /\ Names(m, "ca", procs)
  /\ m.state = "Running" => m.child_pid # NoPid
  /\ m.state \in {"Idle", "Error"} => m.child_pid = NoPid

Table == [Pids -> Proc]
Dead(procs) == {p \in Pids : procs[p].life \in {"crashed", "killed"}}

LoopOk ==
  /\ pipe \in SUBSET {"C", "T"}
  /\ phase \in Phases
  /\ health \in [failures : 0..FailThreshold, timeouts : 0..TimeoutThreshold]
  /\ pc \in Locations
  /\ client \in BOOLEAN
  /\ got \in SUBSET {"C", "T"}

IInv == /\ proc \in Table
        /\ VmOk(vm, proc)
        /\ CaOk(ca, proc)
        /\ LoopOk
        /\ NoLostDeath

\* What the conjuncts of IInv say, in terms of the properties that are checked.
LEMMA IInvImplies ==
  IInv => TypeOK /\ OwnedIsOurs /\ StopIsNotACrash /\ StateMatchesChild
          /\ NoLostDeath
<1> SUFFICES ASSUME IInv PROVE TypeOK /\ OwnedIsOurs /\ StopIsNotACrash
                               /\ StateMatchesChild /\ NoLostDeath
  OBVIOUS
<1>1. TypeOK
  BY DEF IInv, VmOk, CaOk, LoopOk, Table, TypeOK
<1>2. OwnedIsOurs /\ StopIsNotACrash /\ StateMatchesChild /\ NoLostDeath
  BY DEF IInv, VmOk, CaOk, Names, OwnedIsOurs, StopIsNotACrash,
         StateMatchesChild
<1> QED  BY <1>1, <1>2

\* The initial states satisfy the invariant.
LEMMA InitIInv == Init => IInv
<1> SUFFICES ASSUME Init PROVE IInv
  OBVIOUS
<1>1. New \in Manager(VmStates) /\ New \in Manager(CaStates)
  BY DEF New, Manager, VmStates, CaStates
<1>2. VmOk(vm, proc) /\ CaOk(ca, proc)
  BY <1>1 DEF Init, VmOk, CaOk, Names, New
<1>3. Zombies = {}
  BY DEF Init, Zombies, NotOurs
<1>4. proc \in Table
  BY DEF Init, Table, Proc
<1>5. health \in [failures : 0..FailThreshold, timeouts : 0..TimeoutThreshold]
  BY DEF Init, Healthy
<1>6. LoopOk
  BY <1>5 DEF Init, LoopOk, Phases, Locations
<1> QED  BY <1>2, <1>3, <1>4, <1>6 DEF IInv, NoLostDeath

(***************************************************************************)
(* What one call does to the managers' claims on the process table.        *)
(***************************************************************************)

\* Spawning into a free pid disturbs no claim and makes no zombie.
LEMMA SpawnKeeps ==
  ASSUME NEW procs \in Table, NEW p \in FreePids(procs), NEW k \in Kinds
  PROVE  /\ Spawned(procs, p, k) \in Table
         /\ Dead(Spawned(procs, p, k)) \subseteq Dead(procs)
         /\ \A m : VmOk(m, procs) => VmOk(m, Spawned(procs, p, k))
         /\ \A m : CaOk(m, procs) => CaOk(m, Spawned(procs, p, k))
<1>1. p \in Pids /\ procs[p] = NotOurs
  BY DEF FreePids
<1>2. Spawned(procs, p, k) \in Table
  BY <1>1, TableType DEF Table
<1>3. Dead(Spawned(procs, p, k)) \subseteq Dead(procs)
  BY <1>1 DEF Dead, Spawned, Table
<1>4. ASSUME NEW m, NEW j \in Kinds, m.child_pid \in Pids \cup {NoPid},
             Names(m, j, procs)
      PROVE  Names(m, j, Spawned(procs, p, k))
  BY <1>1, <1>4 DEF Names, Spawned, Table, NotOurs, Kinds
<1> QED
  BY <1>2, <1>3, <1>4 DEF VmOk, CaOk, Manager, Kinds

\* Killing the child of one manager disturbs no claim of the other.
LEMMA KillKeeps ==
  ASSUME NEW procs \in Table, NEW v, NEW c, VmOk(v, procs), CaOk(c, procs)
  PROVE  /\ GracefulKill(procs, c.child_pid) \in Table
         /\ GracefulKill(procs, v.child_pid) \in Table
         /\ Dead(GracefulKill(procs, c.child_pid)) = Dead(procs)
         /\ Dead(GracefulKill(procs, v.child_pid)) = Dead(procs)
         /\ VmOk(v, GracefulKill(procs, c.child_pid))
         /\ CaOk(c, GracefulKill(procs, v.child_pid))
<1>1. v.child_pid \in Pids \cup {NoPid} /\ c.child_pid \in Pids \cup {NoPid}
  BY DEF VmOk, CaOk, Manager
<1>2. \A p \in Pids \cup {NoPid} : GracefulKill(procs, p) \in Table
  BY TableType DEF Table
<1>3. \A p \in Pids \cup {NoPid} : Dead(GracefulKill(procs, p)) = Dead(procs)
  BY DEF Dead, GracefulKill, Table
<1>4. \A p, q \in Pids : p # q => GracefulKill(procs, p)[q] = procs[q]
  BY DEF GracefulKill, Table
<1>5. v.child_pid # NoPid /\ c.child_pid # NoPid => v.child_pid # c.child_pid
  BY DEF VmOk, CaOk, Names
<1>6. GracefulKill(procs, NoPid) = procs
  BY DEF GracefulKill
<1> QED
  BY <1>1, <1>2, <1>3, <1>4, <1>5, <1>6 DEF VmOk, CaOk, Names

\* A stopped manager claims nothing, so any table agrees with it.
LEMMA StoppedOk ==
  ASSUME NEW procs
  PROVE  /\ \A m \in Manager(VmStates) : VmOk(Stopped(m), procs)
         /\ \A m \in Manager(CaStates) : CaOk(Stopped(m), procs)
<1>1. ASSUME NEW m \in Manager(VmStates) PROVE VmOk(Stopped(m), procs)
  BY ManagerType DEF VmOk, Names, Stopped, Manager, VmStates
<1>2. ASSUME NEW m \in Manager(CaStates) PROVE CaOk(Stopped(m), procs)
  BY ManagerType DEF CaOk, Names, Stopped, Manager, CaStates
<1> QED  BY <1>1, <1>2

\* Likewise for a manager whose child has been marked dead.
LEMMA MarkDeadOk ==
  ASSUME NEW procs
  PROVE  /\ \A m \in Manager(VmStates) : /\ VmOk(MarkDead(m), procs)
                                         /\ VmOk(SetState(MarkDead(m), "Error"), procs)
         /\ \A m \in Manager(CaStates) : /\ CaOk(MarkDead(m), procs)
                                         /\ CaOk(SetState(MarkDead(m), "Error"), procs)
<1>1. \A m : /\ MarkDead(m).state = "Idle"
            /\ MarkDead(m).child_pid = NoPid
            /\ SetState(MarkDead(m), "Error").state = "Error"
            /\ SetState(MarkDead(m), "Error").child_pid = NoPid
  BY DEF MarkDead, SetState
<1>2. ASSUME NEW m \in Manager(VmStates)
      PROVE  /\ MarkDead(m) \in Manager(VmStates)
             /\ SetState(MarkDead(m), "Error") \in Manager(VmStates)
  BY ManagerType DEF VmStates
<1>3. ASSUME NEW m \in Manager(CaStates)
      PROVE  /\ MarkDead(m) \in Manager(CaStates)
             /\ SetState(MarkDead(m), "Error") \in Manager(CaStates)
  BY ManagerType DEF CaStates
<1> QED  BY <1>1, <1>2, <1>3 DEF VmOk, CaOk, Names

\* Reaping a pid disturbs no claim but that of the manager that named it.
LEMMA ReapKeeps ==
  ASSUME NEW procs \in Table, NEW p \in Pids
  PROVE  /\ Reaped(procs, p) \in Table
         /\ Dead(Reaped(procs, p)) \subseteq Dead(procs)
         /\ \A m : VmOk(m, procs) /\ m.child_pid # p => VmOk(m, Reaped(procs, p))
         /\ \A m : CaOk(m, procs) /\ m.child_pid # p => CaOk(m, Reaped(procs, p))
<1>1. Reaped(procs, p) \in Table
  BY TableType DEF Table
<1>2. \A q \in Pids : q # p => Reaped(procs, p)[q] = procs[q]
  BY DEF Reaped, Table
<1>3. Dead(Reaped(procs, p)) \subseteq Dead(procs)
  BY DEF Dead, Reaped, Table, NotOurs
<1> QED
  BY <1>1, <1>2, <1>3 DEF VmOk, CaOk, Names, Manager

\* start() of the VM manager, successful or not.
LEMMA VmStartKeeps ==
  ASSUME proc \in Table, VmOk(vm, proc), CaOk(ca, proc),
         NEW ok \in BOOLEAN, VmStart(ok)
  PROVE  /\ proc' \in Table
         /\ VmOk(vm', proc') /\ CaOk(ca, proc')
         /\ Dead(proc') \subseteq Dead(proc)
<1>1. CASE ~ok
  BY <1>1 DEF VmStart, VmOk, Names, Manager, VmStates
<1>2. CASE ok
  <2>1. PICK p \in FreePids(proc) :
          /\ vm' = [vm EXCEPT !.state = "Booting", !.child_pid = p]
          /\ proc' = Spawned(proc, p, "vm")
    BY <1>2 DEF VmStart
  <2>2. p \in Pids
    BY DEF FreePids
  <2>3. VmOk(vm', proc')
    BY <2>1, <2>2 DEF VmOk, Names, Manager, VmStates, Spawned, Table
  <2> QED  BY <2>1, <2>3, SpawnKeeps DEF Kinds
<1> QED  BY <1>1, <1>2

\* start() of the CA manager, from the fields and table it is called with.
LEMMA CaStartKeeps ==
  ASSUME NEW procs \in Table, NEW m, NEW v, VmOk(v, procs), CaOk(m, procs),
         NEW ok \in BOOLEAN, CaStart(m, procs, ok)
  PROVE  /\ proc' \in Table
         /\ VmOk(v, proc') /\ CaOk(ca', proc')
         /\ Dead(proc') \subseteq Dead(procs)
<1>1. CASE ~ok
  BY <1>1 DEF CaStart, CaOk, Names, Manager, CaStates
<1>2. CASE ok
  <2>1. PICK p \in FreePids(procs) :
          /\ ca' = [m EXCEPT !.state = "Running", !.child_pid = p]
          /\ proc' = Spawned(procs, p, "ca")
    BY <1>2 DEF CaStart
  <2>2. p \in Pids
    BY DEF FreePids
  <2>3. CaOk(ca', proc')
    BY <2>1, <2>2 DEF CaOk, Names, Manager, CaStates, Spawned, Table
  <2> QED  BY <2>1, <2>3, SpawnKeeps DEF Kinds
<1> QED  BY <1>1, <1>2

(***************************************************************************)
(* The steps.                                                              *)
(***************************************************************************)

\* A step that makes no zombie, takes no byte and does not leave
\* reap_children misses no death.
LEMMA NoDeathMissed ==
  ASSUME NoLostDeath, Dead(proc') \subseteq Dead(proc), pipe \subseteq pipe',
         pc = "reap" => pc' = "reap"
  PROVE  NoLostDeath'
BY DEF NoLostDeath, Zombies, Dead

\* A child exits, crashed or killed, and its SIGCHLD arrives.
LEMMA ExitKeeps ==
  ASSUME IInv, NEW p \in Pids, NEW l \in {"crashed", "killed"},
         proc[p].life = (IF l = "crashed" THEN "running" ELSE "dying"),
         proc' = [proc EXCEPT ![p].life = l],
         Signal("C"), UNCHANGED <<vm, ca, phase, health>>
  PROVE  IInv'
<1>1. proc[p] \in [kind : Kinds, life : Lives]
  BY DEF IInv, Table, Proc, NotOurs
<1>2. [proc[p] EXCEPT !.life = l] \in Proc
  BY <1>1 DEF Proc, Lives
<1>3. proc' \in Table
  BY <1>2 DEF IInv, Table
<1>4. \A q \in Pids : /\ proc'[q].kind = proc[q].kind
                      /\ q # p => proc'[q] = proc[q]
                      /\ q = p => proc'[q].life = l
  BY <1>1 DEF IInv, Table
<1>5. VmOk(vm', proc')
  BY <1>4 DEF IInv, VmOk, Names, Manager
<1>6. CaOk(ca', proc')
  BY <1>4 DEF IInv, CaOk, Names, Manager
<1>7. LoopOk' /\ "C" \in pipe'
  BY DEF IInv, LoopOk, Signal, Locations, loop
<1> QED  BY <1>3, <1>5, <1>6, <1>7 DEF IInv, NoLostDeath

\* advance_startup, whatever its phase does to the managers.
LEMMA AdvanceKeeps ==
  ASSUME IInv, AdvanceStartup
  PROVE  /\ proc' \in Table
         /\ VmOk(vm', proc') /\ CaOk(ca', proc')
         /\ Dead(proc') \subseteq Dead(proc)
         /\ pipe \subseteq pipe' /\ pipe' \subseteq pipe \cup {"C"}
         /\ phase' \in Phases
<1> USE DEF IInv
<1>1. ~IsDead(vm) /\ ~IsDead(ca)
  BY DEF IsDead, VmOk, CaOk
<1>2. AdvancePhase
  BY <1>1 DEF AdvanceStartup
<1>3. CASE Settled /\ UNCHANGED <<vm, ca, proc, pipe, phase>>
  BY <1>3 DEF LoopOk
<1>4. CASE AdvanceVmStarting
  BY <1>4, VmStartKeeps DEF AdvanceVmStarting, Phases
<1>5. CASE AdvanceBootDelay
  BY <1>5 DEF AdvanceBootDelay, Phases
<1>6. CASE AdvanceWaitingVsock
  <2>1. VmOk(SetState(vm, "Ready"), proc)
    <3>1. SetState(vm, "Ready") \in Manager(VmStates)
      BY ManagerType DEF VmOk, VmStates
    <3>2. /\ SetState(vm, "Ready").child_pid = vm.child_pid
          /\ SetState(vm, "Ready").state = "Ready"
      BY DEF SetState, VmOk, Manager
    <3> QED  BY <3>1, <3>2 DEF VmOk, Names
  <2> QED
    BY <1>6, <2>1 DEF AdvanceWaitingVsock, HelperExited, Phases
<1>7. CASE AdvanceCaStarting
  <2>1. PICK ok \in BOOLEAN : /\ CaStart(ca, proc, ok)
                              /\ phase' = IF ok THEN "WaitingCaPort" ELSE "Failed"
    BY <1>7 DEF AdvanceCaStarting
  <2> QED
    BY <1>7, <2>1, CaStartKeeps DEF AdvanceCaStarting, Phases
<1>8. CASE AdvanceWaitingCaPort
  <2>1. CaOk(SetState(ca, "Ready"), proc)
    <3>1. SetState(ca, "Ready") \in Manager(CaStates)
      BY ManagerType DEF CaOk, CaStates
    <3>2. /\ SetState(ca, "Ready").child_pid = ca.child_pid
          /\ SetState(ca, "Ready").state = "Ready"
      BY DEF SetState, CaOk, Manager
    <3> QED  BY <3>1, <3>2 DEF CaOk, Names
  <2> QED
    BY <1>8, <2>1 DEF AdvanceWaitingCaPort, Phases
<1> QED
  BY <1>2, <1>3, <1>4, <1>5, <1>6, <1>7, <1>8 DEF AdvancePhase

\* Every step of the daemon and of its environment keeps the invariant.
LEMMA NextIInv == IInv /\ [Next]_vars => IInv'
<1> SUFFICES ASSUME IInv, [Next]_vars PROVE IInv'
  OBVIOUS
<1> USE DEF IInv
<1>1. ASSUME NEW p \in Pids, ChildCrashes(p) PROVE IInv'
  BY <1>1, ExitKeeps DEF ChildCrashes
<1>2. ASSUME NEW p \in Pids, ChildExits(p) PROVE IInv'
  BY <1>2, ExitKeeps DEF ChildExits
<1>3. CASE Terminate
  BY <1>3, NoDeathMissed DEF Terminate, Signal, loop, LoopOk, Locations
<1>4. CASE Poll
  BY <1>4, NoDeathMissed DEF Poll, kernel, AfterSignals, LoopOk, Locations
<1>5. CASE ReadSignals
  <2>1. NoLostDeath'
    BY <1>5 DEF ReadSignals, NoLostDeath, Zombies
  <2> QED  BY <1>5, <2>1 DEF ReadSignals, LoopOk, Locations
<1>6. ASSUME NEW p \in Pids, ReapVm(p) PROVE IInv'
  <2>1. ca.child_pid # p
    BY <1>6 DEF ReapVm, VmOk, CaOk, Names
  <2>2. /\ proc' \in Table /\ CaOk(ca', proc')
        /\ Dead(proc') \subseteq Dead(proc)
    BY <1>6, <2>1, ReapKeeps DEF ReapVm
  <2>3. VmOk(vm', proc')
    BY <1>6, MarkDeadOk DEF ReapVm, VmOk
  <2>4. NoLostDeath' /\ LoopOk'
    BY <1>6, <2>2, NoDeathMissed DEF ReapVm, loop, LoopOk
  <2> QED  BY <2>2, <2>3, <2>4
<1>7. ASSUME NEW p \in Pids, ReapCa(p) PROVE IInv'
  <2>1. /\ Reaped(proc, p) \in Table
        /\ Dead(Reaped(proc, p)) \subseteq Dead(proc)
        /\ VmOk(vm, Reaped(proc, p))
    BY <1>7, ReapKeeps DEF ReapCa
  <2>2. /\ CaOk(MarkDead(ca), Reaped(proc, p))
        /\ CaOk(SetState(MarkDead(ca), "Error"), Reaped(proc, p))
    BY MarkDeadOk DEF CaOk
  <2>3. /\ proc' \in Table /\ VmOk(vm, proc') /\ CaOk(ca', proc')
        /\ Dead(proc') \subseteq Dead(proc)
    <3>1. CASE ~StrikesUsedUp(MarkDead(ca))
      <4>1. PICK ok \in BOOLEAN : CaStart(MarkDead(ca), Reaped(proc, p), ok)
        BY <1>7, <3>1 DEF ReapCa
      <4> QED  BY <2>1, <2>2, <4>1, CaStartKeeps
    <3>2. CASE StrikesUsedUp(MarkDead(ca))
      BY <1>7, <2>1, <2>2, <3>2 DEF ReapCa
    <3> QED  BY <3>1, <3>2
  <2>4. NoLostDeath' /\ LoopOk'
    BY <1>7, <2>3, NoDeathMissed DEF ReapCa, loop, LoopOk
  <2> QED  BY <1>7, <2>3, <2>4 DEF ReapCa
<1>8. ASSUME NEW p \in Pids, ReapUnknown(p) PROVE IInv'
  <2>1. /\ proc' \in Table /\ VmOk(vm', proc') /\ CaOk(ca', proc')
        /\ Dead(proc') \subseteq Dead(proc)
    BY <1>8, ReapKeeps DEF ReapUnknown
  <2> QED  BY <1>8, <2>1, NoDeathMissed DEF ReapUnknown, loop, LoopOk
<1>9. CASE ReapDone
  <2>1. NoLostDeath'
    BY <1>9 DEF ReapDone, kernel, NoLostDeath, Zombies
  <2> QED
    BY <1>9, <2>1 DEF ReapDone, kernel, AfterSignals, LoopOk, Locations
<1>10. CASE HandleStartAll \/ HandleStartVm
  <2>1. PICK ok \in BOOLEAN : VmStart(ok)
    BY <1>10 DEF HandleStartAll, HandleStartVm
  <2> QED
    BY <1>10, <2>1, VmStartKeeps, NoDeathMissed
    DEF HandleStartAll, HandleStartVm, Handle, LoopOk, Locations
<1>11. CASE HandleStartCa
  <2>1. PICK ok \in BOOLEAN : CaStart(ca, proc, ok)
    BY <1>11 DEF HandleStartCa
  <2> QED
    BY <1>11, <2>1, CaStartKeeps, NoDeathMissed
    DEF HandleStartCa, Handle, LoopOk, Locations
<1>12. CASE HandleStopCa
  BY <1>12, KillKeeps, StoppedOk, NoDeathMissed
  DEF HandleStopCa, Handle, CaStop, CaOk, LoopOk, Locations
<1>13. CASE HandleStopVm
  BY <1>13, KillKeeps, StoppedOk, NoDeathMissed
  DEF HandleStopVm, Handle, VmStop, HelperExited, VmOk, LoopOk, Locations
<1>14. CASE HandleStopAll \/ Shutdown
  <2>1. /\ ca' = Stopped(ca)
        /\ VmStop(GracefulKill(proc, ca.child_pid))
    BY <1>14 DEF HandleStopAll, Shutdown
  <2>2. LET procs == GracefulKill(proc, ca.child_pid)
        IN  /\ procs \in Table /\ Dead(procs) = Dead(proc)
            /\ VmOk(vm, procs) /\ CaOk(Stopped(ca), procs)
    BY KillKeeps, StoppedOk DEF CaOk
  <2>3. /\ proc' \in Table /\ VmOk(vm', proc') /\ CaOk(ca', proc')
        /\ Dead(proc') = Dead(proc)
    BY <2>1, <2>2, KillKeeps, StoppedOk DEF VmStop, VmOk
  <2>4. LoopOk' /\ pipe \subseteq pipe' /\ pc # "reap"
    BY <1>14, <2>1 DEF HandleStopAll, Shutdown, Handle, VmStop, HelperExited,
                       LoopOk, Locations
  <2> QED  BY <2>3, <2>4, NoDeathMissed
<1>15. CASE ClientGone
  BY <1>15, NoDeathMissed DEF ClientGone, kernel, LoopOk, Locations
<1>16. CASE StartupStep
  <2>1. AdvanceStartup /\ pc = "startup" /\ pc' = "health"
    BY <1>16 DEF StartupStep
  <2>2. NoLostDeath'
    BY <2>1, AdvanceKeeps, NoDeathMissed
  <2> QED
    BY <1>16, <2>1, <2>2, AdvanceKeeps DEF StartupStep, LoopOk, Locations
<1>17. CASE HealthSkip
  BY <1>17, NoDeathMissed DEF HealthSkip, kernel, LoopOk, Locations
<1>18. ASSUME NEW o \in Outcomes, HealthProbe(o) PROVE IInv'
  <2>1. LoopOk'
    BY <1>18, ProbeType DEF HealthProbe, LoopOk, Locations
  <2>2. /\ proc' \in Table /\ VmOk(vm, proc') /\ CaOk(ca', proc')
        /\ Dead(proc') \subseteq Dead(proc)
    <3>1. CASE RestartNeeded(o)
      <4>1. PICK ok \in BOOLEAN :
              CaStart(Stopped(ca), GracefulKill(proc, ca.child_pid), ok)
        BY <1>18, <3>1 DEF HealthProbe
      <4>2. LET procs == GracefulKill(proc, ca.child_pid)
            IN  /\ procs \in Table /\ Dead(procs) = Dead(proc)
                /\ VmOk(vm, procs) /\ CaOk(Stopped(ca), procs)
        BY KillKeeps, StoppedOk DEF CaOk
      <4> QED  BY <4>1, <4>2, CaStartKeeps
    <3>2. CASE ~RestartNeeded(o)
      BY <1>18, <3>2 DEF HealthProbe
    <3> QED  BY <3>1, <3>2
  <2> QED  BY <1>18, <2>1, <2>2, NoDeathMissed DEF HealthProbe
<1>19. CASE ResetCrashCounts
  <2>1. PICK v, c \in BOOLEAN : /\ vm' = MaybeResetCrashCount(vm, v)
                                /\ ca' = MaybeResetCrashCount(ca, c)
    BY <1>19 DEF ResetCrashCounts
  <2>2. vm' \in Manager(VmStates) /\ ca' \in Manager(CaStates)
    BY <2>1, ManagerType DEF VmOk, CaOk, VmStates, CaStates
  <2>3. /\ vm'.child_pid = vm.child_pid /\ vm'.state = vm.state
        /\ ca'.child_pid = ca.child_pid /\ ca'.state = ca.state
    BY <2>1 DEF MaybeResetCrashCount, VmOk, CaOk, Manager
  <2>4. proc' = proc /\ LoopOk' /\ NoLostDeath'
    BY <1>19, NoDeathMissed DEF ResetCrashCounts, kernel, LoopOk, Locations
  <2> QED  BY <2>2, <2>3, <2>4 DEF VmOk, CaOk, Names
<1>20. CASE UNCHANGED vars
  BY <1>20, NoDeathMissed DEF vars, LoopOk
<1> QED
  BY <1>1, <1>2, <1>3, <1>4, <1>5, <1>6, <1>7, <1>8, <1>9, <1>10, <1>11, <1>12,
     <1>13, <1>14, <1>15, <1>16, <1>17, <1>18, <1>19, <1>20
  DEF Next, Environment, Daemon, Reap, HandleCommand, Health, Exited

\* IInv is an invariant of the daemon.
LEMMA Invariance == Spec => []IInv
  BY InitIInv, NextIInv, PTL DEF Spec

(***************************************************************************)
(* The theorems.                                                           *)
(***************************************************************************)

\* Every variable keeps its type in every reachable state.
THEOREM TypeCorrect == Spec => []TypeOK
  BY Invariance, IInvImplies, PTL

\* A recorded pid is never one that has been reaped: kill() and owns_pid()
\* concern the manager's own child, whatever pids the kernel hands out.
THEOREM PidsStayOurs == Spec => []OwnedIsOurs
  BY Invariance, IInvImplies, PTL

\* handle_child_death never counts a child the daemon stopped as a crash.
THEOREM StopsAreNotCrashes == Spec => []StopIsNotACrash
  BY Invariance, IInvImplies, PTL

\* However signals coalesce in the self-pipe, no zombie is forgotten.
THEOREM DeathsAreNotLost == Spec => []NoLostDeath
  BY Invariance, IInvImplies, PTL

\* The states reported by status agree with the recorded children.
THEOREM StatesMatchChildren == Spec => []StateMatchesChild
  BY Invariance, IInvImplies, PTL

(***************************************************************************)
(* The daemon implements StartupOrder.  The proof follows both reset       *)
(* branches of advance_startup, although the invariant would show that     *)
(* neither manager ever is_dead(): the order does not rest on that.        *)
(***************************************************************************)
LEMMA StartupKeepsOrder ==
  ASSUME vm \in Manager(VmStates), AdvanceStartup
  PROVE  Order!Next \/ phase' = phase
<1> USE DEF Order!Next, Order!Follows
<1>1. CASE IsDead(vm) /\ ~Settled
  BY <1>1 DEF AdvanceStartup, ResetPhase, IsDead, Settled, Order!VmLost
<1>2. CASE IsDead(ca) /\ phase = "WaitingCaPort" /\ ~(IsDead(vm) /\ ~Settled)
  BY <1>2 DEF AdvanceStartup, ResetPhase, IsDead, Order!CaLost
<1>3. CASE AdvancePhase
  <2>1. CASE AdvanceWaitingVsock
    <3>1. SetState(vm, "Ready").state = "Ready"
      BY DEF SetState, Manager
    <3> QED  BY <2>1, <3>1 DEF AdvanceWaitingVsock, Order!VmAnswers
  <2>2. CASE AdvanceVmStarting \/ AdvanceBootDelay
    BY <2>2 DEF AdvanceVmStarting, AdvanceBootDelay
  <2>3. CASE AdvanceCaStarting \/ AdvanceWaitingCaPort
    BY <2>3 DEF AdvanceCaStarting, AdvanceWaitingCaPort
  <2> QED  BY <1>3, <2>1, <2>2, <2>3 DEF AdvancePhase
<1> QED  BY <1>1, <1>2, <1>3 DEF AdvanceStartup

\* No interleaving takes the startup out of its order.
THEOREM StartupRefinesOrder == Spec => StartupInOrder
<1>1. Init => Order!Init
  BY DEF Init, Order!Init
<1>2. IInv /\ [Next]_vars => [Order!Next]_phase
  <2> SUFFICES ASSUME IInv, [Next]_vars
               PROVE  Order!Next \/ UNCHANGED phase
    OBVIOUS
  <2>1. CASE StartupStep
    BY <2>1, StartupKeepsOrder DEF StartupStep, IInv, VmOk
  <2>2. CASE UNCHANGED vars
    BY <2>2 DEF vars
  <2>3. CASE Next /\ ~StartupStep
    BY <2>3
    DEF Next, Environment, Daemon, Reap, HandleCommand, Health, Exited, vars,
        ChildCrashes, ChildExits, Terminate, Poll, ReadSignals,
        ReapVm, ReapCa, ReapUnknown, ReapDone, Handle, HandleStartAll,
        HandleStopAll, HandleStartVm, HandleStopVm, HandleStartCa,
        HandleStopCa, ClientGone, HealthSkip, HealthProbe, ResetCrashCounts,
        Shutdown
  <2> QED  BY <2>1, <2>2, <2>3
<1> QED
  BY <1>1, <1>2, Invariance, PTL DEF Spec, StartupInOrder, Order!Spec

-----------------------------------------------------------------------------
(* The requests.                                                           *)

\* The history restrains nothing: with it the daemon is still the daemon.
LEMMA StillTheDaemon == RequestsSpec => Spec
<1>1. RequestsInit => Init
  BY DEF RequestsInit
<1>2. [RequestsNext]_<<vars, requests>> => [Next]_vars
  BY DEF RequestsNext, Next, Environment, HandleCommand
<1> QED  BY <1>1, <1>2, PTL DEF RequestsSpec, Spec

(***************************************************************************)
(* After the startup nothing but a command moves a manager that rests.     *)
(* The invariant is needed for the death of a stopped child: reap_children *)
(* would restart the CA if its pid were still recorded.                    *)
(***************************************************************************)
LEMMA RestIsKept ==
  ASSUME IInv, Settled,
         \/ \E p \in Pids : ChildCrashes(p) \/ ChildExits(p)
         \/ Terminate \/ Daemon \/ Exited \/ UNCHANGED vars
  PROVE  /\ Settled'
         /\ vm.state = "Idle" => vm'.state = "Idle"
         /\ ca.state = "Idle" => ca'.state = "Idle"
<1> DEFINE Rests == /\ Settled'
                    /\ vm.state = "Idle" => vm'.state = "Idle"
                    /\ ca.state = "Idle" => ca'.state = "Idle"
<1> SUFFICES Rests
  OBVIOUS
<1>0. /\ VmOk(vm, proc) /\ CaOk(ca, proc)
      /\ vm \in Manager(VmStates) /\ ca \in Manager(CaStates)
  BY DEF IInv, VmOk, CaOk
<1>1. /\ vm.state = "Idle" => vm.child_pid = NoPid
      /\ ca.state = "Idle" => ca.child_pid = NoPid
  BY <1>0 DEF VmOk, CaOk
<1>2. CASE UNCHANGED <<vm, ca, phase>>
  BY <1>2 DEF Settled
<1>3. ASSUME NEW p \in Pids, ReapVm(p) \/ ReapCa(p) PROVE Rests
  BY <1>1, <1>3 DEF ReapVm, ReapCa, Settled
<1>4. CASE Shutdown
  BY <1>0, <1>4 DEF Shutdown, VmStop, Stopped, Manager, Settled
<1>5. CASE StartupStep
  <2>1. AdvancePhase
    BY <1>0, <1>5 DEF StartupStep, AdvanceStartup, IsDead, VmOk, CaOk
  <2>2. UNCHANGED <<vm, ca, phase>>
    BY <2>1 DEF AdvancePhase, Settled, AdvanceVmStarting, AdvanceBootDelay,
                AdvanceWaitingVsock, AdvanceCaStarting, AdvanceWaitingCaPort
  <2> QED  BY <1>2, <2>2
<1>6. ASSUME NEW o \in Outcomes, HealthProbe(o) PROVE Rests
  BY <1>6 DEF HealthProbe, Settled
<1>7. CASE ResetCrashCounts
  BY <1>0, <1>7 DEF ResetCrashCounts, MaybeResetCrashCount, Manager, Settled
<1> QED
  BY <1>2, <1>3, <1>4, <1>5, <1>6, <1>7
  DEF Daemon, Reap, Health, Exited, vars, ChildCrashes, ChildExits, Terminate,
      Poll, ReadSignals, ReapUnknown, ReapDone, ClientGone, HealthSkip

\* What the history says of the managers: the inductive part.
AtRest ==
  /\ stopped \in SUBSET Kinds
  /\ stopped # {} => Settled
  /\ "vm" \in stopped => vm.state = "Idle"
  /\ "ca" \in stopped => ca.state = "Idle"

\* Neither reap_children nor the health check revives what a client stopped.
THEOREM OnlyCommandsRevive == RequestsSpec => []StoppedStaysStopped
<1>1. RequestsInit => AtRest
  BY DEF RequestsInit, AtRest
<1>2. IInv /\ AtRest /\ [RequestsNext]_<<vars, requests>> => AtRest'
  <2> SUFFICES ASSUME IInv, AtRest, [RequestsNext]_<<vars, requests>> PROVE AtRest'
    OBVIOUS
  <2>1. /\ vm \in Manager(VmStates) /\ ca \in Manager(CaStates)
    BY DEF IInv, VmOk, CaOk
  <2>2. Stopped(vm).state = "Idle" /\ Stopped(ca).state = "Idle"
    BY <2>1 DEF Stopped, Manager
  <2>3. CASE HandleStopAll /\ Stops(Kinds)
    BY <2>2, <2>3 DEF HandleStopAll, Handle, VmStop, Stops, AtRest, Settled
  <2>4. CASE HandleStopVm /\ Stops({"vm"})
    BY <2>2, <2>4 DEF HandleStopVm, Handle, VmStop, Stops, AtRest, Settled, Kinds
  <2>5. CASE HandleStopCa /\ Stops({"ca"})
    BY <2>2, <2>5 DEF HandleStopCa, Handle, CaStop, Stops, AtRest, Settled, Kinds
  <2>6. CASE HandleStartAll /\ Starts(Kinds)
    BY <2>6 DEF Starts, AtRest
  <2>7. CASE HandleStartVm /\ Starts({"vm"})
    BY <2>7 DEF HandleStartVm, Handle, Starts, AtRest, Settled
  <2>8. CASE HandleStartCa /\ Starts({"ca"})
    BY <2>8 DEF HandleStartCa, Handle, Starts, AtRest, Settled
  <2>9. ASSUME \/ \E p \in Pids : ChildCrashes(p) \/ ChildExits(p)
               \/ Terminate \/ Daemon \/ Exited \/ UNCHANGED vars,
               stopped' = stopped
        PROVE  AtRest'
    BY <2>9, RestIsKept DEF AtRest
  <2> QED
    BY <2>3, <2>4, <2>5, <2>6, <2>7, <2>8, <2>9 DEF RequestsNext, requests
<1>3. IInv /\ AtRest => StoppedStaysStopped
  BY DEF IInv, VmOk, CaOk, AtRest, StoppedStaysStopped
<1> QED
  BY <1>1, <1>2, <1>3, StillTheDaemon, Invariance, PTL DEF RequestsSpec

\* Between its arrival and the shutdown SIGTERM is in the pipe or was read.
THEOREM TermIsNotLost == RequestsSpec => []NoLostTerm
<1>1. RequestsInit => NoLostTerm
  BY DEF RequestsInit, NoLostTerm
<1>2. NoLostTerm /\ [RequestsNext]_<<vars, requests>> => NoLostTerm'
  <2> SUFFICES ASSUME NoLostTerm, [RequestsNext]_<<vars, requests>>
               PROVE  NoLostTerm'
    OBVIOUS
  <2>1. CASE Terminate
    BY <2>1 DEF Terminate, Signal, NoLostTerm
  <2>2. ASSUME asked' = asked, pc \in {"shutdown", "exited"}
                                 => pc' \in {"shutdown", "exited"},
               got' = got, pipe \subseteq pipe'
        PROVE  NoLostTerm'
    BY <2>2 DEF NoLostTerm
  <2>3. ASSUME NEW p \in Pids, ChildCrashes(p) \/ ChildExits(p), asked' = asked
        PROVE  NoLostTerm'
    BY <2>2, <2>3 DEF ChildCrashes, ChildExits, Signal
  <2>4. CASE HandleCommand /\ asked' = asked
    <3>1. pc = "client" /\ got' = got
      BY <2>4 DEF HandleCommand, HandleStartAll, HandleStopAll, HandleStartVm,
                  HandleStopVm, HandleStartCa, HandleStopCa, Handle
    <3>2. pipe \subseteq pipe'
      BY <2>4 DEF HandleCommand, HandleStartAll, HandleStopAll, HandleStartVm,
                  HandleStopVm, HandleStartCa, HandleStopCa, VmStop, HelperExited
    <3> QED  BY <2>2, <2>4, <3>1, <3>2
  <2>5. CASE ReadSignals /\ asked' = asked
    BY <2>5 DEF ReadSignals, NoLostTerm
  <2>6. CASE ReapDone /\ asked' = asked
    BY <2>6 DEF ReapDone, AfterSignals, NoLostTerm
  <2>7. ASSUME NEW p \in Pids, ReapVm(p) \/ ReapCa(p) \/ ReapUnknown(p), asked' = asked
        PROVE  NoLostTerm'
    BY <2>2, <2>7 DEF ReapVm, ReapCa, ReapUnknown, loop
  <2>8. CASE StartupStep /\ asked' = asked
    <3>1. pipe \subseteq pipe'
      BY <2>8 DEF StartupStep, AdvanceStartup, AdvancePhase, ResetPhase,
                  AdvanceVmStarting, AdvanceBootDelay, AdvanceWaitingVsock,
                  AdvanceCaStarting, AdvanceWaitingCaPort, HelperExited
    <3> QED  BY <2>2, <2>8, <3>1 DEF StartupStep
  <2>9. CASE Shutdown /\ asked' = asked
    BY <2>9 DEF Shutdown, NoLostTerm
  <2>10. CASE /\ Poll \/ ClientGone \/ Health \/ ResetCrashCounts \/ Exited
                \/ UNCHANGED vars
              /\ asked' = asked
    BY <2>2, <2>10 DEF Poll, ClientGone, Health, HealthSkip, HealthProbe,
                       ResetCrashCounts, Exited, kernel, vars
  <2> QED
    BY <2>1, <2>3, <2>4, <2>5, <2>6, <2>7, <2>8, <2>9, <2>10
    DEF RequestsNext, Daemon, Reap, HandleCommand, Stops, Starts, requests
<1> QED  BY <1>1, <1>2, PTL DEF RequestsSpec

(***************************************************************************)
(* The loop of reap_children uses itself up.                               *)
(***************************************************************************)
Ours(procs) == {p \in Pids : procs[p] # NotOurs}
Living(procs) == {p \in Pids : procs[p].life \in {"running", "dying"}}
Weight(procs) == Cardinality(Ours(procs)) + Cardinality(Living(procs))

\* Adding one element to a set of pids, and taking one away.
LEMMA OnePid ==
  ASSUME NEW S \in SUBSET Pids, NEW p \in Pids
  PROVE  /\ IsFiniteSet(S) /\ Cardinality(S) \in Nat
         /\ p \notin S => Cardinality(S \cup {p}) = Cardinality(S) + 1
         /\ p \in S => Cardinality(S) >= 1 /\ Cardinality(S \ {p}) = Cardinality(S) - 1
<1>1. IsFiniteSet(S)
  BY FinitePidsAssumption, FS_Subset
<1>2. Cardinality(S) \in Nat
  BY <1>1, FS_CardinalityType
<1>3. p \notin S => Cardinality(S \cup {p}) = Cardinality(S) + 1
  BY <1>1, FS_AddElement
<1>4. ASSUME p \in S
      PROVE  Cardinality(S) >= 1 /\ Cardinality(S \ {p}) = Cardinality(S) - 1
  <2>1. Cardinality(S \ {p}) = Cardinality(S) - 1
    BY <1>1, <1>4, FS_RemoveElement
  <2>2. Cardinality(S) # 0
    BY <1>1, <1>4, FS_EmptySet
  <2> QED  BY <1>2, <2>1, <2>2
<1> QED  BY <1>1, <1>2, <1>3, <1>4

\* What an exit, a reap and a spawn weigh.
LEMMA Weights ==
  ASSUME NEW procs \in Table, NEW p \in Pids
  PROVE  /\ Weight(procs) \in Nat
         /\ \A l \in {"crashed", "killed"} :
              procs[p].life \in {"running", "dying"} =>
                /\ Weight([procs EXCEPT ![p].life = l]) \in Nat
                /\ Weight([procs EXCEPT ![p].life = l]) = Weight(procs) - 1
         /\ procs[p].life \in {"crashed", "killed"} =>
              /\ Weight(Reaped(procs, p)) \in Nat
              /\ Weight(Reaped(procs, p)) = Weight(procs) - 1
         /\ \A k \in Kinds : procs[p] = NotOurs =>
              Weight(Spawned(procs, p, k)) = Weight(procs) + 2
<1>1. Ours(procs) \in SUBSET Pids /\ Living(procs) \in SUBSET Pids
  BY DEF Ours, Living
<1>2. /\ Cardinality(Ours(procs)) \in Nat /\ Cardinality(Living(procs)) \in Nat
      /\ Weight(procs) \in Nat
  <2>1. Cardinality(Ours(procs)) \in Nat
    BY <1>1, OnePid
  <2>2. Cardinality(Living(procs)) \in Nat
    BY <1>1, OnePid
  <2> QED  BY <2>1, <2>2 DEF Weight
<1>3. ASSUME NEW l \in {"crashed", "killed"}, procs[p].life \in {"running", "dying"}
      PROVE  LET q == [procs EXCEPT ![p].life = l]
             IN  Weight(q) \in Nat /\ Weight(q) = Weight(procs) - 1
  <2> DEFINE q == [procs EXCEPT ![p].life = l]
  <2>1. procs[p] \in [kind : Kinds, life : Lives]
    BY <1>3 DEF Table, Proc, NotOurs
  <2>2. /\ q[p].life = l /\ q[p].kind = procs[p].kind
        /\ \A r \in Pids : r # p => q[r] = procs[r]
    BY <2>1 DEF Table
  <2>3. procs[p] # NotOurs /\ q[p] # NotOurs
    BY <1>3, <2>2 DEF NotOurs
  <2>4. Ours(q) = Ours(procs)
    BY <2>2, <2>3 DEF Ours
  <2>5. Living(q) = Living(procs) \ {p} /\ p \in Living(procs)
    BY <1>3, <2>2 DEF Living
  <2> HIDE DEF q
  <2>6. Weight(q) \in Nat /\ Weight(q) = Weight(procs) - 1
    BY <1>1, <1>2, <2>4, <2>5, OnePid DEF Weight
  <2> QED  BY <2>6 DEF q
<1>4. ASSUME procs[p].life \in {"crashed", "killed"}
      PROVE  LET q == Reaped(procs, p)
             IN  Weight(q) \in Nat /\ Weight(q) = Weight(procs) - 1
  <2> DEFINE q == Reaped(procs, p)
  <2>1. q[p] = NotOurs /\ \A r \in Pids : r # p => q[r] = procs[r]
    BY DEF Reaped, Table
  <2>2. Ours(q) = Ours(procs) \ {p} /\ p \in Ours(procs)
    BY <1>4, <2>1 DEF Ours, NotOurs
  <2>3. Living(q) = Living(procs)
    BY <1>4, <2>1 DEF Living, NotOurs
  <2> HIDE DEF q
  <2>4. Weight(q) \in Nat /\ Weight(q) = Weight(procs) - 1
    BY <1>1, <1>2, <2>2, <2>3, OnePid DEF Weight
  <2> QED  BY <2>4 DEF q
<1>5. ASSUME NEW k \in Kinds, procs[p] = NotOurs
      PROVE  Weight(Spawned(procs, p, k)) = Weight(procs) + 2
  <2> DEFINE q == Spawned(procs, p, k)
  <2>1. /\ q[p] = [kind |-> k, life |-> "running"]
        /\ \A r \in Pids : r # p => q[r] = procs[r]
    BY DEF Spawned, Table
  <2>2. q[p] # NotOurs /\ q[p].life = "running"
    BY <2>1 DEF NotOurs
  <2>3. Ours(q) = Ours(procs) \cup {p} /\ p \notin Ours(procs)
    BY <1>5, <2>1, <2>2 DEF Ours
  <2>4. Living(q) = Living(procs) \cup {p} /\ p \notin Living(procs)
    BY <1>5, <2>1, <2>2 DEF Living, NotOurs
  <2> HIDE DEF q
  <2>5. Weight(q) = Weight(procs) + 2
    BY <1>1, <1>2, <2>3, <2>4, OnePid DEF Weight
  <2> QED  BY <2>5 DEF q
<1> QED  BY <1>2, <1>3, <1>4, <1>5

\* Every round of reap_children, and every exit of a child during one, takes
\* from the work that is left: a crash loop of the CA cannot keep the daemon
\* there, however many strikes and pids there are.
THEOREM ReapUsesItselfUp == Spec => ReapProgress
<1> DEFINE Left(m) == 2 * (CrashLimit - m.crash_count)
           Uses == pc = "reap" /\ pc' = "reap" =>
                     Work' \in 0..(Work - 1) \/ UNCHANGED <<vm, ca, proc>>
<1>1. IInv /\ [Next]_vars => [Uses]_vars
  <2> SUFFICES ASSUME IInv, Next, pc = "reap", pc' = "reap"
               PROVE  Work' \in 0..(Work - 1) \/ UNCHANGED <<vm, ca, proc>>
    BY DEF vars
  <2>1. /\ proc \in Table /\ vm \in Manager(VmStates)
        /\ ca \in Manager(CaStates) /\ ca.crash_count \in 0..CrashLimit
    BY DEF IInv, VmOk, CaOk, Manager
  <2>2. Work = Left(ca) + Weight(proc) /\ Work' = Left(ca') + Weight(proc')
    <3>1. /\ {p \in Pids : IsAlive(p)} = Ours(proc)
          /\ {p \in Pids : IsAlive(p)}' = Ours(proc')
      BY DEF IsAlive, Ours
    <3>2. /\ {p \in Pids : proc[p].life \in {"running", "dying"}} = Living(proc)
          /\ {p \in Pids : proc'[p].life \in {"running", "dying"}} = Living(proc')
      BY DEF Living
    <3> QED  BY <3>1, <3>2 DEF Work, Weight
  <2>3. Left(ca) \in Nat
    BY <2>1
  <2> HIDE DEF Left
  <2>4. ASSUME NEW p \in Pids, ChildCrashes(p) \/ ChildExits(p)
        PROVE  Work' \in 0..(Work - 1)
    <3>1. PICK l \in {"crashed", "killed"} : proc' = [proc EXCEPT ![p].life = l]
      BY <2>4 DEF ChildCrashes, ChildExits
    <3>2. ca' = ca /\ proc[p].life \in {"running", "dying"}
      BY <2>4 DEF ChildCrashes, ChildExits
    <3>3. /\ Weight(proc) \in Nat /\ Weight(proc') \in Nat
          /\ Weight(proc') = Weight(proc) - 1
      BY <2>1, <3>1, <3>2, Weights
    <3> QED  BY <2>2, <2>3, <3>2, <3>3
  <2>5. ASSUME NEW p \in Pids, ReapVm(p) \/ ReapUnknown(p)
        PROVE  Work' \in 0..(Work - 1)
    <3>1. ca' = ca /\ proc' = Reaped(proc, p) /\ proc[p].life \in {"crashed", "killed"}
      BY <2>5 DEF ReapVm, ReapUnknown, Zombies
    <3>2. /\ Weight(proc) \in Nat /\ Weight(proc') \in Nat
          /\ Weight(proc') = Weight(proc) - 1
      BY <2>1, <3>1, Weights
    <3> QED  BY <2>2, <2>3, <3>1, <3>2
  <2>6. ASSUME NEW p \in Pids, ReapCa(p)
        PROVE  Work' \in 0..(Work - 1)
    <3> DEFINE procs == Reaped(proc, p)
    <3>1. proc[p].life \in {"crashed", "killed"}
      BY <2>6 DEF ReapCa, Zombies
    <3>2. procs \in Table
      BY <2>1, ReapKeeps
    <3>3. /\ Weight(proc) \in Nat /\ Weight(procs) \in Nat
          /\ Weight(procs) = Weight(proc) - 1
      BY <2>1, <3>1, Weights
    <3>4. CASE StrikesUsedUp(MarkDead(ca))
      <4>1. proc' = procs /\ ca' = SetState(MarkDead(ca), "Error")
        BY <2>6, <3>4 DEF ReapCa
      <4>2. /\ ca'.crash_count \in 0..CrashLimit
            /\ ca'.crash_count >= ca.crash_count
        BY <2>1, <4>1 DEF MarkDead, SetState
      <4>3. Left(ca') \in Nat /\ Left(ca') <= Left(ca)
        BY <2>1, <4>2 DEF Left
      <4> QED  BY <2>2, <2>3, <3>3, <4>1, <4>3
    <3>5. CASE ~StrikesUsedUp(MarkDead(ca))
      <4>1. PICK ok \in BOOLEAN : CaStart(MarkDead(ca), procs, ok)
        BY <2>6, <3>5 DEF ReapCa
      <4>2. ca'.crash_count = MarkDead(ca).crash_count
        BY <4>1 DEF CaStart, MarkDead
      <4>3. MarkDead(ca).crash_count = ca.crash_count + 1 /\ ca.crash_count + 1 < CrashLimit
        BY <2>1, <3>5 DEF MarkDead, StrikesUsedUp
      <4>4. Left(ca') \in Nat /\ Left(ca') = Left(ca) - 2
        BY <2>1, <4>2, <4>3 DEF Left
      <4>5. CASE ~ok
        <5>1. proc' = procs
          BY <4>1, <4>5 DEF CaStart
        <5> HIDE DEF procs
        <5> QED  BY <2>2, <2>3, <3>3, <4>4, <5>1
      <4>6. CASE ok
        <5>1. PICK q \in FreePids(procs) : proc' = Spawned(procs, q, "ca")
          BY <4>1, <4>6 DEF CaStart
        <5>2. q \in Pids /\ procs[q] = NotOurs
          BY DEF FreePids
        <5>3. Weight(proc') = Weight(procs) + 2
          BY <3>2, <5>1, <5>2, Weights DEF Kinds
        <5> QED  BY <2>2, <2>3, <3>3, <4>4, <5>3
      <4> QED  BY <4>5, <4>6
    <3> QED  BY <3>4, <3>5
  <2>7. CASE Terminate
    BY <2>7 DEF Terminate
  <2>8. ~(Poll \/ ReadSignals \/ ClientGone \/ StartupStep \/ ResetCrashCounts
            \/ Shutdown \/ HealthSkip)
    BY DEF Poll, ReadSignals, ClientGone, StartupStep, ResetCrashCounts, Shutdown,
           HealthSkip
  <2>9. ~ReapDone
    BY DEF ReapDone, AfterSignals
  <2>10. ~HandleCommand
    BY DEF HandleCommand, HandleStartAll, HandleStopAll, HandleStartVm,
           HandleStopVm, HandleStartCa, HandleStopCa, Handle
  <2>11. ~Health
    BY DEF Health, HealthSkip, HealthProbe
  <2>12. ~Exited
    BY DEF Exited
  <2> QED
    BY <2>4, <2>5, <2>6, <2>7, <2>8, <2>9, <2>10, <2>11, <2>12
    DEF Next, Environment, Daemon, Reap
<1> QED  BY <1>1, Invariance, PTL DEF Spec, ReapProgress

-----------------------------------------------------------------------------
(***************************************************************************)
(* A daemon that nobody asks to start anything leaves no orphan and exits  *)
(* cleanly: startup, crash restarts and health restarts never spawn over a *)
(* child that is still recorded.                                           *)
(***************************************************************************)

\* No client sends a start command.
Quiet == Commands \cap {"start_all", "start_vm", "start_ca"} = {}

\* NoOrphans, of any two managers and any process table.
Tended(v, c, procs) ==
  \A p \in Pids :
    procs[p].life = "running" =>
      IF procs[p].kind = "vm" THEN p = v.child_pid ELSE p = c.child_pid

(***************************************************************************)
(* The strengthening: before its start is due a manager has no child, so   *)
(* that the one start of the startup finds none.                           *)
(***************************************************************************)
NotYetStarted ==
  /\ phase \in {"NotStarted", "VmStarting"} => vm.child_pid = NoPid
  /\ phase \in {"NotStarted", "VmStarting", "BootDelay", "WaitingVsock",
                "CaStarting"} => ca.state = "Idle"

QInv == /\ IInv
        /\ Tended(vm, ca, proc)
        /\ NotYetStarted
        /\ CleanExit

\* Stopping one manager leaves its child to die and tends the other's.
LEMMA StopTended ==
  ASSUME NEW procs \in Table, NEW v, NEW c, VmOk(v, procs), CaOk(c, procs),
         Tended(v, c, procs)
  PROVE  /\ Tended(v, Stopped(c), GracefulKill(procs, c.child_pid))
         /\ Tended(Stopped(v), c, GracefulKill(procs, v.child_pid))
<1>1. v.child_pid \in Pids \cup {NoPid} /\ c.child_pid \in Pids \cup {NoPid}
  BY DEF VmOk, CaOk, Manager
<1>2. ASSUME NEW p \in Pids \cup {NoPid}, NEW q \in Pids,
             GracefulKill(procs, p)[q].life = "running"
      PROVE  q # p /\ procs[q] = GracefulKill(procs, p)[q]
  <2>1. CASE p # NoPid /\ procs[p].life = "running"
    <3>1. GracefulKill(procs, p) = [procs EXCEPT ![p].life = "dying"]
      BY <2>1 DEF GracefulKill
    <3>2. p \in Pids /\ procs[p] \in [kind : Kinds, life : Lives]
      BY <2>1 DEF Table, Proc, NotOurs
    <3> QED  BY <1>2, <3>1, <3>2 DEF Table
  <2>2. CASE ~(p # NoPid /\ procs[p].life = "running")
    <3>1. GracefulKill(procs, p) = procs
      BY <2>2 DEF GracefulKill
    <3> QED  BY <1>2, <2>2, <3>1
  <2> QED  BY <2>1, <2>2
<1>3. Tended(v, Stopped(c), GracefulKill(procs, c.child_pid))
  <2> SUFFICES ASSUME NEW q \in Pids,
                      GracefulKill(procs, c.child_pid)[q].life = "running"
               PROVE  /\ GracefulKill(procs, c.child_pid)[q].kind = "vm"
                      /\ q = v.child_pid
    BY DEF Tended
  <2> QED  BY <1>1, <1>2 DEF Tended, VmOk, CaOk, Names
<1>4. Tended(Stopped(v), c, GracefulKill(procs, v.child_pid))
  <2> SUFFICES ASSUME NEW q \in Pids,
                      GracefulKill(procs, v.child_pid)[q].life = "running"
               PROVE  /\ GracefulKill(procs, v.child_pid)[q].kind # "vm"
                      /\ q = c.child_pid
    BY DEF Tended
  <2> QED  BY <1>1, <1>2 DEF Tended, VmOk, CaOk, Names
<1> QED  BY <1>3, <1>4

\* A start that finds no child recorded makes no orphan.
LEMMA CaStartTended ==
  ASSUME NEW procs \in Table, NEW m \in Manager(CaStates), NEW ok \in BOOLEAN,
         m.child_pid = NoPid, Tended(vm, m, procs), CaStart(m, procs, ok)
  PROVE  Tended(vm, ca', proc')
<1>1. CASE ~ok
  BY <1>1 DEF CaStart, Tended, Manager
<1>2. CASE ok
  <2>1. PICK p \in FreePids(procs) :
          /\ ca' = [m EXCEPT !.state = "Running", !.child_pid = p]
          /\ proc' = Spawned(procs, p, "ca")
    BY <1>2 DEF CaStart
  <2>2. p \in Pids /\ ca'.child_pid = p
    BY <2>1 DEF FreePids, Manager
  <2>3. \A q \in Pids :
          proc'[q] = IF q = p THEN [kind |-> "ca", life |-> "running"]
                              ELSE procs[q]
    BY <2>1, <2>2 DEF Spawned, Table
  <2> QED  BY <2>2, <2>3 DEF Tended
<1> QED  BY <1>1, <1>2

\* The same of the VM manager.
LEMMA VmStartTended ==
  ASSUME proc \in Table, vm \in Manager(VmStates), NEW ok \in BOOLEAN,
         vm.child_pid = NoPid, Tended(vm, ca, proc), VmStart(ok)
  PROVE  Tended(vm', ca, proc')
<1>1. CASE ~ok
  BY <1>1 DEF VmStart, Tended, Manager
<1>2. CASE ok
  <2>1. PICK p \in FreePids(proc) :
          /\ vm' = [vm EXCEPT !.state = "Booting", !.child_pid = p]
          /\ proc' = Spawned(proc, p, "vm")
    BY <1>2 DEF VmStart
  <2>2. p \in Pids /\ vm'.child_pid = p
    BY <2>1 DEF FreePids, Manager
  <2>3. \A q \in Pids :
          proc'[q] = IF q = p THEN [kind |-> "vm", life |-> "running"]
                              ELSE proc[q]
    BY <2>1, <2>2 DEF Spawned, Table
  <2> QED  BY <2>2, <2>3 DEF Tended
<1> QED  BY <1>1, <1>2

\* The initial states have nothing to tend.
LEMMA InitQInv == Init => QInv
<1> SUFFICES ASSUME Init PROVE QInv
  OBVIOUS
<1>1. \A p \in Pids : proc[p].life # "running"
  BY DEF Init, NotOurs
<1> QED
  BY <1>1, InitIInv DEF QInv, Tended, NotYetStarted, CleanExit, Init, New

\* Every step keeps every running child tended.
LEMMA NextQInv ==
  ASSUME Quiet
  PROVE  QInv /\ [Next]_vars => QInv'
<1> SUFFICES ASSUME QInv, [Next]_vars PROVE QInv'
  OBVIOUS
<1> USE DEF QInv
<1>0. /\ IInv'
      /\ proc \in Table /\ VmOk(vm, proc) /\ CaOk(ca, proc)
      /\ vm \in Manager(VmStates) /\ ca \in Manager(CaStates)
  BY NextIInv DEF IInv, VmOk, CaOk
<1>1. ASSUME NEW p \in Pids, ChildCrashes(p) \/ ChildExits(p) PROVE QInv'
  <2>1. \A q \in Pids : proc'[q].life = "running" => proc'[q] = proc[q]
    <3>1. proc[p] \in [kind : Kinds, life : Lives]
      BY <1>0, <1>1 DEF ChildCrashes, ChildExits, Table, Proc, NotOurs
    <3>2. PICK l \in {"crashed", "killed"} : proc' = [proc EXCEPT ![p].life = l]
      BY <1>1 DEF ChildCrashes, ChildExits
    <3> QED  BY <1>0, <3>1, <3>2 DEF Table
  <2>2. pc' # "exited" /\ UNCHANGED <<vm, ca, phase>>
    BY <1>1 DEF ChildCrashes, ChildExits, Signal, loop
  <2> QED  BY <1>0, <2>1, <2>2 DEF Tended, NotYetStarted, CleanExit
<1>2. CASE \/ Terminate \/ Poll \/ ReadSignals \/ ReapDone \/ ClientGone
           \/ HealthSkip \/ UNCHANGED vars
  <2>1. /\ UNCHANGED <<proc, vm, ca, phase>>
        /\ pc' = "exited" => pc = "exited"
    BY <1>2 DEF Terminate, Signal, loop, Poll, AfterSignals, ReadSignals,
                ReapDone, ClientGone, HealthSkip, kernel, vars
  <2> QED  BY <1>0, <2>1 DEF Tended, NotYetStarted, CleanExit
<1>3. ASSUME NEW p \in Pids, ReapVm(p) PROVE QInv'
  <2>1. /\ vm'.child_pid = NoPid /\ ca' = ca /\ phase' = phase /\ pc' # "exited"
        /\ p = vm.child_pid /\ proc' = Reaped(proc, p)
    BY <1>3 DEF ReapVm, MarkDead, SetState, loop
  <2>2. \A q \in Pids : proc'[q] = IF q = p THEN NotOurs ELSE proc[q]
    BY <1>0, <2>1 DEF Reaped, Table
  <2> QED  BY <1>0, <2>1, <2>2 DEF Tended, NotOurs, NotYetStarted, CleanExit
<1>4. ASSUME NEW p \in Pids, ReapCa(p) PROVE QInv'
  <2>1. /\ p = ca.child_pid /\ UNCHANGED <<vm, phase>> /\ pc' # "exited"
    BY <1>4 DEF ReapCa, loop
  <2>2. ca.state # "Idle"
    BY <1>0, <2>1 DEF CaOk
  <2>3. \A q \in Pids : Reaped(proc, p)[q] = IF q = p THEN NotOurs ELSE proc[q]
    BY <1>0 DEF Reaped, Table
  <2>4. \A m : m.child_pid = NoPid => Tended(vm, m, Reaped(proc, p))
    BY <2>1, <2>3 DEF Tended, NotOurs
  <2>5. MarkDead(ca).child_pid = NoPid /\ MarkDead(ca) \in Manager(CaStates)
    BY <1>0, ManagerType DEF MarkDead, CaStates
  <2>6. Tended(vm, ca', proc')
    <3>1. CASE ~StrikesUsedUp(MarkDead(ca))
      <4>1. PICK ok \in BOOLEAN : CaStart(MarkDead(ca), Reaped(proc, p), ok)
        BY <1>4, <3>1 DEF ReapCa
      <4>2. Reaped(proc, p) \in Table
        BY <1>0, ReapKeeps
      <4> QED  BY <2>4, <2>5, <4>1, <4>2, CaStartTended
    <3>2. CASE StrikesUsedUp(MarkDead(ca))
      <4>1. /\ SetState(MarkDead(ca), "Error").child_pid = NoPid
        BY DEF MarkDead, SetState
      <4> QED  BY <1>4, <2>4, <3>2, <4>1 DEF ReapCa
    <3> QED  BY <3>1, <3>2
  <2> QED  BY <1>0, <2>1, <2>2, <2>6 DEF NotYetStarted, CleanExit
<1>5. ASSUME NEW p \in Pids, ReapUnknown(p) PROVE QInv'
  <2>1. /\ UNCHANGED <<vm, ca, phase>> /\ pc' # "exited"
        /\ p \in Zombies /\ proc' = Reaped(proc, p)
    BY <1>5 DEF ReapUnknown, loop
  <2>2. \A q \in Pids : proc'[q] = IF q = p THEN NotOurs ELSE proc[q]
    BY <1>0, <2>1 DEF Reaped, Table
  <2> QED  BY <1>0, <2>1, <2>2 DEF Tended, NotOurs, NotYetStarted, CleanExit
<1>6. CASE HandleStartAll \/ HandleStartVm \/ HandleStartCa
  BY <1>6 DEF HandleStartAll, HandleStartVm, HandleStartCa, Handle, Quiet
<1>7. CASE HandleStopCa
  BY <1>0, <1>7, StopTended
  DEF HandleStopCa, Handle, CaStop, Stopped, Manager, NotYetStarted, CleanExit
<1>8. CASE HandleStopVm
  <2>1. VmStop(proc) /\ ca' = ca /\ phase' = phase /\ pc' # "exited"
    BY <1>8 DEF HandleStopVm, Handle
  <2>2. vm'.child_pid = NoPid /\ Tended(vm', ca, proc')
    BY <1>0, <2>1, StopTended DEF VmStop, Stopped, Manager
  <2> QED  BY <1>0, <2>1, <2>2 DEF NotYetStarted, CleanExit
<1>9. CASE HandleStopAll \/ Shutdown
  <2>1. /\ ca' = Stopped(ca) /\ phase' = phase
        /\ VmStop(GracefulKill(proc, ca.child_pid))
    BY <1>9 DEF HandleStopAll, Shutdown, Handle
  <2>2. vm'.child_pid = NoPid /\ ca'.child_pid = NoPid /\ ca'.state = "Idle"
    BY <1>0, <2>1 DEF VmStop, Stopped, Manager
  <2>3. LET procs == GracefulKill(proc, ca.child_pid)
        IN  /\ procs \in Table
            /\ VmOk(vm, procs) /\ CaOk(Stopped(ca), procs)
            /\ Tended(vm, Stopped(ca), procs)
    BY <1>0, KillKeeps, StoppedOk, StopTended
  <2>4. Tended(vm', ca', proc')
    BY <2>1, <2>3, StopTended DEF VmStop
  <2>5. \A p \in Pids : proc'[p].life # "running"
    BY <2>2, <2>4 DEF Tended
  <2> QED  BY <1>0, <2>1, <2>2, <2>4, <2>5 DEF NotYetStarted, CleanExit
<1>10. CASE StartupStep
  <2>1. AdvancePhase /\ pc' # "exited"
    BY <1>0, <1>10 DEF StartupStep, AdvanceStartup, IsDead, VmOk, CaOk
  <2>2. CASE Settled /\ UNCHANGED <<vm, ca, proc, pipe, phase>>
    BY <1>0, <2>1, <2>2 DEF Tended, NotYetStarted, CleanExit
  <2>3. CASE AdvanceVmStarting
    <3>1. PICK ok \in BOOLEAN : /\ VmStart(ok)
                                /\ phase' = IF ok THEN "BootDelay" ELSE "Failed"
      BY <2>3 DEF AdvanceVmStarting
    <3>2. Tended(vm', ca, proc')
      BY <1>0, <2>3, <3>1, VmStartTended DEF AdvanceVmStarting, NotYetStarted
    <3> QED
      BY <1>0, <2>1, <2>3, <3>1, <3>2
      DEF AdvanceVmStarting, NotYetStarted, CleanExit
  <2>4. CASE AdvanceBootDelay
    BY <1>0, <2>1, <2>4 DEF AdvanceBootDelay, Tended, NotYetStarted, CleanExit
  <2>5. CASE AdvanceWaitingVsock
    <3>1. vm'.child_pid = vm.child_pid
      BY <1>0, <2>5 DEF AdvanceWaitingVsock, SetState, Manager
    <3>2. /\ UNCHANGED <<ca, proc>>
          /\ phase' \in {"WaitingVsock", "CaStarting", "Failed"}
          /\ phase = "WaitingVsock"
      BY <2>5 DEF AdvanceWaitingVsock
    <3> QED
      BY <1>0, <2>1, <3>1, <3>2 DEF Tended, NotYetStarted, CleanExit
  <2>6. CASE AdvanceCaStarting
    <3>1. PICK ok \in BOOLEAN :
            /\ CaStart(ca, proc, ok)
            /\ phase' = IF ok THEN "WaitingCaPort" ELSE "Failed"
      BY <2>6 DEF AdvanceCaStarting
    <3>2. ca.child_pid = NoPid
      BY <1>0, <2>6 DEF AdvanceCaStarting, NotYetStarted, CaOk
    <3>3. Tended(vm, ca', proc')
      BY <1>0, <3>1, <3>2, CaStartTended
    <3> QED
      BY <1>0, <2>1, <2>6, <3>1, <3>3
      DEF AdvanceCaStarting, NotYetStarted, CleanExit
  <2>7. CASE AdvanceWaitingCaPort
    <3>1. ca'.child_pid = ca.child_pid
      BY <1>0, <2>7 DEF AdvanceWaitingCaPort, SetState, Manager
    <3>2. /\ UNCHANGED <<vm, proc>>
          /\ phase' \in {"WaitingCaPort", "Complete"}
      BY <2>7 DEF AdvanceWaitingCaPort
    <3> QED
      BY <1>0, <2>1, <3>1, <3>2 DEF Tended, NotYetStarted, CleanExit
  <2> QED
    BY <2>1, <2>2, <2>3, <2>4, <2>5, <2>6, <2>7 DEF AdvancePhase
<1>11. ASSUME NEW o \in Outcomes, HealthProbe(o) PROVE QInv'
  <2>1. /\ UNCHANGED <<vm, phase>> /\ pc' # "exited" /\ ca.state # "Idle"
    BY <1>11 DEF HealthProbe
  <2>2. Tended(vm, ca', proc')
    <3>1. CASE RestartNeeded(o)
      <4>1. PICK ok \in BOOLEAN :
              CaStart(Stopped(ca), GracefulKill(proc, ca.child_pid), ok)
        BY <1>11, <3>1 DEF HealthProbe
      <4>2. /\ Stopped(ca).child_pid = NoPid
            /\ Stopped(ca) \in Manager(CaStates)
        BY <1>0, ManagerType DEF Stopped, Manager, CaStates
      <4>3. /\ GracefulKill(proc, ca.child_pid) \in Table
            /\ Tended(vm, Stopped(ca), GracefulKill(proc, ca.child_pid))
        BY <1>0, KillKeeps, StopTended
      <4> QED  BY <4>1, <4>2, <4>3, CaStartTended
    <3>2. CASE ~RestartNeeded(o)
      BY <1>11, <3>2 DEF HealthProbe, Tended
    <3> QED  BY <3>1, <3>2
  <2> QED  BY <1>0, <2>1, <2>2 DEF NotYetStarted, CleanExit
<1>12. CASE ResetCrashCounts
  <2>1. /\ UNCHANGED <<proc, phase>> /\ pc' # "exited"
        /\ vm'.child_pid = vm.child_pid
        /\ ca'.child_pid = ca.child_pid /\ ca'.state = ca.state
    BY <1>0, <1>12 DEF ResetCrashCounts, kernel, MaybeResetCrashCount, Manager
  <2> QED  BY <1>0, <2>1 DEF Tended, NotYetStarted, CleanExit
<1> QED
  BY <1>1, <1>2, <1>3, <1>4, <1>5, <1>6, <1>7, <1>8, <1>9, <1>10, <1>11, <1>12
  DEF Next, Environment, Daemon, Reap, HandleCommand, Health, Exited

\* With nobody sending start commands, every VM or CA process that runs is
\* the one its manager will stop.
THEOREM QuietHasNoOrphans ==
  ASSUME Quiet
  PROVE  Spec => []NoOrphans
<1>1. QInv => NoOrphans
  BY DEF QInv, Tended, NoOrphans
<1> QED  BY <1>1, InitQInv, NextQInv, PTL DEF Spec

\* And when it has exited, none of them is left running.
THEOREM QuietExitsCleanly ==
  ASSUME Quiet
  PROVE  Spec => []CleanExit
<1>1. QInv => CleanExit
  BY DEF QInv
<1> QED  BY <1>1, InitQInv, NextQInv, PTL DEF Spec
=============================================================================
