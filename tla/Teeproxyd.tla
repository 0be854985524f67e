------------------------------ MODULE Teeproxyd ------------------------------
(***************************************************************************)
(* The daemon: the single-threaded main loop of src/src/main.rs, the IPC   *)
(* handlers of src/src/ipc.rs that change state, and around them the       *)
(* environment that acts at any moment: children that die, SIGTERM,        *)
(* clients, the clock.                                                     *)
(*                                                                         *)
(* pc is where the main loop is:                                           *)
(*   poll -> [sig -> [reap]] -> [client] -> startup -> health -> reset     *)
(* and back, or shutdown -> exited.                                        *)
(***************************************************************************)
EXTENDS Startup, HealthMonitor

CONSTANT Commands    \* the state-changing commands clients may send

AllCommands ==
  {"start_all", "stop_all", "start_vm", "stop_vm", "start_ca", "stop_ca"}

ASSUME CommandsAssumption == Commands \subseteq AllCommands

VARIABLES
  pc,        \* the next step of the main loop
  client,    \* poll() reported the listener readable in this iteration
  got        \* the bytes read from the pipe in this iteration

Pipe == INSTANCE SignalPipe

kernel == <<proc, pipe>>
loop   == <<pc, client, got>>
vars   == <<proc, pipe, vm, ca, phase, health, pc, client, got>>

Locations == {"poll", "sig", "reap", "client", "startup",
              "health", "reset", "shutdown", "exited"}

Init ==
  /\ proc = [p \in Pids |-> NotOurs]
  /\ pipe = {}
  /\ vm = New
  /\ ca = New
  /\ phase \in {"NotStarted", "VmStarting"}    \* config.auto_start
  /\ health = Healthy
  /\ pc = "poll"
  /\ client = FALSE
  /\ got = {}

-----------------------------------------------------------------------------
(* The environment.                                                        *)

(***************************************************************************)
(* A signal arrives: the handler writes one byte and the daemon goes on.   *)
(* If it arrives while poll() is blocked, which needs an empty pipe,       *)
(* poll() fails with EINTR, no revents are set and the byte waits for the  *)
(* next iteration.                                                         *)
(***************************************************************************)
Signal(byte) ==
  /\ pc # "exited"
  /\ Pipe!Arrive(byte)
  /\ \/ UNCHANGED <<pc, client>>
     \/ /\ pc = "poll" /\ pipe = {}
        /\ pc' = "startup"
        /\ UNCHANGED client

\* A child exits although nobody asked it to.
ChildCrashes(p) ==
  /\ proc[p].life = "running"
  /\ proc' = [proc EXCEPT ![p].life = "crashed"]
  /\ Signal("C")
  /\ UNCHANGED <<vm, ca, phase, health>>

\* A child the daemon signalled exits.
ChildExits(p) ==
  /\ proc[p].life = "dying"
  /\ proc' = [proc EXCEPT ![p].life = "killed"]
  /\ Signal("C")
  /\ UNCHANGED <<vm, ca, phase, health>>

\* SIGTERM or SIGINT.
Terminate ==
  /\ Signal("T")
  /\ UNCHANGED <<proc, vm, ca, phase, health>>

-----------------------------------------------------------------------------
(* The main loop, up to the startup state machine.                         *)

AfterSignals == IF client THEN "client" ELSE "startup"

\* poll() returns: the pipe is readable or not, a client waits or not.
Poll ==
  /\ pc = "poll"
  /\ client' \in BOOLEAN
  /\ pc' = IF pipe # {} THEN "sig" ELSE AfterSignals'
  /\ UNCHANGED <<kernel, vm, ca, phase, health, got>>

\* The read, and which of the two branches comes first.
ReadSignals ==
  /\ pc = "sig"
  /\ Pipe!Read
  /\ pc' = IF "C" \in got' THEN "reap" ELSE "shutdown"
  /\ UNCHANGED <<proc, vm, ca, phase, health, client>>

\* Fault variant: a child is restarted however often it has crashed.
StrikesUsedUp_Never(m) == FALSE

StrikesUsedUp(m) == m.crash_count >= CrashLimit

\* handle_child_death, first branch.
ReapVm(p) ==
  /\ pc = "reap"
  /\ p \in Zombies
  /\ p = vm.child_pid
  /\ proc' = Reaped(proc, p)
  /\ vm' = IF StrikesUsedUp(MarkDead(vm))
           THEN SetState(MarkDead(vm), "Error") ELSE MarkDead(vm)
  /\ UNCHANGED <<ca, pipe, phase, health, loop>>

\* handle_child_death, second branch: the CA is restarted on the spot.
ReapCa(p) ==
  /\ pc = "reap"
  /\ p \in Zombies
  /\ p # vm.child_pid /\ p = ca.child_pid
  /\ IF StrikesUsedUp(MarkDead(ca))
     THEN /\ ca' = SetState(MarkDead(ca), "Error")
          /\ proc' = Reaped(proc, p)
     ELSE \E ok \in BOOLEAN : CaStart(MarkDead(ca), Reaped(proc, p), ok)
  /\ UNCHANGED <<vm, pipe, phase, health, loop>>

\* handle_child_death, neither branch: reaped and forgotten.
ReapUnknown(p) ==
  /\ pc = "reap"
  /\ p \in Zombies \ {vm.child_pid, ca.child_pid}
  /\ proc' = Reaped(proc, p)
  /\ UNCHANGED <<vm, ca, pipe, phase, health, loop>>

\* Fault variant: reap_children handles one child and leaves its loop.
NoneToReap_Early == TRUE

\* waitpid: StillAlive or ECHILD.
NoneToReap == Zombies = {}

\* Fault variant: "else if got_term", so that a read of both forgets the T.
AfterReap_ForgetsTerm == AfterSignals

AfterReap == IF "T" \in got THEN "shutdown" ELSE AfterSignals

\* The loop of reap_children ends.
ReapDone ==
  /\ pc = "reap"
  /\ NoneToReap
  /\ pc' = AfterReap
  /\ Pipe!ActedOn
  /\ UNCHANGED <<proc, vm, ca, phase, health, client>>

-----------------------------------------------------------------------------
(* handle_client.  The answer of a command may fail to be written, which   *)
(* ends the connection.  ping, status, tail_log, unknown commands and      *)
(* malformed lines change nothing and are stuttering steps.                *)

Handle(cmd) ==
  /\ pc = "client"
  /\ cmd \in Commands
  /\ pc' \in {"client", "startup"}
  /\ UNCHANGED <<phase, health, client, got>>

HandleStartAll ==
  /\ Handle("start_all")
  /\ \E ok \in BOOLEAN : VmStart(ok)
  /\ UNCHANGED <<ca, pipe>>

HandleStopAll ==
  /\ Handle("stop_all")
  /\ ca' = Stopped(ca)
  /\ VmStop(GracefulKill(proc, ca.child_pid))

HandleStartVm ==
  /\ Handle("start_vm")
  /\ \E ok \in BOOLEAN : VmStart(ok)
  /\ UNCHANGED <<ca, pipe>>

HandleStopVm ==
  /\ Handle("stop_vm")
  /\ VmStop(proc)
  /\ UNCHANGED ca

HandleStartCa ==
  /\ Handle("start_ca")
  /\ \E ok \in BOOLEAN : CaStart(ca, proc, ok)
  /\ UNCHANGED <<vm, pipe>>

HandleStopCa ==
  /\ Handle("stop_ca")
  /\ CaStop
  /\ UNCHANGED <<vm, pipe>>

\* EOF, an I/O error, or five seconds without a line.
ClientGone ==
  /\ pc = "client"
  /\ pc' = "startup"
  /\ UNCHANGED <<kernel, vm, ca, phase, health, client, got>>

-----------------------------------------------------------------------------
(* The rest of the iteration, and the shutdown.                            *)

StartupStep ==
  /\ pc = "startup"
  /\ AdvanceStartup
  /\ pc' = "health"
  /\ client' = FALSE
  /\ UNCHANGED <<health, got>>

\* The interval has not elapsed, or the CA is not in a state to be probed.
HealthSkip ==
  /\ pc = "health"
  /\ pc' = "reset"
  /\ UNCHANGED <<kernel, vm, ca, phase, health, client, got>>

\* Fault variant: the CA is probed, and restarted, in whatever state it is.
CaIsUp_AnyState == TRUE

CaIsUp == ca.state \in {"Ready", "Running"}

\* Fault variant: the CA that failed its probes is not stopped first.
RestartCa_NoStop == \E ok \in BOOLEAN : CaStart(ca, proc, ok)

\* ca.stop() followed by ca.start().
RestartCa ==
  \E ok \in BOOLEAN : CaStart(Stopped(ca), GracefulKill(proc, ca.child_pid), ok)

HealthProbe(o) ==
  /\ pc = "health"
  /\ CaIsUp
  /\ Probe(o)
  /\ IF RestartNeeded(o) THEN RestartCa ELSE UNCHANGED <<ca, proc>>
  /\ pc' = "reset"
  /\ UNCHANGED <<vm, pipe, phase, client, got>>

ResetCrashCounts ==
  /\ pc = "reset"
  /\ \E v, c \in BOOLEAN : /\ vm' = MaybeResetCrashCount(vm, v)
                           /\ ca' = MaybeResetCrashCount(ca, c)
  /\ pc' = "poll"
  /\ UNCHANGED <<kernel, phase, health, client, got>>

\* Fault variant: only the CA is stopped.
Shutdown_CaOnly ==
  /\ pc = "shutdown"
  /\ CaStop
  /\ pc' = "exited"
  /\ UNCHANGED <<vm, pipe, phase, health, client, got>>

\* ca.stop(), vm.stop(), and main returns.
Shutdown ==
  /\ pc = "shutdown"
  /\ ca' = Stopped(ca)
  /\ VmStop(GracefulKill(proc, ca.child_pid))
  /\ pc' = "exited"
  /\ UNCHANGED <<phase, health, client, got>>

Exited == pc = "exited" /\ UNCHANGED vars

-----------------------------------------------------------------------------
Environment ==
  \/ \E p \in Pids : ChildCrashes(p) \/ ChildExits(p)
  \/ Terminate

Reap == \/ \E p \in Pids : ReapVm(p) \/ ReapCa(p) \/ ReapUnknown(p)
        \/ ReapDone

HandleCommand == \/ HandleStartAll \/ HandleStopAll
                 \/ HandleStartVm \/ HandleStopVm
                 \/ HandleStartCa \/ HandleStopCa

Health == HealthSkip \/ \E o \in Outcomes : HealthProbe(o)

Daemon == \/ Poll \/ ReadSignals \/ Reap
          \/ ClientGone \/ StartupStep \/ Health \/ ResetCrashCounts
          \/ Shutdown

Next == Environment \/ Daemon \/ HandleCommand \/ Exited

Spec == Init /\ [][Next]_vars

(***************************************************************************)
(* Fairness.                                                               *)
(*  - The daemon's thread is scheduled.                                    *)
(*  - A child that was sent SIGKILL exits.                                 *)
(*  - A client hangs up or falls silent for five seconds in the end; the   *)
(*    daemon has no other way out of a connection.                         *)
(*  - The clock moves: a phase that waits sees its deadline pass.          *)
(*  - The pipe is a FIFO, so a byte is not passed over forever.            *)
(***************************************************************************)
Fairness ==
  /\ WF_vars(Daemon)
  /\ \A p \in Pids : WF_vars(ChildExits(p))
  /\ WF_vars(ClientGone)
  /\ SF_vars(StartupStep /\ DeadlinePasses)
  /\ SF_vars(ReadSignals /\ "T" \in got')

FairSpec == Spec /\ Fairness

-----------------------------------------------------------------------------
(* Properties.                                                             *)

\* Every variable stays in its type.
TypeOK ==
  /\ proc \in [Pids -> Proc]
  /\ pipe \in SUBSET {"C", "T"}
  /\ vm \in Manager(VmStates)
  /\ ca \in Manager(CaStates)
  /\ phase \in Phases
  /\ health \in [failures : 0..FailThreshold, timeouts : 0..TimeoutThreshold]
  /\ pc \in Locations
  /\ client \in BOOLEAN
  /\ got \in SUBSET {"C", "T"}

(***************************************************************************)
(* A recorded child_pid names the manager's own child, not yet reaped.     *)
(* kill() and owns_pid() therefore never hit a pid that the kernel has     *)
(* given to somebody else, and a death is charged to the right manager.    *)
(***************************************************************************)
OwnedIsOurs ==
  /\ vm.child_pid # NoPid => proc[vm.child_pid].kind = "vm"
  /\ ca.child_pid # NoPid => proc[ca.child_pid].kind = "ca"

(***************************************************************************)
(* A child the daemon has signalled is nobody's child_pid any more: its    *)
(* death, reaped later, never counts as a crash and never makes            *)
(* handle_child_death restart what was just stopped.                       *)
(***************************************************************************)
StopIsNotACrash ==
  /\ vm.child_pid # NoPid => proc[vm.child_pid].life \in {"running", "crashed"}
  /\ ca.child_pid # NoPid => proc[ca.child_pid].life \in {"running", "crashed"}

(***************************************************************************)
(* No death is missed: while there is a zombie, a "C" waits in the pipe or *)
(* reap_children is still looping.  Signals coalesce in the pipe and a     *)
(* read may take them before the child they stand for is reaped.           *)
(***************************************************************************)
NoLostDeath == Zombies # {} => "C" \in pipe \/ pc = "reap"

(***************************************************************************)
(* The states that claim a live child have one that is not reaped yet, and *)
(* the resting states have none.  (Ready claims nothing: a probe answered  *)
(* by somebody else's server sets it without a child.)                     *)
(***************************************************************************)
StateMatchesChild ==
  /\ vm.state = "Booting" => vm.child_pid # NoPid
  /\ ca.state = "Running" => ca.child_pid # NoPid
  /\ vm.state \in {"Idle", "Error"} => vm.child_pid = NoPid
  /\ ca.state \in {"Idle", "Error"} => ca.child_pid = NoPid

(***************************************************************************)
(* Every VM or CA process that runs is the one its manager will stop: no   *)
(* orphan competes for the vsock CID or the port.  Holds for operators     *)
(* that only ever stop things: start() does not look at child_pid.         *)
(***************************************************************************)
NoOrphans ==
  \A p \in Pids :
    proc[p].life = "running" =>
      IF proc[p].kind = "vm" THEN p = vm.child_pid ELSE p = ca.child_pid

(***************************************************************************)
(* The loop of reap_children restarts the CA it has just reaped, so that   *)
(* every round can make the zombie of the next.  It uses itself up all the *)
(* same: each round, and each exit of a child during it, takes from the    *)
(* work that is left, which no restart adds to by more than the strike it  *)
(* costs.  (A child that lives counts two, a zombie one, a strike two.)    *)
(***************************************************************************)
Work == 2 * (CrashLimit - ca.crash_count)
        + (Cardinality({p \in Pids : IsAlive(p)})
           + Cardinality({p \in Pids : proc[p].life \in {"running", "dying"}}))

ReapProgress ==
  [][pc = "reap" /\ pc' = "reap" =>
       Work' \in 0..(Work - 1) \/ UNCHANGED <<vm, ca, proc>>]_vars

\* When the daemon has exited, no pvm-manage and no CA is left running behind
\* it.  (What a pvm-manage leaves running below itself is in module VmTree.)
CleanExit == pc = "exited" => \A p \in Pids : proc[p].life # "running"

(***************************************************************************)
(* The startup keeps the order of module StartupOrder: no interleaving of  *)
(* deaths, commands and deadlines launches the CA before the VM of this    *)
(* startup has answered, or takes a phase back while the child is there.   *)
(***************************************************************************)
Order == INSTANCE StartupOrder WITH vmState <- vm.state, caState <- ca.state
StartupInOrder == Order!Spec

-----------------------------------------------------------------------------
(* Liveness, under FairSpec.                                               *)

\* A zombie is reaped, unless the daemon exits.
ZombiesAreReaped ==
  \A p \in Pids : p \in Zombies ~> (p \notin Zombies \/ pc = "exited")

\* A crash loop of the CA cannot keep the daemon inside reap_children.
ReapTerminates == pc = "reap" ~> pc # "reap"

\* SIGTERM ends the daemon, whatever dies, connects or crashes meanwhile.
TermExits == "T" \in pipe ~> pc = "exited"

\* The startup settles: Complete or Failed, unless the daemon exits.
StartupSettles == ~Settled ~> (Settled \/ pc = "exited")
=============================================================================
