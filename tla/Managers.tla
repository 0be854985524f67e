------------------------------- MODULE Managers -------------------------------
(***************************************************************************)
(* VmManager (src/src/vm.rs) and CaManager (src/src/ca.rs).                *)
(*                                                                         *)
(* Both keep the same four fields; methods that only touch them are        *)
(* functions on the record, start and stop also change the process table.  *)
(* ready_since is TRUE for Some(instant): how long ago is the              *)
(* nondeterministic choice of the step that reads it.                      *)
(***************************************************************************)
EXTENDS Naturals, Processes

CONSTANT CrashLimit    \* strikes before ERROR; 5 in main.rs

ASSUME CrashLimitAssumption == CrashLimit \in Nat \ {0}

VARIABLES vm, ca

VmStates == {"Idle", "Starting", "Booting", "Ready", "Stopping", "Error"}
CaStates == {"Idle", "Starting", "Running", "Ready", "Stopping", "Error"}

Manager(states) ==
  [state : states, child_pid : Pids \cup {NoPid},
   crash_count : 0..CrashLimit, ready_since : BOOLEAN]

New == [state |-> "Idle", child_pid |-> NoPid,
        crash_count |-> 0, ready_since |-> FALSE]

SetState(m, s) == [m EXCEPT !.state = s, !.ready_since = @ \/ s = "Ready"]

IsDead(m) ==
  /\ m.state \in {"Idle", "Error"}
  /\ m.child_pid # NoPid
  /\ ~IsAlive(m.child_pid)

\* Fault variant: child_pid is left behind.
MarkDead_KeepsPid(m) ==
  [m EXCEPT !.state = "Idle", !.ready_since = FALSE,
            !.crash_count = IF @ < CrashLimit THEN @ + 1 ELSE @]

(***************************************************************************)
(* mark_dead.  crash_count is a u32 that is only ever compared with        *)
(* CrashLimit, so it is kept at CrashLimit once it gets there.             *)
(***************************************************************************)
MarkDead(m) ==
  [state |-> "Idle", child_pid |-> NoPid, ready_since |-> FALSE,
   crash_count |-> IF m.crash_count < CrashLimit THEN m.crash_count + 1
                                                  ELSE m.crash_count]

\* maybe_reset_crash_count; stable: ready_since was at least 60 s ago.
MaybeResetCrashCount(m, stable) ==
  IF m.ready_since /\ stable THEN [m EXCEPT !.crash_count = 0] ELSE m

\* Fault variant: child_pid is read instead of taken.
Stopped_KeepsPid(m) == [m EXCEPT !.state = "Idle", !.ready_since = FALSE]

\* The fields after stop(); Stopping is overwritten before anyone can look.
Stopped(m) ==
  [m EXCEPT !.state = "Idle", !.child_pid = NoPid, !.ready_since = FALSE]

(***************************************************************************)
(* start(), called when the process table is procs: the result ok, then    *)
(* the fields and the table.  Neither start looks at child_pid first.      *)
(*   - an image or the binary is missing: nothing changes;                 *)
(*   - the spawn fails: the state stays Starting;                          *)
(*   - a child is spawned and recorded.                                    *)
(***************************************************************************)
VmStart(ok) ==
  \/ /\ ~ok
     /\ vm' \in {vm, [vm EXCEPT !.state = "Starting"]}
     /\ UNCHANGED proc
  \/ /\ ok
     /\ \E p \in FreePids(proc) :
          /\ vm' = [vm EXCEPT !.state = "Booting", !.child_pid = p]
          /\ proc' = Spawned(proc, p, "vm")

\* Fault variant: Running is set before the spawn is known to succeed.
CaStart_RunningEarly(m, procs, ok) ==
  \/ /\ ~ok
     /\ ca' \in {m, [m EXCEPT !.state = "Running"]}
     /\ proc' = procs
  \/ /\ ok
     /\ \E p \in FreePids(procs) :
          /\ ca' = [m EXCEPT !.state = "Running", !.child_pid = p]
          /\ proc' = Spawned(procs, p, "ca")

CaStart(m, procs, ok) ==
  \/ /\ ~ok
     /\ ca' \in {m, [m EXCEPT !.state = "Starting"]}
     /\ proc' = procs
  \/ /\ ok
     /\ \E p \in FreePids(procs) :
          /\ ca' = [m EXCEPT !.state = "Running", !.child_pid = p]
          /\ proc' = Spawned(procs, p, "ca")

\* stop() of both managers; vm.stop also runs pkill, if it had a child.
CaStop == /\ ca' = Stopped(ca)
          /\ proc' = GracefulKill(proc, ca.child_pid)

VmStop(procs) == /\ vm' = Stopped(vm)
                 /\ proc' = GracefulKill(procs, vm.child_pid)
                 /\ IF vm.child_pid # NoPid THEN HelperExited ELSE UNCHANGED pipe
=============================================================================
