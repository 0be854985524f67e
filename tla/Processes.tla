------------------------------ MODULE Processes ------------------------------
(***************************************************************************)
(* The daemon's children as the kernel sees them, and the self-pipe.       *)
(*                                                                         *)
(* src/src/process.rs spawns a child (spawn_with_log), asks whether a pid  *)
(* exists (is_alive) and kills one (graceful_kill, kill_tree).  Children   *)
(* are reaped by waitpid in main.rs and nowhere else, so a child that has  *)
(* exited stays a zombie, and kill(pid, 0) succeeds on it, until the main  *)
(* loop reaps it; after that the kernel may give the pid to anybody.       *)
(*                                                                         *)
(* Operators take the process table as an argument, so that a handler      *)
(* which kills one child and spawns another is one action.                 *)
(***************************************************************************)
EXTENDS FiniteSets

CONSTANTS
  Pids,    \* the pids the kernel can hand out
  NoPid    \* child_pid = None

ASSUME PidAssumption == NoPid \notin Pids

ASSUME FinitePidsAssumption == IsFiniteSet(Pids)

VARIABLES
  proc,    \* [Pids -> Proc]: which child of ours, if any, a pid names
  pipe     \* the kinds of bytes waiting in the self-pipe: "C", "T"

Kinds == {"vm", "ca"}

(***************************************************************************)
(*   running  executing                                                    *)
(*   dying    sent SIGKILL (or SIGTERM and about to exit), not yet exited  *)
(*   crashed  zombie that exited although the daemon never signalled it    *)
(*   killed   zombie that exited after the daemon signalled it             *)
(***************************************************************************)
Lives == {"running", "dying", "crashed", "killed"}

\* The pid is free, or belongs to a process that is not the daemon's child.
NotOurs == [kind |-> "none", life |-> "none"]

Proc == {NotOurs} \cup [kind : Kinds, life : Lives]

\* Zombies: what waitpid(None, WNOHANG) can return.
Zombies == {p \in Pids : proc[p].life \in {"crashed", "killed"}}

RunningOf(k) == {p \in Pids : proc[p] = [kind |-> k, life |-> "running"]}

(***************************************************************************)
(* is_alive: kill(pid, 0).  True for a zombie.  For a pid that is not ours *)
(* the kernel's answer depends on strangers; the daemon never asks it then *)
(* (invariant OwnedIsOurs of module Teeproxyd).                            *)
(***************************************************************************)
IsAlive(p) == proc[p] # NotOurs

\* spawn_with_log succeeded: the kernel hands out any pid that is not taken
\* by a child of ours, one reaped a moment ago included.
FreePids(procs) == {p \in Pids : procs[p] = NotOurs}
Spawned(procs, p, k) ==
  [procs EXCEPT ![p] = [kind |-> k, life |-> "running"]]

(***************************************************************************)
(* graceful_kill: SIGTERM, wait up to the grace period, SIGKILL, 100 ms.   *)
(* A zombie is unaffected.  A running child may have exited when the call  *)
(* returns, or not yet: the exit is the step ChildExits of the child,      *)
(* which may come before the daemon's next step or later.                  *)
(***************************************************************************)
GracefulKill(procs, p) ==
  IF p # NoPid /\ procs[p].life = "running"
  THEN [procs EXCEPT ![p].life = "dying"]
  ELSE procs

\* waitpid returned p: the zombie is gone and the pid may be reused.
Reaped(procs, p) == [procs EXCEPT ![p] = NotOurs]

(***************************************************************************)
(* SIGCHLD of a helper (vsock-test, pkill) that the daemon itself waits    *)
(* for with Command::output/status: nothing to reap, but the handler has   *)
(* put a byte into the pipe.                                               *)
(***************************************************************************)
HelperExited == pipe' = pipe \cup {"C"}
=============================================================================
