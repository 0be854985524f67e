------------------------------- MODULE Claims -------------------------------
(***************************************************************************)
(* What the repository says of the daemon, in comments, log messages and   *)
(* documents, and the code does not do.  Each property quotes its source;  *)
(* each has a run in which TLC finds a behaviour that violates it.         *)
(***************************************************************************)
EXTENDS Teeproxyd

(***************************************************************************)
(* main.rs:230, after vm.mark_dead(): "Startup state machine will handle   *)
(* restart on next advance_startup()"; INTEGRATION.md:128 says the same,   *)
(* up to five times.                                                       *)
(*                                                                         *)
(* A VM that died and has strikes left is started again.                   *)
(***************************************************************************)
VmIsRestarted ==
  (vm.state = "Idle" /\ vm.crash_count \in 1..(CrashLimit - 1))
    ~> (vm.state = "Booting" \/ pc = "exited")

(***************************************************************************)
(* README.md:82: "per-process crash_count with 5-strike threshold, reset   *)
(* after 60s stable".                                                      *)
(*                                                                         *)
(* If one CA process runs for good, the strikes against the CA are reset.  *)
(***************************************************************************)
CaStableAs(p) == ca.child_pid = p /\ proc[p].life = "running"

StrikesAreForgiven ==
  \A p \in Pids : <>[]CaStableAs(p) => []<>(ca.crash_count = 0)

\* The clock moves: a CA that became ready has been so for 60 s in the end.
ClockSpec ==
  /\ FairSpec
  /\ SF_vars(ResetCrashCounts /\ ca' = MaybeResetCrashCount(ca, TRUE))
=============================================================================
