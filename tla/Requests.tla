------------------------------ MODULE Requests ------------------------------
(***************************************************************************)
(* The daemon with the history of what it has been asked for, by clients   *)
(* (src/src/ipc.rs) and by SIGTERM.  The history restrains nothing; it     *)
(* tells a manager that was stopped from one whose child has crashed,      *)
(* which the manager's own fields do not.                                  *)
(***************************************************************************)
EXTENDS Teeproxyd

VARIABLES
  stopped,    \* what a client has stopped, after the startup had settled,
              \* and none has asked to start since
  asked       \* SIGTERM or SIGINT has arrived

requests == <<stopped, asked>>

RequestsInit == Init /\ stopped = {} /\ asked = FALSE

Stops(kinds) ==
  /\ stopped' = IF Settled THEN stopped \cup kinds ELSE stopped
  /\ UNCHANGED asked

Starts(kinds) == stopped' = stopped \ kinds /\ UNCHANGED asked

RequestsNext ==
  \/ Terminate /\ asked' = TRUE /\ UNCHANGED stopped
  \/ HandleStopAll /\ Stops(Kinds)
  \/ HandleStopVm /\ Stops({"vm"})
  \/ HandleStopCa /\ Stops({"ca"})
  \/ HandleStartAll /\ Starts(Kinds)
  \/ HandleStartVm /\ Starts({"vm"})
  \/ HandleStartCa /\ Starts({"ca"})
  \/ (\E p \in Pids : ChildCrashes(p) \/ ChildExits(p)) /\ UNCHANGED requests
  \/ (Daemon \/ Exited) /\ UNCHANGED requests

RequestsSpec == RequestsInit /\ [][RequestsNext]_<<vars, requests>>

\* The daemon's own fairness, as in FairSpec.
FairRequestsSpec == RequestsSpec /\ Fairness

-----------------------------------------------------------------------------
(***************************************************************************)
(* What a client has stopped stays at rest until a client asks for it: the *)
(* late death of the stopped child, perhaps with the pid of its successor, *)
(* is not taken for a crash that reap_children answers with a restart, and *)
(* the health check does not revive it.  (A stop during the startup is     *)
(* undone by the startup, and is not in this history.)                     *)
(***************************************************************************)
StoppedStaysStopped ==
  /\ "vm" \in stopped => vm.state = "Idle" /\ vm.child_pid = NoPid
  /\ "ca" \in stopped => ca.state = "Idle" /\ ca.child_pid = NoPid

(***************************************************************************)
(* SIGTERM is not lost: from its arrival to the shutdown it is in the pipe *)
(* or among what was read and not acted on.  It may arrive in a poll() it  *)
(* interrupts, be read together with the SIGCHLDs that reap_children works *)
(* off first, or stay behind such a read.                                  *)
(***************************************************************************)
NoLostTerm ==
  asked /\ pc \notin {"shutdown", "exited"} => "T" \in pipe \cup got
=============================================================================
