----------------------------- MODULE StartupOrder -----------------------------
(***************************************************************************)
(* What the startup promises, whatever the children, the operator and the  *)
(* clock do: "VmStarting -> WaitingVsock -> CaStarting -> WaitingCaPort -> *)
(* Complete" (README.md, Architecture).  No phase is skipped; the CA's     *)
(* phases begin only in the step that finds the VM answering; the way back *)
(* is taken only when the manager concerned has lost its child, to that    *)
(* manager's first phase (startup.rs:31-49, main.rs:230); and a startup    *)
(* that was not asked for or has failed never moves again.                 *)
(***************************************************************************)
VARIABLES
  phase,
  vmState, caState    \* what the managers say

Follows ==
  { <<"VmStarting", "BootDelay">>,     <<"VmStarting", "Failed">>,
    <<"BootDelay", "WaitingVsock">>,   <<"WaitingVsock", "Failed">>,
    <<"CaStarting", "WaitingCaPort">>, <<"CaStarting", "Failed">>,
    <<"WaitingCaPort", "Complete">> }

Init == phase \in {"NotStarted", "VmStarting"}

VmAnswers ==
  /\ phase = "WaitingVsock" /\ phase' = "CaStarting"
  /\ vmState' = "Ready"

VmLost ==
  /\ vmState \in {"Idle", "Error"}
  /\ phase \notin {"NotStarted", "Failed"}
  /\ phase' \in {"VmStarting", "Failed"}

CaLost ==
  /\ caState \in {"Idle", "Error"}
  /\ phase = "WaitingCaPort"
  /\ phase' \in {"CaStarting", "Failed"}

Next == <<phase, phase'>> \in Follows \/ VmAnswers \/ VmLost \/ CaLost

Spec == Init /\ [][Next]_phase
=============================================================================
