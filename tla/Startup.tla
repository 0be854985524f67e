-------------------------------- MODULE Startup --------------------------------
(***************************************************************************)
(* The startup state machine (src/src/startup.rs): advance_startup is one  *)
(* non-blocking step, called once in every iteration of the main loop.     *)
(*                                                                         *)
(* WaitingVsock is two phases here: BootDelay while delay_done is false,   *)
(* WaitingVsock once it is true.  Whether a deadline has passed, and what  *)
(* a probe answers, are choices of the environment.                        *)
(***************************************************************************)
EXTENDS Managers

VARIABLE phase

Phases == {"NotStarted", "VmStarting", "BootDelay", "WaitingVsock",
           "CaStarting", "WaitingCaPort", "Complete", "Failed"}

Settled == phase \in {"NotStarted", "Complete", "Failed"}

\* StartupPhase::VmStarting: launch the VM.
AdvanceVmStarting ==
  /\ phase = "VmStarting"
  /\ \E ok \in BOOLEAN : /\ VmStart(ok)
                         /\ phase' = IF ok THEN "BootDelay" ELSE "Failed"
  /\ UNCHANGED <<ca, pipe>>

\* WaitingVsock, !delay_done: only look at the clock.
AdvanceBootDelay ==
  /\ phase = "BootDelay"
  /\ phase' \in {"BootDelay", "WaitingVsock"}
  /\ UNCHANGED <<vm, ca, proc, pipe>>

\* Fault variant: the VM is probed for ever.
VsockTimesOut_Never == FALSE

\* Fault variant: the deadline ends the wait, as it does for the CA's port.
VsockTimesOut_CarriesOn == phase' = "CaStarting" /\ UNCHANGED <<vm, pipe>>

VsockTimesOut == phase' = "Failed" /\ UNCHANGED <<vm, pipe>>

\* WaitingVsock, delay_done: give up after the deadline, else probe.
AdvanceWaitingVsock ==
  /\ phase = "WaitingVsock"
  /\ \/ VsockTimesOut
     \/ /\ HelperExited
        /\ \/ UNCHANGED <<vm, phase>>
           \/ vm' = SetState(vm, "Ready") /\ phase' = "CaStarting"
  /\ UNCHANGED <<ca, proc>>

\* CaStarting: launch the CA.
AdvanceCaStarting ==
  /\ phase = "CaStarting"
  /\ \E ok \in BOOLEAN : /\ CaStart(ca, proc, ok)
                         /\ phase' = IF ok THEN "WaitingCaPort" ELSE "Failed"
  /\ UNCHANGED <<vm, pipe>>

\* WaitingCaPort: the port accepts, or it does not and the deadline has
\* passed (complete all the same), or it does not yet.
AdvanceWaitingCaPort ==
  /\ phase = "WaitingCaPort"
  /\ \/ /\ ca' = SetState(ca, "Ready")
        /\ phase' = "Complete"
     \/ /\ phase' \in {"Complete", "WaitingCaPort"}
        /\ UNCHANGED ca
  /\ UNCHANGED <<vm, proc, pipe>>

\* The steps that only the clock decides on.
DeadlinePasses ==
  \/ phase = "BootDelay" /\ phase' = "WaitingVsock"
  \/ phase = "WaitingVsock" /\ phase' = "Failed"
  \/ phase = "WaitingCaPort" /\ phase' = "Complete" /\ UNCHANGED ca

AdvancePhase ==
  \/ Settled /\ UNCHANGED <<vm, ca, proc, pipe, phase>>
  \/ AdvanceVmStarting
  \/ AdvanceBootDelay
  \/ AdvanceWaitingVsock
  \/ AdvanceCaStarting
  \/ AdvanceWaitingCaPort

\* A manager reports its child dead: go back, or give up after CrashLimit.
ResetPhase(m, again) ==
  /\ phase' = IF m.crash_count < CrashLimit THEN again ELSE "Failed"
  /\ UNCHANGED <<vm, ca, proc, pipe>>

AdvanceStartup ==
  IF IsDead(vm) /\ ~Settled THEN ResetPhase(vm, "VmStarting")
  ELSE IF IsDead(ca) /\ phase = "WaitingCaPort" THEN ResetPhase(ca, "CaStarting")
  ELSE AdvancePhase
=============================================================================
