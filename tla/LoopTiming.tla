----------------------------- MODULE LoopTiming -----------------------------
(***************************************************************************)
(* The main loop and the startup in time (src/src/main.rs, startup.rs):    *)
(* the poll timeout, the deadlines and the health interval, which module   *)
(* Teeproxyd leaves to the environment.                                    *)
(*                                                                         *)
(* An Instant is kept as its age, what elapsed() returns: every reading of *)
(* the clock in the code is a comparison of an age with a Duration.  Time  *)
(* passes in poll(), and in the handlers, for up to MaxWork each.  The     *)
(* startup only moves forward, as TeeproxydProofs shows of the daemon.     *)
(***************************************************************************)
EXTENDS Integers

CONSTANTS
  PollMin, PollMax,                \* the clamp: 100 ms, 10 s
  BootPoll, VsockPoll, CaPoll,     \* 1000, 2000, 500 ms
  Delay,                           \* vsock_probe_delay_secs
  BootTimeout,                     \* vm_boot_timeout_secs
  CaTimeout,                       \* ca_ready_timeout_secs
  HealthInterval,                  \* health_interval_secs
  MaxWork,                         \* the longest that one handler takes
  Half,                            \* 2^31: i32 is -Half .. Half - 1
  Width                            \* u64 arithmetic is modulo Width

ASSUME PollAssumption ==
  /\ PollMin \in Nat \ {0} /\ PollMax \in Nat /\ PollMin <= PollMax
  /\ BootPoll \in PollMin..PollMax
  /\ VsockPoll \in PollMin..PollMax
  /\ CaPoll \in PollMin..PollMax

ASSUME TimeAssumption ==
  /\ Delay \in Nat /\ BootTimeout \in Nat /\ CaTimeout \in Nat
  /\ HealthInterval \in Nat /\ MaxWork \in Nat
  /\ Half \in Nat \ {0} /\ Width \in Nat \ {0}

VARIABLES
  at,           \* "poll", "serve" (signals and client), "startup", "health"
  phase,        \* StartupPhase; "BootDelay" is WaitingVsock before delay_done
  waited,       \* age of boot_start, or of the CA's start; 0 in other phases
  last_health,  \* age of last_health
  probed        \* vsock has been probed since boot_start

timeVars == <<at, phase, waited, last_health, probed>>

Waiting == {"BootDelay", "WaitingVsock", "WaitingCaPort"}
Phases  == {"NotStarted", "VmStarting", "CaStarting", "Complete", "Failed"} \cup Waiting

Init ==
  /\ at = "poll"
  /\ phase \in {"NotStarted", "VmStarting"}
  /\ waited = 0 /\ last_health = 0 /\ probed = FALSE

-----------------------------------------------------------------------------
(* poll().                                                                 *)

\* Fault variant: without a startup the loop sleeps as long as it may.
UntilHealth_Longest == PollMax

\* saturating_sub, in milliseconds.
UntilHealth == IF last_health < HealthInterval THEN HealthInterval - last_health ELSE 0

\* `as i32` keeps the low 32 bits.
AsI32(n) == ((n + Half) % (2 * Half)) - Half

Clamp(ms) == LET low == IF ms < PollMin THEN PollMin ELSE ms
             IN  IF low > PollMax THEN PollMax ELSE low

PollTimeout ==
  Clamp(CASE phase = "BootDelay"     -> BootPoll
          [] phase = "WaitingVsock"  -> VsockPoll
          [] phase = "WaitingCaPort" -> CaPoll
          [] OTHER                   -> AsI32(UntilHealth))

\* d time units pass; the phase is the one the step ends in.
Passes(d) ==
  /\ last_health' = last_health + d
  /\ waited' = IF phase' \in Waiting THEN waited + d ELSE 0

\* It returns at the timeout, or before it for a client or a signal.
Poll ==
  /\ at = "poll" /\ at' = "serve"
  /\ UNCHANGED <<phase, probed>>
  /\ \E d \in 0..PollTimeout : Passes(d)

\* read, reap_children, accept, handle_client.
ServeOthers ==
  /\ at = "serve" /\ at' = "startup"
  /\ UNCHANGED <<phase, probed>>
  /\ \E d \in 0..MaxWork : Passes(d)

-----------------------------------------------------------------------------
(* advance_startup: d is what start(), a probe or nothing at all takes.    *)

\* Both clocks start after vm.start() or ca.start() has returned.
StartClock(next, d) ==
  /\ phase' = next
  /\ waited' = 0
  /\ last_health' = last_health + d

StartVm(d) ==
  /\ phase = "VmStarting"
  /\ StartClock("BootDelay", d) \/ (phase' = "Failed" /\ Passes(d))
  /\ probed' = FALSE

AwaitDelay(d) ==
  /\ phase = "BootDelay"
  /\ phase' = IF waited >= Delay THEN "WaitingVsock" ELSE "BootDelay"
  /\ Passes(d)
  /\ UNCHANGED probed

\* Fault variant: the deadline leaves the delay out.
VsockWait_NoDelay == BootTimeout % Width

\* deadline - boot_start: a u64 addition, unchecked in the release build.
VsockWait == (Delay + BootTimeout) % Width

\* Fault variant: the deadline is counted from the end of the delay.
VsockOver_DelayTwice == waited > VsockWait + Delay

VsockOver == waited > VsockWait

\* The deadline is looked at before the probe, and the probe takes time.
AwaitVsock(d) ==
  /\ phase = "WaitingVsock"
  /\ IF VsockOver
     THEN phase' = "Failed" /\ UNCHANGED probed
     ELSE phase' \in {"WaitingVsock", "CaStarting"} /\ probed' = TRUE
  /\ Passes(d)

StartCa(d) ==
  /\ phase = "CaStarting"
  /\ StartClock("WaitingCaPort", d) \/ (phase' = "Failed" /\ Passes(d))
  /\ UNCHANGED probed

\* The port is probed first; the deadline is looked at after that.
AwaitCaPort(d) ==
  /\ phase = "WaitingCaPort"
  /\ phase' \in IF waited + d > CaTimeout THEN {"Complete"}
                ELSE {"WaitingCaPort", "Complete"}
  /\ Passes(d)
  /\ UNCHANGED probed

Rest(d) ==
  /\ phase \in {"NotStarted", "Complete", "Failed"}
  /\ UNCHANGED <<phase, probed>>
  /\ Passes(d)

AdvanceStartup ==
  /\ at = "startup" /\ at' = "health"
  /\ \E d \in 0..MaxWork : \/ StartVm(d) \/ AwaitDelay(d) \/ AwaitVsock(d)
                           \/ StartCa(d) \/ AwaitCaPort(d) \/ Rest(d)

-----------------------------------------------------------------------------
\* last_health is taken after the probe and the restart; no check, no time.
CheckHealth ==
  /\ at = "health" /\ at' = "poll"
  /\ UNCHANGED <<phase, probed>>
  /\ IF last_health >= HealthInterval
     THEN /\ last_health' = 0
          /\ \E d \in 0..MaxWork : waited' = IF phase \in Waiting THEN waited + d ELSE 0
     ELSE UNCHANGED <<last_health, waited>>

Next == Poll \/ ServeOthers \/ AdvanceStartup \/ CheckHealth

Spec == Init /\ [][Next]_timeVars

-----------------------------------------------------------------------------
(* Properties.                                                             *)

\* Every variable stays in its type.
TypeOK ==
  /\ at \in {"poll", "serve", "startup", "health"}
  /\ phase \in Phases
  /\ waited \in Nat /\ last_health \in Nat /\ probed \in BOOLEAN

\* The longest sleep that does not look at the health interval.
LongestNap == CHOOSE n \in {PollMin, BootPoll, VsockPoll, CaPoll} :
                \A m \in {PollMin, BootPoll, VsockPoll, CaPoll} : m <= n

(***************************************************************************)
(* A health check is late by at most one short sleep and two handlers,     *)
(* whatever the startup waits for, and although the interval does not fit  *)
(* into the i32 that poll() is given.                                      *)
(***************************************************************************)
HealthOnTime == last_health <= HealthInterval + LongestNap + 2 * MaxWork

\* One iteration: a sleep of n and three handlers.
Iteration(n) == n + 3 * MaxWork

\* The phases are left this late at most.
BootDelayEnd == Delay + Iteration(BootPoll)
VsockEnd     == (IF BootDelayEnd > VsockWait THEN BootDelayEnd ELSE VsockWait)
                  + Iteration(VsockPoll)
CaPortEnd    == CaTimeout + Iteration(CaPoll)

(***************************************************************************)
(* No phase outstays its deadline by more than one iteration: slow probes, *)
(* clients and health checks delay a deadline, they do not add up.         *)
(***************************************************************************)
DeadlinesKept ==
  /\ phase = "BootDelay"     => waited <= BootDelayEnd
  /\ phase = "WaitingVsock"  => waited <= VsockEnd
  /\ phase = "WaitingCaPort" => waited <= CaPortEnd

\* The configured timeout leaves room for two iterations, and does not wrap.
Patient == /\ BootTimeout >= Iteration(BootPoll) + Iteration(VsockPoll)
           /\ Delay + BootTimeout < Width

(***************************************************************************)
(* A patient configuration never gives up on a VM without having probed    *)
(* it: the deadline is looked at before the probe, and the iterations      *)
(* between the end of the delay and the first probe may be slow.           *)
(***************************************************************************)
ProbedBeforeGivingUp ==
  [][phase = "WaitingVsock" /\ phase' = "Failed" => probed = TRUE]_timeVars
=============================================================================
