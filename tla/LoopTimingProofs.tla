-------------------------- MODULE LoopTimingProofs --------------------------
(***************************************************************************)
(* Proofs about LoopTiming, for every interval, timeout and poll length.   *)
(* The inductive invariants bound the two ages at each place of the loop:  *)
(* what may have passed since the last time the code looked at them.       *)
(***************************************************************************)
EXTENDS LoopTiming, TLAPS

USE PollAssumption, TimeAssumption

\* A remainder is not larger than what is divided.
LEMMA ModBelow ==
  ASSUME NEW x \in Nat, NEW m \in Nat \ {0}
  PROVE  x % m \in Nat /\ x % m <= x
<1>1. x % m \in 0..(m - 1)
  OBVIOUS
<1>2. CASE x < m
  <2>1. x % m = x
    BY <1>2
  <2> QED BY <2>1
<1>3. CASE x >= m
  BY <1>1, <1>3
<1> QED BY <1>1, <1>2, <1>3

\* The clamp keeps every timeout between the two limits.
LEMMA ClampInRange ==
  ASSUME NEW ms \in Int
  PROVE  /\ Clamp(ms) \in PollMin..PollMax
         /\ Clamp(ms) <= PollMin \/ Clamp(ms) <= ms
BY DEF Clamp

\* The low 32 bits of a duration never make the sleep longer.
LEMMA I32Below ==
  ASSUME NEW n \in Nat
  PROVE  AsI32(n) \in Int /\ AsI32(n) <= n
<1>1. n + Half \in Nat /\ 2 * Half \in Nat \ {0}
  OBVIOUS
<1>2. (n + Half) % (2 * Half) \in Nat /\ (n + Half) % (2 * Half) <= n + Half
  BY <1>1, ModBelow
<1> QED BY <1>2 DEF AsI32

LEMMA NapIsLongest ==
  /\ LongestNap \in Nat
  /\ PollMin <= LongestNap /\ BootPoll <= LongestNap
  /\ VsockPoll <= LongestNap /\ CaPoll <= LongestNap
<1> DEFINE S == {PollMin, BootPoll, VsockPoll, CaPoll}
<1>1. \E n \in S : \A m \in S : m <= n
  OBVIOUS
<1>2. LongestNap \in S /\ \A m \in S : m <= LongestNap
  BY <1>1 DEF LongestNap
<1> QED BY <1>2

(***************************************************************************)
(* poll() sleeps as long as the phase says, and outside the waiting phases *)
(* not beyond the next health check, but for the lower limit of the clamp. *)
(***************************************************************************)
LEMMA PollIsShort ==
  ASSUME TypeOK, last_health <= HealthInterval
  PROVE  /\ PollTimeout \in Nat
         /\ last_health + PollTimeout <= HealthInterval + LongestNap
         /\ phase = "BootDelay" => PollTimeout = BootPoll
         /\ phase = "WaitingVsock" => PollTimeout = VsockPoll
         /\ phase = "WaitingCaPort" => PollTimeout = CaPoll
<1>1. \A ms \in PollMin..PollMax : Clamp(ms) = ms
  BY DEF Clamp
<1>2. UntilHealth \in Nat /\ last_health + UntilHealth = HealthInterval
  BY DEF UntilHealth, TypeOK
<1>3. CASE phase \in Waiting
  BY <1>1, <1>3, NapIsLongest DEF PollTimeout, Waiting, TypeOK
<1>4. CASE phase \notin Waiting
  <2>1. PollTimeout = Clamp(AsI32(UntilHealth))
    BY <1>4 DEF PollTimeout, Waiting
  <2>2. AsI32(UntilHealth) \in Int /\ AsI32(UntilHealth) <= UntilHealth
    BY <1>2, I32Below
  <2>3. /\ PollTimeout \in PollMin..PollMax
        /\ PollTimeout <= PollMin \/ PollTimeout <= UntilHealth
    BY <2>1, <2>2, ClampInRange, <1>2
  <2> QED BY <2>3, <1>2, <1>4, NapIsLongest DEF Waiting, TypeOK
<1> QED BY <1>3, <1>4

-----------------------------------------------------------------------------
\* What may have passed since the health interval was last looked at.
HealthInv ==
  /\ at = "poll"    => last_health <= HealthInterval
  /\ at = "serve"   => last_health <= HealthInterval + LongestNap
  /\ at = "startup" => last_health <= HealthInterval + LongestNap + MaxWork
  /\ at = "health"  => last_health <= HealthInterval + LongestNap + 2 * MaxWork

\* What may have passed since advance_startup last looked at the clock.
Since(nap) == CASE at = "health"  -> MaxWork
                [] at = "poll"    -> 2 * MaxWork
                [] at = "serve"   -> 2 * MaxWork + nap
                [] at = "startup" -> 3 * MaxWork + nap

Longer == IF BootDelayEnd > VsockWait THEN BootDelayEnd ELSE VsockWait

WaitInv ==
  /\ phase = "BootDelay"     => waited <= Delay + Since(BootPoll)
  /\ phase = "WaitingVsock"  => waited <= Longer + Since(VsockPoll)
  /\ phase = "WaitingCaPort" => waited <= CaTimeout + Since(CaPoll)

FirstProbeInv ==
  phase = "WaitingVsock" /\ probed = FALSE => waited <= BootDelayEnd + Since(VsockPoll)

TimeInv == TypeOK /\ HealthInv /\ WaitInv /\ FirstProbeInv

LEMMA EndsAreNaturals ==
  /\ VsockWait \in Nat /\ BootDelayEnd \in Nat /\ Longer \in Nat
  /\ BootDelayEnd <= Longer /\ VsockWait <= Longer
  /\ BootDelayEnd = Delay + BootPoll + 3 * MaxWork
<1>1. VsockWait \in Nat
  BY ModBelow DEF VsockWait
<1> QED BY <1>1 DEF BootDelayEnd, Longer, Iteration

LEMMA InitTimeInv == Init => TimeInv
<1> SUFFICES ASSUME Init PROVE TimeInv
  OBVIOUS
<1>1. TypeOK
  BY DEF Init, TypeOK, Phases
<1>2. HealthInv
  BY DEF Init, HealthInv
<1>3. WaitInv /\ FirstProbeInv
  BY DEF Init, WaitInv, FirstProbeInv
<1> QED BY <1>1, <1>2, <1>3 DEF TimeInv

LEMMA PollKeeps == TimeInv /\ Poll => TimeInv'
<1> SUFFICES ASSUME TimeInv, Poll PROVE TimeInv'
  OBVIOUS
<1>1. TypeOK /\ last_health <= HealthInterval
  BY DEF TimeInv, HealthInv, Poll
<1>2. PICK d \in 0..PollTimeout : Passes(d)
  BY DEF Poll
<1>3. d \in Nat /\ d <= PollTimeout /\ last_health + d <= HealthInterval + LongestNap
  BY <1>1, PollIsShort, NapIsLongest DEF TypeOK
<1>4. at = "poll" /\ at' = "serve" /\ phase' = phase /\ probed' = probed
  BY DEF Poll
<1>5. TypeOK'
  BY <1>1, <1>2, <1>3, <1>4 DEF TypeOK, Passes
<1>6. HealthInv'
  BY <1>2, <1>3, <1>4 DEF HealthInv, Passes
<1>7. WaitInv' /\ FirstProbeInv'
  BY <1>1, <1>2, <1>3, <1>4, PollIsShort, EndsAreNaturals
     DEF TimeInv, WaitInv, FirstProbeInv, Since, Passes, TypeOK, Waiting
<1> QED BY <1>5, <1>6, <1>7 DEF TimeInv

LEMMA ServeKeeps == TimeInv /\ ServeOthers => TimeInv'
<1> SUFFICES ASSUME TimeInv, ServeOthers PROVE TimeInv'
  OBVIOUS
<1>1. PICK d \in 0..MaxWork : Passes(d)
  BY DEF ServeOthers
<1>2. at = "serve" /\ at' = "startup" /\ phase' = phase /\ probed' = probed
  BY DEF ServeOthers
<1>3. TypeOK'
  BY <1>1, <1>2 DEF TimeInv, TypeOK, Passes
<1>4. HealthInv'
  BY <1>1, <1>2, NapIsLongest DEF TimeInv, TypeOK, HealthInv, Passes
<1>5. WaitInv' /\ FirstProbeInv'
  BY <1>1, <1>2, EndsAreNaturals
     DEF TimeInv, WaitInv, FirstProbeInv, Since, Passes, TypeOK, Waiting
<1> QED BY <1>3, <1>4, <1>5 DEF TimeInv

\* One case for each phase of advance_startup.
LEMMA StartupKeeps == TimeInv /\ AdvanceStartup => TimeInv'
<1> SUFFICES ASSUME TimeInv, AdvanceStartup PROVE TimeInv'
  OBVIOUS
<1>1. PICK d \in 0..MaxWork : \/ StartVm(d) \/ AwaitDelay(d) \/ AwaitVsock(d)
                              \/ StartCa(d) \/ AwaitCaPort(d) \/ Rest(d)
  BY DEF AdvanceStartup
<1>2. at = "startup" /\ at' = "health" /\ TypeOK /\ d \in Nat /\ d <= MaxWork
  BY DEF AdvanceStartup, TimeInv
<1>3. last_health' = last_health + d
  BY <1>1 DEF StartVm, AwaitDelay, AwaitVsock, VsockOver, StartCa, AwaitCaPort, Rest,
              StartClock, Passes
<1>4. HealthInv'
  BY <1>2, <1>3, NapIsLongest DEF TimeInv, TypeOK, HealthInv
<1>5. CASE StartVm(d)
  <2>1. phase' \in {"BootDelay", "Failed"} /\ waited' = 0 /\ probed' \in BOOLEAN
    BY <1>5 DEF StartVm, StartClock, Passes, Waiting
  <2>2. TypeOK'
    BY <1>2, <1>3, <2>1 DEF TypeOK, Phases, Waiting
  <2>3. WaitInv' /\ FirstProbeInv'
    BY <1>2, <2>1 DEF WaitInv, FirstProbeInv, Since
  <2> QED BY <1>4, <2>2, <2>3 DEF TimeInv
<1>6. CASE AwaitDelay(d)
  <2>1. phase = "BootDelay" /\ waited' = waited + d /\ probed' = probed
    BY <1>6 DEF AwaitDelay, Passes, Waiting
  <2>2. waited <= BootDelayEnd
    BY <2>1, <1>2, EndsAreNaturals DEF TimeInv, WaitInv, Since, TypeOK
  <2>3. /\ phase' = "BootDelay" /\ waited < Delay
        \/ phase' = "WaitingVsock"
    BY <1>2, <1>6 DEF AwaitDelay, TypeOK
  <2> QED BY <1>2, <1>3, <1>4, <2>1, <2>2, <2>3, EndsAreNaturals
             DEF TimeInv, TypeOK, Phases, Waiting, WaitInv, FirstProbeInv, Since
<1>7. CASE AwaitVsock(d)
  <2>1. CASE phase' = "WaitingVsock"
    <3>1. waited <= VsockWait /\ probed' = TRUE /\ waited' = waited + d
      BY <1>2, <1>7, <2>1, EndsAreNaturals DEF AwaitVsock, VsockOver, Passes, Waiting, TypeOK
    <3> QED BY <1>2, <1>3, <1>4, <2>1, <3>1, EndsAreNaturals
               DEF TimeInv, TypeOK, Phases, Waiting, WaitInv, FirstProbeInv, Since
  <2>2. CASE phase' # "WaitingVsock"
    <3>1. phase' \in {"Failed", "CaStarting"} /\ waited' = 0 /\ probed' \in BOOLEAN
      BY <1>2, <1>7, <2>2 DEF AwaitVsock, VsockOver, Passes, Waiting, TypeOK
    <3> QED BY <1>2, <1>3, <1>4, <3>1
               DEF TimeInv, TypeOK, Phases, WaitInv, FirstProbeInv
  <2> QED BY <2>1, <2>2
<1>8. CASE StartCa(d)
  BY <1>2, <1>3, <1>4, <1>8, EndsAreNaturals
     DEF StartCa, StartClock, Passes, TimeInv, TypeOK, Phases, Waiting,
         WaitInv, FirstProbeInv, Since
<1>9. CASE AwaitCaPort(d)
  BY <1>2, <1>3, <1>4, <1>9
     DEF AwaitCaPort, Passes, TimeInv, TypeOK, Phases, Waiting, WaitInv,
         FirstProbeInv, Since
<1>10. CASE Rest(d)
  BY <1>2, <1>3, <1>4, <1>10
     DEF Rest, Passes, TimeInv, TypeOK, Phases, Waiting, WaitInv, FirstProbeInv
<1> QED BY <1>1, <1>5, <1>6, <1>7, <1>8, <1>9, <1>10

LEMMA HealthKeeps == TimeInv /\ CheckHealth => TimeInv'
<1> SUFFICES ASSUME TimeInv, CheckHealth PROVE TimeInv'
  OBVIOUS
<1>1. at = "health" /\ at' = "poll" /\ phase' = phase /\ probed' = probed /\ TypeOK
  BY DEF CheckHealth, TimeInv
<1>2. last_health' \in Nat /\ last_health' <= HealthInterval
  BY <1>1 DEF CheckHealth, TypeOK
<1>3. PICK d \in 0..MaxWork : waited' = IF phase \in Waiting THEN waited + d ELSE waited'
  BY <1>1 DEF CheckHealth, TypeOK
<1>4. waited' \in Nat
  BY <1>1 DEF CheckHealth, TypeOK
<1> QED BY <1>1, <1>2, <1>3, <1>4, EndsAreNaturals
           DEF TimeInv, TypeOK, HealthInv, WaitInv, FirstProbeInv, Since, Waiting

\* The ages stay within their bounds, in every state of the loop.
THEOREM TimesAreBounded == Spec => []TimeInv
<1>1. TimeInv /\ UNCHANGED timeVars => TimeInv'
  BY DEF TimeInv, TypeOK, HealthInv, WaitInv, FirstProbeInv, Since, timeVars
<1>2. TimeInv /\ [Next]_timeVars => TimeInv'
  BY <1>1, PollKeeps, ServeKeeps, StartupKeeps, HealthKeeps DEF Next
<1> QED BY InitTimeInv, <1>2, PTL DEF Spec

\* Health checks are on time, also when the interval exceeds an i32.
THEOREM ChecksAreOnTime == Spec => []HealthOnTime
<1>1. TimeInv => HealthOnTime
  BY NapIsLongest DEF TimeInv, TypeOK, HealthInv, HealthOnTime
<1> QED BY <1>1, TimesAreBounded, PTL

\* No waiting phase of the startup outstays its deadline by an iteration.
THEOREM PhasesEndInTime == Spec => []DeadlinesKept
<1>1. TimeInv => DeadlinesKept
  <2> SUFFICES ASSUME TimeInv PROVE DeadlinesKept
    OBVIOUS
  <2>1. \A nap \in Nat : Since(nap) \in Nat /\ Since(nap) <= nap + 3 * MaxWork
    BY DEF TimeInv, TypeOK, Since
  <2>2. /\ Since(BootPoll) <= Iteration(BootPoll) /\ Since(BootPoll) \in Nat
        /\ Since(VsockPoll) <= Iteration(VsockPoll) /\ Since(VsockPoll) \in Nat
        /\ Since(CaPoll) <= Iteration(CaPoll) /\ Since(CaPoll) \in Nat
    BY <2>1 DEF Iteration
  <2>3. VsockEnd = Longer + Iteration(VsockPoll)
    BY DEF VsockEnd, Longer
  <2> QED BY <2>2, <2>3, EndsAreNaturals
             DEF TimeInv, TypeOK, WaitInv, DeadlinesKept, BootDelayEnd,
                 CaPortEnd, Iteration
<1> QED BY <1>1, TimesAreBounded, PTL

(***************************************************************************)
(* With a timeout of at least two iterations, and no overflow, the startup *)
(* has probed the VM before it gives up on it.                             *)
(***************************************************************************)
THEOREM PatienceProbes ==
  ASSUME Patient
  PROVE  Spec => ProbedBeforeGivingUp
<1> DEFINE A == phase = "WaitingVsock" /\ phase' = "Failed" => probed = TRUE
<1>1. TimeInv /\ [Next]_timeVars => [A]_timeVars
  <2> SUFFICES ASSUME TimeInv, Next, phase = "WaitingVsock", phase' = "Failed",
                      probed # TRUE
               PROVE  FALSE
    BY DEF timeVars
  <2>1. probed = FALSE
    BY DEF TimeInv, TypeOK
  <2>2. PICK d \in 0..MaxWork : AwaitVsock(d)
    BY DEF Next, Poll, ServeOthers, AdvanceStartup, StartVm, AwaitDelay,
           StartCa, AwaitCaPort, Rest, CheckHealth
  <2>3. at = "startup"
    BY DEF Next, Poll, ServeOthers, AdvanceStartup, CheckHealth
  <2>4. VsockWait = Delay + BootTimeout
    BY DEF VsockWait, Patient
  <2>5. waited <= BootDelayEnd + VsockPoll + 3 * MaxWork
    BY <2>1, <2>3, EndsAreNaturals DEF TimeInv, FirstProbeInv, Since, TypeOK
  <2>6. waited > VsockWait
    BY <2>2 DEF AwaitVsock, VsockOver
  <2> QED BY <2>4, <2>5, <2>6, EndsAreNaturals DEF Patient, Iteration, TimeInv, TypeOK
<1> QED BY <1>1, TimesAreBounded, PTL DEF Spec, ProbedBeforeGivingUp
=============================================================================
