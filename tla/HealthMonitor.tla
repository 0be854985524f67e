----------------------------- MODULE HealthMonitor -----------------------------
(***************************************************************************)
(* HealthMonitor (src/src/health.rs): what one TCP probe of the CA port    *)
(* does to the two counters, and the verdict it returns.                   *)
(***************************************************************************)
EXTENDS Naturals

CONSTANTS
  FailThreshold,      \* config.health_fail_threshold
  TimeoutThreshold    \* 10 in health.rs

ASSUME ThresholdAssumption == /\ FailThreshold \in Nat
                              /\ TimeoutThreshold \in Nat \ {0}

VARIABLE health    \* [failures, timeouts]: consecutive_failures, _timeouts

\* How connect_timeout can end.
Outcomes == {"Connected", "Refused", "TimedOut", "OtherError"}

Healthy == [failures |-> 0, timeouts |-> 0]

\* Fault variant: a refused connection leaves the timeout counter alone.
ProbeCounts_KeepsTimeouts(o) ==
  CASE o = "Connected"  -> Healthy
    [] o = "Refused"    -> [health EXCEPT !.failures = @ + 1]
    [] o = "TimedOut"   -> [health EXCEPT !.timeouts = @ + 1]
    [] o = "OtherError" -> health

\* The counters before they are compared with the thresholds.
ProbeCounts(o) ==
  CASE o = "Connected"  -> Healthy
    [] o = "Refused"    -> [failures |-> health.failures + 1, timeouts |-> 0]
    [] o = "TimedOut"   -> [health EXCEPT !.timeouts = @ + 1]
    [] o = "OtherError" -> health

\* Fault variant: one failure more than the threshold is needed.
RestartNeeded_OffByOne(o) ==
  \/ o = "Refused" /\ ProbeCounts(o).failures > FailThreshold
  \/ o = "TimedOut" /\ ProbeCounts(o).timeouts >= TimeoutThreshold

\* probe() returns RestartNeeded.
RestartNeeded(o) ==
  \/ o = "Refused" /\ ProbeCounts(o).failures >= FailThreshold
  \/ o = "TimedOut" /\ ProbeCounts(o).timeouts >= TimeoutThreshold

\* Fault variant: the counter goes on after RestartNeeded.
Probe_NoReset(o) == health' = ProbeCounts(o)

\* The counter that reached its threshold is reset; the other one is kept.
Probe(o) ==
  health' = IF ~RestartNeeded(o) THEN ProbeCounts(o)
            ELSE IF o = "Refused"
                 THEN [ProbeCounts(o) EXCEPT !.failures = 0]
                 ELSE [ProbeCounts(o) EXCEPT !.timeouts = 0]
=============================================================================
