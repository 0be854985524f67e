----------------------------- MODULE HealthWatch -----------------------------
(***************************************************************************)
(* The health monitor on its own, with the history of its probes: which    *)
(* verdicts may the counters give, and how long can they stay silent while *)
(* the CA never answers.                                                   *)
(***************************************************************************)
EXTENDS HealthMonitor, Sequences, FiniteSets

CONSTANT MaxProbes    \* bound on the history

ASSUME MaxProbesAssumption == MaxProbes \in Nat

VARIABLES
  log,       \* every probe so far: [answer, restart]
  silence    \* refused and timed out probes since the last answer or restart

watchVars == <<health, log, silence>>

WatchInit == health = Healthy /\ log = <<>> /\ silence = 0

\* One probe() of the main loop, and what it returned.
WatchProbe(o) ==
  /\ Len(log) < MaxProbes
  /\ Probe(o)
  /\ log' = Append(log, [answer |-> o, restart |-> RestartNeeded(o)])
  /\ silence' = CASE RestartNeeded(o) \/ o = "Connected" -> 0
                  [] ~RestartNeeded(o) /\ o \in {"Refused", "TimedOut"} -> silence + 1
                  [] o = "OtherError" -> silence

\* The CA crashes, is stopped or started anew, and the monitor is not told.
WatchReplaced ==
  /\ Len(log) < MaxProbes
  /\ log' = Append(log, [answer |-> "Replaced", restart |-> FALSE])
  /\ UNCHANGED <<health, silence>>

WatchDone == Len(log) = MaxProbes /\ UNCHANGED watchVars

WatchNext == (\E o \in Outcomes : WatchProbe(o)) \/ WatchReplaced \/ WatchDone

WatchSpec == WatchInit /\ [][WatchNext]_watchVars

-----------------------------------------------------------------------------
(***************************************************************************)
(* The reference: how many of the last probes up to the i-th answered a,   *)
(* counting back to the last probe that stands for a fresh start: one that *)
(* connected or restarted the CA for the same reason and, for timeouts, a  *)
(* refused one.                                                            *)
(***************************************************************************)
FreshStart(i, a) ==
  \/ log[i].answer = "Connected"
  \/ log[i].answer = a /\ log[i].restart
  \/ log[i].answer = "Refused" /\ a = "TimedOut"

Run(i, a) ==
  Cardinality({j \in 1..i : /\ log[j].answer = a
                            /\ \A k \in j..(i - 1) : ~FreshStart(k, a)})

(***************************************************************************)
(* probe() says RestartNeeded exactly when the run of refusals has reached *)
(* the configured threshold, or the run of timeouts has reached ten:       *)
(* whatever else was seen in between, neither too early nor too late.  The *)
(* runs go on across the processes: a CA that was just started answers for *)
(* the refusals and timeouts of the one before it.                         *)
(***************************************************************************)
VerdictIsExact ==
  \A i \in 1..Len(log) :
    log[i].restart <=> \/ /\ log[i].answer = "Refused"
                          /\ Run(i, "Refused") >= FailThreshold
                       \/ /\ log[i].answer = "TimedOut"
                          /\ Run(i, "TimedOut") >= TimeoutThreshold

(***************************************************************************)
(* A CA that never answers is restarted: at most                           *)
(* FailThreshold * TimeoutThreshold - 1 failed probes pass without an      *)
(* answer or a restart, in whatever mixture of refusals and timeouts (29   *)
(* probes, about five minutes, with the default configuration).            *)
(***************************************************************************)
Refusals == IF FailThreshold = 0 THEN 1 ELSE FailThreshold

DetectionBound == silence < Refusals * TimeoutThreshold
=============================================================================
