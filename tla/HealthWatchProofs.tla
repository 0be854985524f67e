-------------------------- MODULE HealthWatchProofs --------------------------
(***************************************************************************)
(* How long a silent CA can go unnoticed, and that the verdicts are those  *)
(* of the reference, for every pair of thresholds and every history.       *)
(***************************************************************************)
EXTENDS HealthWatch, FiniteSetTheorems, TLAPS

USE ThresholdAssumption

(***************************************************************************)
(* The inductive invariant: the counters remember the silence.  A refusal  *)
(* forgets the timeouts before it, but there were fewer than               *)
(* TimeoutThreshold of them and it counts as a whole round.                *)
(***************************************************************************)
SilenceCounted ==
  /\ health \in [failures : Nat, timeouts : Nat]
  /\ silence \in Nat
  /\ health.failures < Refusals
  /\ health.timeouts < TimeoutThreshold
  /\ silence <= health.failures * TimeoutThreshold + health.timeouts

\* Multiplication, as far as it is needed.
LEMMA Rounds ==
  ASSUME NEW n \in Nat, NEW m \in Nat, NEW t \in Nat, n < m
  PROVE  /\ n * t \in Nat /\ (n + 1) * t = n * t + t
         /\ (n + 1) * t <= m * t
<1>1. (n + 1) * t = n * t + t /\ n * t \in Nat
  OBVIOUS
<1>2. PICK d \in Nat : m = n + 1 + d
  <2>1. m - n - 1 \in Nat /\ m = n + 1 + (m - n - 1)
    OBVIOUS
  <2> QED  BY <2>1
<1>3. m * t = (n + 1) * t + d * t /\ d * t \in Nat
  BY <1>2
<1> QED  BY <1>1, <1>3

\* The counters before the verdict, as records.
LEMMA Counts ==
  ASSUME health \in [failures : Nat, timeouts : Nat]
  PROVE  /\ ProbeCounts("Connected") = [failures |-> 0, timeouts |-> 0]
         /\ ProbeCounts("Refused") = [failures |-> health.failures + 1,
                                      timeouts |-> 0]
         /\ ProbeCounts("TimedOut") = [failures |-> health.failures,
                                       timeouts |-> health.timeouts + 1]
         /\ ProbeCounts("OtherError") = health
BY DEF ProbeCounts, Healthy

\* Every probe keeps the silence counted.
LEMMA ProbeCounted ==
  ASSUME SilenceCounted, NEW o \in Outcomes, WatchProbe(o)
  PROVE  SilenceCounted'
<1> USE DEF SilenceCounted
<1>1. CASE o = "Connected"
  <2>1. health' = [failures |-> 0, timeouts |-> 0] /\ silence' = 0
    BY <1>1, Counts DEF WatchProbe, Probe, RestartNeeded
  <2> QED  BY <2>1 DEF Refusals
<1>2. CASE o = "Refused"
  <2>1. RestartNeeded(o) <=> health.failures + 1 >= FailThreshold
    BY <1>2, Counts DEF RestartNeeded
  <2>2. CASE RestartNeeded(o)
    <3>1. health' = [failures |-> 0, timeouts |-> 0] /\ silence' = 0
      BY <1>2, <2>2, Counts DEF WatchProbe, Probe
    <3> QED  BY <3>1 DEF Refusals
  <2>3. CASE ~RestartNeeded(o)
    <3>1. /\ health' = [failures |-> health.failures + 1, timeouts |-> 0]
          /\ silence' = silence + 1
      BY <1>2, <2>3, Counts DEF WatchProbe, Probe
    <3>2. health'.failures < Refusals
      BY <2>1, <2>3, <3>1 DEF Refusals
    <3>3. silence' <= (health.failures + 1) * TimeoutThreshold
      BY <3>1, Rounds DEF Refusals
    <3> QED  BY <3>1, <3>2, <3>3
  <2> QED  BY <2>2, <2>3
<1>3. CASE o = "TimedOut"
  <2>1. RestartNeeded(o) <=> health.timeouts + 1 >= TimeoutThreshold
    BY <1>3, Counts DEF RestartNeeded
  <2>2. CASE RestartNeeded(o)
    <3>1. ProbeCounts(o) = [failures |-> health.failures,
                            timeouts |-> health.timeouts + 1]
      BY <1>3, Counts
    <3>2. [ProbeCounts(o) EXCEPT !.timeouts = 0]
            = [failures |-> health.failures, timeouts |-> 0]
      BY <3>1
    <3>3. /\ health' = [failures |-> health.failures, timeouts |-> 0]
          /\ silence' = 0
      BY <1>3, <2>2, <3>2 DEF WatchProbe, Probe
    <3>4. health.failures * TimeoutThreshold \in Nat
      BY Rounds DEF Refusals
    <3> QED  BY <3>3, <3>4
  <2>3. CASE ~RestartNeeded(o)
    <3>1. /\ health' = [failures |-> health.failures,
                        timeouts |-> health.timeouts + 1]
          /\ silence' = silence + 1
      BY <1>3, <2>3, Counts DEF WatchProbe, Probe
    <3>2. health.failures * TimeoutThreshold \in Nat
      BY Rounds DEF Refusals
    <3> QED  BY <2>1, <2>3, <3>1, <3>2
  <2> QED  BY <2>2, <2>3
<1>4. CASE o = "OtherError"
  <2>1. health' = health /\ silence' = silence
    BY <1>4, Counts DEF WatchProbe, Probe, RestartNeeded
  <2> QED  BY <2>1
<1> QED  BY <1>1, <1>2, <1>3, <1>4 DEF Outcomes

\* A CA that answers no probe is restarted after fewer than
\* FailThreshold * TimeoutThreshold of them, in whatever order refusals and
\* timeouts come.
THEOREM SilenceIsDetected == WatchSpec => []DetectionBound
<1>1. WatchInit => SilenceCounted
  BY DEF WatchInit, SilenceCounted, Healthy, Refusals
<1>2. SilenceCounted /\ [WatchNext]_watchVars => SilenceCounted'
  <2> SUFFICES ASSUME SilenceCounted, [WatchNext]_watchVars
               PROVE  SilenceCounted'
    OBVIOUS
  <2>1. CASE UNCHANGED watchVars
    BY <2>1 DEF watchVars, SilenceCounted
  <2>2. CASE WatchReplaced
    BY <2>2 DEF WatchReplaced, SilenceCounted
  <2> QED  BY <2>1, <2>2, ProbeCounted DEF WatchNext, WatchDone
<1>3. SilenceCounted => DetectionBound
  <2> SUFFICES ASSUME SilenceCounted PROVE DetectionBound
    OBVIOUS
  <2>1. Refusals \in Nat
    BY DEF Refusals
  <2>2. (health.failures + 1) * TimeoutThreshold <= Refusals * TimeoutThreshold
    BY <2>1, Rounds DEF SilenceCounted
  <2>3. silence < (health.failures + 1) * TimeoutThreshold
    BY <2>1, Rounds DEF SilenceCounted
  <2>4. /\ (health.failures + 1) * TimeoutThreshold \in Nat
        /\ Refusals * TimeoutThreshold \in Nat
    BY <2>1 DEF SilenceCounted
  <2> QED  BY <2>2, <2>3, <2>4 DEF DetectionBound, SilenceCounted
<1> QED  BY <1>1, <1>2, <1>3, PTL DEF WatchSpec

-----------------------------------------------------------------------------
(* The verdicts against the reference.                                     *)

Entries == [answer : Outcomes \cup {"Replaced"}, restart : BOOLEAN]

\* The probes up to the n-th that still count towards a verdict for a.
Counted(n, a) ==
  {j \in 1..n : log[j].answer = a /\ \A k \in j..n : ~FreshStart(k, a)}

(***************************************************************************)
(* The inductive invariant: each counter of the monitor is the number of   *)
(* probes that count, and the verdicts so far were those of the reference. *)
(***************************************************************************)
CountersAreRuns ==
  /\ log \in Seq(Entries)
  /\ health \in [failures : Nat, timeouts : Nat]
  /\ health.failures = Cardinality(Counted(Len(log), "Refused"))
  /\ health.timeouts = Cardinality(Counted(Len(log), "TimedOut"))
  /\ VerdictIsExact

LEMMA CountedFinite ==
  ASSUME NEW n \in Nat, NEW a
  PROVE  IsFiniteSet(Counted(n, a)) /\ Cardinality(Counted(n, a)) \in Nat
<1>1. IsFiniteSet(1..n)
  BY FS_Interval
<1>2. Counted(n, a) \in SUBSET (1..n)
  BY DEF Counted
<1>3. IsFiniteSet(Counted(n, a))
  BY <1>1, <1>2, FS_Subset
<1> QED  BY <1>3, FS_CardinalityType

\* What one more entry does to the history before it.
LEMMA OneMore ==
  ASSUME log \in Seq(Entries), NEW e \in Entries, log' = Append(log, e)
  PROVE  /\ Len(log) \in Nat /\ Len(log') = Len(log) + 1
         /\ log' \in Seq(Entries)
         /\ log'[Len(log) + 1] = e
         /\ \A i \in 1..Len(log) : log'[i] = log[i]
         /\ \A a : \A i \in 1..Len(log) : FreshStart(i, a)' <=> FreshStart(i, a)
<1>1. /\ Len(log) \in Nat /\ Len(log') = Len(log) + 1
      /\ log' \in Seq(Entries)
      /\ log'[Len(log) + 1] = e
      /\ \A i \in 1..Len(log) : log'[i] = log[i]
  OBVIOUS
<1> QED  BY <1>1 DEF FreshStart

\* The runs that ended before the new entry are as they were.
LEMMA RunsKept ==
  ASSUME log \in Seq(Entries), NEW e \in Entries, log' = Append(log, e),
         NEW a, NEW i \in 1..Len(log)
  PROVE  Run(i, a)' = Run(i, a)
<1>1. /\ \A j \in 1..i : log'[j].answer = log[j].answer
      /\ \A k \in 1..i : FreshStart(k, a)' <=> FreshStart(k, a)
  BY OneMore
<1>2. {j \in 1..i : log'[j].answer = a
                      /\ \A k \in j..(i - 1) : ~FreshStart(k, a)'}
      = {j \in 1..i : log[j].answer = a
                      /\ \A k \in j..(i - 1) : ~FreshStart(k, a)}
  <2>1. \A j \in 1..i : \A k \in j..(i - 1) : k \in 1..i
    BY OneMore
  <2> QED  BY <1>1, <2>1
<1> QED  BY <1>2 DEF Run

\* The run that ends with the new entry is what was counted, and itself.
LEMMA RunOfLast ==
  ASSUME log \in Seq(Entries), NEW e \in Entries, log' = Append(log, e),
         NEW a, e.answer = a, NEW n \in Nat, n = Len(log)
  PROVE  Run(n + 1, a)' = Cardinality(Counted(n, a)) + 1
<1>1. /\ log'[n + 1] = e
      /\ \A j \in 1..n : log'[j].answer = log[j].answer
      /\ \A k \in 1..n : FreshStart(k, a)' <=> FreshStart(k, a)
  BY OneMore
<1>2. {j \in 1..(n + 1) : log'[j].answer = a
                      /\ \A k \in j..((n + 1) - 1) : ~FreshStart(k, a)'}
      = Counted(n, a) \cup {n + 1}
  <2> DEFINE R == {j \in 1..(n + 1) : log'[j].answer = a
                      /\ \A k \in j..((n + 1) - 1) : ~FreshStart(k, a)'}
  <2>1. ASSUME NEW j \in 1..n PROVE j \in R <=> j \in Counted(n, a)
    <3>1. j \in 1..(n + 1) /\ (n + 1) - 1 = n /\ \A k \in j..n : k \in 1..n
      BY <1>1
    <3> QED  BY <1>1, <3>1 DEF Counted
  <2>2. n + 1 \in R
    BY <1>1
  <2>3. \A j \in 1..(n + 1) : j \in 1..n \/ j = n + 1
    BY <1>1
  <2>4. Counted(n, a) \subseteq 1..n /\ R \subseteq 1..(n + 1)
    BY DEF Counted
  <2> HIDE DEF R
  <2>5. R = Counted(n, a) \cup {n + 1}
    BY <2>1, <2>2, <2>3, <2>4
  <2> QED  BY <2>5 DEF R
<1>3. n + 1 \notin Counted(n, a)
  BY <1>1 DEF Counted
<1>4. Cardinality(Counted(n, a) \cup {n + 1}) = Cardinality(Counted(n, a)) + 1
  BY <1>1, <1>3, CountedFinite, FS_AddElement
<1>5. Run(n + 1, a)' = Cardinality(Counted(n, a) \cup {n + 1})
  BY <1>2 DEF Run
<1> QED  BY <1>4, <1>5

\* What counts after the new entry: nothing after a fresh start, otherwise
\* what counted before and, when it is one of them, the entry itself.
LEMMA CountedNext ==
  ASSUME log \in Seq(Entries), NEW e \in Entries, log' = Append(log, e),
         NEW a, NEW n \in Nat, n = Len(log)
  PROVE  LET fresh == FreshStart(n + 1, a)'
             before == Cardinality(Counted(n, a))
             after == Cardinality(Counted(Len(log), a))'
         IN  /\ fresh => after = 0
             /\ ~fresh /\ e.answer # a => after = before
             /\ ~fresh /\ e.answer = a => after = before + 1
<1> DEFINE C == Counted(n, a)
           D == {j \in 1..(n + 1) : log'[j].answer = a
                      /\ \A k \in j..(n + 1) : ~FreshStart(k, a)'}
<1>1. /\ n \in Nat /\ log'[n + 1] = e /\ Len(log') = n + 1
      /\ \A j \in 1..n : log'[j].answer = log[j].answer
      /\ \A k \in 1..n : FreshStart(k, a)' <=> FreshStart(k, a)
  BY OneMore
<1>2. Counted(Len(log), a)' = D
  <2>1. Counted(Len(log), a)' = Counted(n + 1, a)'
    BY <1>1
  <2> QED  BY <2>1 DEF Counted
<1>3. FreshStart(n + 1, a)' => D = {}
  BY <1>1
<1>4. ASSUME ~FreshStart(n + 1, a)', NEW j \in 1..n PROVE j \in D <=> j \in C
  <2>1. /\ j \in 1..(n + 1)
        /\ \A k \in j..n : k \in 1..n /\ k \in j..(n + 1)
        /\ \A k \in j..(n + 1) : k \in j..n \/ k = n + 1
    BY <1>1
  <2> QED  BY <1>1, <1>4, <2>1 DEF Counted
<1>5. ~FreshStart(n + 1, a)' => (n + 1 \in D <=> e.answer = a)
  <2>1. \A k \in (n + 1)..(n + 1) : k = n + 1
    BY <1>1
  <2> QED  BY <1>1, <2>1
<1>6. /\ \A j \in 1..(n + 1) : j \in 1..n \/ j = n + 1
      /\ C \subseteq 1..n /\ n + 1 \notin C /\ D \subseteq 1..(n + 1)
  BY <1>1 DEF Counted
<1>7. IsFiniteSet(C) /\ Cardinality(C) \in Nat
  BY <1>1, CountedFinite
<1> HIDE DEF D, C
<1>8. ~FreshStart(n + 1, a)' /\ e.answer # a => D = C
  BY <1>4, <1>5, <1>6
<1>9. ~FreshStart(n + 1, a)' /\ e.answer = a => D = C \cup {n + 1}
  BY <1>4, <1>5, <1>6
<1>10. Cardinality(C \cup {n + 1}) = Cardinality(C) + 1
  BY <1>6, <1>7, FS_AddElement
<1>11. /\ FreshStart(n + 1, a)' => Cardinality(D) = 0
       /\ ~FreshStart(n + 1, a)' /\ e.answer # a => Cardinality(D) = Cardinality(C)
       /\ ~FreshStart(n + 1, a)' /\ e.answer = a
            => Cardinality(D) = Cardinality(C) + 1
  BY <1>3, <1>8, <1>9, <1>10, FS_EmptySet
<1> QED  BY <1>2, <1>11 DEF C

\* A new entry whose verdict is the reference's keeps the verdicts exact.
LEMMA VerdictsNext ==
  ASSUME log \in Seq(Entries), NEW e \in Entries, log' = Append(log, e),
         VerdictIsExact,
         e.restart <=> \/ /\ e.answer = "Refused"
                          /\ Cardinality(Counted(Len(log), "Refused")) + 1
                               >= FailThreshold
                       \/ /\ e.answer = "TimedOut"
                          /\ Cardinality(Counted(Len(log), "TimedOut")) + 1
                               >= TimeoutThreshold
  PROVE  VerdictIsExact'
<1>n. PICK n \in Nat : n = Len(log)
  BY OneMore
<1>1. Len(log') = n + 1 /\ log'[n + 1] = e
  BY <1>n, OneMore
<1> SUFFICES ASSUME NEW i \in 1..(n + 1)
             PROVE  log'[i].restart <=>
                      \/ /\ log'[i].answer = "Refused"
                         /\ Run(i, "Refused")' >= FailThreshold
                      \/ /\ log'[i].answer = "TimedOut"
                         /\ Run(i, "TimedOut")' >= TimeoutThreshold
  BY <1>1 DEF VerdictIsExact
<1>2. CASE i \in 1..n
  <2>1. log'[i] = log[i]
    BY <1>n, <1>2, OneMore
  <2>2. Run(i, "Refused")' = Run(i, "Refused") /\ Run(i, "TimedOut")' = Run(i, "TimedOut")
    BY <1>n, <1>2, RunsKept
  <2> QED  BY <1>n, <1>2, <2>1, <2>2 DEF VerdictIsExact
<1>3. CASE i = n + 1
  <2>1. e.answer = "Refused"
          => Run(i, "Refused")' = Cardinality(Counted(Len(log), "Refused")) + 1
    BY <1>n, <1>3, RunOfLast
  <2>2. e.answer = "TimedOut"
          => Run(i, "TimedOut")' = Cardinality(Counted(Len(log), "TimedOut")) + 1
    BY <1>n, <1>3, RunOfLast
  <2>3. log'[i] = e
    BY <1>1, <1>3
  <2> QED  BY <2>1, <2>2, <2>3
<1> QED  BY <1>n, <1>1, <1>2, <1>3
\* Every probe keeps the counters and the verdicts exact.
LEMMA ProbeExact ==
  ASSUME CountersAreRuns, NEW o \in Outcomes, WatchProbe(o)
  PROVE  CountersAreRuns'
<1> DEFINE e == [answer |-> o, restart |-> RestartNeeded(o)]
<1>1. log \in Seq(Entries) /\ health \in [failures : Nat, timeouts : Nat]
  BY DEF CountersAreRuns
<1>2. RestartNeeded(o) \in BOOLEAN
  BY DEF RestartNeeded
<1>3. e \in Entries /\ log' = Append(log, e)
  BY <1>2 DEF Entries, WatchProbe
<1>4. PICK n \in Nat : n = Len(log)
  BY <1>1
<1>5. /\ log' \in Seq(Entries)
      /\ log'[n + 1].answer = o
      /\ log'[n + 1].restart = RestartNeeded(o)
  BY <1>1, <1>3, <1>4, OneMore
<1>6. RestartNeeded(o) <=>
        \/ o = "Refused" /\ health.failures + 1 >= FailThreshold
        \/ o = "TimedOut" /\ health.timeouts + 1 >= TimeoutThreshold
  BY <1>1, Counts DEF RestartNeeded
<1>7. VerdictIsExact'
  <2>1. e.answer = o /\ e.restart = RestartNeeded(o)
    OBVIOUS
  <2> HIDE DEF e
  <2> QED  BY <1>1, <1>3, <1>6, <2>1, VerdictsNext DEF CountersAreRuns
<1>8. /\ FreshStart(n + 1, "Refused")'
           <=> o = "Connected" \/ (o = "Refused" /\ RestartNeeded(o))
      /\ FreshStart(n + 1, "TimedOut")'
           <=> \/ o \in {"Connected", "Refused"}
               \/ o = "TimedOut" /\ RestartNeeded(o)
  BY <1>5 DEF FreshStart
<1>9. /\ FreshStart(n + 1, "Refused")'
           => Cardinality(Counted(Len(log), "Refused"))' = 0
      /\ ~FreshStart(n + 1, "Refused")' /\ o # "Refused"
           => Cardinality(Counted(Len(log), "Refused"))' = health.failures
      /\ ~FreshStart(n + 1, "Refused")' /\ o = "Refused"
           => Cardinality(Counted(Len(log), "Refused"))' = health.failures + 1
  BY <1>1, <1>3, <1>4, CountedNext DEF CountersAreRuns
<1>10. /\ FreshStart(n + 1, "TimedOut")'
            => Cardinality(Counted(Len(log), "TimedOut"))' = 0
       /\ ~FreshStart(n + 1, "TimedOut")' /\ o # "TimedOut"
            => Cardinality(Counted(Len(log), "TimedOut"))' = health.timeouts
       /\ ~FreshStart(n + 1, "TimedOut")' /\ o = "TimedOut"
            => Cardinality(Counted(Len(log), "TimedOut"))' = health.timeouts + 1
  BY <1>1, <1>3, <1>4, CountedNext DEF CountersAreRuns
<1>11. health' = [failures |-> IF o = "Connected" \/ (o = "Refused" /\ RestartNeeded(o))
                               THEN 0
                               ELSE IF o = "Refused" THEN health.failures + 1
                                                     ELSE health.failures,
                  timeouts |-> IF \/ o \in {"Connected", "Refused"}
                                  \/ o = "TimedOut" /\ RestartNeeded(o)
                               THEN 0
                               ELSE IF o = "TimedOut" THEN health.timeouts + 1
                                                      ELSE health.timeouts]
  <2>1. Probe(o)
    BY DEF WatchProbe
  <2>2. CASE o = "Connected"
    BY <1>6, <2>1, <2>2, Counts, <1>1 DEF Probe
  <2>3. CASE o = "Refused" /\ RestartNeeded(o)
    BY <2>1, <2>3, Counts, <1>1 DEF Probe
  <2>4. CASE o = "Refused" /\ ~RestartNeeded(o)
    BY <2>1, <2>4, Counts, <1>1 DEF Probe
  <2>5. CASE o = "TimedOut" /\ RestartNeeded(o)
    <3>1. ProbeCounts(o) = [failures |-> health.failures,
                            timeouts |-> health.timeouts + 1]
      BY <2>5, Counts, <1>1
    <3>2. [ProbeCounts(o) EXCEPT !.timeouts = 0]
            = [failures |-> health.failures, timeouts |-> 0]
      BY <3>1
    <3> QED  BY <2>1, <2>5, <3>2 DEF Probe
  <2>6. CASE o = "TimedOut" /\ ~RestartNeeded(o)
    BY <2>1, <2>6, Counts, <1>1 DEF Probe
  <2>7. CASE o = "OtherError"
    BY <1>6, <2>1, <2>7, Counts, <1>1 DEF Probe
  <2> QED  BY <2>2, <2>3, <2>4, <2>5, <2>6, <2>7 DEF Outcomes
<1>12. /\ health'.failures = Cardinality(Counted(Len(log), "Refused"))'
       /\ health'.timeouts = Cardinality(Counted(Len(log), "TimedOut"))'
       /\ health' \in [failures : Nat, timeouts : Nat]
  BY <1>1, <1>8, <1>9, <1>10, <1>11
<1> QED  BY <1>5, <1>7, <1>12 DEF CountersAreRuns

\* A new process of the CA, of which the monitor is not told, changes neither.
LEMMA ReplacedExact ==
  ASSUME CountersAreRuns, WatchReplaced
  PROVE  CountersAreRuns'
<1> DEFINE e == [answer |-> "Replaced", restart |-> FALSE]
<1>1. /\ log \in Seq(Entries) /\ e \in Entries /\ log' = Append(log, e)
      /\ e.answer = "Replaced" /\ e.restart = FALSE /\ health' = health
  BY DEF CountersAreRuns, WatchReplaced, Entries
<1> HIDE DEF e
<1>2. PICK n \in Nat : n = Len(log)
  BY <1>1
<1>3. log' \in Seq(Entries) /\ log'[n + 1] = e
  BY <1>1, <1>2, OneMore
<1>4. VerdictIsExact'
  BY <1>1, VerdictsNext DEF CountersAreRuns
<1>5. ~FreshStart(n + 1, "Refused")' /\ ~FreshStart(n + 1, "TimedOut")'
  BY <1>1, <1>3 DEF FreshStart
<1>6. /\ Cardinality(Counted(Len(log), "Refused"))' = health.failures
      /\ Cardinality(Counted(Len(log), "TimedOut"))' = health.timeouts
  BY <1>1, <1>2, <1>5, CountedNext DEF CountersAreRuns
<1> QED  BY <1>1, <1>3, <1>4, <1>6 DEF CountersAreRuns

\* The health monitor asks for a restart exactly when the run of refusals or
\* of timeouts has reached its threshold, for every history and every pair
\* of thresholds.
THEOREM VerdictsAreExact == WatchSpec => []VerdictIsExact
<1>1. WatchInit => CountersAreRuns
  <2> SUFFICES ASSUME WatchInit PROVE CountersAreRuns
    OBVIOUS
  <2>1. /\ log \in Seq(Entries) /\ Len(log) = 0
        /\ health = [failures |-> 0, timeouts |-> 0]
    BY DEF WatchInit, Healthy
  <2>2. \A a : Counted(0, a) = {}
    BY DEF Counted
  <2>3. VerdictIsExact
    BY <2>1 DEF VerdictIsExact
  <2> QED  BY <2>1, <2>2, <2>3, FS_EmptySet DEF CountersAreRuns
<1>2. CountersAreRuns /\ [WatchNext]_watchVars => CountersAreRuns'
  <2> SUFFICES ASSUME CountersAreRuns, [WatchNext]_watchVars
               PROVE  CountersAreRuns'
    OBVIOUS
  <2>1. CASE UNCHANGED watchVars
    <3>1. log' = log /\ health' = health
      BY <2>1 DEF watchVars
    <3>2. \A a, i : FreshStart(i, a)' <=> FreshStart(i, a)
      BY <3>1 DEF FreshStart
    <3>3. \A a, i : Run(i, a)' = Run(i, a)
      BY <3>1, <3>2 DEF Run
    <3>4. \A a, i : Counted(i, a)' = Counted(i, a)
      BY <3>1, <3>2 DEF Counted
    <3>5. \A a : Counted(Len(log), a)' = Counted(Len(log), a)
      BY <3>1, <3>4
    <3>6. VerdictIsExact' <=> VerdictIsExact
      BY <3>1, <3>3 DEF VerdictIsExact
    <3> QED  BY <3>1, <3>5, <3>6 DEF CountersAreRuns
  <2> QED  BY <2>1, ProbeExact, ReplacedExact DEF WatchNext, WatchDone
<1>3. CountersAreRuns => VerdictIsExact
  BY DEF CountersAreRuns
<1> QED  BY <1>1, <1>2, <1>3, PTL DEF WatchSpec
=============================================================================
