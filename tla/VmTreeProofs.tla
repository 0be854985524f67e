---------------------------- MODULE VmTreeProofs ----------------------------
(***************************************************************************)
(* stop() leaves nothing of a child it had on record running, for every    *)
(* length of the grace period.  The inductive invariant follows SIGKILL    *)
(* through the statements of stop(): once the grace loop has been left,    *)
(* SIGKILL has been sent, or the child had been reaped before; and what    *)
(* was sent SIGKILL starts no crosvm behind the last pkill.  The same      *)
(* invariant shows that no signal goes astray.                             *)
(***************************************************************************)
EXTENDS VmTree, TLAPS

USE GraceAssumption

Steps == {"check", "grace", "settle", "returned", "fallback", "done"}

TreeType ==
  /\ who \in {"vm", "ca"} /\ pc \in Steps \cup {"loop"}
  /\ child \in {"running", "crashed", "killed", "reaped"}
  /\ sent \in SUBSET {"TERM", "KILL"}
  /\ crosvm \in {"none", "child", "orphan", "gone"}
  /\ recorded \in BOOLEAN /\ rounds \in Nat

\* In the loop a child is on record until it is reaped, and during stop()
\* nobody reaps.
OnRecord == /\ pc = "loop" => (recorded = TRUE <=> child # "reaped")
            /\ pc \in {"check", "grace", "settle", "returned", "fallback"}
                 => child # "reaped"

\* Before stop() nothing has been sent, and behind the grace loop SIGKILL has.
KillSent ==
  /\ pc \in {"loop", "check"} => sent = {}
  /\ pc \in {"settle", "returned", "fallback", "done"} /\ child # "reaped"
       => "KILL" \in sent

\* Only a VM has a crosvm, and behind the last pkill none runs.
NoCrosvm == /\ who = "ca" => crosvm = "none"
            /\ pc = "done" /\ child # "reaped" => ~CrosvmRuns

\* kill(pid, 0) never fails for a child that nobody has reaped: the early
\* returns of graceful_kill are not taken.
WaitedOut == child # "reaped" =>
               /\ pc \in {"grace", "settle", "returned", "fallback"} => "TERM" \in sent
               /\ pc \in {"settle", "returned", "fallback"} => rounds = Grace

TreeInv == TreeType /\ OnRecord /\ KillSent /\ NoCrosvm /\ WaitedOut

LEMMA InitTreeInv == Init => TreeInv
BY DEF Init, TreeInv, TreeType, OnRecord, KillSent, NoCrosvm, WaitedOut, CrosvmRuns

\* The processes: nothing they do takes a signal back or starts a crosvm late.
LEMMA WorldKeeps == TreeInv /\ World => TreeInv'
<1> SUFFICES ASSUME TreeInv, World PROVE TreeInv'
  OBVIOUS
<1> USE DEF TreeInv, TreeType, OnRecord, KillSent, NoCrosvm, WaitedOut, CrosvmRuns, Steps, manager
<1>1. CASE CrosvmStarts
  BY <1>1 DEF CrosvmStarts
<1>2. CASE CrosvmExits
  BY <1>2 DEF CrosvmExits
<1>3. CASE ChildExits
  BY <1>3 DEF ChildExits
<1> QED BY <1>1, <1>2, <1>3 DEF World

\* The main loop, up to the call of stop().
LEMMA LoopKeeps == TreeInv /\ (Reap \/ ProbeVsock \/ Stop) => TreeInv'
<1> SUFFICES ASSUME TreeInv, Reap \/ ProbeVsock \/ Stop PROVE TreeInv'
  OBVIOUS
<1> USE DEF TreeInv, TreeType, OnRecord, KillSent, NoCrosvm, WaitedOut, CrosvmRuns, Steps, world
<1>1. CASE Reap
  BY <1>1 DEF Reap
<1>2. CASE ProbeVsock
  BY <1>2 DEF ProbeVsock
<1>3. CASE Stop
  BY <1>3 DEF Stop
<1> QED BY <1>1, <1>2, <1>3

\* The statements of stop().
LEMMA StopKeeps == TreeInv /\ StopStep => TreeInv'
<1> SUFFICES ASSUME TreeInv, StopStep PROVE TreeInv'
  OBVIOUS
<1> USE DEF TreeInv, TreeType, OnRecord, KillSent, NoCrosvm, WaitedOut, CrosvmRuns, Steps,
            world, manager, IsAlive
<1>1. CASE SendTerm
  BY <1>1 DEF SendTerm
<1>2. CASE GraceRound
  BY <1>2 DEF GraceRound
<1>3. CASE ForceKill
  BY <1>3 DEF ForceKill
<1>4. CASE Settle
  BY <1>4 DEF Settle
<1>5. CASE KillTree
  BY <1>5 DEF KillTree
<1>6. CASE PkillCrosvm
  BY <1>6 DEF PkillCrosvm
<1> QED BY <1>1, <1>2, <1>3, <1>4, <1>5, <1>6 DEF StopStep

LEMMA TreeInvariant == Spec => []TreeInv
<1>1. TreeInv /\ UNCHANGED treeVars => TreeInv'
  BY DEF TreeInv, TreeType, OnRecord, KillSent, NoCrosvm, WaitedOut, CrosvmRuns, treeVars
<1>2. TreeInv /\ [Next]_treeVars => TreeInv'
  BY <1>1, WorldKeeps, LoopKeeps, StopKeeps DEF Next, Stopped
<1> QED BY InitTreeInv, <1>2, PTL DEF Spec

(***************************************************************************)
(* After stop() of a recorded child neither it nor a crosvm goes on        *)
(* running, however long the grace period is.                              *)
(***************************************************************************)
THEOREM NothingIsLeft == Spec => []StopLeavesNoTree
<1>1. TreeInv => StopLeavesNoTree
  BY DEF TreeInv, KillSent, NoCrosvm, StopLeavesNoTree
<1> QED BY TreeInvariant, <1>1, PTL

(***************************************************************************)
(* No signal of stop() reaches a pid that may be somebody else's, and      *)
(* SIGKILL comes to a running child after SIGTERM and the whole grace, for *)
(* every length of it.                                                     *)
(***************************************************************************)
THEOREM NoSignalGoesAstray == Spec => SignalsAreDue
<1> DEFINE Due == sent' # sent =>
                    /\ child # "reaped"
                    /\ child = "running" /\ "KILL" \in sent'
                         => "TERM" \in sent /\ rounds = Grace
<1>1. TreeInv /\ [Next]_treeVars => [Due]_treeVars
  <2> SUFFICES ASSUME TreeInv, Next, sent' # sent
               PROVE  /\ child # "reaped"
                      /\ child = "running" /\ "KILL" \in sent'
                           => "TERM" \in sent /\ rounds = Grace
    BY DEF treeVars
  <2> USE DEF TreeInv, TreeType, OnRecord, WaitedOut, KillSent
  <2>1. CASE SendTerm
    <3>1. sent = {}
      BY <2>1 DEF SendTerm
    <3> QED  BY <2>1, <3>1 DEF SendTerm
  <2>2. CASE ForceKill
    BY <2>2 DEF ForceKill
  <2>3. CASE KillTree
    BY <2>3 DEF KillTree
  <2>4. CASE Next /\ ~SendTerm /\ ~ForceKill /\ ~KillTree
    BY <2>4 DEF Next, World, CrosvmStarts, CrosvmExits, ChildExits, Reap, ProbeVsock,
                Stop, StopStep, GraceRound, Settle, PkillCrosvm, Stopped, treeVars
  <2> QED  BY <2>1, <2>2, <2>3, <2>4
<1> QED  BY <1>1, TreeInvariant, PTL DEF Spec, SignalsAreDue

(***************************************************************************)
(* The safety part of StopAsPromised: no interleaving of stop(), the reap  *)
(* loop and the processes takes the child through a life other than the    *)
(* one module Processes gives it.  In particular a child is dying from the *)
(* first signal on, whichever it is, and one that had exited by then stays *)
(* what it was.                                                            *)
(***************************************************************************)
THEOREM StopIsOneStep == Spec => Life!LifeSafety
<1> DEFINE Mapped == IF child = "running" /\ sent # {} THEN "dying" ELSE child
<1>1. Init => Life!LifeInit
  BY DEF Init, Life!LifeInit
<1>2. TreeInv /\ [Next]_treeVars => [Life!LifeNext]_Mapped
  <2> SUFFICES ASSUME TreeInv, [Next]_treeVars
               PROVE  Life!LifeNext \/ Mapped' = Mapped
    OBVIOUS
  <2> USE DEF Life!LifeNext, Life!Crashes, Life!Killed, Life!Exits, Life!Reaped,
              TreeInv, TreeType
  <2>1. CASE ChildExits
    BY <2>1 DEF ChildExits
  <2>2. CASE Reap
    BY <2>2 DEF Reap
  <2>3. ASSUME child' = child, sent \subseteq sent'
        PROVE  Life!LifeNext \/ Mapped' = Mapped
    BY <2>3
  <2>4. CASE CrosvmStarts \/ CrosvmExits \/ ProbeVsock \/ Stop \/ UNCHANGED treeVars
    BY <2>3, <2>4 DEF CrosvmStarts, CrosvmExits, ProbeVsock, Stop, treeVars, world
  <2>5. CASE StopStep
    BY <2>3, <2>5 DEF StopStep, SendTerm, GraceRound, ForceKill, Settle, KillTree,
                      PkillCrosvm, world
  <2> QED  BY <2>1, <2>2, <2>4, <2>5 DEF Next, World, Stopped
<1> QED  BY <1>1, <1>2, TreeInvariant, PTL DEF Spec, Life!LifeSafety
=============================================================================
