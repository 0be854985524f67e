------------------------------- MODULE VmTree -------------------------------
(***************************************************************************)
(* stop() of a manager statement by statement (src/src/vm.rs, ca.rs), with *)
(* graceful_kill and kill_tree (src/src/process.rs) and, for the VM, the   *)
(* crosvm that pvm-manage starts below itself.                             *)
(*                                                                         *)
(* The daemon's thread does nothing else meanwhile, so nobody reaps: the   *)
(* child stays a zombie once it has exited, and kill(pid, 0) goes on       *)
(* succeeding.  crosvm loses its parent when pvm-manage exits, and is then *)
(* no longer found by pkill -P.  A process that was sent SIGKILL no longer *)
(* forks.                                                                  *)
(***************************************************************************)
EXTENDS Naturals

CONSTANT Grace    \* rounds of 200 ms in shutdown_grace_secs

ASSUME GraceAssumption == Grace \in Nat

VARIABLES
  who,         \* "vm" or "ca"
  pc,          \* "loop" (the main loop), then the steps of stop()
  recorded,    \* child_pid is Some
  ready,       \* the VM's state is Ready
  rounds,      \* rounds of the grace loop
  child,       \* "running", "crashed" and "killed" (zombies), "reaped"
  sent,        \* signals sent to the child
  crosvm,      \* "none", "child" (of pvm-manage), "orphan", "gone"
  result       \* what graceful_kill returned

treeVars == <<who, pc, recorded, ready, rounds, child, sent, crosvm, result>>
world    == <<child, crosvm>>
manager  == <<who, recorded, ready>>

Init ==
  /\ who \in {"vm", "ca"} /\ pc = "loop"
  /\ recorded = TRUE /\ ready = FALSE
  /\ child = "running" /\ crosvm = "none"
  /\ rounds = 0 /\ sent = {} /\ result = FALSE

\* kill(pid, 0), which a zombie answers.
IsAlive == child # "reaped"
CrosvmRuns == crosvm \in {"child", "orphan"}

-----------------------------------------------------------------------------
(* The processes.                                                          *)

CrosvmStarts ==
  /\ who = "vm" /\ child = "running" /\ "KILL" \notin sent /\ crosvm = "none"
  /\ crosvm' = "child"
  /\ UNCHANGED <<manager, pc, rounds, child, sent, result>>

CrosvmExits ==
  /\ CrosvmRuns
  /\ crosvm' = "gone"
  /\ UNCHANGED <<manager, pc, rounds, child, sent, result>>

\* By itself, because of SIGTERM if it listens, or because of SIGKILL.
ChildExits ==
  /\ child = "running"
  /\ child' = IF sent = {} THEN "crashed" ELSE "killed"
  /\ crosvm' \in IF crosvm = "child" THEN {"orphan", "gone"} ELSE {crosvm}
  /\ UNCHANGED <<manager, pc, rounds, sent, result>>

-----------------------------------------------------------------------------
(* The daemon.                                                             *)

\* Fault variant: mark_dead leaves child_pid behind.
Reap_KeepsPid ==
  /\ pc = "loop" /\ child = "crashed"
  /\ child' = "reaped" /\ ready' = FALSE
  /\ UNCHANGED <<who, pc, recorded, rounds, sent, crosvm, result>>

\* reap_children and mark_dead.
Reap ==
  /\ pc = "loop" /\ child = "crashed"
  /\ child' = "reaped" /\ recorded' = FALSE /\ ready' = FALSE
  /\ UNCHANGED <<who, pc, rounds, sent, crosvm, result>>

\* probe_vsock succeeds if some crosvm answers; advance_startup sets Ready.
ProbeVsock ==
  /\ pc = "loop" /\ CrosvmRuns
  /\ ready' = TRUE
  /\ UNCHANGED <<who, pc, recorded, rounds, sent, world, result>>

\* stop() without a child_pid skips everything.
Stop ==
  /\ pc = "loop"
  /\ pc' = IF recorded THEN "check" ELSE "done"
  /\ recorded' = FALSE /\ ready' = FALSE
  /\ UNCHANGED <<who, rounds, sent, world, result>>

\* graceful_kill: is_alive, SIGTERM.
SendTerm ==
  /\ pc = "check"
  /\ IF IsAlive
     THEN sent' = sent \cup {"TERM"} /\ pc' = "grace" /\ UNCHANGED result
     ELSE result' = TRUE /\ pc' = "returned" /\ UNCHANGED sent
  /\ UNCHANGED <<manager, rounds, world>>

GraceRound ==
  /\ pc = "grace" /\ rounds < Grace
  /\ IF IsAlive
     THEN rounds' = rounds + 1 /\ UNCHANGED <<pc, result>>
     ELSE result' = TRUE /\ pc' = "returned" /\ UNCHANGED rounds
  /\ UNCHANGED <<manager, sent, world>>

\* Fault variant: the caller is told that the child is still there.
ForceKill_GivesUp ==
  /\ pc = "grace" /\ rounds = Grace
  /\ result' = FALSE /\ pc' = "returned"
  /\ UNCHANGED <<manager, rounds, sent, world>>

ForceKill ==
  /\ pc = "grace" /\ rounds = Grace
  /\ sent' = sent \cup {"KILL"} /\ pc' = "settle"
  /\ UNCHANGED <<manager, rounds, world, result>>

\* 100 ms later.
Settle ==
  /\ pc = "settle"
  /\ result' = ~IsAlive /\ pc' = "returned"
  /\ UNCHANGED <<manager, rounds, sent, world>>

\* ca.stop() is done; vm.stop() goes on with kill_tree(pid, SIGKILL).
KillTree ==
  /\ pc = "returned"
  /\ IF who = "ca" THEN pc' = "done" /\ UNCHANGED <<sent, crosvm>>
     ELSE /\ pc' = "fallback"
          /\ sent' = sent \cup {"KILL"}
          /\ crosvm' = IF crosvm = "child" THEN "gone" ELSE crosvm
  /\ UNCHANGED <<manager, rounds, child, result>>

\* Fault variant: pkill -P alone.
PkillCrosvm_None ==
  /\ pc = "fallback" /\ pc' = "done"
  /\ UNCHANGED <<manager, rounds, sent, world, result>>

\* pkill -9 -f crosvm: every crosvm there is.
PkillCrosvm ==
  /\ pc = "fallback" /\ pc' = "done"
  /\ crosvm' = IF CrosvmRuns THEN "gone" ELSE crosvm
  /\ UNCHANGED <<manager, rounds, sent, child, result>>

Stopped == pc = "done" /\ UNCHANGED treeVars

StopStep == SendTerm \/ GraceRound \/ ForceKill \/ Settle \/ KillTree \/ PkillCrosvm
World    == CrosvmStarts \/ CrosvmExits \/ ChildExits
Next     == World \/ Reap \/ ProbeVsock \/ Stop \/ StopStep \/ Stopped

Spec == Init /\ [][Next]_treeVars

\* The thread is scheduled; SIGKILL cannot be ignored, SIGTERM can.
FairSpec ==
  /\ Spec
  /\ WF_treeVars(StopStep)
  /\ WF_treeVars(ChildExits /\ "KILL" \in sent)

-----------------------------------------------------------------------------
(***************************************************************************)
(* After stop() of a child it had on record nothing of it is left running: *)
(* the child has exited or SIGKILL is on its way, and no crosvm runs,      *)
(* whichever of the two went first and at whatever point of the sequence.  *)
(***************************************************************************)
StopLeavesNoTree ==
  pc = "done" /\ child # "reaped"
    => ~CrosvmRuns /\ (child = "running" => "KILL" \in sent)

(***************************************************************************)
(* The sequence implements the one step that module Processes makes of it: *)
(* a child that is being stopped exits in the end although it may ignore   *)
(* SIGTERM, and one that had exited before is not touched.                 *)
(***************************************************************************)
Life == INSTANCE ChildLife
        WITH life <- IF child = "running" /\ sent # {} THEN "dying" ELSE child
StopAsPromised == Life!LifeSpec

(***************************************************************************)
(* Every signal of stop() goes to the daemon's own child, which nobody has *)
(* reaped: never to a pid that the kernel may have given away since, not   *)
(* even by kill_tree, which no look at the process precedes.  And SIGKILL  *)
(* meets a child that still runs only after SIGTERM and the whole grace.   *)
(***************************************************************************)
SignalsAreDue ==
  [][sent' # sent =>
       /\ child # "reaped"
       /\ child = "running" /\ "KILL" \in sent'
            => "TERM" \in sent /\ rounds = Grace]_treeVars

(***************************************************************************)
(* vm.rs:133, in stop(): "pkill crosvm as fallback"; ipc.rs:117 answers    *)
(* "vm stopped".                                                           *)
(*                                                                         *)
(* No crosvm runs after stop().                                            *)
(***************************************************************************)
StopReachesCrosvm == pc = "done" => ~CrosvmRuns
=============================================================================
