------------------------------ MODULE SelfPipe ------------------------------
(***************************************************************************)
(* The self-pipe byte by byte: signal_handler and the read of the main     *)
(* loop (src/src/main.rs).                                                 *)
(*                                                                         *)
(* There is one thread.  The kernel keeps one pending bit per signal and   *)
(* runs the handler on that thread between any two of its instructions; a  *)
(* handler can be interrupted by another signal's handler, not by its own  *)
(* signal (SaFlags::SA_RESTART, empty mask).  nix::unistd::pipe() makes a  *)
(* blocking pipe, so a write to a full pipe waits for a reader, and the    *)
(* only reader is the thread that waits.                                   *)
(***************************************************************************)
EXTENDS Naturals, Sequences

CONSTANTS
  Capacity,    \* bytes a pipe holds; 65536
  ReadSize     \* length of the main loop's buffer; 64

ASSUME SizesAssumption == Capacity \in Nat \ {0} /\ ReadSize \in Nat \ {0}

VARIABLES
  pending,     \* signals raised and not delivered
  handlers,    \* handlers on the thread's stack, the innermost first
  queue,       \* bytes in the pipe
  got          \* kinds the last read returned

pipeVars == <<pending, handlers, queue, got>>

Signals == {"SIGCHLD", "SIGTERM", "SIGINT"}
Bytes   == {"C", "T"}

KindsIn(bytes) == {bytes[i] : i \in DOMAIN bytes}
Running        == KindsIn(handlers)

Byte(sig) == IF sig = "SIGCHLD" THEN "C" ELSE "T"

Init == pending = {} /\ handlers = <<>> /\ queue = <<>> /\ got = {}

Raise(sig) ==
  /\ pending' = pending \cup {sig}
  /\ UNCHANGED <<handlers, queue, got>>

Deliver(sig) ==
  /\ sig \in pending \ Running
  /\ pending' = pending \ {sig}
  /\ handlers' = <<sig>> \o handlers
  /\ UNCHANGED <<queue, got>>

\* Fault variant: O_NONBLOCK, and a full pipe drops whatever byte it is.
HandlerWrites_Drops ==
  /\ handlers # <<>>
  /\ queue' = IF Len(queue) < Capacity
              THEN Append(queue, Byte(Head(handlers))) ELSE queue
  /\ handlers' = Tail(handlers)
  /\ UNCHANGED <<pending, got>>

\* The write of the innermost handler; it returns once there is room.
HandlerWrites ==
  /\ handlers # <<>>
  /\ Len(queue) < Capacity
  /\ queue' = Append(queue, Byte(Head(handlers)))
  /\ handlers' = Tail(handlers)
  /\ UNCHANGED <<pending, got>>

\* How much of the queue one read takes.
Taken == IF Len(queue) < ReadSize THEN Len(queue) ELSE ReadSize

\* Fault variant: the pipe is drained, but only the first buffer is searched.
Unread_Nothing == <<>>

Unread == SubSeq(queue, Taken + 1, Len(queue))

MainReads ==
  /\ handlers = <<>> /\ queue # <<>> /\ got = {}
  /\ got' = KindsIn(SubSeq(queue, 1, Taken))
  /\ queue' = Unread
  /\ UNCHANGED <<pending, handlers>>

\* got_chld and got_term have been acted on; the loop goes round.
MainActs ==
  /\ handlers = <<>> /\ got # {}
  /\ got' = {}
  /\ UNCHANGED <<pending, handlers, queue>>

\* The thread waits in write(2) for itself.
Stuck == handlers # <<>> /\ Len(queue) = Capacity
Waits == Stuck /\ UNCHANGED pipeVars

Next == \/ \E sig \in Signals : Raise(sig) \/ Deliver(sig)
        \/ HandlerWrites \/ MainReads \/ MainActs \/ Waits

Spec == Init /\ [][Next]_pipeVars

(***************************************************************************)
(* Fairness: the thread is scheduled (in the handler or in the loop), and  *)
(* the kernel delivers a pending signal when the thread next runs, so a    *)
(* signal that keeps finding its own handler done is delivered.            *)
(***************************************************************************)
FairSpec ==
  /\ Spec
  /\ WF_pipeVars(HandlerWrites)
  /\ SF_pipeVars(MainReads)
  /\ SF_pipeVars(MainActs)
  /\ \A sig \in Signals : SF_pipeVars(Deliver(sig))

-----------------------------------------------------------------------------
\* Every variable stays in its type; the queue never exceeds the capacity.
TypeOK ==
  /\ pending \subseteq Signals
  /\ handlers \in Seq(Signals)
  /\ queue \in Seq(Bytes)
  /\ Len(queue) <= Capacity
  /\ got \subseteq Bytes

(***************************************************************************)
(* The queue implements SignalPipe, the pipe that module Teeproxyd uses:   *)
(* whatever nesting of handlers and length of reads, a kind of signal is   *)
(* in the abstract pipe from its write until a read returns it.            *)
(***************************************************************************)
Abstract == INSTANCE SignalPipe WITH pipe <- KindsIn(queue)
PipeAsPromised == Abstract!PipeSpec

(***************************************************************************)
(* SIGTERM, once raised, is returned by a read, however many SIGCHLDs are  *)
(* before and after it, unless the thread is stuck for good.  This is the  *)
(* strong fairness of ReadSignals that module Teeproxyd assumes.           *)
(***************************************************************************)
TermIsRead == <>[]Stuck \/ ("SIGTERM" \in pending ~> "T" \in got)
=============================================================================
