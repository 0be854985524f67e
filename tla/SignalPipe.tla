----------------------------- MODULE SignalPipe -----------------------------
(***************************************************************************)
(* The self-pipe as the main loop sees it (src/src/main.rs): the kinds of  *)
(* signals that have arrived and not been read.  How many of a kind, in    *)
(* which order, and how many bytes a read takes is left open, but a kind   *)
(* only leaves the pipe through a read that returns it, and the loop does  *)
(* not read again before it has acted on what it read.                     *)
(*                                                                         *)
(* Module Teeproxyd takes its signals and its reads from here; module      *)
(* SelfPipe, with the bytes, has no others.                                *)
(***************************************************************************)
VARIABLES
  pipe,    \* kinds waiting: "C" (SIGCHLD), "T" (SIGTERM, SIGINT)
  got      \* kinds returned by the last read and not acted on yet

PipeInit == pipe = {} /\ got = {}

Arrive(byte) == pipe' = pipe \cup {byte} /\ UNCHANGED got

\* Fault variant: what did not fit into the buffer is thrown away.
Read_DropsRest ==
  /\ got = {}
  /\ got' \in (SUBSET pipe) \ {{}}
  /\ pipe' = {}

\* read() of at most 64 bytes returns some kinds, which may also stay behind.
Read ==
  /\ got = {}
  /\ got' \in (SUBSET pipe) \ {{}}
  /\ pipe' \in {rest \in SUBSET pipe : pipe \ got' \subseteq rest}

ActedOn == got' = {} /\ UNCHANGED pipe

PipeNext == Arrive("C") \/ Arrive("T") \/ Read \/ ActedOn

PipeSpec == PipeInit /\ [][PipeNext]_<<pipe, got>>
=============================================================================
