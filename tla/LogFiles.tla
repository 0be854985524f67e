------------------------------ MODULE LogFiles ------------------------------
(***************************************************************************)
(* One child's log: spawn_with_log and rotate_if_needed                    *)
(* (src/src/process.rs), the children that append to it, and tail_log      *)
(* (src/src/log_collector.rs) as handle_tail_log (src/src/ipc.rs) uses it. *)
(*                                                                         *)
(* A child keeps the file it was given when it was spawned: a rename moves *)
(* the file under it, and the second rename after that unlinks it.  A file *)
(* is a sequence of lines; a line is its number in the order of writing,   *)
(* and whether it is UTF-8.                                                *)
(***************************************************************************)
EXTENDS Naturals, Sequences, SequencesExt

CONSTANTS
  Writers,         \* children of one manager, of which two may overlap
  MaxBytes,        \* 10 MiB, in lines
  MAX_TAIL_LINES,
  MaxLines         \* bound: lines written in all

ASSUME LogAssumption ==
  MaxBytes \in Nat /\ MAX_TAIL_LINES \in Nat /\ MaxLines \in Nat

VARIABLES
  cur, old,    \* the .log and .log.1 files
  fd,          \* the file of each writer: "none", "cur", "old", "lost"
  hist,        \* every line ever written
  alone        \* no two writers have overlapped so far

logVars == <<cur, old, fd, hist, alone>>

NoFile         == [exists |-> FALSE, lines |-> <<>>]
File(lines)    == [exists |-> TRUE, lines |-> lines]
Added(f, line) == File(Append(f.lines, line))

Init ==
  /\ cur = NoFile /\ old = NoFile
  /\ fd = [w \in Writers |-> "none"]
  /\ hist = <<>> /\ alone = TRUE

Moved(file) == CASE file = "cur" -> "old" [] file = "old" -> "lost" [] OTHER -> file

\* Fault variant: rotated whatever its size.
TooLarge_Any == cur.exists

TooLarge == Len(cur.lines) > MaxBytes

\* rotate_if_needed; the result of rename is dropped.
Rotate(works) ==
  IF TooLarge /\ works
  THEN [cur |-> NoFile, old |-> cur, fd |-> [w \in Writers |-> Moved(fd[w])]]
  ELSE [cur |-> cur, old |-> old, fd |-> fd]

\* spawn_with_log: rotate, open for appending, spawn; the last two may fail.
Spawn(w) ==
  /\ fd[w] = "none"
  /\ \E works, opens, spawns \in BOOLEAN :
       LET r == Rotate(works) IN
       /\ old' = r.old
       /\ cur' = IF opens THEN File(r.cur.lines) ELSE r.cur
       /\ fd' = IF opens /\ spawns THEN [r.fd EXCEPT ![w] = "cur"] ELSE r.fd
  /\ alone' = (alone /\ \A v \in Writers : fd[v] = "none")
  /\ UNCHANGED hist

WriteLine(w) ==
  /\ fd[w] # "none" /\ Len(hist) < MaxLines
  /\ \E utf8 \in BOOLEAN :
       LET line == [n |-> Len(hist) + 1, utf8 |-> utf8] IN
       /\ hist' = Append(hist, line)
       /\ cur' = IF fd[w] = "cur" THEN Added(cur, line) ELSE cur
       /\ old' = IF fd[w] = "old" THEN Added(old, line) ELSE old
  /\ UNCHANGED <<fd, alone>>

ChildExits(w) ==
  /\ fd[w] # "none"
  /\ fd' = [fd EXCEPT ![w] = "none"]
  /\ UNCHANGED <<cur, old, hist, alone>>

Next == \E w \in Writers : Spawn(w) \/ WriteLine(w) \/ ChildExits(w)

Spec == Init /\ [][Next]_logVars

-----------------------------------------------------------------------------
Smaller(m, n) == IF m < n THEN m ELSE n

\* read_to_string fails without a file, and on what is not UTF-8.
NotFound == ~cur.exists \/ \E i \in DOMAIN cur.lines : ~cur.lines[i].utf8

\* Fault variant: the first lines.
TailLog_Head(requested) ==
  SubSeq(cur.lines, 1, Smaller(Smaller(requested, MAX_TAIL_LINES), Len(cur.lines)))

\* handle_tail_log and tail_log, of a file that could be read.
TailLog(requested) ==
  LET lines == Smaller(requested, MAX_TAIL_LINES)
      start == Len(cur.lines) - Smaller(Len(cur.lines), lines)
  IN  SubSeq(cur.lines, start + 1, Len(cur.lines))

-----------------------------------------------------------------------------
(* Properties.                                                             *)

(***************************************************************************)
(* The newest MaxBytes of what the children wrote are on disk, complete    *)
(* and in order, however often they are restarted and whichever renames,   *)
(* opens and spawns fail: unless two of them have written at a time.       *)
(***************************************************************************)
RecentIsKept ==
  alone => LET disk == old.lines \o cur.lines IN
           /\ IsSuffix(disk, hist)
           /\ Len(disk) >= Smaller(Len(hist), MaxBytes)

(***************************************************************************)
(* What tail_log answers is the newest of all that was ever written: also  *)
(* just after a rotation, when it is less than what was asked for.         *)
(***************************************************************************)
TailIsNewest ==
  alone /\ ~NotFound =>
    \A n \in 0..(MAX_TAIL_LINES + 1) : IsSuffix(TailLog(n), hist)
=============================================================================
