----------------------------- MODULE IpcSession -----------------------------
(***************************************************************************)
(* One IPC connection: handle_client and write_response (src/src/ipc.rs),  *)
(* called by the main loop, which does nothing else until they return.     *)
(*                                                                         *)
(* A byte is "a" (the text of one whole request object), "pad" (white      *)
(* space), "nl" (the end of a line, a carriage return before it included)  *)
(* or "bad" (not UTF-8).  A text parses when it is one object with any     *)
(* padding around it.  What a request does to the managers is in module    *)
(* Teeproxyd; here an answer is "reply" or, for a text that does not       *)
(* parse, "parse_error".                                                   *)
(***************************************************************************)
EXTENDS Naturals, Sequences

CONSTANTS
  MaxLine,        \* MAX_REQUEST_LINE_BYTES
  InCapacity,     \* bytes the socket holds for the daemon
  OutCapacity     \* answers the socket holds for the client

ASSUME CapacitiesAssumption ==
  MaxLine \in Nat \ {0} /\ InCapacity \in Nat \ {0} /\ OutCapacity \in Nat \ {0}

VARIABLES
  at,        \* where the thread is: "idle" (main loop), "read", "dispatch", "write"
  peer,      \* the client: "none", "open", "half" (sends no more), "closed"
  inbox,     \* bytes sent and not read
  line,      \* read_line's string
  answer,    \* what write_response is writing
  outbox     \* answers written and not read by the client

server == <<at, line, answer>>
socket == <<peer, inbox, outbox>>
ipcVars == <<at, peer, inbox, line, answer, outbox>>

Bytes == {"a", "pad", "nl", "bad"}

Init ==
  /\ at = "idle" /\ peer = "none"
  /\ inbox = <<>> /\ line = <<>> /\ outbox = 0
  /\ answer = "reply"

-----------------------------------------------------------------------------
(* The client.                                                             *)

ClientSends(byte) ==
  /\ peer = "open" /\ Len(inbox) < InCapacity
  /\ inbox' = Append(inbox, byte)
  /\ UNCHANGED <<server, peer, outbox>>

ClientReads ==
  /\ peer \in {"open", "half"} /\ outbox > 0
  /\ outbox' = outbox - 1
  /\ UNCHANGED <<server, peer, inbox>>

\* shutdown(SHUT_WR), or close.
ClientLeaves ==
  /\ \/ peer = "open" /\ peer' = "half"
     \/ peer \in {"open", "half"} /\ peer' = "closed"
  /\ UNCHANGED <<server, inbox, outbox>>

-----------------------------------------------------------------------------
(* The daemon.                                                             *)

Accept ==
  /\ at = "idle"
  /\ at' = "read" /\ peer' = "open"
  /\ UNCHANGED <<inbox, line, answer, outbox>>

\* handle_client returns and drops the stream.
HangUp ==
  /\ at' = "idle" /\ peer' = "none"
  /\ inbox' = <<>> /\ line' = <<>> /\ outbox' = 0
  /\ UNCHANGED answer

\* Fault variant: the line is read without take(MAX_REQUEST_LINE_BYTES).
LineEnds_NoLimit(byte, length) == byte = "nl"

\* read_line goes on until a line end or until take() has nothing left.
LineEnds(byte, length) == byte = "nl" \/ length = MaxLine

TakeByte ==
  /\ at = "read" /\ inbox # <<>>
  /\ line' = Append(line, Head(inbox))
  /\ inbox' = Tail(inbox)
  /\ at' = IF LineEnds(Head(inbox), Len(line')) THEN "dispatch" ELSE "read"
  /\ UNCHANGED <<peer, answer, outbox>>

\* EOF: Ok(0), or a last line without its end.
EndOfInput ==
  /\ at = "read" /\ inbox = <<>>
  /\ peer = "half" \/ (peer = "closed" /\ outbox = 0)
  /\ IF line = <<>> THEN HangUp
     ELSE at' = "dispatch" /\ UNCHANGED <<line, answer, socket>>

\* Fault variant: a timeout is taken for an interruption and read again.
TimesOut_Never == FALSE

\* Five seconds without a byte.
TimesOut == peer = "open"

\* The timeout, or a reset: closed with answers unread.
ReadFails ==
  /\ at = "read" /\ inbox = <<>>
  /\ TimesOut \/ (peer = "closed" /\ outbox > 0)
  /\ HangUp

Text(l) == IF l[Len(l)] = "nl" THEN SubSeq(l, 1, Len(l) - 1) ELSE l

Parses(text) ==
  \E i \in DOMAIN text :
    text[i] = "a" /\ \A j \in DOMAIN text \ {i} : text[j] = "pad"

AnswerTo(text) == IF Parses(text) THEN "reply" ELSE "parse_error"

\* read_line checks UTF-8 when it is done; an empty line has no answer.
Dispatch ==
  /\ at = "dispatch"
  /\ IF \E i \in DOMAIN line : line[i] = "bad" THEN HangUp
     ELSE /\ line' = <<>>
          /\ IF Text(line) = <<>> THEN at' = "read" /\ UNCHANGED answer
             ELSE at' = "write" /\ answer' = AnswerTo(Text(line))
          /\ UNCHANGED socket

\* write_all has no timeout: it waits while the socket is full.
Write ==
  /\ at = "write" /\ peer # "closed" /\ outbox < OutCapacity
  /\ outbox' = outbox + 1 /\ at' = "read"
  /\ UNCHANGED <<peer, inbox, line, answer>>

\* EPIPE ends the connection, except after a parse error.
WriteFails ==
  /\ at = "write" /\ peer = "closed"
  /\ IF answer = "reply" THEN HangUp
     ELSE at' = "read" /\ UNCHANGED <<line, answer, socket>>

Client == (\E b \in Bytes : ClientSends(b)) \/ ClientReads \/ ClientLeaves
Serve  == TakeByte \/ EndOfInput \/ Dispatch \/ Write \/ WriteFails
Next   == Client \/ Accept \/ Serve \/ ReadFails

Spec == Init /\ [][Next]_ipcVars

(***************************************************************************)
(* Fairness: the thread is scheduled, and the read timeout fires on a      *)
(* client that stays silent.  Nothing is assumed of the client.            *)
(***************************************************************************)
ServerFairness == WF_ipcVars(Serve) /\ WF_ipcVars(ReadFails)

\* The thread waits in write_all for a client that does not read.
Blocked == at = "write" /\ peer # "closed" /\ outbox = OutCapacity

(***************************************************************************)
(* A connection ends and the main loop goes on, whatever the client sends, *)
(* leaves out or breaks off, with two exceptions: a client that does not   *)
(* read its answers (write_all has no timeout) and one that keeps sending  *)
(* (the five seconds of main.rs:158 are per read).  They are less than     *)
(* ipc.rs:20 promises, "to prevent blocking the main loop"; the property   *)
(* is that there is no third.                                              *)
(***************************************************************************)
LoopResumes ==
  \/ []<>(at = "idle")
  \/ <>[]Blocked
  \/ []<><<\E b \in Bytes : ClientSends(b)>>_ipcVars
=============================================================================
