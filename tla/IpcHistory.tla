----------------------------- MODULE IpcHistory -----------------------------
(***************************************************************************)
(* IpcSession with the history of the connection: what the client has sent *)
(* and which answers it was given, against a reference that splits the     *)
(* stream by position.                                                     *)
(***************************************************************************)
EXTENDS IpcSession, FiniteSetsExt, SequencesExt

CONSTANT MaxSent    \* bytes of one connection that the history keeps

ASSUME MaxSentAssumption == MaxSent \in Nat

VARIABLES
  sent,      \* all bytes of this connection
  answers,   \* its answers: [upto, is], upto the bytes that had been read
  over       \* more than MaxSent bytes: the history is given up

historyVars == <<ipcVars, sent, answers, over>>

HistoryInit == Init /\ sent = <<>> /\ answers = <<>> /\ over = FALSE

Sends == Len(inbox') > Len(inbox)

Recorded ==
  /\ sent' = IF at = "idle" THEN <<>>
             ELSE IF Sends THEN Append(sent, Last(inbox'))
             ELSE sent
  /\ answers' = IF at = "idle" THEN <<>>
                ELSE IF at = "dispatch" /\ at' = "write"
                THEN Append(answers, [upto |-> Len(sent) - Len(inbox), is |-> answer'])
                ELSE answers

\* The history restrains nobody: a client may go on for ever.
HistoryNext ==
  /\ Next
  /\ over' = (at' # "idle" /\ (over \/ (Sends /\ Len(sent) = MaxSent)))
  /\ IF over' THEN sent' = <<>> /\ answers' = <<>> ELSE Recorded

HistorySpec == HistoryInit /\ [][HistoryNext]_historyVars /\ ServerFairness

-----------------------------------------------------------------------------
(***************************************************************************)
(* The reference.  Byte i is the k-th of its line, counted from the line   *)
(* end before it; a piece ends at a line end, at every MaxLine-th byte of  *)
(* its line, and where the stream ends.                                    *)
(***************************************************************************)
Column(s, i) == i - Max({0} \cup {j \in 1..(i - 1) : s[j] = "nl"})

Ends(s) == {i \in 1..Len(s) : \/ s[i] = "nl"
                              \/ Column(s, i) % MaxLine = 0
                              \/ i = Len(s)}

\* The text of the piece that ends with byte i.
Piece(s, i) ==
  Text(SubSeq(s, 1 + Max({0} \cup {j \in Ends(s) : j < i}), i))

\* What has been read, except for the line that is being read.
Done == SubSeq(sent, 1, Len(sent) - Len(inbox) - Len(line))

(***************************************************************************)
(* Every piece of the stream is answered once, in order, with the answer   *)
(* that its own text deserves: however the bytes arrive, whatever was      *)
(* malformed before, and if the client leaves without a line end.          *)
(***************************************************************************)
AnswersAreExact ==
  at # "idle" /\ ~over =>
    /\ {answers[k].upto : k \in DOMAIN answers}
         = {i \in Ends(Done) : Piece(Done, i) # <<>>}
    /\ \A k \in DOMAIN answers :
         /\ answers[k].is = AnswerTo(Piece(Done, answers[k].upto))
         /\ \A l \in 1..(k - 1) : answers[l].upto < answers[k].upto
=============================================================================
