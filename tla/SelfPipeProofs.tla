--------------------------- MODULE SelfPipeProofs ---------------------------
(* Proofs about module SelfPipe, for every capacity and read size. *)
EXTENDS SelfPipe, TLAPS

\* A write adds its kind to the pipe and takes nothing out of it.
LEMMA KindsOfAppend ==
  ASSUME NEW q \in Seq(Bytes), NEW b \in Bytes
  PROVE  KindsIn(Append(q, b)) = KindsIn(q) \cup {b}
<1>1. DOMAIN Append(q, b) = 1..(Len(q) + 1)
  OBVIOUS
<1>2. Append(q, b)[Len(q) + 1] = b
  OBVIOUS
<1>3. \A i \in 1..Len(q) : Append(q, b)[i] = q[i]
  OBVIOUS
<1> QED  BY <1>1, <1>2, <1>3 DEF KindsIn

\* A read splits the queue: every kind is in what was taken or in the rest.
LEMMA KindsOfSplit ==
  ASSUME NEW q \in Seq(Bytes), NEW n \in 1..Len(q)
  PROVE  LET front == KindsIn(SubSeq(q, 1, n))
             rest  == KindsIn(SubSeq(q, n + 1, Len(q)))
         IN  /\ front \cup rest = KindsIn(q)
             /\ front # {}
<1> DEFINE f == SubSeq(q, 1, n)
           r == SubSeq(q, n + 1, Len(q))
<1>1. DOMAIN f = 1..n /\ \A i \in 1..n : f[i] = q[i]
  OBVIOUS
<1>2. DOMAIN r = 1..(Len(q) - n) /\ \A i \in 1..(Len(q) - n) : r[i] = q[n + i]
  OBVIOUS
<1>3. KindsIn(f) \subseteq KindsIn(q) /\ KindsIn(r) \subseteq KindsIn(q)
  <2>1. \A i \in 1..n : i \in DOMAIN q
    OBVIOUS
  <2>2. \A i \in 1..(Len(q) - n) : n + i \in DOMAIN q
    OBVIOUS
  <2> HIDE DEF f, r
  <2> QED  BY <1>1, <1>2, <2>1, <2>2 DEF KindsIn
<1>4. ASSUME NEW i \in DOMAIN q PROVE q[i] \in KindsIn(f) \cup KindsIn(r)
  <2>1. CASE i <= n
    BY <1>1, <2>1 DEF KindsIn
  <2>2. CASE i > n
    <3>1. i - n \in 1..(Len(q) - n) /\ n + (i - n) = i
      BY <2>2
    <3> HIDE DEF f, r
    <3> QED  BY <1>2, <3>1 DEF KindsIn
  <2> QED  BY <2>1, <2>2
<1>5. KindsIn(f) # {}
  <2>1. 1 \in DOMAIN f
    BY <1>1
  <2> HIDE DEF f
  <2> QED  BY <2>1 DEF KindsIn
<1> HIDE DEF f, r
<1>6. KindsIn(q) \subseteq KindsIn(f) \cup KindsIn(r)
  BY <1>4 DEF KindsIn
<1>7. KindsIn(f) \cup KindsIn(r) = KindsIn(q) /\ KindsIn(f) # {}
  BY <1>3, <1>5, <1>6
<1> QED  BY <1>7 DEF f, r

\* What one read takes lies within the queue.
LEMMA TakenInQueue ==
  ASSUME queue \in Seq(Bytes), queue # <<>> PROVE Taken \in 1..Len(queue)
BY SizesAssumption DEF Taken

-----------------------------------------------------------------------------
(***************************************************************************)
(* Types, and the capacity: no nesting of handlers overfills the pipe.     *)
(***************************************************************************)
THEOREM PipeTypeCorrect == Spec => []TypeOK
<1>1. Init => TypeOK
  BY SizesAssumption DEF Init, TypeOK
<1>2. TypeOK /\ [Next]_pipeVars => TypeOK'
  <2> SUFFICES ASSUME TypeOK, [Next]_pipeVars PROVE TypeOK'
    OBVIOUS
  <2>1. ASSUME NEW sig \in Signals, Raise(sig) PROVE TypeOK'
    BY <2>1 DEF TypeOK, Raise
  <2>2. ASSUME NEW sig \in Signals, Deliver(sig) PROVE TypeOK'
    BY <2>2 DEF TypeOK, Deliver
  <2>3. CASE HandlerWrites
    <3>1. Byte(Head(handlers)) \in Bytes
      BY DEF Byte, Bytes
    <3>2. queue' \in Seq(Bytes) /\ Len(queue') = Len(queue) + 1
      BY <2>3, <3>1 DEF TypeOK, HandlerWrites
    <3> QED  BY <2>3, <3>2, SizesAssumption DEF TypeOK, HandlerWrites
  <2>4. CASE MainReads
    <3>1. Taken \in 1..Len(queue)
      BY <2>4, TakenInQueue DEF TypeOK, MainReads, Unread
    <3>2. queue' \in Seq(Bytes) /\ Len(queue') <= Len(queue)
      BY <2>4, <3>1 DEF TypeOK, MainReads, Unread
    <3>3. got' \subseteq Bytes
      BY <2>4, <3>1, KindsOfSplit DEF TypeOK, MainReads, Unread, KindsIn
    <3> QED  BY <2>4, <3>2, <3>3, SizesAssumption DEF TypeOK, MainReads, Unread
  <2>5. CASE MainActs
    BY <2>5 DEF TypeOK, MainActs
  <2>6. CASE UNCHANGED pipeVars
    BY <2>6 DEF TypeOK, pipeVars
  <2> QED  BY <2>1, <2>2, <2>3, <2>4, <2>5, <2>6 DEF Next, Waits
<1> QED  BY <1>1, <1>2, PTL DEF Spec

(***************************************************************************)
(* The byte queue implements the set of kinds: raising and delivering a    *)
(* signal are invisible, a write is an arrival, a read is a read.          *)
(***************************************************************************)
THEOREM QueueImplementsPipe == Spec => PipeAsPromised
<1>1. Init => Abstract!PipeInit
  BY DEF Init, Abstract!PipeInit, KindsIn
<1>2. TypeOK /\ [Next]_pipeVars
        => [Abstract!PipeNext]_<<KindsIn(queue), got>>
  <2> SUFFICES ASSUME TypeOK, [Next]_pipeVars
               PROVE  [Abstract!PipeNext]_<<KindsIn(queue), got>>
    OBVIOUS
  <2>1. ASSUME NEW sig \in Signals, Raise(sig) \/ Deliver(sig)
        PROVE  UNCHANGED <<KindsIn(queue), got>>
    BY <2>1 DEF Raise, Deliver, KindsIn
  <2>2. CASE HandlerWrites
    <3>1. Byte(Head(handlers)) \in Bytes
      BY DEF Byte, Bytes
    <3>2. KindsIn(queue)' = KindsIn(queue) \cup {Byte(Head(handlers))}
      <4>1. queue' = Append(queue, Byte(Head(handlers))) /\ queue \in Seq(Bytes)
        BY <2>2 DEF TypeOK, HandlerWrites
      <4>2. KindsIn(queue)' = KindsIn(queue')
        BY DEF KindsIn
      <4> QED  BY <3>1, <4>1, <4>2, KindsOfAppend
    <3>3. got' = got
      BY <2>2 DEF HandlerWrites
    <3> QED  BY <3>1, <3>2, <3>3 DEF Abstract!PipeNext, Abstract!Arrive, Bytes
  <2>3. CASE MainReads
    <3> DEFINE front == SubSeq(queue, 1, Taken)
               rest  == SubSeq(queue, Taken + 1, Len(queue))
    <3>1. Taken \in 1..Len(queue)
      BY <2>3, TakenInQueue DEF TypeOK, MainReads, Unread
    <3>2. /\ KindsIn(front) \cup KindsIn(rest) = KindsIn(queue)
          /\ KindsIn(front) # {}
      BY <3>1, KindsOfSplit DEF TypeOK
    <3>3. got' = KindsIn(front) /\ KindsIn(queue)' = KindsIn(rest)
      BY <2>3 DEF MainReads, Unread, KindsIn
    <3> HIDE DEF front, rest
    <3>4. /\ got' \in (SUBSET KindsIn(queue)) \ {{}}
          /\ KindsIn(queue)' \in {s \in SUBSET KindsIn(queue) :
                                    KindsIn(queue) \ got' \subseteq s}
      BY <3>2, <3>3
    <3>5. got = {}
      BY <2>3 DEF MainReads
    <3> QED  BY <3>4, <3>5 DEF Abstract!PipeNext, Abstract!Read
  <2>4. CASE MainActs
    BY <2>4 DEF MainActs, Abstract!PipeNext, Abstract!ActedOn, KindsIn
  <2>5. CASE UNCHANGED pipeVars
    BY <2>5 DEF pipeVars, KindsIn
  <2> QED  BY <2>1, <2>2, <2>3, <2>4, <2>5 DEF Next, Waits
<1> QED  BY <1>1, <1>2, PipeTypeCorrect, PTL
         DEF Spec, PipeAsPromised, Abstract!PipeSpec
=============================================================================
