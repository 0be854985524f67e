-------------------------- MODULE IpcHistoryProofs --------------------------
(***************************************************************************)
(* Every piece of the client's stream gets its own answer, for every limit *)
(* on a line, every size of the socket and every stream.                   *)
(***************************************************************************)
EXTENDS IpcHistory, SequenceTheorems, TLAPS

USE CapacitiesAssumption

-----------------------------------------------------------------------------
(* The reference, of two streams of which one begins the other.            *)

LEMMA MaxIs ==
  ASSUME NEW S \in SUBSET Nat, NEW m \in S, \A y \in S : m >= y
  PROVE  Max(S) = m
<1>1. Max(S) \in S /\ \A y \in S : Max(S) >= y
  BY Zenon DEF Max
<1>2. Max(S) \in Nat /\ m \in Nat /\ Max(S) >= m /\ m >= Max(S)
  BY <1>1
<1> QED  BY <1>2

\* The byte after q full lines of the limit and d more bytes.
LEMMA Modulo ==
  ASSUME NEW q \in Nat, NEW d \in Nat, d < MaxLine
  PROVE  (q * MaxLine + d) % MaxLine = d
OBVIOUS

\* No line end between the one at b and byte i: the column counts from b.
LEMMA ColumnIs ==
  ASSUME NEW s \in Seq(Bytes), NEW i \in 1..Len(s), NEW b \in 0..(i - 1),
         b = 0 \/ s[b] = "nl",
         \A j \in (b + 1)..(i - 1) : s[j] # "nl"
  PROVE  Column(s, i) = i - b
<1> DEFINE S == {0} \cup {j \in 1..(i - 1) : s[j] = "nl"}
<1>1. S \in SUBSET Nat /\ b \in S
  OBVIOUS
<1>2. \A y \in S : b >= y
  OBVIOUS
<1> HIDE DEF S
<1>3. Max(S) = b
  BY <1>1, <1>2, MaxIs
<1> QED  BY <1>3 DEF Column, S

\* t begins with the m bytes of s.
Begins(s, t) ==
  /\ s \in Seq(Bytes) /\ t \in Seq(Bytes) /\ Len(s) <= Len(t)
  /\ \A i \in 1..Len(s) : s[i] = t[i]

LEMMA ColumnKept ==
  ASSUME NEW s, NEW t, Begins(s, t), NEW i \in 1..Len(s)
  PROVE  Column(s, i) = Column(t, i)
<1>1. {j \in 1..(i - 1) : s[j] = "nl"} = {j \in 1..(i - 1) : t[j] = "nl"}
  BY DEF Begins
<1> QED  BY <1>1 DEF Column

(***************************************************************************)
(* A stream is at the start of a piece: q times the limit behind the last  *)
(* line end, or behind the start.                                          *)
(***************************************************************************)
Whole(s) ==
  \E b \in 0..Len(s), q \in Nat :
    /\ b = 0 \/ s[b] = "nl"
    /\ \A j \in (b + 1)..Len(s) : s[j] # "nl"
    /\ Len(s) = b + q * MaxLine

\* t goes on from s with one piece.
OnePiece(s, t) ==
  /\ Begins(s, t) /\ Whole(s) /\ Len(s) < Len(t)
  /\ Len(t) - Len(s) <= MaxLine
  /\ \A i \in (Len(s) + 1)..(Len(t) - 1) : t[i] # "nl"

\* Its last byte is its only end.
LEMMA EndsNext ==
  ASSUME NEW s, NEW t, OnePiece(s, t)
  PROVE  Ends(t) = Ends(s) \cup {Len(t)}
<1> DEFINE m == Len(s)
           n == Len(t)
<1>1. /\ s \in Seq(Bytes) /\ t \in Seq(Bytes) /\ m \in Nat /\ n \in Nat /\ m < n
      /\ n - m <= MaxLine
      /\ \A i \in 1..m : s[i] = t[i]
      /\ \A i \in (m + 1)..(n - 1) : t[i] # "nl"
  BY DEF OnePiece, Begins
<1>2. PICK b \in 0..m, q \in Nat :
        /\ b = 0 \/ s[b] = "nl"
        /\ \A j \in (b + 1)..m : s[j] # "nl"
        /\ m = b + q * MaxLine
  BY DEF OnePiece, Whole
<1>3. ASSUME NEW i \in 1..m PROVE i \in Ends(t) <=> i \in Ends(s)
  <2>1. Column(s, i) = Column(t, i)
    BY <1>1, ColumnKept DEF OnePiece
  <2>2. i \in 1..n /\ i # n /\ s[i] = t[i]
    BY <1>1
  <2>3. CASE i # m
    BY <2>1, <2>2, <2>3 DEF Ends
  <2>4. CASE i = m /\ s[i] = "nl"
    BY <2>2, <2>4 DEF Ends
  <2>5. CASE i = m /\ s[i] # "nl"
    <3>1. b \in 0..(i - 1)
      BY <1>1, <1>2, <2>5
    <3>2. Column(s, i) = i - b
      <4>1. \A j \in (b + 1)..(i - 1) : s[j] # "nl"
        BY <1>1, <1>2, <2>5
      <4>2. s \in Seq(Bytes) /\ i \in 1..Len(s)
        BY <1>1
      <4> QED  BY <1>2, <3>1, <4>1, <4>2, ColumnIs
    <3>3. i - b = q * MaxLine + 0
      BY <1>1, <1>2, <2>5
    <3>4. (q * MaxLine + 0) % MaxLine = 0
      BY Modulo
    <3>5. Column(s, i) % MaxLine = 0 /\ Column(t, i) % MaxLine = 0
      BY <2>1, <3>2, <3>3, <3>4
    <3> QED  BY <1>1, <2>2, <3>5 DEF Ends
  <2> QED  BY <2>3, <2>4, <2>5
<1>4. ASSUME NEW i \in (m + 1)..(n - 1) PROVE i \notin Ends(t)
  <2>1. i \in 1..Len(t) /\ b \in 0..(i - 1) /\ i # Len(t) /\ t[i] # "nl"
    BY <1>1
  <2>2. b = 0 \/ t[b] = "nl"
    BY <1>1, <1>2
  <2>3. ASSUME NEW j \in (b + 1)..(i - 1) PROVE t[j] # "nl"
    <3>1. j \in (b + 1)..m \/ j \in (m + 1)..(n - 1)
      BY <1>1
    <3> QED  BY <1>1, <1>2, <3>1
  <2>4. Column(t, i) = i - b
    BY <1>1, <2>1, <2>2, <2>3, ColumnIs
  <2>5. i - m \in Nat /\ i - m < MaxLine /\ i - m # 0
    BY <1>1
  <2>6. i - b = q * MaxLine + (i - m)
    BY <1>1, <1>2
  <2>7. (q * MaxLine + (i - m)) % MaxLine = i - m
    BY <2>5, Modulo
  <2>8. Column(t, i) % MaxLine # 0
    BY <2>4, <2>5, <2>6, <2>7
  <2> QED  BY <2>1, <2>8 DEF Ends
<1>5. n \in Ends(t)
  BY <1>1 DEF Ends
<1>6. /\ Ends(t) \subseteq 1..n /\ Ends(s) \subseteq 1..m
      /\ \A i \in 1..n : i \in 1..m \/ i \in (m + 1)..(n - 1) \/ i = n
  BY <1>1 DEF Ends
<1> HIDE DEF m
<1>7. Ends(t) = Ends(s) \cup {n}
  <2>1. \A i \in Ends(t) : i \in Ends(s) \cup {n}
    BY <1>3, <1>4, <1>6
  <2>2. \A i \in Ends(s) : i \in Ends(t)
    BY <1>3, <1>6
  <2> QED  BY <1>5, <2>1, <2>2
<1> QED  BY <1>7

\* Where the piece that ends with byte i begins, less one.
Before(s, i) == Max({0} \cup {j \in Ends(s) : j < i})

Started(s) == \A i \in Ends(s) : Before(s, i) \in 0..(i - 1)

\* The pieces of s are pieces of t, and the rest of t is the last one.
LEMMA PiecesNext ==
  ASSUME NEW s, NEW t, OnePiece(s, t), Started(s)
  PROVE  /\ \A i \in Ends(s) : Piece(t, i) = Piece(s, i)
         /\ Piece(t, Len(t)) = Text(SubSeq(t, Len(s) + 1, Len(t)))
         /\ Started(t)
<1> DEFINE m == Len(s)
           n == Len(t)
<1>1. /\ s \in Seq(Bytes) /\ t \in Seq(Bytes) /\ m \in Nat /\ n \in Nat /\ m < n
      /\ \A i \in 1..m : s[i] = t[i]
  BY DEF OnePiece, Begins
<1>2. Ends(t) = Ends(s) \cup {n} /\ Ends(s) \subseteq 1..m
  BY EndsNext DEF Ends
<1>3. ASSUME NEW i \in Ends(s)
      PROVE  Before(t, i) = Before(s, i) /\ Piece(t, i) = Piece(s, i)
  <2>1. {j \in Ends(t) : j < i} = {j \in Ends(s) : j < i}
    BY <1>1, <1>2
  <2>2. Before(t, i) = Before(s, i)
    BY <2>1 DEF Before
  <2>3. PICK k \in 1..i : k = 1 + Before(s, i)
    BY <1>2 DEF Started
  <2>4. SubSeq(t, k, i) = SubSeq(s, k, i)
    <3>1. i \in 1..m /\ k \in Nat /\ i \in Nat
      BY <1>2
    <3>2. /\ SubSeq(t, k, i) = [j \in 1..((i - k) + 1) |-> t[(j + k) - 1]]
          /\ SubSeq(s, k, i) = [j \in 1..((i - k) + 1) |-> s[(j + k) - 1]]
      BY <1>1, <3>1
    <3>3. \A j \in 1..((i - k) + 1) : t[(j + k) - 1] = s[(j + k) - 1]
      BY <1>1, <3>1
    <3> QED  BY <3>2, <3>3
  <2> QED  BY <2>2, <2>3, <2>4 DEF Piece, Before
<1>4. Before(t, n) = m
  <2>1. {j \in Ends(t) : j < n} = Ends(s)
    BY <1>1, <1>2
  <2>2. m \in {0} \cup Ends(s)
    BY <1>1 DEF Ends
  <2>3. {0} \cup Ends(s) \in SUBSET Nat /\ \A y \in {0} \cup Ends(s) : m >= y
    BY <1>1, <1>2
  <2>4. Max({0} \cup Ends(s)) = m
    BY <2>2, <2>3, MaxIs
  <2> QED  BY <2>1, <2>4 DEF Before
<1>5. Piece(t, n) = Text(SubSeq(t, m + 1, n))
  <2>1. 1 + Before(t, n) = m + 1
    BY <1>1, <1>4
  <2> QED  BY <2>1 DEF Piece, Before
<1>6. ASSUME NEW i \in Ends(t) PROVE Before(t, i) \in 0..(i - 1)
  <2>1. CASE i \in Ends(s)
    BY <1>3, <2>1 DEF Started
  <2>2. CASE i = n
    BY <1>1, <1>4, <2>2
  <2> QED  BY <1>2, <2>1, <2>2
<1> QED  BY <1>3, <1>5, <1>6 DEF Started

\* After a piece that the limit or a line end has ended comes a whole one.
LEMMA WholeNext ==
  ASSUME NEW s, NEW t, OnePiece(s, t),
         t[Len(t)] = "nl" \/ Len(t) - Len(s) = MaxLine
  PROVE  Whole(t)
<1> DEFINE m == Len(s)
           n == Len(t)
<1>1. /\ m \in Nat /\ n \in Nat /\ m < n
      /\ \A i \in 1..m : s[i] = t[i]
      /\ \A i \in (m + 1)..(n - 1) : t[i] # "nl"
  BY DEF OnePiece, Begins
<1>2. CASE t[n] = "nl"
  <2>1. n \in 0..n /\ 0 \in Nat /\ n = n + 0 * MaxLine
    BY <1>1
  <2>2. \A j \in (n + 1)..n : t[j] # "nl"
    BY <1>1
  <2> QED  BY <1>2, <2>1, <2>2 DEF Whole
<1>3. CASE t[n] # "nl" /\ n - m = MaxLine
  <2>1. PICK b \in 0..m, q \in Nat :
          /\ b = 0 \/ s[b] = "nl"
          /\ \A j \in (b + 1)..m : s[j] # "nl"
          /\ m = b + q * MaxLine
    BY DEF OnePiece, Whole
  <2>2. b \in 0..n /\ q + 1 \in Nat /\ (b = 0 \/ t[b] = "nl")
    BY <1>1, <2>1
  <2>3. n = b + (q + 1) * MaxLine
    <3>1. (q + 1) * MaxLine = q * MaxLine + MaxLine /\ q * MaxLine \in Nat
      OBVIOUS
    <3> QED  BY <1>1, <1>3, <2>1, <3>1
  <2>4. ASSUME NEW j \in (b + 1)..n PROVE t[j] # "nl"
    <3>1. j \in (b + 1)..m \/ j \in (m + 1)..(n - 1) \/ j = n
      BY <1>1
    <3> QED  BY <1>1, <1>3, <2>1, <3>1
  <2> QED  BY <2>2, <2>3, <2>4 DEF Whole
<1> QED  BY <1>2, <1>3

-----------------------------------------------------------------------------
Answer == [upto : Nat, is : {"reply", "parse_error"}]

\* The consequent of AnswersAreExact, of any stream and any answers.
Exact(s, as) ==
  /\ {as[k].upto : k \in DOMAIN as} = {i \in Ends(s) : Piece(s, i) # <<>>}
  /\ \A k \in DOMAIN as :
       /\ as[k].is = AnswerTo(Piece(s, as[k].upto))
       /\ \A l \in 1..(k - 1) : as[l].upto < as[k].upto

LEMMA Appended ==
  ASSUME NEW as \in Seq(Answer), NEW e \in Answer
  PROVE  LET bs == Append(as, e)
             c  == Len(as)
         IN  /\ DOMAIN bs = 1..(c + 1) /\ bs[c + 1] = e
             /\ \A k \in 1..c : bs[k] = as[k]
             /\ \A k \in 1..(c + 1) : k \in 1..c \/ k = c + 1
<1>1. Append(as, e) \in Seq(Answer) /\ Len(Append(as, e)) = Len(as) + 1
  BY AppendProperties
<1>2. DOMAIN Append(as, e) = 1..(Len(as) + 1)
  BY <1>1, LenProperties
<1>3. Append(as, e)[Len(as) + 1] = e
  BY AppendProperties
<1>4. \A k \in 1..Len(as) : Append(as, e)[k] = as[k]
  BY AppendProperties
<1>5. \A k \in 1..(Len(as) + 1) : k \in 1..Len(as) \/ k = Len(as) + 1
  <2>1. \A c \in Nat : \A k \in 1..(c + 1) : k \in 1..c \/ k = c + 1
    OBVIOUS
  <2>2. Len(as) \in Nat
    BY LenProperties
  <2> QED  BY <2>1, <2>2, Zenon
<1> QED  BY <1>2, <1>3, <1>4, <1>5

\* An empty piece needs no answer, another one needs one more.
LEMMA ExactNext ==
  ASSUME NEW s, NEW t, OnePiece(s, t), Started(s),
         NEW as \in Seq(Answer), Exact(s, as),
         NEW text, text = Text(SubSeq(t, Len(s) + 1, Len(t)))
  PROVE  /\ text = <<>> => Exact(t, as)
         /\ text # <<>> =>
              Exact(t, Append(as, [upto |-> Len(t), is |-> AnswerTo(text)]))
<1> DEFINE n == Len(t)
           c == Len(as)
           new == [upto |-> n, is |-> AnswerTo(text)]
<1>1. /\ Ends(t) = Ends(s) \cup {n} /\ n \notin Ends(s) /\ n \in Nat
      /\ \A i \in Ends(s) : i \in Nat /\ i < n
  <2>1. Ends(t) = Ends(s) \cup {n}
    BY EndsNext
  <2>2. Ends(s) \subseteq 1..Len(s) /\ Len(s) \in Nat /\ n \in Nat /\ Len(s) < n
    BY DEF Ends, OnePiece, Begins
  <2> QED  BY <2>1, <2>2
<1>2. /\ \A i \in Ends(s) : Piece(t, i) = Piece(s, i)
      /\ Piece(t, n) = text
  BY PiecesNext
<1>3. DOMAIN as = 1..c /\ c \in Nat
  BY LenProperties
<1>4. \A k \in 1..c : /\ as[k].upto \in Ends(s) /\ as[k].upto < n
                       /\ as[k].is = AnswerTo(Piece(t, as[k].upto))
                       /\ \A l \in 1..(k - 1) : as[l].upto < as[k].upto
  <2>1. \A k \in 1..c : as[k].upto \in {as[l].upto : l \in DOMAIN as}
    BY <1>3
  <2>2. \A k \in 1..c : as[k].upto \in Ends(s)
    BY <2>1 DEF Exact
  <2> QED  BY <1>1, <1>2, <1>3, <2>2 DEF Exact
<1>5. {i \in Ends(s) : Piece(s, i) # <<>>} = {i \in Ends(s) : Piece(t, i) # <<>>}
  BY <1>2
<1>6. ASSUME text = <<>> PROVE Exact(t, as)
  <2>1. {i \in Ends(t) : Piece(t, i) # <<>>} = {i \in Ends(s) : Piece(t, i) # <<>>}
    BY <1>1, <1>2, <1>6
  <2> QED  BY <1>3, <1>4, <1>5, <2>1 DEF Exact
<1>7. ASSUME text # <<>> PROVE Exact(t, Append(as, new))
  <2> DEFINE bs == Append(as, new)
  <2>1. {i \in Ends(t) : Piece(t, i) # <<>>}
          = {i \in Ends(s) : Piece(t, i) # <<>>} \cup {n}
    BY <1>1, <1>2, <1>7
  <2>2. new \in Answer /\ new.upto = n /\ new.is = AnswerTo(text)
    BY <1>1 DEF Answer, AnswerTo
  <2> HIDE DEF new
  <2>3. /\ DOMAIN bs = 1..(c + 1) /\ bs[c + 1] = new
        /\ \A k \in 1..c : bs[k] = as[k]
        /\ \A k \in 1..(c + 1) : k \in 1..c \/ k = c + 1
    BY <2>2, Appended
  <2> HIDE DEF bs, c, n
  <2>4. {bs[k].upto : k \in DOMAIN bs} = {as[k].upto : k \in DOMAIN as} \cup {n}
    <3>1. \A x : x \in {bs[k].upto : k \in DOMAIN bs}
                   <=> \E k \in 1..(c + 1) : x = bs[k].upto
      BY <2>3
    <3>2. \A x : x \in {as[k].upto : k \in DOMAIN as} <=> \E k \in 1..c : x = as[k].upto
      BY <1>3
    <3>3. \A x : (\E k \in 1..(c + 1) : x = bs[k].upto)
                   <=> (\E k \in 1..c : x = as[k].upto) \/ x = n
      <4>1. c + 1 \in 1..(c + 1) /\ \A k \in 1..c : k \in 1..(c + 1)
        BY <1>3
      <4>2. bs[c + 1].upto = n /\ \A k \in 1..c : bs[k].upto = as[k].upto
        BY <2>2, <2>3
      <4> QED  BY <2>3, <4>1, <4>2
    <3> QED  BY <3>1, <3>2, <3>3
  <2>5. {bs[k].upto : k \in DOMAIN bs} = {i \in Ends(t) : Piece(t, i) # <<>>}
    BY <1>5, <2>1, <2>4 DEF Exact
  <2>6. ASSUME NEW k \in 1..(c + 1)
        PROVE  /\ bs[k].is = AnswerTo(Piece(t, bs[k].upto))
               /\ \A l \in 1..(k - 1) : bs[l].upto < bs[k].upto
    <3>1. CASE k = c + 1
      <4>1. bs[k].upto = n /\ bs[k].is = AnswerTo(Piece(t, n))
        BY <1>2, <2>2, <2>3, <3>1
      <4>2. \A l \in 1..(k - 1) : l \in 1..c
        BY <1>3, <3>1
      <4>3. \A l \in 1..(k - 1) : bs[l].upto < n
        BY <1>4, <2>3, <4>2
      <4> QED  BY <4>1, <4>3
    <3>2. CASE k \in 1..c
      <4>1. \A l \in 1..(k - 1) : l \in 1..c
        BY <1>3, <3>2
      <4> QED  BY <1>4, <2>3, <3>2, <4>1
    <3> QED  BY <2>3, <3>1, <3>2
  <2>7. Exact(t, bs)
    BY <2>3, <2>5, <2>6 DEF Exact
  <2> QED  BY <2>7 DEF bs
<1> QED  BY <1>6, <1>7

-----------------------------------------------------------------------------
(* A stream s, of which l has been read last and x not yet.                *)

Split(s, l, x) ==
  /\ s \in Seq(Bytes) /\ l \in Seq(Bytes) /\ x \in Seq(Bytes)
  /\ Len(l) + Len(x) <= Len(s)
  /\ \A i \in 1..Len(x) : x[i] = s[(Len(s) - Len(x)) + i]
  /\ \A i \in 1..Len(l) : l[i] = s[(Len(s) - Len(x) - Len(l)) + i]

DoneOf(s, l, x) == SubSeq(s, 1, Len(s) - Len(x) - Len(l))

LEMMA PartOf ==
  ASSUME NEW s \in Seq(Bytes), NEW a \in Nat \ {0}, NEW m \in Nat,
         a <= m + 1, m <= Len(s)
  PROVE  /\ SubSeq(s, a, m) \in Seq(Bytes)
         /\ Len(SubSeq(s, a, m)) = (m + 1) - a
         /\ \A i \in 1..((m + 1) - a) : SubSeq(s, a, m)[i] = s[(a + i) - 1]
<1>1. \A i \in a..m : s[i] \in Bytes
  OBVIOUS
<1>2. /\ SubSeq(s, a, m) \in Seq(Bytes)
      /\ Len(SubSeq(s, a, m)) = IF a <= m THEN (m - a) + 1 ELSE 0
      /\ \A i \in 1..((m - a) + 1) : SubSeq(s, a, m)[i] = s[(a + i) - 1]
  BY <1>1, SubSeqProperties
<1>3. (m - a) + 1 = (m + 1) - a /\ (a > m => (m + 1) - a = 0)
  OBVIOUS
<1> QED  BY <1>2, <1>3

LEMMA BeginOf ==
  ASSUME NEW s \in Seq(Bytes), NEW m \in Nat, m <= Len(s)
  PROVE  /\ SubSeq(s, 1, m) \in Seq(Bytes) /\ Len(SubSeq(s, 1, m)) = m
         /\ \A i \in 1..m : SubSeq(s, 1, m)[i] = s[i]
<1>1. (m + 1) - 1 = m /\ 1 <= m + 1 /\ \A i \in 1..m : (1 + i) - 1 = i
  OBVIOUS
<1> QED  BY <1>1, PartOf

LEMMA DoneIs ==
  ASSUME NEW s, NEW l, NEW x, Split(s, l, x)
  PROVE  /\ Len(s) - Len(x) - Len(l) \in Nat
         /\ DoneOf(s, l, x) \in Seq(Bytes)
         /\ Len(DoneOf(s, l, x)) = Len(s) - Len(x) - Len(l)
         /\ \A i \in 1..(Len(s) - Len(x) - Len(l)) : DoneOf(s, l, x)[i] = s[i]
<1>1. /\ s \in Seq(Bytes) /\ Len(s) \in Nat /\ Len(l) \in Nat /\ Len(x) \in Nat
      /\ Len(l) + Len(x) <= Len(s)
  BY DEF Split
<1>2. Len(s) - Len(x) - Len(l) \in Nat /\ Len(s) - Len(x) - Len(l) <= Len(s)
  BY <1>1
<1> QED  BY <1>1, <1>2, BeginOf DEF DoneOf

\* One byte is sent.
LEMMA SplitSend ==
  ASSUME NEW s, NEW l, NEW x, Split(s, l, x), NEW b \in Bytes
  PROVE  /\ Split(Append(s, b), l, Append(x, b))
         /\ DoneOf(Append(s, b), l, Append(x, b)) = DoneOf(s, l, x)
<1> DEFINE n == Len(s)
           c == Len(x)
           k == Len(l)
           t == Append(s, b)
           y == Append(x, b)
<1>1. /\ s \in Seq(Bytes) /\ l \in Seq(Bytes) /\ x \in Seq(Bytes)
      /\ n \in Nat /\ k \in Nat /\ c \in Nat /\ k + c <= n
  BY DEF Split
<1>2. /\ t \in Seq(Bytes) /\ Len(t) = n + 1 /\ t[n + 1] = b
      /\ \A i \in 1..n : t[i] = s[i]
  BY <1>1, AppendProperties
<1>3. /\ y \in Seq(Bytes) /\ Len(y) = c + 1 /\ y[c + 1] = b
      /\ \A i \in 1..c : y[i] = x[i]
  BY <1>1, AppendProperties
<1>4. /\ \A i \in 1..c : x[i] = s[(n - c) + i]
      /\ \A i \in 1..k : l[i] = s[(n - c - k) + i]
  BY DEF Split
<1> HIDE DEF t, y, n, c, k
<1>5. ASSUME NEW i \in 1..(c + 1) PROVE y[i] = t[((n + 1) - (c + 1)) + i]
  <2>1. CASE i = c + 1
    <3>1. ((n + 1) - (c + 1)) + i = n + 1
      BY <1>1, <2>1
    <3> QED  BY <1>2, <1>3, <2>1, <3>1
  <2>2. CASE i \in 1..c
    <3>1. ((n + 1) - (c + 1)) + i = (n - c) + i /\ (n - c) + i \in 1..n
      BY <1>1, <2>2
    <3> QED  BY <1>2, <1>3, <1>4, <2>2, <3>1
  <2> QED  BY <1>1, <2>1, <2>2
<1>6. ASSUME NEW i \in 1..k PROVE l[i] = t[((n + 1) - (c + 1) - k) + i]
  <2>1. ((n + 1) - (c + 1) - k) + i = (n - c - k) + i /\ (n - c - k) + i \in 1..n
    BY <1>1
  <2> QED  BY <1>2, <1>4, <2>1
<1>7. Split(t, l, y)
  <2>1. k + (c + 1) <= n + 1
    BY <1>1
  <2> QED  BY <1>1, <1>2, <1>3, <1>5, <1>6, <2>1 DEF Split, k
<1>8. DoneOf(t, l, y) = DoneOf(s, l, x)
  <2>1. /\ (n + 1) - (c + 1) - k = n - c - k /\ n - c - k \in Nat
        /\ \A i \in 1..(n - c - k) : i \in 1..n
    BY <1>1
  <2>2. /\ DoneOf(t, l, y) \in Seq(Bytes) /\ Len(DoneOf(t, l, y)) = n - c - k
        /\ \A i \in 1..(n - c - k) : DoneOf(t, l, y)[i] = t[i]
    <3>1. Len(t) - Len(y) - Len(l) = n - c - k
      BY <1>2, <1>3, <2>1 DEF k
    <3>2. /\ DoneOf(t, l, y) \in Seq(Bytes)
          /\ Len(DoneOf(t, l, y)) = Len(t) - Len(y) - Len(l)
          /\ \A i \in 1..(Len(t) - Len(y) - Len(l)) : DoneOf(t, l, y)[i] = t[i]
      BY <1>7, DoneIs
    <3> QED  BY <3>1, <3>2
  <2>3. /\ DoneOf(s, l, x) \in Seq(Bytes) /\ Len(DoneOf(s, l, x)) = n - c - k
        /\ \A i \in 1..(n - c - k) : DoneOf(s, l, x)[i] = s[i]
    BY DoneIs DEF n, c, k
  <2>4. \A i \in 1..(n - c - k) : DoneOf(t, l, y)[i] = DoneOf(s, l, x)[i]
    BY <1>2, <2>1, <2>2, <2>3
  <2> QED  BY <2>2, <2>3, <2>4, SeqEqual
<1> QED  BY <1>7, <1>8 DEF t, y

\* One byte is read.
LEMMA SplitTake ==
  ASSUME NEW s, NEW l, NEW x, Split(s, l, x), x # <<>>
  PROVE  /\ Split(s, Append(l, Head(x)), Tail(x))
         /\ DoneOf(s, Append(l, Head(x)), Tail(x)) = DoneOf(s, l, x)
<1> DEFINE n == Len(s)
           c == Len(x)
           k == Len(l)
           m == Append(l, Head(x))
           y == Tail(x)
<1>1. /\ s \in Seq(Bytes) /\ l \in Seq(Bytes) /\ x \in Seq(Bytes)
      /\ n \in Nat /\ k \in Nat /\ c \in Nat /\ k + c <= n /\ c >= 1
  BY DEF Split
<1>2. /\ y \in Seq(Bytes) /\ Len(y) = c - 1 /\ Head(x) = x[1] /\ Head(x) \in Bytes
      /\ \A i \in 1..(c - 1) : y[i] = x[i + 1]
  BY <1>1
<1>3. /\ m \in Seq(Bytes) /\ Len(m) = k + 1 /\ m[k + 1] = x[1]
      /\ \A i \in 1..k : m[i] = l[i]
  BY <1>1, <1>2, AppendProperties
<1>4. /\ \A i \in 1..c : x[i] = s[(n - c) + i]
      /\ \A i \in 1..k : l[i] = s[(n - c - k) + i]
  BY DEF Split
<1> HIDE DEF m, y, n, c, k
<1>5. ASSUME NEW i \in 1..(c - 1) PROVE y[i] = s[(n - (c - 1)) + i]
  <2>1. (n - (c - 1)) + i = (n - c) + (i + 1) /\ i + 1 \in 1..c
    BY <1>1
  <2> QED  BY <1>2, <1>4, <2>1
<1>6. ASSUME NEW i \in 1..(k + 1) PROVE m[i] = s[(n - (c - 1) - (k + 1)) + i]
  <2>1. CASE i = k + 1
    <3>1. (n - (c - 1) - (k + 1)) + i = (n - c) + 1 /\ 1 \in 1..c
      BY <1>1, <2>1
    <3> QED  BY <1>3, <1>4, <2>1, <3>1
  <2>2. CASE i \in 1..k
    <3>1. (n - (c - 1) - (k + 1)) + i = (n - c - k) + i
      BY <1>1, <2>2
    <3> QED  BY <1>3, <1>4, <2>2, <3>1
  <2> QED  BY <1>1, <2>1, <2>2
<1>7. Split(s, m, y)
  <2>1. (k + 1) + (c - 1) <= n
    BY <1>1
  <2> QED  BY <1>1, <1>2, <1>3, <1>5, <1>6, <2>1 DEF Split, n
<1>8. n - (c - 1) - (k + 1) = n - c - k
  BY <1>1
<1>9. DoneOf(s, m, y) = DoneOf(s, l, x)
  BY <1>2, <1>3, <1>8 DEF DoneOf, n, c, k
<1> QED  BY <1>7, <1>9 DEF m, y

\* What was read last is a piece of its own.
LEMMA SplitDispatch ==
  ASSUME NEW s, NEW l, NEW x, Split(s, l, x), l # <<>>, Len(l) <= MaxLine,
         \A i \in 1..(Len(l) - 1) : l[i] # "nl",
         Whole(DoneOf(s, l, x))
  PROVE  LET d == DoneOf(s, l, x)
             e == DoneOf(s, <<>>, x)
         IN  /\ Split(s, <<>>, x) /\ OnePiece(d, e)
             /\ SubSeq(e, Len(d) + 1, Len(e)) = l
             /\ Len(e) = Len(s) - Len(x)
             /\ Len(e) - Len(d) = Len(l) /\ e[Len(e)] = l[Len(l)]
<1> DEFINE d == DoneOf(s, l, x)
           e == DoneOf(s, <<>>, x)
           k == Len(l)
           r == Len(s) - Len(x)
<1>1. /\ s \in Seq(Bytes) /\ l \in Seq(Bytes) /\ k \in Nat /\ k >= 1
      /\ Len(s) \in Nat /\ Len(x) \in Nat /\ r \in Nat /\ k <= r /\ r <= Len(s)
      /\ \A i \in 1..k : l[i] = s[(r - k) + i]
      /\ k <= MaxLine /\ \A i \in 1..(k - 1) : l[i] # "nl"
  BY DEF Split
<1>2. Split(s, <<>>, x)
  BY <1>1 DEF Split
<1>3. /\ d \in Seq(Bytes) /\ Len(d) = r - k /\ \A i \in 1..(r - k) : d[i] = s[i]
  BY DoneIs
<1>4. /\ e \in Seq(Bytes) /\ Len(e) = r /\ \A i \in 1..r : e[i] = s[i]
  <2>1. Len(s) - Len(x) - Len(<<>>) = r
    BY <1>1
  <2>2. /\ e \in Seq(Bytes) /\ Len(e) = Len(s) - Len(x) - Len(<<>>)
        /\ \A i \in 1..(Len(s) - Len(x) - Len(<<>>)) : e[i] = s[i]
    BY <1>2, DoneIs
  <2> HIDE DEF r, e
  <2> QED  BY <2>1, <2>2
<1> HIDE DEF d, e, r, k
<1>5. \A i \in 1..k : l[i] = e[(r - k) + i]
  <2>1. \A i \in 1..k : (r - k) + i \in 1..r
    BY <1>1
  <2> QED  BY <1>1, <1>4, <2>1
<1>6. OnePiece(d, e)
  <2>1. Begins(d, e) /\ Len(d) < Len(e) /\ Len(e) - Len(d) <= MaxLine
    <3>1. Len(d) \in Nat /\ Len(d) < Len(e) /\ Len(e) - Len(d) = k
      BY <1>1, <1>3, <1>4
    <3>2. \A i \in 1..Len(d) : d[i] = e[i]
      <4>1. \A i \in 1..(r - k) : i \in 1..r
        BY <1>1
      <4> QED  BY <1>3, <1>4, <4>1
    <3>3. Len(d) <= Len(e)
      BY <1>1, <1>3, <1>4
    <3> QED  BY <1>1, <1>3, <1>4, <3>1, <3>2, <3>3 DEF Begins
  <2>2. ASSUME NEW i \in ((r - k) + 1)..(r - 1) PROVE e[i] # "nl"
    <3>1. PICK j \in 1..(k - 1) : (r - k) + j = i
      <4>1. i - (r - k) \in 1..(k - 1) /\ (r - k) + (i - (r - k)) = i
        BY <1>1
      <4> QED  BY <4>1
    <3>2. j \in 1..k
      BY <1>1
    <3> QED  BY <1>1, <1>5, <3>1, <3>2
  <2>3. \A i \in (Len(d) + 1)..(Len(e) - 1) : e[i] # "nl"
    BY <1>3, <1>4, <2>2
  <2>4. Whole(d)
    BY DEF d
  <2> QED  BY <2>1, <2>3, <2>4 DEF OnePiece
<1>7. SubSeq(e, (r - k) + 1, r) = l
  <2> DEFINE u == SubSeq(e, (r - k) + 1, r)
  <2>1. PICK a \in Nat \ {0} : a = (r - k) + 1
    BY <1>1
  <2>2. a <= r + 1 /\ r <= Len(e) /\ r \in Nat /\ (r + 1) - a = k
    BY <1>1, <1>4, <2>1
  <2>3. /\ u \in Seq(Bytes) /\ Len(u) = (r + 1) - a
        /\ \A i \in 1..((r + 1) - a) : u[i] = e[(a + i) - 1]
    BY <1>4, <2>1, <2>2, PartOf
  <2>4. Len(u) = k /\ \A i \in 1..k : u[i] = e[(((r - k) + 1) + i) - 1]
    BY <2>1, <2>2, <2>3
  <2>5. \A i \in 1..k : (((r - k) + 1) + i) - 1 = (r - k) + i
    BY <1>1
  <2>6. \A i \in 1..k : u[i] = l[i]
    BY <1>5, <2>4, <2>5
  <2> HIDE DEF u
  <2>7. u = l
    BY <1>1, <2>3, <2>4, <2>6, SeqEqual DEF k
  <2> QED  BY <2>7 DEF u
<1>8. r - (r - k) = k /\ e[r] = l[k]
  <2>1. k \in 1..k /\ (r - k) + k = r /\ r - (r - k) = k
    BY <1>1
  <2> QED  BY <1>5, <2>1
<1> QED  BY <1>2, <1>3, <1>4, <1>6, <1>7, <1>8 DEF d, e, r, k

-----------------------------------------------------------------------------
(* The inductive invariant.                                                *)

HistoryType ==
  /\ at \in {"idle", "read", "dispatch", "write"}
  /\ peer \in {"none", "open", "half", "closed"}
  /\ inbox \in Seq(Bytes) /\ line \in Seq(Bytes) /\ sent \in Seq(Bytes)
  /\ answers \in Seq(Answer) /\ answer \in {"reply", "parse_error"}

\* Between two connections nothing is left of the one before.
Cleared == /\ at = "idle" => inbox = <<>> /\ line = <<>> /\ peer = "none"
           /\ at # "idle" => peer # "none"

\* The client has sent all it will, and all of it has been read.
Final == inbox = <<>> /\ peer # "open"

\* The line that is being read is shorter than the limit and has not ended;
\* one that is dispatched has, at its last byte.
LineShape ==
  /\ at = "read" => /\ Len(line) < MaxLine
                    /\ \A i \in 1..Len(line) : line[i] # "nl"
  /\ at = "dispatch" =>
       /\ line # <<>> /\ Len(line) <= MaxLine
       /\ \A i \in 1..(Len(line) - 1) : line[i] # "nl"
       /\ line[Len(line)] = "nl" \/ Len(line) = MaxLine \/ Final
  /\ at = "write" => line = <<>>

(***************************************************************************)
(* The stream falls into what is done, the line and the inbox; what is     *)
(* done has its answers and ends where the reference ends a piece too,     *)
(* unless the client left before.                                          *)
(***************************************************************************)
Answered ==
  at # "idle" =>
    /\ Split(sent, line, inbox)
    /\ Started(Done) /\ Exact(Done, answers)
    /\ Whole(Done) \/ (Final /\ line = <<>> /\ at # "dispatch")

HInv == HistoryType /\ Cleared /\ LineShape /\ Answered

LEMMA DoneDef == Done = DoneOf(sent, line, inbox)
BY DEF Done, DoneOf

\* Nothing has been sent: nothing is to be answered.
LEMMA NothingSent ==
  /\ Split(<<>>, <<>>, <<>>) /\ DoneOf(<<>>, <<>>, <<>>) = <<>>
  /\ Started(<<>>) /\ Exact(<<>>, <<>>) /\ Whole(<<>>)
<1>1. <<>> \in Seq(Bytes) /\ Len(<<>>) = 0
  OBVIOUS
<1>2. Split(<<>>, <<>>, <<>>)
  BY <1>1 DEF Split
<1>3. DoneOf(<<>>, <<>>, <<>>) = <<>>
  <2>1. /\ DoneOf(<<>>, <<>>, <<>>) \in Seq(Bytes)
        /\ Len(DoneOf(<<>>, <<>>, <<>>)) = Len(<<>>) - Len(<<>>) - Len(<<>>)
    BY <1>2, DoneIs
  <2>2. Len(DoneOf(<<>>, <<>>, <<>>)) = 0
    BY <1>1, <2>1
  <2> QED  BY <2>1, <2>2
<1>4. Ends(<<>>) = {}
  BY <1>1 DEF Ends
<1>5. Started(<<>>)
  BY <1>4 DEF Started
<1>6. Exact(<<>>, <<>>)
  <2>1. DOMAIN <<>> = {}
    BY <1>1
  <2> QED  BY <1>4, <2>1 DEF Exact
<1>7. Whole(<<>>)
  <2>1. 0 \in 0..0 /\ 0 \in Nat /\ 0 = 0 + 0 * MaxLine /\ (0 + 1)..0 = {}
    OBVIOUS
  <2> QED  BY <1>1, <2>1 DEF Whole
<1> QED  BY <1>2, <1>3, <1>5, <1>6, <1>7

LEMMA InitHInv == HistoryInit => HInv
<1> SUFFICES ASSUME HistoryInit PROVE HInv
  OBVIOUS
<1>1. /\ at = "idle" /\ peer = "none" /\ inbox = <<>> /\ line = <<>>
      /\ sent = <<>> /\ answers = <<>> /\ answer = "reply"
  BY DEF HistoryInit, Init
<1> QED  BY <1>1 DEF HInv, HistoryType, Cleared, LineShape, Answered

\* A step that the history keeps.
RecordedNext == Next /\ Recorded

\* The end of a connection forgets it.
LEMMA HangUpKeeps ==
  ASSUME HInv, RecordedNext, HangUp, at # "idle"
  PROVE  HInv'
<1>1. /\ at' = "idle" /\ peer' = "none" /\ inbox' = <<>> /\ line' = <<>>
      /\ answer' = answer
  BY DEF HangUp
<1>2. inbox \in Seq(Bytes) /\ ~(Len(<<>>) > Len(inbox))
  BY DEF HInv, HistoryType
<1>3. sent' = sent /\ answers' = answers
  BY <1>1, <1>2 DEF RecordedNext, Recorded, Sends
<1> QED  BY <1>1, <1>3 DEF HInv, HistoryType, Cleared, LineShape, Answered

\* A step that leaves the stream where it is.
LEMMA SameStream ==
  ASSUME HInv, RecordedNext, at # "idle", at' # "idle",
         inbox' = inbox, line' = line, answer' = answer,
         peer' \in {"open", "half", "closed"}, peer' = "open" => peer = "open",
         \/ at' = at
         \/ at = "read" /\ at' = "dispatch" /\ line # <<>> /\ Final
         \/ at = "write" /\ at' = "read"
  PROVE  HInv'
<1> USE DEF HInv
<1>1. sent' = sent /\ answers' = answers
  <2>1. Len(inbox) \in Nat
    BY DEF HistoryType
  <2> QED  BY <2>1 DEF RecordedNext, Recorded, Sends
<1>2. Done' = Done
  BY <1>1 DEF Done
<1>3. HistoryType' /\ Cleared'
  BY <1>1 DEF HistoryType, Cleared
<1>4. Final => Final'
  BY DEF Final
<1>5. LineShape'
  <2>1. Len(line) \in Nat /\ (line # <<>> => Len(line) - 1 \in Nat)
    BY DEF HistoryType
  <2>2. CASE at' = at
    BY <1>4, <2>2 DEF LineShape
  <2>3. CASE at = "read" /\ at' = "dispatch" /\ line # <<>> /\ Final
    <3>1. \A i \in 1..(Len(line) - 1) : i \in 1..Len(line)
      BY <2>1
    <3> QED  BY <1>4, <2>1, <2>3, <3>1 DEF LineShape
  <2>4. CASE at = "write" /\ at' = "read"
    <3>1. line = <<>> /\ Len(line) = 0 /\ 1..Len(line) = {}
      BY <2>4 DEF LineShape
    <3> QED  BY <2>4, <3>1 DEF LineShape
  <2> QED  BY <2>2, <2>3, <2>4
<1>6. Answered'
  <2>1. Whole(Done) \/ (Final' /\ line = <<>> /\ at' # "dispatch")
    BY <1>4 DEF Answered
  <2> QED  BY <1>1, <1>2, <2>1 DEF Answered
<1> QED  BY <1>3, <1>5, <1>6

LEMMA SendKeeps ==
  ASSUME HInv, RecordedNext, NEW b \in Bytes, ClientSends(b)
  PROVE  HInv'
<1> USE DEF HInv
<1>1. /\ at' = at /\ line' = line /\ answer' = answer /\ peer' = peer
      /\ peer = "open" /\ inbox' = Append(inbox, b)
  BY DEF ClientSends, server
<1>2. at # "idle" /\ inbox \in Seq(Bytes) /\ sent \in Seq(Bytes)
  BY <1>1 DEF Cleared, HistoryType
<1>3. Len(inbox') > Len(inbox) /\ Last(inbox') = b
  <2>1. Len(inbox') = Len(inbox) + 1 /\ inbox'[Len(inbox) + 1] = b /\ Len(inbox) \in Nat
    BY <1>1, <1>2, AppendProperties
  <2> QED  BY <2>1 DEF Last
<1>4. sent' = Append(sent, b) /\ answers' = answers
  BY <1>1, <1>2, <1>3 DEF RecordedNext, Recorded, Sends
<1>5. HistoryType' /\ Cleared'
  <2>1. inbox' \in Seq(Bytes) /\ sent' \in Seq(Bytes)
    BY <1>1, <1>2, <1>4, AppendProperties
  <2> QED  BY <1>1, <1>2, <1>4, <2>1 DEF HistoryType, Cleared
<1>6. ~Final
  BY <1>1 DEF Final
<1>7. LineShape'
  BY <1>1, <1>6 DEF LineShape
<1>8. Split(sent', line', inbox') /\ Done' = Done
  <2>1. Split(sent, line, inbox)
    BY <1>2 DEF Answered
  <2>2. Done' = DoneOf(sent', line', inbox')
    BY DEF Done, DoneOf
  <2> QED  BY <1>1, <1>4, <2>1, <2>2, SplitSend, DoneDef
<1>9. Answered'
  BY <1>1, <1>2, <1>4, <1>6, <1>8 DEF Answered
<1> QED  BY <1>5, <1>7, <1>9

LEMMA TakeKeeps ==
  ASSUME HInv, RecordedNext, TakeByte
  PROVE  HInv'
<1> USE DEF HInv
<1> DEFINE b == Head(inbox)
<1>1. /\ at = "read" /\ inbox # <<>> /\ line' = Append(line, b)
      /\ inbox' = Tail(inbox) /\ peer' = peer /\ answer' = answer
      /\ at' = IF LineEnds(b, Len(line')) THEN "dispatch" ELSE "read"
  BY DEF TakeByte
<1>2. inbox \in Seq(Bytes) /\ line \in Seq(Bytes)
  BY DEF HistoryType
<1>3. /\ b \in Bytes /\ inbox' \in Seq(Bytes) /\ ~(Len(inbox') > Len(inbox))
  BY <1>1, <1>2
<1>4. sent' = sent /\ answers' = answers
  BY <1>1, <1>3 DEF RecordedNext, Recorded, Sends
<1> HIDE DEF b
<1>5. /\ line' \in Seq(Bytes) /\ Len(line') = Len(line) + 1 /\ line'[Len(line) + 1] = b
      /\ \A i \in 1..Len(line) : line'[i] = line[i]
      /\ Len(line) \in Nat
  BY <1>1, <1>2, <1>3, AppendProperties
<1>6. HistoryType' /\ Cleared'
  BY <1>1, <1>3, <1>4, <1>5 DEF HistoryType, Cleared
<1>7. Split(sent', line', inbox') /\ Done' = Done
  <2>1. Split(sent, line, inbox)
    BY <1>1 DEF Answered
  <2>2. Done' = DoneOf(sent', line', inbox')
    BY DEF Done, DoneOf
  <2> QED  BY <1>1, <1>4, <2>1, <2>2, SplitTake, DoneDef DEF b
<1>8. Whole(Done)
  BY <1>1 DEF Answered, Final
<1>9. Answered'
  BY <1>1, <1>4, <1>7, <1>8 DEF Answered
<1>10. Len(line) < MaxLine /\ \A i \in 1..Len(line) : line'[i] # "nl"
  BY <1>1, <1>5 DEF LineShape
<1>11. LineShape'
  <2>1. CASE LineEnds(b, Len(line'))
    <3>1. at' = "dispatch" /\ (b = "nl" \/ Len(line') = MaxLine)
      BY <1>1, <2>1 DEF LineEnds
    <3>2. line' # <<>> /\ Len(line') <= MaxLine /\ Len(line') - 1 = Len(line)
      BY <1>5, <1>10
    <3> QED  BY <1>5, <1>10, <3>1, <3>2 DEF LineShape
  <2>2. CASE ~LineEnds(b, Len(line'))
    <3>1. at' = "read" /\ b # "nl" /\ Len(line') # MaxLine
      BY <1>1, <2>2 DEF LineEnds
    <3>2. Len(line') < MaxLine
      BY <1>5, <1>10, <3>1
    <3>3. \A i \in 1..Len(line') : i \in 1..Len(line) \/ i = Len(line) + 1
      BY <1>5
    <3> QED  BY <1>5, <1>10, <3>1, <3>2, <3>3 DEF LineShape
  <2> QED  BY <2>1, <2>2
<1> QED  BY <1>6, <1>9, <1>11

LEMMA DispatchKeeps ==
  ASSUME HInv, RecordedNext, Dispatch, at' # "idle"
  PROVE  HInv'
<1> USE DEF HInv
<1>1. /\ at = "dispatch" /\ line' = <<>> /\ peer' = peer /\ inbox' = inbox
      /\ IF Text(line) = <<>> THEN at' = "read" /\ answer' = answer
         ELSE at' = "write" /\ answer' = AnswerTo(Text(line))
  BY DEF Dispatch, HangUp, socket
<1>2. sent' = sent
  <2>1. Len(inbox) \in Nat
    BY DEF HistoryType
  <2> QED  BY <1>1, <2>1 DEF RecordedNext, Recorded, Sends
<1>3. /\ Split(sent, line, inbox) /\ Started(Done) /\ Exact(Done, answers)
      /\ Whole(Done) /\ answers \in Seq(Answer)
  BY <1>1 DEF Answered, HistoryType
<1>4. /\ line # <<>> /\ Len(line) <= MaxLine
      /\ \A i \in 1..(Len(line) - 1) : line[i] # "nl"
      /\ line[Len(line)] = "nl" \/ Len(line) = MaxLine \/ Final
  BY <1>1 DEF LineShape
<1>5. Done' = DoneOf(sent, <<>>, inbox)
  BY <1>1, <1>2 DEF Done, DoneOf
<1>6. /\ Split(sent, <<>>, inbox) /\ OnePiece(Done, Done')
      /\ SubSeq(Done', Len(Done) + 1, Len(Done')) = line
      /\ Len(Done') = Len(sent) - Len(inbox)
      /\ Len(Done') - Len(Done) = Len(line) /\ Done'[Len(Done')] = line[Len(line)]
  BY <1>3, <1>4, <1>5, SplitDispatch, DoneDef
<1>7. Started(Done')
  BY <1>3, <1>6, PiecesNext
<1>8. Whole(Done') \/ Final
  BY <1>4, <1>6, WholeNext
<1>9. answers' \in Seq(Answer) /\ Exact(Done', answers')
  <2> DEFINE text == Text(line)
  <2>1. text = Text(SubSeq(Done', Len(Done) + 1, Len(Done')))
    BY <1>6
  <2> HIDE DEF text
  <2>2. /\ text = <<>> => Exact(Done', answers)
        /\ text # <<>> => Exact(Done', Append(answers, [upto |-> Len(Done'), is |-> AnswerTo(text)]))
    BY <1>3, <1>6, <2>1, ExactNext
  <2>3. CASE text = <<>>
    <3>1. answers' = answers
      BY <1>1, <2>3 DEF RecordedNext, Recorded, Sends, text
    <3> QED  BY <1>3, <2>2, <2>3, <3>1
  <2>4. CASE text # <<>>
    <3>1. answers' = Append(answers, [upto |-> Len(sent) - Len(inbox), is |-> AnswerTo(text)])
      BY <1>1, <2>4 DEF RecordedNext, Recorded, Sends, text
    <3>2. [upto |-> Len(Done'), is |-> AnswerTo(text)] \in Answer
      <4>1. Len(Done') \in Nat
        BY <1>6 DEF OnePiece, Begins
      <4> QED  BY <4>1 DEF Answer, AnswerTo
    <3> QED  BY <1>3, <1>6, <2>2, <2>4, <3>1, <3>2, AppendProperties
  <2> QED  BY <2>3, <2>4
<1>10. HistoryType' /\ Cleared'
  BY <1>1, <1>2, <1>9 DEF HistoryType, Cleared, AnswerTo
<1>11. Final => Final'
  BY <1>1 DEF Final
<1>12. Answered'
  BY <1>1, <1>2, <1>6, <1>7, <1>8, <1>9, <1>11 DEF Answered
<1>13. LineShape'
  <2>1. Len(<<>>) = 0 /\ 1..Len(<<>>) = {} /\ Len(<<>>) < MaxLine
    OBVIOUS
  <2> QED  BY <1>1, <2>1 DEF LineShape
<1> QED  BY <1>10, <1>12, <1>13

LEMMA AcceptKeeps ==
  ASSUME HInv, RecordedNext, Accept
  PROVE  HInv'
<1>1. /\ at' = "read" /\ peer' = "open" /\ inbox' = <<>> /\ line' = <<>>
      /\ sent' = <<>> /\ answers' = <<>> /\ answer' = answer
  BY DEF Accept, HInv, Cleared, RecordedNext, Recorded, Sends
<1>2. Done' = DoneOf(sent', line', inbox')
  BY DEF Done, DoneOf
<1>3. Answered'
  BY <1>1, <1>2, NothingSent DEF Answered
<1>4. HistoryType' /\ Cleared'
  BY <1>1 DEF HInv, HistoryType, Cleared
<1>5. LineShape'
  <2>1. Len(<<>>) = 0 /\ 1..Len(<<>>) = {} /\ Len(<<>>) < MaxLine
    OBVIOUS
  <2> QED  BY <1>1, <2>1 DEF LineShape
<1> QED  BY <1>3, <1>4, <1>5 DEF HInv

LEMMA NextHInv == HInv /\ [RecordedNext]_historyVars => HInv'
<1> SUFFICES ASSUME HInv, [RecordedNext]_historyVars PROVE HInv'
  OBVIOUS
<1>1. CASE UNCHANGED historyVars
  <2>1. /\ at' = at /\ peer' = peer /\ inbox' = inbox /\ line' = line
        /\ answer' = answer /\ sent' = sent /\ answers' = answers
    BY <1>1 DEF historyVars, ipcVars
  <2>2. Done' = Done /\ (Final' <=> Final)
    BY <2>1 DEF Done, Final
  <2> QED  BY <2>1, <2>2 DEF HInv, HistoryType, Cleared, LineShape, Answered
<1>2. CASE RecordedNext
  <2>1. ASSUME NEW b \in Bytes, ClientSends(b) PROVE HInv'
    BY <1>2, <2>1, SendKeeps
  <2>2. CASE ClientReads \/ ClientLeaves
    <3>1. /\ inbox' = inbox /\ line' = line /\ answer' = answer /\ at' = at
          /\ peer \in {"open", "half"} /\ peer' \in {"open", "half", "closed"}
          /\ peer' = "open" => peer = "open"
      BY <2>2 DEF ClientReads, ClientLeaves, server
    <3>2. at # "idle"
      BY <3>1 DEF HInv, Cleared
    <3> QED  BY <1>2, <3>1, <3>2, SameStream
  <2>3. CASE Accept
    BY <1>2, <2>3, AcceptKeeps
  <2>4. CASE TakeByte
    BY <1>2, <2>4, TakeKeeps
  <2>5. CASE HangUp /\ at # "idle"
    BY <1>2, <2>5, HangUpKeeps
  <2>6. CASE EndOfInput /\ ~HangUp
    <3>1. /\ at = "read" /\ at' = "dispatch" /\ line # <<>> /\ inbox = <<>>
          /\ peer \in {"half", "closed"}
          /\ line' = line /\ answer' = answer /\ peer' = peer /\ inbox' = inbox
      BY <2>6 DEF EndOfInput, socket
    <3> QED  BY <1>2, <3>1, SameStream DEF Final
  <2>7. CASE Dispatch /\ ~HangUp
    <3>1. at' # "idle"
      BY <2>7 DEF Dispatch
    <3> QED  BY <1>2, <2>7, <3>1, DispatchKeeps
  <2>8. CASE Write \/ (WriteFails /\ ~HangUp)
    <3>1. /\ at = "write" /\ at' = "read" /\ line' = line /\ answer' = answer
          /\ peer' = peer /\ inbox' = inbox
      BY <2>8 DEF Write, WriteFails, socket
    <3>2. peer \in {"open", "half", "closed"}
      BY <2>8, <3>1 DEF HInv, HistoryType, Cleared
    <3> QED  BY <1>2, <3>1, <3>2, SameStream
  <2> QED
    BY <1>2, <2>1, <2>2, <2>3, <2>4, <2>5, <2>6, <2>7, <2>8
    DEF RecordedNext, Next, Client, Serve, ReadFails, EndOfInput, Dispatch, WriteFails
<1> QED  BY <1>1, <1>2

-----------------------------------------------------------------------------
(***************************************************************************)
(* A history that is given up is taken up again with the next connection.  *)
(***************************************************************************)
GivenUp == /\ at # "idle" /\ sent = <<>> /\ answers = <<>>
           /\ inbox \in Seq(Bytes) /\ answer \in {"reply", "parse_error"}

OverInv == /\ over \in BOOLEAN
           /\ over = FALSE => HInv
           /\ over = TRUE => GivenUp

LEMMA InboxTyped ==
  ASSUME Next, inbox \in Seq(Bytes), answer \in {"reply", "parse_error"}
  PROVE  inbox' \in Seq(Bytes) /\ answer' \in {"reply", "parse_error"}
<1>1. ASSUME NEW b \in Bytes, ClientSends(b)
      PROVE  inbox' \in Seq(Bytes) /\ answer' = answer
  BY <1>1, AppendProperties DEF ClientSends, server
<1>2. CASE ClientReads \/ ClientLeaves \/ Accept
  BY <1>2 DEF ClientReads, ClientLeaves, Accept, server
<1>3. CASE TakeByte
  BY <1>3 DEF TakeByte
<1>4. CASE HangUp
  BY <1>4 DEF HangUp
<1>5. CASE Dispatch /\ ~HangUp
  BY <1>5 DEF Dispatch, AnswerTo, socket
<1>6. CASE (EndOfInput \/ WriteFails) /\ ~HangUp
  BY <1>6 DEF EndOfInput, WriteFails, socket
<1>7. CASE Write
  BY <1>7 DEF Write
<1> QED
  BY <1>1, <1>2, <1>3, <1>4, <1>5, <1>6, <1>7
  DEF Next, Client, Serve, ReadFails, EndOfInput, Dispatch, WriteFails

LEMMA OnlyHangUpEnds ==
  ASSUME Next, at # "idle", at' = "idle"
  PROVE  HangUp
<1>1. ~(\E b \in Bytes : ClientSends(b)) /\ ~ClientReads /\ ~ClientLeaves
  BY DEF ClientSends, ClientReads, ClientLeaves, server
<1>2. ~Accept /\ ~TakeByte /\ ~Write
  BY DEF Accept, TakeByte, Write
<1>3. (EndOfInput => HangUp) /\ (WriteFails => HangUp) /\ (ReadFails => HangUp)
  BY DEF EndOfInput, WriteFails, ReadFails
<1>4. Dispatch => HangUp
  BY DEF Dispatch
<1> QED  BY <1>1, <1>2, <1>3, <1>4 DEF Next, Client, Serve

LEMMA NextOverInv == OverInv /\ [HistoryNext]_historyVars => OverInv'
<1> SUFFICES ASSUME OverInv, [HistoryNext]_historyVars PROVE OverInv'
  OBVIOUS
<1>1. CASE UNCHANGED historyVars
  <2>1. over' = over
    BY <1>1 DEF historyVars
  <2>2. HInv => HInv'
    BY <1>1, NextHInv
  <2>3. GivenUp => GivenUp'
    BY <1>1 DEF GivenUp, historyVars, ipcVars
  <2> QED  BY <2>1, <2>2, <2>3 DEF OverInv
<1>2. CASE HistoryNext
  <2>1. /\ Next
        /\ over' = (at' # "idle" /\ (over \/ (Sends /\ Len(sent) = MaxSent)))
        /\ IF over' THEN sent' = <<>> /\ answers' = <<>> ELSE Recorded
    BY <1>2 DEF HistoryNext
  <2>2. over' \in BOOLEAN
    BY <2>1
  <2>3. inbox \in Seq(Bytes) /\ answer \in {"reply", "parse_error"}
    BY DEF OverInv, HInv, HistoryType, GivenUp
  <2>4. ASSUME over' = TRUE PROVE GivenUp'
    <3>1. at' # "idle" /\ sent' = <<>> /\ answers' = <<>>
      BY <2>1, <2>4
    <3>2. inbox' \in Seq(Bytes) /\ answer' \in {"reply", "parse_error"}
      BY <2>1, <2>3, InboxTyped
    <3> QED  BY <3>1, <3>2 DEF GivenUp
  <2>5. ASSUME over' = FALSE, over = FALSE PROVE HInv'
    <3>1. RecordedNext
      BY <2>1, <2>5 DEF RecordedNext
    <3>2. HInv
      BY <2>5 DEF OverInv
    <3> QED  BY <3>1, <3>2, NextHInv
  <2>6. ASSUME over' = FALSE, over = TRUE PROVE HInv'
    <3>1. Recorded /\ at' = "idle"
      BY <2>1, <2>6
    <3>2. at # "idle" /\ sent = <<>> /\ answers = <<>>
      BY <2>6 DEF OverInv, GivenUp
    <3>3. /\ peer' = "none" /\ inbox' = <<>> /\ line' = <<>> /\ answer' = answer
      BY <2>1, <3>1, <3>2, OnlyHangUpEnds DEF HangUp
    <3>4. ~(Len(<<>>) > Len(inbox))
      BY <2>3
    <3>5. sent' = <<>> /\ answers' = <<>>
      BY <3>1, <3>2, <3>3, <3>4 DEF Recorded, Sends
    <3> QED
      BY <2>3, <3>1, <3>3, <3>5
      DEF HInv, HistoryType, Cleared, LineShape, Answered
  <2> QED  BY <2>2, <2>4, <2>5, <2>6 DEF OverInv
<1> QED  BY <1>1, <1>2

\* The daemon answers every piece of the stream once, in order and with the
\* answer of its own text, on every connection whose history is kept.
THEOREM EveryPieceIsAnswered == HistorySpec => []AnswersAreExact
<1>1. OverInv => AnswersAreExact
  BY DEF OverInv, HInv, Answered, Exact, AnswersAreExact
<1>2. HistoryInit => OverInv
  BY InitHInv DEF HistoryInit, OverInv
<1> QED  BY <1>1, <1>2, NextOverInv, PTL DEF HistorySpec
=============================================================================
