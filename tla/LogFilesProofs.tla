--------------------------- MODULE LogFilesProofs ---------------------------
(***************************************************************************)
(* What the rotation keeps and what tail_log answers, for every number of  *)
(* children, every size at which a log is rotated and every history.       *)
(***************************************************************************)
EXTENDS LogFiles, SequenceTheorems, TLAPS

USE LogAssumption

Line == [n : Nat, utf8 : BOOLEAN]

(***************************************************************************)
(* The end of a sequence by its positions, which the provers know better   *)
(* than reversed sequences.                                                *)
(***************************************************************************)
Ends(s, t) ==
  /\ Len(s) <= Len(t)
  /\ \A i \in 1..Len(s) : s[i] = t[i + (Len(t) - Len(s))]

LEMMA ReverseType ==
  ASSUME NEW S, NEW s \in Seq(S)
  PROVE  /\ Reverse(s) \in Seq(S) /\ Len(Reverse(s)) = Len(s)
         /\ \A i \in 1..Len(s) : Reverse(s)[i] = s[(Len(s) - i) + 1]
<1> DEFINE r == [i \in 1..Len(s) |-> s[(Len(s) - i) + 1]]
<1>1. Len(s) \in Nat /\ \A i \in 1..Len(s) : s[(Len(s) - i) + 1] \in S
  OBVIOUS
<1>2. r \in Seq(S) /\ Len(r) = Len(s)
  BY <1>1
<1>3. Reverse(s) = r
  BY DEF Reverse
<1> QED  BY <1>2, <1>3

\* A sequence that ends another is its suffix.
LEMMA EndsIsSuffix ==
  ASSUME NEW S, NEW s \in Seq(S), NEW t \in Seq(S), Ends(s, t)
  PROVE  IsSuffix(s, t)
<1> DEFINE a == Reverse(s)
           b == Reverse(t)
           m == Len(s)
<1>1. /\ a \in Seq(S) /\ Len(a) = m /\ \A i \in 1..m : a[i] = s[(m - i) + 1]
      /\ b \in Seq(S) /\ Len(b) = Len(t)
      /\ \A i \in 1..Len(t) : b[i] = t[(Len(t) - i) + 1]
  BY ReverseType
<1>2. m \in Nat /\ Len(t) \in Nat /\ m <= Len(t)
  BY DEF Ends
<1>3. ASSUME NEW i \in 1..m PROVE a[i] = b[i]
  <2>1. (m - i) + 1 \in 1..m /\ i \in 1..Len(t)
    BY <1>2
  <2>2. s[(m - i) + 1] = t[((m - i) + 1) + (Len(t) - m)]
    BY <2>1 DEF Ends
  <2>3. ((m - i) + 1) + (Len(t) - m) = (Len(t) - i) + 1
    BY <1>2
  <2> QED  BY <1>1, <2>1, <2>2, <2>3
<1> HIDE DEF a, b, m
<1>4. SubSeq(a, 1, m) = SubSeq(b, 1, m)
  <2>1. SubSeq(a, 1, m) = [i \in 1..m |-> a[i]]
    BY <1>1, <1>2
  <2>2. SubSeq(b, 1, m) = [i \in 1..m |-> b[i]]
    BY <1>1, <1>2
  <2> QED  BY <1>3, <2>1, <2>2
<1> QED  BY <1>1, <1>2, <1>4 DEF IsSuffix, IsPrefix, a, b, m

LEMMA EndsTrans ==
  ASSUME NEW S, NEW r \in Seq(S), NEW s \in Seq(S), NEW t \in Seq(S),
         Ends(r, s), Ends(s, t)
  PROVE  Ends(r, t)
<1>1. ASSUME NEW i \in 1..Len(r) PROVE r[i] = t[i + (Len(t) - Len(r))]
  <2>1. i + (Len(s) - Len(r)) \in 1..Len(s)
    BY DEF Ends
  <2>2. r[i] = s[i + (Len(s) - Len(r))]
    BY DEF Ends
  <2>3. s[i + (Len(s) - Len(r))] = t[(i + (Len(s) - Len(r))) + (Len(t) - Len(s))]
    BY <2>1 DEF Ends
  <2>4. (i + (Len(s) - Len(r))) + (Len(t) - Len(s)) = i + (Len(t) - Len(r))
    OBVIOUS
  <2> QED  BY <2>2, <2>3, <2>4
<1> QED  BY <1>1 DEF Ends

LEMMA ConcatEnds ==
  ASSUME NEW S, NEW s \in Seq(S), NEW t \in Seq(S)
  PROVE  s \o t \in Seq(S) /\ Len(s \o t) = Len(s) + Len(t) /\ Ends(t, s \o t)
<1>1. s \o t \in Seq(S) /\ Len(s \o t) = Len(s) + Len(t)
  OBVIOUS
<1>2. \A i \in 1..Len(t) : (s \o t)[Len(s) + i] = t[i]
  OBVIOUS
<1>3. \A i \in 1..Len(t) : i + (Len(s \o t) - Len(t)) = Len(s) + i
  BY <1>1
<1> QED  BY <1>1, <1>2, <1>3 DEF Ends

LEMMA ConcatAppend ==
  ASSUME NEW S, NEW s \in Seq(S), NEW t \in Seq(S), NEW e \in S
  PROVE  s \o Append(t, e) = Append(s \o t, e)
<1>1. /\ s \o t \in Seq(S) /\ Append(t, e) \in Seq(S) /\ <<e>> \in Seq(S)
  OBVIOUS
<1>2. Append(t, e) = t \o <<e>> /\ Append(s \o t, e) = (s \o t) \o <<e>>
  BY <1>1, AppendIsConcat
<1>3. (s \o t) \o <<e>> = s \o (t \o <<e>>)
  BY <1>1, ConcatAssociative
<1> QED  BY <1>2, <1>3

LEMMA AppendEnds ==
  ASSUME NEW S, NEW s \in Seq(S), NEW t \in Seq(S), NEW e \in S, Ends(s, t)
  PROVE  Ends(Append(s, e), Append(t, e))
<1> DEFINE d == Len(t) - Len(s)
<1>1. /\ Len(Append(s, e)) = Len(s) + 1 /\ Len(Append(t, e)) = Len(t) + 1
      /\ Len(s) \in Nat /\ Len(t) \in Nat /\ Len(s) <= Len(t)
      /\ (Len(t) + 1) - (Len(s) + 1) = d
  BY DEF Ends
<1>2. ASSUME NEW i \in 1..(Len(s) + 1) PROVE Append(s, e)[i] = Append(t, e)[i + d]
  <2>1. CASE i = Len(s) + 1
    <3>1. i + d = Len(t) + 1
      BY <1>1, <2>1
    <3> QED  BY <2>1, <3>1
  <2>2. CASE i \in 1..Len(s)
    <3>1. i + d \in 1..Len(t) /\ s[i] = t[i + d]
      BY <1>1, <2>2 DEF Ends
    <3> QED  BY <2>2, <3>1
  <2> QED  BY <1>1, <2>1, <2>2
<1> QED  BY <1>1, <1>2 DEF Ends

LEMMA SubSeqEnds ==
  ASSUME NEW S, NEW s \in Seq(S), NEW k \in Nat, k <= Len(s)
  PROVE  /\ SubSeq(s, k + 1, Len(s)) \in Seq(S)
         /\ Ends(SubSeq(s, k + 1, Len(s)), s)
<1> DEFINE u == SubSeq(s, k + 1, Len(s))
<1>1. u \in Seq(S) /\ Len(u) = Len(s) - k
  OBVIOUS
<1>2. \A i \in 1..(Len(s) - k) : u[i] = s[k + i]
  <2>1. \A i \in (k + 1)..Len(s) : s[i] \in S
    OBVIOUS
  <2>2. \A i \in 1..((Len(s) - (k + 1)) + 1) : u[i] = s[((k + 1) + i) - 1]
    BY <2>1, SubSeqProperties
  <2>3. /\ (Len(s) - (k + 1)) + 1 = Len(s) - k
        /\ \A i \in 1..(Len(s) - k) : ((k + 1) + i) - 1 = k + i
    OBVIOUS
  <2> QED  BY <2>2, <2>3
<1> HIDE DEF u
<1>3. \A i \in 1..Len(u) : i + (Len(s) - Len(u)) = k + i
  BY <1>1
<1>4. Ends(u, s)
  BY <1>1, <1>2, <1>3 DEF Ends
<1> QED  BY <1>1, <1>4 DEF u

-----------------------------------------------------------------------------
FileType == [exists : BOOLEAN, lines : Seq(Line)]

TypeOK ==
  /\ cur \in FileType /\ old \in FileType
  /\ fd \in [Writers -> {"none", "cur", "old", "lost"}]
  /\ hist \in Seq(Line)
  /\ alone \in BOOLEAN

OnDisk == old.lines \o cur.lines

(***************************************************************************)
(* The inductive invariant: while no two children have overlapped, the one *)
(* that writes has the current file, and what is on disk ends the history  *)
(* and is at least as long as the size at which a log is rotated.          *)
(***************************************************************************)
AloneOnDisk ==
  alone = TRUE =>
    /\ \A w \in Writers : fd[w] \in {"none", "cur"}
    /\ Ends(OnDisk, hist)
    /\ Len(OnDisk) >= Smaller(Len(hist), MaxBytes)

Kept == TypeOK /\ AloneOnDisk

LEMMA SmallerIs ==
  ASSUME NEW m \in Nat, NEW n \in Nat
  PROVE  Smaller(m, n) \in Nat /\ Smaller(m, n) <= m /\ m - Smaller(m, n) \in Nat
BY DEF Smaller

LEMMA InitKept == Init => Kept
<1> SUFFICES ASSUME Init PROVE Kept
  OBVIOUS
<1>1. TypeOK
  BY DEF Init, TypeOK, FileType, NoFile
<1>2. old.lines = <<>> /\ cur.lines = <<>> /\ hist = <<>>
  BY DEF Init, NoFile
<1>3. OnDisk = <<>>
  BY <1>2 DEF OnDisk
<1>4. Ends(OnDisk, hist) /\ Len(OnDisk) >= Smaller(Len(hist), MaxBytes)
  BY <1>2, <1>3 DEF Ends, Smaller
<1>5. \A w \in Writers : fd[w] = "none"
  BY DEF Init
<1> QED  BY <1>1, <1>4, <1>5 DEF Kept, AloneOnDisk

\* Renames, opens and spawns, whichever of them fail.
LEMMA SpawnKept ==
  ASSUME Kept, NEW w \in Writers, Spawn(w)
  PROVE  Kept'
<1> USE DEF Kept
<1>1. PICK works \in BOOLEAN, opens \in BOOLEAN, spawns \in BOOLEAN :
        LET r == Rotate(works) IN
        /\ old' = r.old
        /\ cur' = IF opens THEN File(r.cur.lines) ELSE r.cur
        /\ fd' = IF opens /\ spawns THEN [r.fd EXCEPT ![w] = "cur"] ELSE r.fd
  BY DEF Spawn
<1> DEFINE r == Rotate(works)
<1>2. /\ old' = r.old
      /\ cur' = IF opens THEN File(r.cur.lines) ELSE r.cur
      /\ fd' = IF opens /\ spawns THEN [r.fd EXCEPT ![w] = "cur"] ELSE r.fd
      /\ hist' = hist
  BY <1>1 DEF Spawn
<1>3. /\ r.cur \in FileType /\ r.old \in FileType
      /\ r.fd \in [Writers -> {"none", "cur", "old", "lost"}]
  <2>1. NoFile \in FileType
    BY DEF NoFile, FileType
  <2>2. [v \in Writers |-> Moved(fd[v])] \in [Writers -> {"none", "cur", "old", "lost"}]
    BY DEF TypeOK, Moved
  <2> QED  BY <2>1, <2>2 DEF Rotate, TypeOK
<1>4. cur'.lines = r.cur.lines /\ old'.lines = r.old.lines
  BY <1>2 DEF File
<1>5. TypeOK'
  <2>1. cur' \in FileType
    BY <1>2, <1>3 DEF File, FileType
  <2>2. fd' \in [Writers -> {"none", "cur", "old", "lost"}]
    BY <1>2, <1>3
  <2>3. alone' \in BOOLEAN
    BY DEF Spawn
  <2> QED  BY <1>2, <1>3, <2>1, <2>2, <2>3 DEF TypeOK
<1>6. ASSUME alone' = TRUE PROVE AloneOnDisk'
  <2>1. alone = TRUE /\ \A v \in Writers : fd[v] = "none"
    BY <1>6 DEF Spawn, TypeOK
  <2>2. \A v \in Writers : r.fd[v] = "none"
    BY <2>1 DEF Rotate, Moved
  <2>3. \A v \in Writers : fd'[v] \in {"none", "cur"}
    BY <1>2, <1>3, <2>2
  <2>4. Ends(OnDisk, hist) /\ Len(OnDisk) >= Smaller(Len(hist), MaxBytes)
    BY <2>1 DEF AloneOnDisk
  <2>5. CASE TooLarge /\ works
    <3>1. OnDisk' = cur.lines
      <4>1. r.cur = NoFile /\ r.old = cur
        BY <2>5 DEF Rotate
      <4>2. old'.lines = cur.lines /\ cur'.lines = <<>>
        BY <1>4, <4>1 DEF NoFile
      <4>3. cur.lines \in Seq(Line)
        BY DEF TypeOK, FileType
      <4> QED  BY <4>2, <4>3, ConcatEmptySeq DEF OnDisk
    <3>2. /\ cur.lines \in Seq(Line) /\ old.lines \in Seq(Line)
          /\ hist \in Seq(Line)
      BY DEF TypeOK, FileType
    <3>3. Ends(cur.lines, OnDisk) /\ OnDisk \in Seq(Line)
      BY <3>2, ConcatEnds DEF OnDisk
    <3>4. Ends(cur.lines, hist)
      BY <2>4, <3>2, <3>3, EndsTrans
    <3>5. Len(cur.lines) > MaxBytes /\ Len(hist) \in Nat /\ Len(cur.lines) \in Nat
      BY <2>5, <3>2 DEF TooLarge
    <3>6. Len(cur.lines) >= Smaller(Len(hist), MaxBytes)
      BY <3>5 DEF Smaller
    <3> QED  BY <1>2, <2>3, <3>1, <3>4, <3>6 DEF AloneOnDisk
  <2>6. CASE ~(TooLarge /\ works)
    <3>1. r.cur = cur /\ r.old = old
      BY <2>6 DEF Rotate
    <3>2. OnDisk' = OnDisk
      BY <1>4, <3>1 DEF OnDisk
    <3> QED  BY <1>2, <2>3, <2>4, <3>2 DEF AloneOnDisk
  <2> QED  BY <2>5, <2>6
<1> QED  BY <1>5, <1>6 DEF AloneOnDisk

\* A line goes to the file its writer was given.
LEMMA WriteKept ==
  ASSUME Kept, NEW w \in Writers, WriteLine(w)
  PROVE  Kept'
<1> USE DEF Kept
<1>1. PICK utf8 \in BOOLEAN :
        LET line == [n |-> Len(hist) + 1, utf8 |-> utf8] IN
        /\ hist' = Append(hist, line)
        /\ cur' = IF fd[w] = "cur" THEN Added(cur, line) ELSE cur
        /\ old' = IF fd[w] = "old" THEN Added(old, line) ELSE old
  BY DEF WriteLine
<1> DEFINE line == [n |-> Len(hist) + 1, utf8 |-> utf8]
<1>2. /\ hist' = Append(hist, line)
      /\ cur' = IF fd[w] = "cur" THEN Added(cur, line) ELSE cur
      /\ old' = IF fd[w] = "old" THEN Added(old, line) ELSE old
      /\ fd' = fd /\ alone' = alone /\ fd[w] # "none"
  BY <1>1 DEF WriteLine
<1>3. /\ cur.lines \in Seq(Line) /\ old.lines \in Seq(Line) /\ hist \in Seq(Line)
      /\ Len(hist) \in Nat
  BY DEF TypeOK, FileType
<1>4. line \in Line
  BY <1>3 DEF Line
<1> HIDE DEF line
<1>5. \A f \in FileType : Added(f, line) \in FileType
  BY <1>4 DEF Added, File, FileType
<1>6. TypeOK'
  <2>1. hist' \in Seq(Line)
    BY <1>2, <1>3, <1>4
  <2> QED  BY <1>2, <1>5, <2>1 DEF TypeOK
<1>7. ASSUME alone' = TRUE PROVE AloneOnDisk'
  <2>1. /\ fd[w] = "cur" /\ \A v \in Writers : fd'[v] \in {"none", "cur"}
        /\ Ends(OnDisk, hist) /\ Len(OnDisk) >= Smaller(Len(hist), MaxBytes)
    BY <1>2, <1>7 DEF AloneOnDisk
  <2>2. cur'.lines = Append(cur.lines, line) /\ old'.lines = old.lines
    BY <1>2, <2>1 DEF Added, File
  <2>3. OnDisk \in Seq(Line) /\ Len(OnDisk) \in Nat
    <3>1. OnDisk \in Seq(Line)
      BY <1>3, ConcatEnds DEF OnDisk
    <3> QED  BY <3>1
  <2>4. OnDisk' = Append(OnDisk, line)
    <3>1. OnDisk' = old.lines \o Append(cur.lines, line)
      BY <2>2 DEF OnDisk
    <3>2. \A s \in Seq(Line), t \in Seq(Line), e \in Line :
            s \o Append(t, e) = Append(s \o t, e)
      BY ConcatAppend
    <3>3. old.lines \o Append(cur.lines, line) = Append(old.lines \o cur.lines, line)
      BY <1>3, <1>4, <3>2, Zenon
    <3> QED  BY <3>1, <3>3 DEF OnDisk
  <2>5. Ends(OnDisk', hist')
    BY <1>2, <1>3, <1>4, <2>1, <2>3, <2>4, AppendEnds
  <2>6. Len(OnDisk') = Len(OnDisk) + 1 /\ Len(hist') = Len(hist) + 1
    BY <1>2, <1>3, <1>4, <2>3, <2>4
  <2>7. Len(OnDisk') >= Smaller(Len(hist'), MaxBytes)
    BY <1>3, <2>1, <2>3, <2>6 DEF Smaller
  <2> QED  BY <2>1, <2>5, <2>7 DEF AloneOnDisk
<1> QED  BY <1>6, <1>7 DEF AloneOnDisk

LEMMA StepKept == Kept /\ [Next]_logVars => Kept'
<1> SUFFICES ASSUME Kept, [Next]_logVars PROVE Kept'
  OBVIOUS
<1>1. CASE UNCHANGED logVars
  <2>1. cur' = cur /\ old' = old /\ fd' = fd /\ hist' = hist /\ alone' = alone
    BY <1>1 DEF logVars
  <2> QED  BY <2>1 DEF Kept, TypeOK, AloneOnDisk, OnDisk
<1>2. ASSUME NEW w \in Writers, ChildExits(w) PROVE Kept'
  <2>1. /\ cur' = cur /\ old' = old /\ hist' = hist /\ alone' = alone
        /\ fd' = [fd EXCEPT ![w] = "none"]
    BY <1>2 DEF ChildExits
  <2>2. TypeOK'
    BY <2>1 DEF Kept, TypeOK
  <2>3. OnDisk' = OnDisk
    BY <2>1 DEF OnDisk
  <2> QED  BY <2>1, <2>2, <2>3 DEF Kept, TypeOK, AloneOnDisk
<1> QED  BY <1>1, <1>2, SpawnKept, WriteKept DEF Next

\* The newest MaxBytes of the lines survive every rotation, restart and
\* failed rename, as long as no two children of a manager have overlapped.
THEOREM RecentLinesAreKept == Spec => []RecentIsKept
<1>1. Kept => RecentIsKept
  <2> SUFFICES ASSUME Kept, alone = TRUE
               PROVE  IsSuffix(OnDisk, hist)
                      /\ Len(OnDisk) >= Smaller(Len(hist), MaxBytes)
    BY DEF RecentIsKept, OnDisk, Kept, TypeOK
  <2>1. OnDisk \in Seq(Line) /\ hist \in Seq(Line)
    BY ConcatEnds DEF Kept, TypeOK, FileType, OnDisk
  <2> QED  BY <2>1, EndsIsSuffix DEF Kept, AloneOnDisk
<1> QED  BY <1>1, InitKept, StepKept, PTL DEF Spec

\* What tail_log returns ends everything that was ever written, whatever
\* number of lines was asked for.
THEOREM TailIsTheNewest == Spec => []TailIsNewest
<1>1. Kept => TailIsNewest
  <2> SUFFICES ASSUME Kept, alone = TRUE, NEW n \in 0..(MAX_TAIL_LINES + 1)
               PROVE  IsSuffix(TailLog(n), hist)
    BY DEF TailIsNewest, Kept, TypeOK
  <2>1. /\ cur.lines \in Seq(Line) /\ old.lines \in Seq(Line)
        /\ hist \in Seq(Line)
    BY DEF Kept, TypeOK, FileType
  <2>2. Ends(cur.lines, hist)
    <3>1. OnDisk \in Seq(Line) /\ Ends(cur.lines, OnDisk)
      BY <2>1, ConcatEnds DEF OnDisk
    <3> QED  BY <2>1, <3>1, EndsTrans DEF Kept, AloneOnDisk
  <2>3. Len(cur.lines) \in Nat /\ Smaller(n, MAX_TAIL_LINES) \in Nat
    <3>1. n \in Nat
      OBVIOUS
    <3>2. Len(cur.lines) \in Nat
      BY <2>1
    <3> QED  BY <3>1, <3>2, SmallerIs
  <2>4. PICK k \in Nat : k = Len(cur.lines)
                              - Smaller(Len(cur.lines), Smaller(n, MAX_TAIL_LINES))
    BY <2>3, SmallerIs
  <2>5. k <= Len(cur.lines)
    <3>1. Smaller(Len(cur.lines), Smaller(n, MAX_TAIL_LINES)) \in Nat
      BY <2>3, SmallerIs
    <3> QED  BY <2>3, <2>4, <3>1
  <2>6. TailLog(n) = SubSeq(cur.lines, k + 1, Len(cur.lines))
    BY <2>4 DEF TailLog
  <2>7. TailLog(n) \in Seq(Line) /\ Ends(TailLog(n), cur.lines)
    BY <2>1, <2>5, <2>6, SubSeqEnds
  <2>8. Ends(TailLog(n), hist)
    BY <2>1, <2>2, <2>7, EndsTrans
  <2> QED  BY <2>1, <2>7, <2>8, EndsIsSuffix
<1> QED  BY <1>1, InitKept, StepKept, PTL DEF Spec
=============================================================================
