-------------------------- MODULE RequestLinesProofs --------------------------
(***************************************************************************)
(* For every stream and every bound: however the stream of a connection is *)
(* cut into reads, its lines are handled in order (LinesAreInOrder), each  *)
(* is answered as it deserves, and the requests admitted keep their limits *)
(* (RequestsAreConform).                                                   *)
(***************************************************************************)
EXTENDS RequestLines, SequenceLemmas, SequenceTheorems, FiniteSetTheorems, TLAPS

(***************************************************************************)
(* The reference, one byte at a time: what one more byte makes of the      *)
(* newlines, of the rest after the last of them, and of the lines.         *)
(***************************************************************************)
Count(s, k) == Cardinality(Newlines(s, k))
IsNewline(s, k) == s[k] = Newline
More(s, k) == k + 1 \in 1 .. Len(s)
IsStream(s) == s \in Seq(Range(s))

LEMMA NewlinesStep ==
    ASSUME NEW s, NEW k \in Nat
    PROVE  /\ Newlines(s, k) \in SUBSET (1 .. k) /\ IsFiniteSet(Newlines(s, k))
           /\ IsNewline(s, k + 1) => Newlines(s, k + 1) = Newlines(s, k) \cup {k + 1}
           /\ ~IsNewline(s, k + 1) => Newlines(s, k + 1) = Newlines(s, k)
           /\ Newlines(s, 0) = {}
  <1>1. Newlines(s, k) \in SUBSET (1 .. k)
    BY DEF Newlines
  <1>2. IsFiniteSet(1 .. k)
    BY FS_Interval
  <1>3. IsFiniteSet(Newlines(s, k))
    BY <1>1, <1>2, FS_Subset
  <1>4. /\ IsNewline(s, k + 1) => Newlines(s, k + 1) = Newlines(s, k) \cup {k + 1}
        /\ ~IsNewline(s, k + 1) => Newlines(s, k + 1) = Newlines(s, k)
    BY DEF Newlines, IsNewline
  <1>5. Newlines(s, 0) = {}
    BY DEF Newlines
  <1> QED
    BY <1>1, <1>3, <1>4, <1>5

LEMMA CountStep ==
    ASSUME NEW s, NEW k \in Nat
    PROVE  /\ Count(s, k) \in Nat
           /\ IsNewline(s, k + 1) => Count(s, k + 1) = Count(s, k) + 1
           /\ ~IsNewline(s, k + 1) => Count(s, k + 1) = Count(s, k)
           /\ Count(s, 0) = 0
  <1>1. Count(s, k) \in Nat
    BY NewlinesStep, FS_CardinalityType DEF Count
  <1>2. k + 1 \notin Newlines(s, k)
    BY NewlinesStep
  <1>3. IsNewline(s, k + 1) => Count(s, k + 1) = Count(s, k) + 1
    <2> DEFINE S == Newlines(s, k)
    <2>1. IsFiniteSet(S) /\ k + 1 \notin S
      BY <1>2, NewlinesStep
    <2>2. Cardinality(S \cup {k + 1}) = Cardinality(S) + 1
      <3> HIDE DEF S
      <3> QED
        BY <2>1, FS_AddElement
    <2> QED
      BY <2>2, NewlinesStep DEF Count
  <1>4. ~IsNewline(s, k + 1) => Count(s, k + 1) = Count(s, k)
    BY NewlinesStep DEF Count
  <1>5. Count(s, 0) = 0
    BY NewlinesStep, FS_EmptySet DEF Count
  <1> QED
    BY <1>1, <1>3, <1>4, <1>5

\* The newlines up to k are counted without a gap, each once.
Counted(s, k) ==
    /\ \A i \in Newlines(s, k) : Count(s, i) \in 1 .. Count(s, k)
    /\ \A j \in 1 .. Count(s, k) : \E i \in Newlines(s, k) : Count(s, i) = j
    /\ \A i, l \in Newlines(s, k) : Count(s, i) = Count(s, l) => i = l

LEMMA NewlinesCounted == ASSUME NEW s, NEW k \in Nat PROVE Counted(s, k)
  <1> DEFINE S == {m \in Nat : Counted(s, m)}
  <1>1. 0 \in S
    BY NewlinesStep, CountStep DEF Counted
  <1>2. ASSUME NEW m \in S PROVE m + 1 \in S
    <2>1. m \in Nat /\ m + 1 \in Nat /\ Counted(s, m)
      OBVIOUS
    <2>2. CASE IsNewline(s, m + 1)
      <3>1. Newlines(s, m + 1) = Newlines(s, m) \cup {m + 1} /\ Count(s, m + 1) = Count(s, m) + 1
        BY <2>1, <2>2, NewlinesStep, CountStep
      <3>2. Count(s, m) \in Nat
        BY <2>1, CountStep
      <3>3. \A i \in Newlines(s, m) : Count(s, i) \in 1 .. Count(s, m)
        BY <2>1 DEF Counted
      <3>4. \A j \in 1 .. Count(s, m) : \E i \in Newlines(s, m) : Count(s, i) = j
        BY <2>1 DEF Counted
      <3>5. \A i, l \in Newlines(s, m) : Count(s, i) = Count(s, l) => i = l
        BY <2>1 DEF Counted
      <3>6. \A i \in Newlines(s, m + 1) : Count(s, i) \in 1 .. Count(s, m + 1)
        BY <3>1, <3>2, <3>3
      <3>7. \A j \in 1 .. Count(s, m + 1) : \E i \in Newlines(s, m + 1) : Count(s, i) = j
        BY <3>1, <3>2, <3>4
      <3>8. \A i, l \in Newlines(s, m + 1) : Count(s, i) = Count(s, l) => i = l
        BY <3>1, <3>2, <3>3, <3>5
      <3> QED
        BY <2>1, <3>6, <3>7, <3>8 DEF Counted
    <2>3. CASE ~IsNewline(s, m + 1)
      BY <2>1, <2>3, NewlinesStep, CountStep DEF Counted
    <2> QED
      BY <2>2, <2>3
  <1>3. S = Nat
    <2>1. S \in SUBSET Nat
      OBVIOUS
    <2> HIDE DEF S
    <2> QED
      BY <1>1, <1>2, <2>1, SetInduction
  <1> QED
    BY <1>3

\* Where the j-th line ends.
End(s, k, j) == CHOOSE i \in Newlines(s, k) : Count(s, i) = j

LEMMA EndIs ==
    ASSUME NEW s, NEW k \in Nat, NEW j \in 1 .. Count(s, k)
    PROVE  End(s, k, j) \in Newlines(s, k) /\ Count(s, End(s, k, j)) = j
  BY NewlinesCounted DEF Counted, End

LEMMA EndStep ==
    ASSUME NEW s, NEW k \in Nat
    PROVE  /\ \A j \in 1 .. Count(s, k) : End(s, k + 1, j) = End(s, k, j)
           /\ IsNewline(s, k + 1) => End(s, k + 1, Count(s, k) + 1) = k + 1
  <1>1. k + 1 \in Nat /\ Counted(s, k + 1)
    BY NewlinesCounted
  <1>2. Count(s, k) \in Nat /\ Count(s, k + 1) \in {Count(s, k), Count(s, k) + 1}
    BY CountStep
  <1>3. ASSUME NEW j \in 1 .. Count(s, k) PROVE End(s, k + 1, j) = End(s, k, j)
    <2>1. End(s, k, j) \in Newlines(s, k + 1) /\ Count(s, End(s, k, j)) = j
      BY EndIs, NewlinesStep
    <2>2. j \in 1 .. Count(s, k + 1)
      BY <1>2
    <2>3. End(s, k + 1, j) \in Newlines(s, k + 1) /\ Count(s, End(s, k + 1, j)) = j
      BY <1>1, <2>2, EndIs
    <2> QED
      BY <1>1, <2>1, <2>3 DEF Counted
  <1>4. ASSUME IsNewline(s, k + 1) PROVE End(s, k + 1, Count(s, k) + 1) = k + 1
    <2>1. k + 1 \in Newlines(s, k + 1) /\ Count(s, k + 1) = Count(s, k) + 1
      <3>1. Newlines(s, k + 1) = Newlines(s, k) \cup {k + 1}
        BY <1>4, NewlinesStep
      <3> QED
        BY <1>4, <3>1, CountStep
    <2>2. Count(s, k) + 1 \in 1 .. Count(s, k + 1)
      BY <1>2, <2>1
    <2>3. /\ End(s, k + 1, Count(s, k) + 1) \in Newlines(s, k + 1)
          /\ Count(s, End(s, k + 1, Count(s, k) + 1)) = Count(s, k) + 1
      BY <1>1, <2>2, EndIs
    <2> QED
      BY <1>1, <2>1, <2>3 DEF Counted
  <1> QED
    BY <1>3, <1>4

LEMMA LastStep ==
    ASSUME NEW s, NEW k \in Nat
    PROVE  /\ LastOf(s, k) \in 0 .. k
           /\ IsNewline(s, k + 1) => LastOf(s, k + 1) = k + 1
           /\ ~IsNewline(s, k + 1) => LastOf(s, k + 1) = LastOf(s, k)
           /\ LastOf(s, 0) = 0
  <1>1. LastOf(s, k) \in 0 .. k
    <2>1. CASE Newlines(s, k) = {}
      BY <2>1 DEF LastOf
    <2>2. CASE Newlines(s, k) # {}
      <3>1. Max(Newlines(s, k)) \in 1 .. k
        BY <2>2, NewlinesStep, MaxExists
      <3> QED
        BY <2>2, <3>1 DEF LastOf
    <2> QED
      BY <2>1, <2>2
  <1>2. IsNewline(s, k + 1) => LastOf(s, k + 1) = k + 1
    <2> DEFINE S == Newlines(s, k + 1)
    <2> SUFFICES ASSUME IsNewline(s, k + 1) PROVE LastOf(s, k + 1) = k + 1
      OBVIOUS
    <2>1. S \in SUBSET (1 .. k + 1) /\ k + 1 \in S /\ k + 1 \in Nat
      BY NewlinesStep
    <2>2. Max(S) \in S /\ Max(S) >= k + 1
      <3> HIDE DEF S
      <3> QED
        BY <2>1, MaxExists
    <2>3. Max(S) = k + 1
      <3> HIDE DEF S
      <3>1. PICK n \in S : n = Max(S)
        BY <2>2
      <3>2. n \in 1 .. k + 1
        BY <2>1
      <3>3. n >= k + 1
        BY <2>2, <3>1
      <3> QED
        BY <3>1, <3>2, <3>3
    <2> QED
      BY <2>1, <2>3 DEF LastOf
  <1>3. ~IsNewline(s, k + 1) => LastOf(s, k + 1) = LastOf(s, k)
    BY NewlinesStep DEF LastOf
  <1>4. LastOf(s, 0) = 0
    BY NewlinesStep DEF LastOf
  <1> QED
    BY <1>1, <1>2, <1>3, <1>4

LEMMA RestStep ==
    ASSUME NEW s, IsStream(s), NEW k \in Nat, k <= Len(s)
    PROVE  /\ Rest(s, k) \in Seq(Range(s)) /\ Rest(s, 0) = <<>>
           /\ More(s, k) /\ IsNewline(s, k + 1) => Rest(s, k + 1) = <<>>
           /\ More(s, k) /\ ~IsNewline(s, k + 1) => Rest(s, k + 1) = Append(Rest(s, k), s[k + 1])
  <1> DEFINE B == Range(s)
  <1>1. s \in Seq(B) /\ Len(s) \in Nat
    BY DEF IsStream
  <1> HIDE DEF B
  <1>2. PICK m \in 0 .. k : m = LastOf(s, k)
    BY LastStep
  <1>3. k <= Len(s)
    OBVIOUS
  <1>4. SubSeq(s, m + 1, k) \in Seq(B)
    BY <1>1, <1>3
  <1>5. Rest(s, k) = SubSeq(s, m + 1, k)
    BY <1>2 DEF Rest
  <1>6. Rest(s, 0) = <<>>
    <2>1. Rest(s, 0) = SubSeq(s, 1, 0)
      BY LastStep DEF Rest
    <2> QED
      BY <1>1, <2>1
  <1>7. ASSUME More(s, k), IsNewline(s, k + 1) PROVE Rest(s, k + 1) = <<>>
    <2>1. Rest(s, k + 1) = SubSeq(s, (k + 1) + 1, k + 1)
      BY <1>7, LastStep DEF Rest
    <2> QED
      BY <1>1, <2>1
  <1>8. ASSUME More(s, k), ~IsNewline(s, k + 1) PROVE Rest(s, k + 1) = Append(Rest(s, k), s[k + 1])
    <2>1. Rest(s, k + 1) = SubSeq(s, m + 1, k + 1)
      BY <1>2, <1>8, LastStep DEF Rest
    <2>2. k + 1 <= Len(s)
      BY <1>1, <1>8 DEF More
    <2>3. SubSeq(s, m + 1, k + 1) = Append(SubSeq(s, m + 1, k), s[k + 1])
      BY <1>1, <2>2
    <2> QED
      BY <1>5, <2>1, <2>3
  <1> QED
    BY <1>4, <1>5, <1>6, <1>7, <1>8 DEF B

LEMMA LinesStep ==
    ASSUME NEW s, IsStream(s), NEW k \in Nat, k <= Len(s)
    PROVE  /\ LinesOf(s, k) \in Seq(Seq(Range(s))) /\ LinesOf(s, 0) = <<>>
           /\ More(s, k) /\ IsNewline(s, k + 1) => LinesOf(s, k + 1) = Append(LinesOf(s, k), Rest(s, k))
           /\ More(s, k) /\ ~IsNewline(s, k + 1) => LinesOf(s, k + 1) = LinesOf(s, k)
  <1> DEFINE line(j) == Rest(s, End(s, k, j) - 1)
             next(j) == Rest(s, End(s, k + 1, j) - 1)
             c == Count(s, k)
  <1>1. c \in Nat /\ k + 1 \in Nat
    BY CountStep
  <1>2. LinesOf(s, k) = [j \in 1 .. c |-> line(j)]
    BY DEF LinesOf, End, Count
  <1>3. LinesOf(s, k + 1) = [j \in 1 .. Count(s, k + 1) |-> next(j)]
    BY DEF LinesOf, End, Count
  <1>4. \A j \in 1 .. c : next(j) = line(j)
    BY EndStep
  <1>5. \A j \in 1 .. c : line(j) \in Seq(Range(s))
    <2> SUFFICES ASSUME NEW j \in 1 .. c PROVE line(j) \in Seq(Range(s))
      OBVIOUS
    <2>1. PICK i \in 1 .. k : i = End(s, k, j)
      BY EndIs, NewlinesStep
    <2>2. i - 1 \in Nat /\ i - 1 <= Len(s)
      BY DEF IsStream
    <2>3. Rest(s, i - 1) \in Seq(Range(s))
      BY <2>2, RestStep
    <2> QED
      BY <2>1, <2>3
  <1> HIDE DEF line, next, c
  <1>6. LinesOf(s, k) \in Seq(Seq(Range(s))) /\ Len(LinesOf(s, k)) = c
    BY <1>1, <1>2, <1>5
  <1>7. LinesOf(s, 0) = <<>>
    BY CountStep DEF LinesOf, Count
  <1>8. ASSUME More(s, k), ~IsNewline(s, k + 1) PROVE LinesOf(s, k + 1) = LinesOf(s, k)
    <2>1. Count(s, k + 1) = c
      BY <1>8, CountStep DEF c
    <2> QED
      BY <1>2, <1>3, <1>4, <2>1
  <1>9. ASSUME More(s, k), IsNewline(s, k + 1) PROVE LinesOf(s, k + 1) = Append(LinesOf(s, k), Rest(s, k))
    <2>1. Count(s, k + 1) = c + 1 /\ next(c + 1) = Rest(s, (k + 1) - 1)
      BY <1>9, CountStep, EndStep DEF c, next
    <2>2. (k + 1) - 1 = k /\ Rest(s, k) \in Seq(Range(s))
      BY RestStep
    <2>3. PICK x \in Seq(Range(s)) : x = Rest(s, k)
      BY <2>2
    <2>4. PICK u \in Seq(Seq(Range(s))) : u = LinesOf(s, k)
      BY <1>6
    <2>5. PICK t : t = LinesOf(s, k + 1)
      OBVIOUS
    <2>6. t = [j \in 1 .. c + 1 |-> next(j)]
      BY <1>3, <2>1, <2>5
    <2>7. c = Len(u) /\ t[c + 1] = x /\ \A j \in 1 .. c : t[j] = u[j]
      <3>1. t[c + 1] = x
        BY <1>1, <2>1, <2>2, <2>3, <2>6
      <3>2. \A j \in 1 .. c : t[j] = u[j]
        BY <1>1, <1>2, <1>4, <2>4, <2>6
      <3> QED
        BY <1>6, <2>4, <3>1, <3>2
    <2>8. t = [j \in 1 .. c + 1 |-> t[j]]
      BY <2>6
    <2>9. t = Append(u, x)
      <3> DEFINE L == Seq(Range(s))
      <3>1. u \in Seq(L) /\ x \in L
        BY <2>3, <2>4
      <3> HIDE DEF L
      <3>2. Lengthens(t, u, x, Len(u))
        BY <2>7, <2>8, Zenon DEF Lengthens
      <3> QED
        BY <3>1, <3>2, Lengthened, Zenon
    <2> QED
      BY <2>3, <2>4, <2>5, <2>9
  <1> QED
    BY <1>6, <1>7, <1>8, <1>9

LEMMA RangeAppend ==
    ASSUME NEW T, NEW s \in Seq(T), NEW x \in T
    PROVE  Range(Append(s, x)) = Range(s) \cup {x}
  <1> DEFINE t == Append(s, x)
             n == Len(s)
  <1>1. /\ n \in Nat /\ DOMAIN s = 1 .. n /\ DOMAIN t = 1 .. n + 1 /\ t[n + 1] = x
        /\ \A i \in 1 .. n : t[i] = s[i]
    OBVIOUS
  <1> HIDE DEF t, n
  <1>2. 1 .. n + 1 = (1 .. n) \cup {n + 1}
    BY <1>1
  <1>3. Range(t) = {t[i] : i \in (1 .. n) \cup {n + 1}}
    BY <1>1, <1>2 DEF Range
  <1>4. Range(s) = {t[i] : i \in 1 .. n}
    BY <1>1 DEF Range
  <1>5. {t[i] : i \in (1 .. n) \cup {n + 1}} = {t[i] : i \in 1 .. n} \cup {t[n + 1]}
    BY Zenon
  <1>6. Range(t) = Range(s) \cup {x}
    BY <1>1, <1>3, <1>4, <1>5
  <1> QED
    BY <1>6 DEF t

\* A line that the accumulator cannot take, and a byte that it cannot.
Bad(line) == Len(line) >= MaxLine \/ NotUtf8 \in Range(line)
Breaks(s, k) ==
    IF IsNewline(s, k + 1) THEN NotUtf8 \in Range(Rest(s, k)) ELSE Len(Rest(s, k)) >= MaxLine - 1

LEMMA MisframedStep ==
    ASSUME NEW s, IsStream(s), NEW k \in Nat, More(s, k)
    PROVE  Misframed(s, k + 1) <=> Misframed(s, k) \/ Breaks(s, k)
  <1>1. k <= Len(s) /\ k + 1 <= Len(s) /\ k + 1 \in Nat
    BY DEF More, IsStream
  <1>2. PICK lines \in Seq(Seq(Range(s))), rest \in Seq(Range(s)) : lines = LinesOf(s, k) /\ rest = Rest(s, k)
    BY <1>1, RestStep, LinesStep
  <1>3. Misframed(s, k) <=> Len(rest) >= MaxLine \/ \E line \in Range(lines) : Bad(line)
    BY <1>2 DEF Misframed, Bad
  <1>4. MaxLine \in Nat \ {0}
    BY LinesAssumption
  <1>5. CASE IsNewline(s, k + 1)
    <2>1. Rest(s, k + 1) = <<>> /\ LinesOf(s, k + 1) = Append(lines, rest)
      BY <1>1, <1>2, <1>5, RestStep, LinesStep
    <2>2. Range(Append(lines, rest)) = Range(lines) \cup {rest}
      BY RangeAppend
    <2>3. ~(Len(<<>>) >= MaxLine)
      BY <1>4
    <2>4. Misframed(s, k + 1) <=> \E line \in Range(lines) \cup {rest} : Bad(line)
      BY <2>1, <2>2, <2>3 DEF Misframed, Bad
    <2>5. Breaks(s, k) <=> NotUtf8 \in Range(rest)
      BY <1>2, <1>5 DEF Breaks
    <2> QED
      BY <1>3, <2>4, <2>5 DEF Bad
  <1>6. CASE ~IsNewline(s, k + 1)
    <2>1. Rest(s, k + 1) = Append(rest, s[k + 1]) /\ LinesOf(s, k + 1) = lines
      BY <1>1, <1>2, <1>6, RestStep, LinesStep
    <2>2. s[k + 1] \in Range(s)
      BY DEF More, IsStream
    <2>3. Len(Rest(s, k + 1)) = Len(rest) + 1 /\ Len(rest) \in Nat
      BY <1>2, <2>1, <2>2
    <2>4. Misframed(s, k + 1) <=> Len(rest) + 1 >= MaxLine \/ \E line \in Range(lines) : Bad(line)
      BY <2>1, <2>3 DEF Misframed, Bad
    <2>5. Breaks(s, k) <=> Len(rest) >= MaxLine - 1
      BY <1>2, <1>6 DEF Breaks
    <2>6. Len(rest) >= MaxLine => Len(rest) + 1 >= MaxLine
      BY <1>4, <2>3
    <2>7. Len(rest) + 1 >= MaxLine <=> Len(rest) >= MaxLine - 1
      BY <1>4, <2>3
    <2> QED
      BY <1>3, <2>4, <2>5, <2>6, <2>7
  <1> QED
    BY <1>5, <1>6

(***************************************************************************)
(* The accumulator follows the reference, one byte at a time.              *)
(***************************************************************************)
Bytes == Range(input.bytes)
Accs == [buffer : Seq(Bytes), frames : Seq(Seq(Bytes)), failed : BOOLEAN]

\* What an accumulator holds after k bytes, whose first lines were handled before.
Mirrors(acc, k, lines) ==
    /\ acc.failed <=> Misframed(input.bytes, k)
    /\ ~acc.failed => acc.buffer = Rest(input.bytes, k) /\ lines \o acc.frames = LinesOf(input.bytes, k)

LEMMA PushByteIs ==
    ASSUME NEW acc \in Accs, NEW byte \in Bytes
    PROVE  /\ PushByte(acc, byte) \in Accs
           /\ acc.failed => PushByte(acc, byte).failed
           /\ ~acc.failed /\ byte = Newline =>
                  /\ PushByte(acc, byte).failed <=>
                         Len(acc.buffer) + 1 > MaxLine \/ NotUtf8 \in Range(acc.buffer)
                  /\ PushByte(acc, byte).buffer = <<>>
                  /\ PushByte(acc, byte).frames = Append(acc.frames, acc.buffer)
           /\ ~acc.failed /\ byte # Newline =>
                  /\ PushByte(acc, byte).failed <=> Len(acc.buffer) >= MaxLine - 1
                  /\ PushByte(acc, byte).frames = acc.frames
                  /\ ~PushByte(acc, byte).failed =>
                         PushByte(acc, byte).buffer = Append(acc.buffer, byte)
  <1> DEFINE r == PushByte(acc, byte)
  <1>1. CASE acc.failed
    BY <1>1 DEF PushByte
  <1>2. CASE ~acc.failed /\ byte = Newline
    <2>1. r = [acc EXCEPT !.failed = Len(acc.buffer) + 1 > MaxLine \/ NotUtf8 \in Range(acc.buffer),
                          !.buffer = <<>>, !.frames = Append(@, acc.buffer)]
      BY <1>2 DEF PushByte
    <2>2. Append(acc.frames, acc.buffer) \in Seq(Seq(Bytes)) /\ <<>> \in Seq(Bytes)
      BY DEF Accs
    <2> QED
      BY <1>2, <2>1, <2>2 DEF Accs
  <1>3. CASE ~acc.failed /\ byte # Newline /\ Len(acc.buffer) >= MaxLine - 1
    <2>1. r = [acc EXCEPT !.failed = TRUE, !.buffer = <<>>]
      BY <1>3 DEF PushByte
    <2>2. <<>> \in Seq(Bytes)
      OBVIOUS
    <2> QED
      BY <1>3, <2>1, <2>2 DEF Accs
  <1>4. CASE ~acc.failed /\ byte # Newline /\ ~(Len(acc.buffer) >= MaxLine - 1)
    <2>1. r = [acc EXCEPT !.buffer = Append(@, byte)]
      BY <1>4 DEF PushByte
    <2>2. Append(acc.buffer, byte) \in Seq(Bytes)
      BY DEF Accs
    <2> QED
      BY <1>4, <2>1, <2>2 DEF Accs
  <1> QED
    BY <1>1, <1>2, <1>3, <1>4

LEMMA ConcatAppend ==
    ASSUME NEW T, NEW s \in Seq(T), NEW t \in Seq(T), NEW x \in T
    PROVE  s \o Append(t, x) = Append(s \o t, x)
  OBVIOUS

LEMMA PushByteMirrors ==
    ASSUME IsStream(input.bytes), NEW k \in Nat, More(input.bytes, k), NEW acc \in Accs,
           NEW lines \in Seq(Seq(Bytes)), Mirrors(acc, k, lines)
    PROVE  Mirrors(PushByte(acc, input.bytes[k + 1]), k + 1, lines)
  <1>1. PICK byte \in Bytes : byte = input.bytes[k + 1]
    BY DEF More, IsStream, Bytes
  <1>2. PICK r \in Accs : r = PushByte(acc, byte)
    BY PushByteIs
  <1>3. k <= Len(input.bytes)
    BY DEF More, IsStream
  <1>4. Misframed(input.bytes, k + 1) <=> Misframed(input.bytes, k) \/ Breaks(input.bytes, k)
    BY MisframedStep
  <1>5. CASE acc.failed
    <2>1. r.failed /\ Misframed(input.bytes, k + 1)
      BY <1>2, <1>4, <1>5, PushByteIs DEF Mirrors
    <2>2. r = PushByte(acc, input.bytes[k + 1])
      BY <1>1, <1>2
    <2> QED
      BY <2>1, <2>2, Zenon DEF Mirrors
  <1>6. CASE ~acc.failed
    <2>1. PICK rest \in Seq(Bytes) : rest = Rest(input.bytes, k) /\ rest = acc.buffer
      BY <1>3, <1>6, RestStep DEF Mirrors, Bytes
    <2>2. PICK done \in Seq(Seq(Bytes)) : done = LinesOf(input.bytes, k) /\ done = lines \o acc.frames
      BY <1>3, <1>6, LinesStep DEF Mirrors, Bytes
    <2>3. ~Misframed(input.bytes, k) /\ ~(Len(rest) >= MaxLine)
      BY <1>6, <2>1 DEF Mirrors, Misframed
    <2>4. Len(rest) \in Nat /\ MaxLine \in Nat \ {0} /\ ~(Len(rest) + 1 > MaxLine)
      BY <2>3, LinesAssumption
    <2>5. CASE byte = Newline
      <3>1. IsNewline(input.bytes, k + 1)
        BY <1>1, <2>5 DEF IsNewline
      <3>2. Rest(input.bytes, k + 1) = <<>> /\ LinesOf(input.bytes, k + 1) = Append(done, rest)
        BY <1>3, <2>1, <2>2, <3>1, RestStep, LinesStep
      <3>3. /\ r.failed <=> NotUtf8 \in Range(rest)
            /\ r.buffer = <<>> /\ r.frames = Append(acc.frames, rest)
        BY <1>2, <1>6, <2>1, <2>4, <2>5, PushByteIs
      <3>4. lines \o Append(acc.frames, rest) = Append(lines \o acc.frames, rest)
        <4> DEFINE L == Seq(Bytes)
        <4>1. acc.frames \in Seq(L) /\ lines \in Seq(L) /\ rest \in L
          BY DEF Accs
        <4> HIDE DEF L
        <4>2. PICK fs \in Seq(L) : fs = acc.frames
          BY <4>1
        <4>3. lines \o Append(fs, rest) = Append(lines \o fs, rest)
          BY <4>1, ConcatAppend
        <4> QED
          BY <4>2, <4>3
      <3>5. Breaks(input.bytes, k) <=> NotUtf8 \in Range(rest)
        BY <2>1, <3>1 DEF Breaks
      <3>6. Mirrors(r, k + 1, lines)
        BY <1>4, <2>2, <2>3, <3>2, <3>3, <3>4, <3>5 DEF Mirrors
      <3> QED
        BY <1>1, <1>2, <3>6
    <2>6. CASE byte # Newline
      <3>1. ~IsNewline(input.bytes, k + 1)
        BY <1>1, <2>6 DEF IsNewline
      <3>2. Rest(input.bytes, k + 1) = Append(rest, byte) /\ LinesOf(input.bytes, k + 1) = done
        BY <1>1, <1>3, <2>1, <2>2, <3>1, RestStep, LinesStep
      <3>3. /\ r.failed <=> Len(rest) >= MaxLine - 1
            /\ r.frames = acc.frames
            /\ ~r.failed => r.buffer = Append(rest, byte)
        BY <1>2, <1>6, <2>1, <2>6, PushByteIs
      <3>4. Breaks(input.bytes, k) <=> Len(rest) >= MaxLine - 1
        BY <2>1, <3>1 DEF Breaks
      <3>5. Mirrors(r, k + 1, lines)
        BY <1>4, <2>2, <2>3, <3>2, <3>3, <3>4 DEF Mirrors
      <3> QED
        BY <1>1, <1>2, <3>5
    <2> QED
      BY <2>5, <2>6
  <1> QED
    BY <1>5, <1>6

First == [buffer |-> buffer, frames |-> <<>>, failed |-> FALSE]

\* The recursion of Pushed, unfolded.
LEMMA PushedTrace ==
    ASSUME IsStream(input.bytes), NEW n \in Nat, taken \in Nat, taken + n <= Len(input.bytes), First \in Accs
    PROVE  \E f \in [0 .. n -> Accs] :
               /\ f[0] = First /\ Pushed(n) = f[n]
               /\ \A i \in 1 .. n : f[i] = PushByte(f[i - 1], input.bytes[taken + i])
  <1> DEFINE V == Accs
             step(p) == IF p[2] \in 1 .. n THEN PushByte(p[1], input.bytes[taken + p[2]]) ELSE p[1]
             G == [p \in V \X Nat |-> step(p)]
             pushed(f) == f = [i \in 0 .. n |-> IF i = 0 THEN First
                                   ELSE PushByte(f[i - 1], input.bytes[taken + i])]
  <1>0. Len(input.bytes) \in Nat
    BY DEF IsStream
  <1>1. ASSUME NEW i \in 1 .. n PROVE input.bytes[taken + i] \in Bytes
    <2>1. taken + i \in 1 .. Len(input.bytes)
      BY <1>0
    <2> QED
      BY <2>1 DEF IsStream, Bytes
  <1>2. G \in [V \X Nat -> V]
    <2>1. ASSUME NEW p \in V \X Nat PROVE step(p) \in V
      <3>1. p[1] \in V
        OBVIOUS
      <3> QED
        BY <1>1, <3>1, PushByteIs
    <2> HIDE DEF V, step
    <2> QED
      BY <2>1
  <1>3. PICK f \in [0 .. n -> V] : Follows(f, First, G, n)
    <2>1. First \in V
      OBVIOUS
    <2> HIDE DEF V, G
    <2> QED
      BY <1>2, <2>1, RecursionExists
  <1>4. ASSUME NEW i \in 1 .. n PROVE f[i] = PushByte(f[i - 1], input.bytes[taken + i])
    <2>1. i \in Nat /\ i - 1 \in 0 .. n
      OBVIOUS
    <2>2. <<f[i - 1], i>> \in V \X Nat
      BY <1>3, <2>1
    <2>3. G[<<f[i - 1], i>>] = step(<<f[i - 1], i>>)
      <3> HIDE DEF V, step
      <3> QED
        BY <2>2
    <2>4. step(<<f[i - 1], i>>) = PushByte(f[i - 1], input.bytes[taken + i])
      OBVIOUS
    <2>5. f[i] = G[<<f[i - 1], i>>]
      BY <1>3 DEF Follows
    <2> QED
      BY <2>3, <2>4, <2>5
  <1>5. f[0] = First
    BY <1>3 DEF Follows
  <1> HIDE DEF G, V, step
  <1>6. pushed(f)
    <2>1. DOMAIN f = 0 .. n
      BY <1>3
    <2>2. \A i \in 0 .. n : f[i] = IF i = 0 THEN First
                                   ELSE PushByte(f[i - 1], input.bytes[taken + i])
      <3>1. \A i \in 0 .. n : i = 0 \/ i \in 1 .. n
        OBVIOUS
      <3> QED
        BY <1>4, <1>5, <3>1
    <2> QED
      BY <1>3, <2>2
  <1> DEFINE F == CHOOSE g : pushed(g)
  <1>7. pushed(F)
    <2> HIDE DEF pushed
    <2> QED
      BY <1>6, Zenon
  <1>8. Pushed(n) = F[n]
    BY DEF Pushed, First
  <1> HIDE DEF F
  <1>9. \A i \in 0 .. n : F[i] = f[i]
    <2> DEFINE S == {i \in Nat : i \in 0 .. n => F[i] = f[i]}
    <2>0. \A i \in 0 .. n : F[i] = IF i = 0 THEN First
                                   ELSE PushByte(F[i - 1], input.bytes[taken + i])
      BY <1>7
    <2>1. 0 \in S
      BY <1>5, <2>0
    <2>2. ASSUME NEW i \in S PROVE i + 1 \in S
      <3>1. i \in Nat /\ i + 1 \in Nat
        OBVIOUS
      <3>2. ASSUME i + 1 \in 0 .. n PROVE F[i + 1] = f[i + 1]
        <4>1. i \in 0 .. n /\ i + 1 \in 1 .. n /\ (i + 1) - 1 = i /\ i + 1 # 0
          BY <3>1, <3>2
        <4>2. F[i + 1] = PushByte(F[(i + 1) - 1], input.bytes[taken + (i + 1)])
          BY <2>0, <4>1
        <4>3. f[i + 1] = PushByte(f[(i + 1) - 1], input.bytes[taken + (i + 1)])
          BY <1>4, <4>1
        <4>4. F[i] = f[i]
          BY <4>1
        <4> QED
          BY <4>1, <4>2, <4>3, <4>4
      <3> QED
        BY <3>1, <3>2
    <2>3. S = Nat
      <3>1. S \in SUBSET Nat
        OBVIOUS
      <3> HIDE DEF S
      <3> QED
        BY <2>1, <2>2, <3>1, SetInduction
    <2> QED
      BY <2>3
  <1>10. Pushed(n) = f[n] /\ f \in [0 .. n -> Accs]
    <2>1. n \in 0 .. n
      OBVIOUS
    <2> QED
      BY <1>3, <1>8, <1>9, <2>1 DEF V
  <1> QED
    BY <1>4, <1>5, <1>10

LEMMA PushedMirrors ==
    ASSUME IsStream(input.bytes), NEW n \in Nat, taken \in Nat, taken + n <= Len(input.bytes),
           NEW lines \in Seq(Seq(Bytes)), First \in Accs, Mirrors(First, taken, lines)
    PROVE  Pushed(n) \in Accs /\ Mirrors(Pushed(n), taken + n, lines)
  <1>1. PICK f \in [0 .. n -> Accs] :
            /\ f[0] = First /\ Pushed(n) = f[n]
            /\ \A i \in 1 .. n : f[i] = PushByte(f[i - 1], input.bytes[taken + i])
    BY PushedTrace
  <1> DEFINE S == {i \in Nat : i \in 0 .. n => Mirrors(f[i], taken + i, lines)}
  <1>2. 0 \in S
    <2>1. taken + 0 = taken
      OBVIOUS
    <2> QED
      BY <1>1, <2>1
  <1>3. ASSUME NEW i \in S PROVE i + 1 \in S
    <2>1. i \in Nat /\ i + 1 \in Nat
      OBVIOUS
    <2>2. ASSUME i + 1 \in 0 .. n PROVE Mirrors(f[i + 1], taken + (i + 1), lines)
      <3>1. i \in 0 .. n /\ i + 1 \in 1 .. n /\ (i + 1) - 1 = i
        BY <2>1, <2>2
      <3>2. PICK k \in Nat : k = taken + i
        BY <2>1
      <3>3. k + 1 = taken + (i + 1) /\ More(input.bytes, k)
        <4>1. Len(input.bytes) \in Nat
          BY DEF IsStream
        <4> QED
          BY <2>1, <2>2, <3>2, <4>1 DEF More
      <3>4. Mirrors(f[i], k, lines) /\ f[i] \in Accs
        BY <1>1, <3>1, <3>2
      <3>5. f[i + 1] = PushByte(f[i], input.bytes[k + 1])
        <4>1. f[i + 1] = PushByte(f[(i + 1) - 1], input.bytes[taken + (i + 1)])
          BY <1>1, <3>1
        <4> QED
          BY <3>1, <3>3, <4>1
      <3> QED
        BY <3>3, <3>4, <3>5, PushByteMirrors
    <2> QED
      BY <2>1, <2>2
  <1>4. S = Nat
    <2>1. S \in SUBSET Nat
      OBVIOUS
    <2> HIDE DEF S
    <2> QED
      BY <1>2, <1>3, <2>1, SetInduction
  <1>5. n \in 0 .. n /\ n \in S
    BY <1>4
  <1>6. Pushed(n) \in Accs /\ Mirrors(f[n], taken + n, lines)
    BY <1>1, <1>5
  <1> QED
    BY <1>1, <1>6

(***************************************************************************)
(* What a line is answered.                                                *)
(***************************************************************************)
Errors == {"BAD_REQUEST", "UNSUPPORTED_VERSION", "UNKNOWN_METHOD", "INVALID_WINDOW",
           "INVALID_OCCURRENCE", "DUPLICATE_REQUEST_ID", "LIMIT_EXCEEDED"}
Continues == Replies \cup {"ok"}

\* What becomes of a connection whose line was answered with code.
Leaves(code, next) ==
    \/ code \in Continues /\ next = "open"
    \/ code \in Replies /\ next = "unheard"
    \/ code \in Errors /\ code \notin Continues /\ next = "refused"

Coded(checks) == DOMAIN checks \subseteq Nat /\ \A i \in DOMAIN checks : checks[i].code \in Errors

\* The first check that fails, if there is one.
LEMMA FirstErrorIs ==
    ASSUME NEW checks, Coded(checks)
    PROVE  \/ FirstError(checks) = "ok" /\ \A i \in DOMAIN checks : checks[i].ok
           \/ \E i \in DOMAIN checks :
                  /\ ~checks[i].ok /\ FirstError(checks) = checks[i].code
                  /\ \A j \in DOMAIN checks : j < i => checks[j].ok
  <1> DEFINE failed == {i \in DOMAIN checks : ~checks[i].ok}
  <1>1. CASE failed = {}
    BY <1>1 DEF FirstError
  <1>2. CASE failed # {}
    <2>1. failed \in SUBSET Nat
      BY DEF Coded
    <2>2. Min(failed) \in failed /\ \A i \in failed : Min(failed) <= i
      <3> HIDE DEF failed
      <3> QED
        BY <1>2, <2>1, MinExists
    <2>3. FirstError(checks) = checks[Min(failed)].code
      BY <1>2 DEF FirstError
    <2>4. PICK i \in failed : i = Min(failed)
      BY <2>2
    <2>5. \A j \in DOMAIN checks : j < i => checks[j].ok
      BY <2>1, <2>2, <2>4
    <2> QED
      BY <2>3, <2>4, <2>5
  <1> QED
    BY <1>1, <1>2

LEMMA SignalsCoded == ASSUME NEW p, NEW limits PROVE Coded(SignalsChecks(p, limits))
  <1>1. \A ok : Need(ok).code \in Errors
    BY DEF Need, Check, Errors
  <1>2. \A keys : OnlyKeys(p, keys).code \in Errors
    BY <1>1 DEF OnlyKeys
  <1>3. ValidWindow(p).code \in Errors /\ ValidResponse(p).code \in Errors
    BY <1>1 DEF ValidWindow, ValidResponse, Check, Errors
  <1> QED
    BY <1>1, <1>2, <1>3 DEF SignalsChecks, Coded

LEMMA ChecksCoded ==
    ASSUME NEW line, NEW name, NEW p
    PROVE  Coded(EnvelopeChecks(line)) /\ Coded(MethodChecks(name, p))
  <1>1. \A ok : Need(ok).code \in Errors
    BY DEF Need, Check, Errors
  <1>2. \A ok : /\ Check(ok, "UNSUPPORTED_VERSION").code \in Errors
                /\ Check(ok, "UNKNOWN_METHOD").code \in Errors
                /\ Check(ok, "INVALID_OCCURRENCE").code \in Errors
                /\ Check(ok, "INVALID_WINDOW").code \in Errors
    BY DEF Check, Errors
  <1>3. ValidWindow(p).code \in Errors /\ ValidResponse(p).code \in Errors
    BY <1>1, <1>2 DEF ValidWindow, ValidResponse
  <1>4. \A keys : OnlyKeys(p, keys).code \in Errors
    BY <1>1 DEF OnlyKeys
  <1>5. Coded(EnvelopeChecks(line))
    BY <1>1, <1>2 DEF EnvelopeChecks, Coded
  <1>6. Coded(<<OnlyKeys(p, {})>>) /\ Coded(<<Check(FALSE, "UNKNOWN_METHOD")>>)
    <2>1. ASSUME NEW c, c.code \in Errors PROVE Coded(<<c>>)
      BY <2>1 DEF Coded
    <2> QED
      BY <1>2, <1>4, <2>1
  <1>7. Coded(ListChecks(p))
    BY <1>1, <1>3, <1>4 DEF ListChecks, Coded
  <1>8. Coded(MetadataChecks(p))
    BY <1>1, <1>4 DEF MetadataChecks, Coded
  <1>9. \A limits : Coded(SignalsChecks(p, limits))
    BY SignalsCoded
  <1>10. Coded(FindChecks(p))
    BY <1>1, <1>2, <1>3, <1>4 DEF FindChecks, Coded
  <1>11. Coded(CancelChecks(p))
    BY <1>1, <1>4 DEF CancelChecks, Coded
  <1>12. Coded(MethodChecks(name, p))
    BY <1>6, <1>7, <1>8, <1>9, <1>10, <1>11 DEF MethodChecks
  <1> QED
    BY <1>5, <1>12

LEMMA DecodeCodes == ASSUME NEW line PROVE DecodeRequest(line).code \in Errors \cup {"ok"}
  <1>1. ASSUME NEW checks, Coded(checks) PROVE FirstError(checks) \in Errors \cup {"ok"}
    BY <1>1, FirstErrorIs DEF Coded
  <1>2. FirstError(EnvelopeChecks(line)) \in Errors \cup {"ok"}
    BY <1>1, ChecksCoded
  <1>3. FirstError(MethodChecks(MethodOf(line), Params(line))) \in Errors \cup {"ok"}
    BY <1>1, ChecksCoded
  <1> QED
    BY <1>2, <1>3 DEF DecodeRequest

LEMMA IsPrefixConcat ==
    ASSUME NEW T, NEW s \in Seq(T), NEW t \in Seq(T)
    PROVE  IsPrefix(s, s \o t)
  <1>1. Len(s) <= Len(s \o t)
    OBVIOUS
  <1>2. SubSeq(s, 1, Len(s)) = SubSeq(s \o t, 1, Len(s))
    OBVIOUS
  <1> QED
    BY <1>1, <1>2 DEF IsPrefix

(***************************************************************************)
(* The lines of a connection: the invariant.                               *)
(***************************************************************************)
Handled == [i \in DOMAIN handled |-> handled[i].line]
Answers == [line : Seq(Bytes), code : Errors \cup Continues]

LinesType ==
    /\ input \in Inputs
    /\ taken \in 0 .. Len(input.bytes) /\ start \in 0 .. taken
    /\ buffer \in Seq(Bytes) /\ frames \in Seq(Seq(Bytes))
    /\ handled \in Seq(Answers)

\* The lines handled, after k bytes of which the last read brought those from s on;
\* while the connection is open, those of earlier reads were all handled.
InOrder(k, s) ==
    /\ Misframed(input.bytes, k) <=> status = "misframed"
    /\ status = "open" => /\ Handled \o frames = LinesOf(input.bytes, k) /\ buffer = Rest(input.bytes, k)
                          /\ Len(Handled) >= Len(LinesOf(input.bytes, s))
    /\ status = "ended" => Handled = LinesOf(input.bytes, k)
    /\ status = "misframed" => Handled = LinesOf(input.bytes, s)
    /\ status \in {"refused", "unheard"} =>
           IsPrefix(Handled, LinesOf(input.bytes, k)) /\ Len(Handled) > Len(LinesOf(input.bytes, s))

LastRefused ==
    /\ status = "unheard" => handled[Len(handled)].code \in Replies
    /\ \A i \in DOMAIN handled :
           status = "refused" /\ i = Len(handled) <=> handled[i].code \notin Continues

LinesInv == LinesType /\ InOrder(taken, start) /\ LastRefused

LEMMA LinesInvImplies == LinesInv => LinesInOrder
  BY DEF LinesInv, LastRefused, InOrder, Handled, LinesInOrder, Continues

LEMMA StreamsAre == LinesType => IsStream(input.bytes)
  BY LinesAssumption DEF LinesType, IsStream, Bytes

LEMMA HandledType ==
    ASSUME LinesType
    PROVE  Handled \in Seq(Seq(Bytes)) /\ Len(Handled) = Len(handled) /\ Len(handled) \in Nat
  <1> DEFINE L == Seq(Bytes)
             n == Len(handled)
  <1>1. n \in Nat /\ DOMAIN handled = 1 .. n /\ \A i \in 1 .. n : handled[i].line \in L
    <2> DEFINE A == Answers
    <2>1. handled \in Seq(A)
      BY DEF LinesType
    <2>2. \A a \in A : a.line \in L
      BY DEF Answers
    <2> HIDE DEF A
    <2> QED
      BY <2>1, <2>2
  <1>2. Handled = [i \in 1 .. n |-> handled[i].line]
    BY <1>1 DEF Handled
  <1> HIDE DEF L, n
  <1>3. Handled \in Seq(L) /\ Len(Handled) = n
    BY <1>1, <1>2
  <1> QED
    BY <1>1, <1>3 DEF L, n

LEMMA InitLines == Init => LinesInv
  <1> SUFFICES ASSUME Init PROVE LinesInv
    OBVIOUS
  <1>1. IsStream(input.bytes)
    BY LinesAssumption DEF Init, IsStream, Bytes
  <1>2. Len(input.bytes) \in Nat /\ 0 <= Len(input.bytes)
    BY <1>1 DEF IsStream
  <1>3. LinesOf(input.bytes, 0) = <<>> /\ Rest(input.bytes, 0) = <<>>
    BY <1>1, <1>2, RestStep, LinesStep
  <1>4. ~Misframed(input.bytes, 0)
    <2>1. Range(<<>>) = {} /\ ~(Len(<<>>) >= MaxLine)
      BY LinesAssumption DEF Range
    <2> QED
      BY <1>3, <2>1 DEF Misframed
  <1>5. Handled = <<>>
    BY DEF Init, Handled
  <1>6. LinesType
    BY <1>2 DEF Init, LinesType
  <1>7. InOrder(0, 0)
    <2>1. <<>> \o <<>> = <<>> /\ Len(<<>>) >= Len(<<>>)
      OBVIOUS
    <2> QED
      BY <1>3, <1>4, <1>5, <2>1 DEF Init, InOrder
  <1>8. InOrder(taken, start)
    BY <1>7 DEF Init
  <1>9. LastRefused
    BY DEF Init, LastRefused
  <1> QED
    BY <1>6, <1>8, <1>9 DEF LinesInv

LEMMA ReadKeeps ==
    ASSUME LinesInv, NEW n \in 1 .. BufferBytes, Read(n)
    PROVE  LinesInv'
  <1>1. /\ input' = input /\ handled' = handled /\ taken' = taken + n /\ start' = taken
        /\ status = "open" /\ frames = <<>> /\ n <= Len(input.bytes) - taken
        /\ n \in Nat
    BY LinesAssumption DEF Read
  <1>2. IsStream(input.bytes) /\ Len(input.bytes) \in Nat
    BY StreamsAre DEF LinesInv, IsStream
  <1>3. taken \in Nat /\ taken + n <= Len(input.bytes)
    BY <1>1, <1>2 DEF LinesInv, LinesType
  <1>4. PICK lines \in Seq(Seq(Bytes)) : lines = Handled
    BY HandledType DEF LinesInv
  <1>5. lines = LinesOf(input.bytes, taken) /\ buffer = Rest(input.bytes, taken)
    <2>1. lines \o <<>> = LinesOf(input.bytes, taken) /\ buffer = Rest(input.bytes, taken)
      BY <1>1, <1>4 DEF LinesInv, InOrder
    <2>2. lines \o <<>> = lines
      OBVIOUS
    <2> QED
      BY <2>1, <2>2
  <1>6. First \in Accs /\ Mirrors(First, taken, lines)
    <2>1. First \in Accs
      BY DEF First, Accs, LinesInv, LinesType
    <2>2. ~Misframed(input.bytes, taken)
      BY <1>1 DEF LinesInv, InOrder
    <2>3. lines \o <<>> = lines
      OBVIOUS
    <2> QED
      BY <1>5, <2>1, <2>2, <2>3 DEF First, Mirrors
  <1>7. PICK acc \in Accs : acc = Pushed(n) /\ Mirrors(acc, taken + n, lines)
    BY <1>1, <1>2, <1>3, <1>6, PushedMirrors
  <1>8. /\ buffer' = acc.buffer
        /\ acc.failed => frames' = <<>> /\ status' = "misframed"
        /\ ~acc.failed => frames' = acc.frames /\ status' = "open"
    BY <1>7 DEF Read
  <1>9. Bytes' = Bytes /\ Handled' = lines
    BY <1>1, <1>4 DEF Bytes, Handled
  <1>10. LinesType'
    <2>1. taken + n \in 0 .. Len(input.bytes) /\ taken \in 0 .. taken + n
      BY <1>1, <1>2, <1>3
    <2>2. acc.buffer \in Seq(Bytes) /\ acc.frames \in Seq(Seq(Bytes)) /\ <<>> \in Seq(Seq(Bytes))
      BY DEF Accs
    <2>3. buffer' \in Seq(Bytes) /\ frames' \in Seq(Seq(Bytes))
      BY <1>8, <2>2 DEF Accs
    <2>4. Answers' = Answers
      BY <1>9 DEF Answers
    <2> QED
      BY <1>1, <1>9, <2>1, <2>3, <2>4 DEF LinesInv, LinesType
  <1>11. PICK k \in Nat, s \in Nat : k = taken + n /\ s = taken
    BY <1>1, <1>3
  <1>12. InOrder(k, s)'
    <2>1. CASE acc.failed
      <3>1. Misframed(input.bytes, k)
        BY <1>7, <1>11, <2>1 DEF Mirrors
      <3>2. Handled' = LinesOf(input.bytes, s) /\ status' = "misframed"
        BY <1>5, <1>8, <1>9, <1>11, <2>1
      <3> QED
        BY <1>1, <3>1, <3>2 DEF InOrder
    <2>2. CASE ~acc.failed
      <3>1. ~Misframed(input.bytes, k) /\ acc.buffer = Rest(input.bytes, k)
        BY <1>7, <1>11, <2>2 DEF Mirrors
      <3>2. Handled' \o frames' = LinesOf(input.bytes, k)
        BY <1>7, <1>8, <1>9, <1>11, <2>2 DEF Mirrors
      <3>3. Len(Handled') >= Len(LinesOf(input.bytes, s))
        BY <1>5, <1>9, <1>11
      <3> QED
        BY <1>1, <1>8, <2>2, <3>1, <3>2, <3>3 DEF InOrder
    <2> QED
      BY <2>1, <2>2
  <1>13. InOrder(taken, start)'
    <2>1. taken' = k /\ start' = s
      BY <1>1, <1>11
    <2> QED
      BY <1>12, <2>1 DEF InOrder
  <1>14. LastRefused'
    <2>1. \A i \in DOMAIN handled : handled[i].code \in Continues
      BY <1>1 DEF LinesInv, LastRefused
    <2>2. status' \notin {"refused", "unheard"}
      BY <1>8
    <2> QED
      BY <1>1, <2>1, <2>2 DEF LastRefused, Continues
  <1> QED
    BY <1>10, <1>13, <1>14 DEF LinesInv

LEMMA ReadEndsKeeps == ASSUME LinesInv, ReadEnds PROVE LinesInv'
  <1>1. /\ status = "open" /\ frames = <<>> /\ status' = "ended"
        /\ UNCHANGED <<input, taken, start, buffer, frames, handled>>
    BY DEF ReadEnds
  <1>2. LinesType'
    BY <1>1 DEF LinesInv, LinesType, Answers, Bytes
  <1>3. PICK lines \in Seq(Seq(Bytes)) : lines = Handled
    BY HandledType DEF LinesInv
  <1>4. lines \o <<>> = lines
    OBVIOUS
  <1>5. lines = LinesOf(input.bytes, taken) /\ ~Misframed(input.bytes, taken)
    BY <1>1, <1>3, <1>4 DEF LinesInv, InOrder
  <1>6. Handled' = lines
    BY <1>1, <1>3 DEF Handled
  <1>7. InOrder(taken, start)'
    BY <1>1, <1>5, <1>6 DEF InOrder
  <1>8. LastRefused'
    BY <1>1 DEF LinesInv, LastRefused, Continues
  <1> QED
    BY <1>2, <1>7, <1>8 DEF LinesInv

\* A line handled is the next one, and is answered with an error or not.
LEMMA HandleLineAnswers ==
    ASSUME HandleLine
    PROVE  /\ status = "open" /\ frames # <<>> /\ UNCHANGED <<input, taken, start, buffer>>
           /\ \E code \in Errors \cup Continues :
                  /\ handled' = Append(handled, [line |-> Head(frames), code |-> code])
                  /\ frames' = Tail(frames)
                  /\ Leaves(code, status')
  <1> DEFINE request == DecodeRequest(Document(Head(frames)))
             outcome(code) ==
                 /\ handled' = Append(handled, [line |-> Head(frames), code |-> code])
                 /\ frames' = Tail(frames) /\ UNCHANGED <<input, taken, start, buffer>>
                 /\ Leaves(code, status')
  <1>1. status = "open" /\ frames # <<>>
    BY DEF HandleLine
  <1>2. ASSUME NEW code \in Errors, Refuse(code) PROVE outcome(code)
    <2>1. code \notin Continues
      BY DEF Errors, Continues, Replies
    <2> QED
      BY <1>2, <2>1 DEF Refuse, Answered, Leaves
  <1>3. ASSUME NEW code \in Replies, Control(code) PROVE outcome(code)
    BY <1>3 DEF Control, Answered, Leaves, Continues
  <1>4. request.code \in Errors \cup {"ok"}
    BY DecodeCodes
  <1>5. \/ request.code # "ok" /\ Refuse(request.code)
        \/ Refuse("DUPLICATE_REQUEST_ID") \/ Refuse("LIMIT_EXCEEDED")
        \/ Admit(request) \/ \E code \in Replies : Control(code)
    <2> HIDE DEF request
    <2>1. "cancel" \in Replies /\ "late" \in Replies /\ "QUEUE_FULL" \in Replies
      BY DEF Replies
    <2> QED
      BY <2>1, Zenon DEF HandleLine, request
  <1>6. {"DUPLICATE_REQUEST_ID", "LIMIT_EXCEEDED"} \subseteq Errors
    BY DEF Errors
  <1>7. Admit(request) => outcome("ok")
    <2> HIDE DEF request
    <2> QED
      BY <1>1 DEF Admit, Answered, Leaves, Continues
  <1>8. "ok" \in Continues /\ Replies \subseteq Continues
    BY DEF Continues
  <1> HIDE DEF request, outcome
  <1>9. \E code \in Errors \cup Continues : outcome(code)
    BY <1>2, <1>3, <1>4, <1>5, <1>6, <1>7, <1>8
  <1> QED
    BY <1>1, <1>9 DEF outcome

LEMMA HandleLineKeeps == ASSUME LinesInv, HandleLine PROVE LinesInv'
  <1>1. /\ status = "open" /\ frames # <<>> /\ input' = input /\ taken' = taken
        /\ start' = start /\ buffer' = buffer
    BY HandleLineAnswers
  <1>2. PICK code \in Errors \cup Continues :
            /\ handled' = Append(handled, [line |-> Head(frames), code |-> code])
            /\ frames' = Tail(frames)
            /\ Leaves(code, status')
    BY HandleLineAnswers
  <1> DEFINE L == Seq(Bytes)
             A == Answers
             n == Len(handled)
  <1>3. frames \in Seq(L) /\ handled \in Seq(A) /\ n \in Nat /\ input \in Inputs
    BY HandledType DEF LinesInv, LinesType
  <1>4. PICK line \in L : line = Head(frames)
    <2> HIDE DEF L
    <2> QED
      BY <1>1, <1>3
  <1>5. PICK a \in A : a = [line |-> line, code |-> code] /\ a.line = line /\ a.code = code
    <2>1. [line |-> line, code |-> code] \in A
      BY DEF Answers
    <2> HIDE DEF A
    <2> QED
      BY <2>1
  <1>6. handled' = Append(handled, a)
    BY <1>2, <1>4, <1>5
  <1>7. PICK lines \in Seq(L) : lines = Handled /\ Len(lines) = n
    BY HandledType DEF LinesInv
  <1>8. Bytes' = Bytes
    BY <1>1 DEF Bytes
  <1>9. LinesType'
    <2>1. Append(handled, a) \in Seq(A) /\ Tail(frames) \in Seq(L)
      <3> HIDE DEF A, L
      <3> QED
        BY <1>1, <1>3
    <2>2. Answers' = Answers
      BY <1>8 DEF Answers
    <2> QED
      BY <1>1, <1>2, <1>3, <1>6, <1>8, <2>1, <2>2 DEF LinesInv, LinesType
  <1>10. Handled' = Append(lines, line)
    <2>1. /\ DOMAIN handled' = 1 .. n + 1 /\ handled'[n + 1] = a
          /\ \A i \in 1 .. n : handled'[i] = handled[i]
      <3> HIDE DEF A
      <3> QED
        BY <1>3, <1>6
    <2>2. Handled' = [i \in 1 .. n + 1 |-> handled'[i].line]
      BY <2>1 DEF Handled
    <2>3. \A i \in 1 .. n : handled'[i].line = lines[i]
      <3>1. DOMAIN handled = 1 .. n
        BY <1>3
      <3> QED
        BY <1>7, <2>1, <3>1 DEF Handled
    <2> DEFINE t == Handled'
    <2>4. t = [i \in 1 .. n + 1 |-> t[i]] /\ t[n + 1] = line /\ \A i \in 1 .. n : t[i] = lines[i]
      BY <1>3, <1>5, <2>1, <2>2, <2>3
    <2> HIDE DEF t, L
    <2>5. t = Append(lines, line)
      <3>1. Lengthens(t, lines, line, n)
        BY <2>4, Zenon DEF Lengthens
      <3> QED
        BY <1>7, <3>1, Lengthened, Zenon
    <2> QED
      BY <2>5 DEF t
  <1>11. lines \o frames = LinesOf(input.bytes, taken) /\ buffer = Rest(input.bytes, taken)
    BY <1>1, <1>7 DEF LinesInv, InOrder
  <1>12. /\ ~Misframed(input.bytes, taken)
         /\ Len(lines) >= Len(LinesOf(input.bytes, start))
    BY <1>1, <1>7 DEF LinesInv, InOrder
  <1>13. /\ Append(lines, line) \o Tail(frames) = lines \o frames
         /\ IsPrefix(Append(lines, line), lines \o frames)
         /\ Len(Append(lines, line)) = n + 1
    <2> HIDE DEF L
    <2>1. Append(lines, line) \o Tail(frames) = lines \o frames
      BY <1>1, <1>3, <1>4
    <2>2. Len(Append(lines, line)) = n + 1
      BY <1>7
    <2>3. Append(lines, line) \in Seq(L) /\ Tail(frames) \in Seq(L)
      BY <1>1, <1>3
    <2> QED
      BY <2>1, <2>2, <2>3, IsPrefixConcat
  <1>14. Len(LinesOf(input.bytes, start)) \in Nat
    <2>1. IsStream(input.bytes)
      BY StreamsAre DEF LinesInv
    <2>2. start \in Nat /\ start <= Len(input.bytes)
      BY <2>1 DEF LinesInv, LinesType, IsStream
    <2>3. LinesOf(input.bytes, start) \in Seq(Seq(Bytes))
      BY <2>1, <2>2, LinesStep DEF Bytes
    <2> QED
      BY <2>3
  <1>15. n + 1 >= Len(LinesOf(input.bytes, start)) /\ n + 1 > Len(LinesOf(input.bytes, start))
    BY <1>3, <1>7, <1>12, <1>14
  <1>16. InOrder(taken, start)'
    <2>1. CASE status' = "open"
      <3>1. Handled' \o frames' = LinesOf(input.bytes, taken)
        BY <1>2, <1>10, <1>11, <1>13
      <3> QED
        BY <1>1, <1>10, <1>11, <1>12, <1>13, <1>15, <2>1, <3>1 DEF InOrder
    <2>2. CASE status' \in {"refused", "unheard"}
      <3>1. IsPrefix(Handled', LinesOf(input.bytes, taken))
        BY <1>10, <1>11, <1>13
      <3> QED
        BY <1>1, <1>10, <1>12, <1>13, <1>15, <2>2, <3>1 DEF InOrder
    <2> QED
      BY <1>2, <2>1, <2>2 DEF Leaves
  <1>17. LastRefused'
    <2>1. /\ DOMAIN handled' = 1 .. n + 1 /\ handled'[n + 1] = a /\ Len(handled') = n + 1
          /\ \A i \in 1 .. n : handled'[i] = handled[i]
      <3> HIDE DEF A
      <3> QED
        BY <1>3, <1>6
    <2>2. \A i \in 1 .. n : handled[i].code \in Continues
      <3>1. DOMAIN handled = 1 .. n
        BY <1>3
      <3> QED
        BY <1>1, <3>1 DEF LinesInv, LastRefused
    <2>3. /\ status' = "refused" <=> code \notin Continues
          /\ status' = "unheard" => code \in Replies
      BY <1>2 DEF Leaves, Continues
    <2>4. ASSUME NEW i \in 1 .. n + 1
          PROVE  status' = "refused" /\ i = n + 1 <=> handled'[i].code \notin Continues
      <3>1. CASE i = n + 1
        BY <1>5, <2>1, <2>3, <3>1
      <3>2. CASE i \in 1 .. n
        <4>1. i # n + 1
          BY <1>3, <3>2
        <4>2. handled'[i].code \in Continues
          BY <2>1, <2>2, <3>2, Zenon
        <4> QED
          BY <4>1, <4>2, Zenon
      <3> QED
        BY <1>3, <3>1, <3>2
    <2>5. status' = "unheard" => handled'[n + 1].code \in Replies
      BY <1>5, <2>1, <2>3
    <2> QED
      BY <2>1, <2>4, <2>5 DEF LastRefused, Continues
  <1> QED
    BY <1>9, <1>16, <1>17 DEF LinesInv

LEMMA NextLines == LinesInv /\ [Next]_vars => LinesInv'
  <1> SUFFICES ASSUME LinesInv, [Next]_vars PROVE LinesInv'
    OBVIOUS
  <1>1. ASSUME UNCHANGED <<input, taken, start, buffer, frames, handled, status>> PROVE LinesInv'
    <2>1. LinesType'
      BY <1>1 DEF LinesInv, LinesType, Answers, Bytes
    <2>2. InOrder(taken, start)'
      BY <1>1 DEF LinesInv, InOrder, Handled
    <2> QED
      BY <1>1, <2>1, <2>2 DEF LinesInv, LastRefused, Continues
  <1>2. ASSUME NEW n \in 1 .. BufferBytes, Read(n) PROVE LinesInv'
    BY <1>2, ReadKeeps
  <1>3. CASE ReadEnds
    BY <1>3, ReadEndsKeeps
  <1>4. CASE HandleLine
    BY <1>4, HandleLineKeeps
  <1>5. ASSUME NEW request \in active, Drop(request) PROVE LinesInv'
    BY <1>1, <1>5 DEF Drop
  <1>6. ASSUME NEW request \in active, Serve(request) PROVE LinesInv'
    BY <1>1, <1>6 DEF Serve
  <1>7. CASE UNCHANGED vars
    BY <1>1, <1>7 DEF vars
  <1> QED
    BY <1>2, <1>3, <1>4, <1>5, <1>6, <1>7 DEF Next

\* The lines of a stream are handled in order, once each, up to the first refused.
THEOREM LinesAreInOrder == Spec => []LinesInOrder
  <1> QED
    BY InitLines, NextLines, LinesInvImplies, PTL DEF Spec

(***************************************************************************)
(* Decimals: reading the digits of a number gives the number, and the      *)
(* canonical digits that are read are those of the number.                 *)
(***************************************************************************)
Digit == 0 .. 9
Reads(f, ds) == f[0] = 0 /\ \A i \in 1 .. Len(ds) : f[i] = 10 * f[i - 1] + ds[i]

LEMMA ReadsExist ==
    ASSUME NEW ds \in Seq(Digit)
    PROVE  \E f \in [0 .. Len(ds) -> Nat] : Reads(f, ds)
  <1> DEFINE n == Len(ds)
             step(p) == IF p[2] \in 1 .. n THEN 10 * p[1] + ds[p[2]] ELSE p[1]
             G == [p \in Nat \X Nat |-> step(p)]
  <1>1. n \in Nat /\ \A i \in 1 .. n : ds[i] \in Nat
    BY DEF Digit
  <1>2. G \in [Nat \X Nat -> Nat]
    <2>1. ASSUME NEW p \in Nat \X Nat PROVE step(p) \in Nat
      BY <1>1
    <2> HIDE DEF step
    <2> QED
      BY <2>1
  <1>3. PICK f \in [0 .. n -> Nat] : Follows(f, 0, G, n)
    <2> HIDE DEF G, n
    <2> QED
      BY <1>1, <1>2, RecursionExists
  <1>4. ASSUME NEW i \in 1 .. n PROVE f[i] = 10 * f[i - 1] + ds[i]
    <2>1. i \in Nat /\ i - 1 \in 0 .. n
      BY <1>1
    <2>2. <<f[i - 1], i>> \in Nat \X Nat
      BY <1>3, <2>1
    <2>3. G[<<f[i - 1], i>>] = step(<<f[i - 1], i>>)
      <3> HIDE DEF step
      <3> QED
        BY <2>2
    <2>4. step(<<f[i - 1], i>>) = 10 * f[i - 1] + ds[i]
      OBVIOUS
    <2>5. f[i] = G[<<f[i - 1], i>>]
      BY <1>3 DEF Follows
    <2> QED
      BY <2>3, <2>4, <2>5
  <1>5. f[0] = 0
    BY <1>3 DEF Follows
  <1> HIDE DEF G
  <1> QED
    BY <1>3, <1>4, <1>5 DEF Reads

LEMMA ReadsUnique ==
    ASSUME NEW f, NEW g, NEW ds, NEW n \in Nat, n <= Len(ds), Len(ds) \in Nat, f[0] = 0, g[0] = 0,
           \A i \in 1 .. n : f[i] = 10 * f[i - 1] + ds[i],
           \A i \in 1 .. n : g[i] = 10 * g[i - 1] + ds[i]
    PROVE  f[n] = g[n]
  <1> DEFINE S == {i \in Nat : i \in 0 .. n => f[i] = g[i]}
  <1>1. 0 \in S
    OBVIOUS
  <1>2. ASSUME NEW i \in S PROVE i + 1 \in S
    <2>1. i \in Nat /\ i + 1 \in Nat
      OBVIOUS
    <2>2. ASSUME i + 1 \in 0 .. n PROVE f[i + 1] = g[i + 1]
      <3>1. i \in 0 .. n /\ i + 1 \in 1 .. n /\ (i + 1) - 1 = i
        BY <2>1, <2>2
      <3>2. f[i] = g[i]
        BY <3>1
      <3>3. /\ f[i + 1] = 10 * f[(i + 1) - 1] + ds[i + 1]
            /\ g[i + 1] = 10 * g[(i + 1) - 1] + ds[i + 1]
        BY <3>1, Zenon
      <3> QED
        BY <3>1, <3>2, <3>3
    <2> QED
      BY <2>1, <2>2
  <1>3. S = Nat
    <2>1. S \in SUBSET Nat
      OBVIOUS
    <2> HIDE DEF S
    <2> QED
      BY <1>1, <1>2, <2>1, SetInduction
  <1>4. n \in 0 .. n /\ n \in S
    BY <1>3
  <1> QED
    BY <1>4

LEMMA ValueIs ==
    ASSUME NEW t, t.digits \in Seq(Digit), NEW f \in [0 .. Len(t.digits) -> Nat],
           Reads(f, t.digits)
    PROVE  Value(t) = f[Len(t.digits)]
  <1> DEFINE ds == t.digits
             n == Len(ds)
             read(g) == g = [i \in 0 .. n |-> IF i = 0 THEN 0 ELSE 10 * g[i - 1] + ds[i]]
  <1>1. n \in Nat
    OBVIOUS
  <1>2. read(f)
    <2>1. \A i \in 0 .. n : f[i] = IF i = 0 THEN 0 ELSE 10 * f[i - 1] + ds[i]
      <3>1. \A i \in 0 .. n : i = 0 \/ i \in 1 .. n
        BY <1>1
      <3> QED
        BY <3>1 DEF Reads
    <2> QED
      BY <2>1
  <1> DEFINE F == CHOOSE g : read(g)
  <1>3. read(F)
    <2> HIDE DEF read
    <2> QED
      BY <1>2, Zenon
  <1>4. Value(t) = F[n]
    BY DEF Value
  <1> HIDE DEF F
  <1>5. F[0] = 0 /\ \A i \in 1 .. n : F[i] = 10 * F[i - 1] + ds[i]
    <2>1. \A i \in 0 .. n : F[i] = IF i = 0 THEN 0 ELSE 10 * F[i - 1] + ds[i]
      BY <1>3
    <2>2. \A i \in 1 .. n : i \in 0 .. n /\ i # 0
      BY <1>1
    <2>3. 0 \in 0 .. n
      BY <1>1
    <2> QED
      BY <2>1, <2>2, <2>3
  <1>6. F[n] = f[n]
    <2>1. f[0] = 0 /\ \A i \in 1 .. n : f[i] = 10 * f[i - 1] + ds[i]
      BY DEF Reads
    <2> HIDE DEF ds, n
    <2>2. n <= Len(ds) /\ Len(ds) \in Nat
      BY <1>1 DEF n
    <2> QED
      BY <1>1, <1>5, <2>1, <2>2, ReadsUnique
  <1> QED
    BY <1>4, <1>6

\* The value of digits, and of one digit more.
LEMMA ValueType == ASSUME NEW t, t.digits \in Seq(Digit) PROVE Value(t) \in Nat
  <1>1. PICK f \in [0 .. Len(t.digits) -> Nat] : Reads(f, t.digits)
    BY ReadsExist
  <1>2. Len(t.digits) \in 0 .. Len(t.digits)
    OBVIOUS
  <1>3. Value(t) = f[Len(t.digits)]
    BY <1>1, ValueIs
  <1> QED
    BY <1>2, <1>3

LEMMA ValueOfDigits ==
    ASSUME NEW ds \in Seq(Digit), NEW d \in Digit
    PROVE  /\ Value(Digits(ds)) \in Nat /\ Value(Digits(<<>>)) = 0
           /\ Value(Digits(Append(ds, d))) = 10 * Value(Digits(ds)) + d
  <1> DEFINE n == Len(ds)
             es == Append(ds, d)
  <1>1. /\ n \in Nat /\ es \in Seq(Digit) /\ Len(es) = n + 1 /\ es[n + 1] = d
        /\ \A i \in 1 .. n : es[i] = ds[i]
    OBVIOUS
  <1>2. \A x : Digits(x).digits = x
    BY DEF Digits
  <1> HIDE DEF es
  <1>3. PICK f \in [0 .. n + 1 -> Nat] : Reads(f, es)
    BY <1>1, ReadsExist
  <1>4. Value(Digits(es)) = f[n + 1]
    <2>1. Digits(es).digits \in Seq(Digit) /\ f \in [0 .. Len(Digits(es).digits) -> Nat]
      BY <1>1, <1>2
    <2>2. Reads(f, Digits(es).digits)
      BY <1>2, <1>3
    <2> QED
      BY <1>1, <1>2, <2>1, <2>2, ValueIs
  <1>5. Value(Digits(ds)) = f[n]
    <2> DEFINE g == [i \in 0 .. n |-> f[i]]
    <2>1. g \in [0 .. n -> Nat] /\ g[n] = f[n]
      BY <1>1
    <2>2. Reads(g, ds)
      <3>1. g[0] = 0
        BY <1>1, <1>3 DEF Reads
      <3>2. ASSUME NEW i \in 1 .. n PROVE g[i] = 10 * g[i - 1] + ds[i]
        <4>1. i \in 1 .. Len(es) /\ i \in 0 .. n /\ i - 1 \in 0 .. n
          BY <1>1
        <4>2. f[i] = 10 * f[i - 1] + es[i]
          BY <1>3, <4>1 DEF Reads
        <4> QED
          BY <1>1, <4>1, <4>2
      <3> HIDE DEF g
      <3> QED
        BY <3>1, <3>2 DEF Reads
    <2> HIDE DEF g
    <2>3. Value(Digits(ds)) = g[n]
      <3>1. Digits(ds).digits \in Seq(Digit) /\ g \in [0 .. Len(Digits(ds).digits) -> Nat]
        BY <1>2, <2>1
      <3>2. Reads(g, Digits(ds).digits)
        BY <1>2, <2>2
      <3> QED
        BY <1>2, <3>1, <3>2, ValueIs
    <2> QED
      BY <2>1, <2>3
  <1>6. f[n + 1] = 10 * f[n] + d /\ f[n] \in Nat
    <2>1. n + 1 \in 1 .. Len(es) /\ (n + 1) - 1 = n /\ n \in 0 .. n + 1
      BY <1>1
    <2>2. f[n + 1] = 10 * f[(n + 1) - 1] + es[n + 1]
      BY <1>3, <2>1, Zenon DEF Reads
    <2> QED
      BY <1>1, <2>1, <2>2
  <1>7. Value(Digits(<<>>)) = 0
    <2>1. PICK none : none = <<>> /\ Digits(none).digits = none
      BY <1>2
    <2>2. Len(none) = 0 /\ none \in Seq(Digit)
      BY <2>1
    <2> DEFINE z == [i \in 0 .. 0 |-> 0]
    <2>3. z \in [0 .. 0 -> Nat] /\ z[0] = 0
      OBVIOUS
    <2> HIDE DEF z
    <2>4. Reads(z, none)
      BY <2>2, <2>3 DEF Reads
    <2>5. Value(Digits(none)) = z[0]
      BY <2>1, <2>2, <2>3, <2>4, ValueIs
    <2> QED
      BY <2>1, <2>3, <2>5
  <1> QED
    BY <1>4, <1>5, <1>6, <1>7 DEF es

LEMMA Division ==
    ASSUME NEW n \in Nat
    PROVE  /\ n \div 10 \in Nat /\ n % 10 \in Digit /\ n = 10 * (n \div 10) + (n % 10)
           /\ n >= 10 => n \div 10 < n
           /\ n >= 10 => n \div 10 >= 1
  <1>1. n \in Nat /\ 10 \in Nat \ {0}
    OBVIOUS
  <1>2. n \div 10 \in Nat
    BY <1>1
  <1>3. n % 10 \in Nat /\ n % 10 >= 0 /\ n % 10 < 10
    BY <1>1
  <1>4. n % 10 \in Digit
    BY <1>3 DEF Digit
  <1>5. n = 10 * (n \div 10) + (n % 10)
    BY <1>1
  <1>6. n >= 10 => n \div 10 < n
    BY <1>1
  <1>7. n >= 10 => n \div 10 >= 1
    BY <1>1
  <1> QED
    BY <1>2, <1>4, <1>5, <1>6, <1>7

\* The digits of the numbers up to m.
Spelled(f, n) == IF n < 10 THEN <<n>> ELSE Append(f[n \div 10], n % 10)
Spells(f, m) == \A n \in 0 .. m : f[n] = Spelled(f, n)

LEMMA SpellsExist == ASSUME NEW m \in Nat PROVE \E f \in [0 .. m -> Seq(Digit)] : Spells(f, m)
  <1> DEFINE Q == Seq(Digit)
             S == {i \in Nat : \E f \in [0 .. i -> Q] : Spells(f, i)}
  <1>1. 0 \in S
    <2> DEFINE f == [i \in 0 .. 0 |-> <<0>>]
    <2>1. f \in [0 .. 0 -> Q]
      BY DEF Digit
    <2>2. Spells(f, 0)
      BY DEF Spells, Spelled
    <2> QED
      BY <2>1, <2>2
  <1>2. ASSUME NEW i \in S PROVE i + 1 \in S
    <2>1. i \in Nat /\ i + 1 \in Nat
      OBVIOUS
    <2>2. PICK f \in [0 .. i -> Q] : Spells(f, i)
      OBVIOUS
    <2>3. i + 1 >= 10 => (i + 1) \div 10 \in 0 .. i
      BY <2>1, Division
    <2>4. PICK next \in Q : next = Spelled(f, i + 1)
      <3>1. CASE i + 1 < 10
        <4>1. <<i + 1>> \in Q
          BY <2>1, <3>1 DEF Digit
        <4> QED
          BY <3>1, <4>1 DEF Spelled
      <3>2. CASE ~(i + 1 < 10)
        <4>1. f[(i + 1) \div 10] \in Q /\ (i + 1) % 10 \in Digit
          BY <2>1, <2>2, <2>3, <3>2, Division
        <4>2. Append(f[(i + 1) \div 10], (i + 1) % 10) \in Q
          BY <4>1
        <4> QED
          BY <3>2, <4>2 DEF Spelled
      <3> QED
        BY <3>1, <3>2
    <2> DEFINE g == [n \in 0 .. i + 1 |-> IF n = i + 1 THEN next ELSE f[n]]
    <2>5. g \in [0 .. i + 1 -> Q]
      <3> HIDE DEF Q
      <3> QED
        BY <2>1, <2>2
    <2>6. g[i + 1] = next /\ \A n \in 0 .. i : g[n] = f[n]
      BY <2>1
    <2> HIDE DEF g, Q
    <2>7. \A n \in 0 .. i : Spelled(g, n) = Spelled(f, n)
      <3> SUFFICES ASSUME NEW n \in 0 .. i PROVE Spelled(g, n) = Spelled(f, n)
        OBVIOUS
      <3>1. n >= 10 => n \div 10 \in 0 .. i
        BY <2>1, Division
      <3>2. n >= 10 => g[n \div 10] = f[n \div 10]
        BY <2>6, <3>1
      <3>3. n < 10 \/ n >= 10
        OBVIOUS
      <3> QED
        BY <3>2, <3>3 DEF Spelled
    <2>8. Spelled(g, i + 1) = Spelled(f, i + 1)
      <3>1. i + 1 >= 10 => g[(i + 1) \div 10] = f[(i + 1) \div 10]
        BY <2>3, <2>6
      <3>2. i + 1 < 10 \/ i + 1 >= 10
        BY <2>1
      <3> QED
        BY <3>1, <3>2 DEF Spelled
    <2>9. Spells(g, i + 1)
      <3>1. ASSUME NEW n \in 0 .. i + 1 PROVE g[n] = Spelled(g, n)
        <4>1. CASE n = i + 1
          BY <2>4, <2>6, <2>8, <4>1
        <4>2. CASE n \in 0 .. i
          <5>1. f[n] = Spelled(f, n)
            BY <2>2, <4>2 DEF Spells
          <5> QED
            BY <2>6, <2>7, <4>2, <5>1
        <4> QED
          BY <2>1, <4>1, <4>2
      <3> QED
        BY <3>1 DEF Spells
    <2> QED
      BY <2>1, <2>5, <2>9
  <1>3. S = Nat
    <2>1. S \in SUBSET Nat
      OBVIOUS
    <2> HIDE DEF S
    <2> QED
      BY <1>1, <1>2, <2>1, SetInduction
  <1> QED
    BY <1>3

LEMMA SpellsUnique ==
    ASSUME NEW f, NEW g, NEW m \in Nat, NEW n \in Nat, m <= n, Spells(f, m), Spells(g, n)
    PROVE  f[m] = g[m]
  <1> DEFINE S == {i \in Nat : \A l \in 0 .. i : l <= m => f[l] = g[l]}
  <1>1. \A l \in 0 .. m : f[l] = Spelled(f, l) /\ g[l] = Spelled(g, l)
    BY DEF Spells
  <1>2. 0 \in S
    <2>1. f[0] = Spelled(f, 0) /\ g[0] = Spelled(g, 0)
      <3>1. 0 \in 0 .. m
        OBVIOUS
      <3> QED
        BY <1>1, <3>1, Zenon
    <2>2. Spelled(f, 0) = <<0>> /\ Spelled(g, 0) = <<0>>
      BY DEF Spelled
    <2>3. f[0] = g[0]
      BY <2>1, <2>2, Zenon
    <2> QED
      BY <2>3
  <1>3. ASSUME NEW i \in S PROVE i + 1 \in S
    <2>1. i \in Nat /\ i + 1 \in Nat
      OBVIOUS
    <2>2. \A l \in 0 .. i : l <= m => f[l] = g[l]
      OBVIOUS
    <2>3. ASSUME i + 1 <= m PROVE f[i + 1] = g[i + 1]
      <3>1. f[i + 1] = Spelled(f, i + 1) /\ g[i + 1] = Spelled(g, i + 1)
        BY <1>1, <2>1, <2>3
      <3>2. CASE i + 1 < 10
        BY <3>1, <3>2 DEF Spelled
      <3>3. CASE ~(i + 1 < 10)
        <4>1. (i + 1) \div 10 \in 0 .. i /\ (i + 1) \div 10 <= m
          BY <2>1, <2>3, <3>3, Division
        <4>2. f[(i + 1) \div 10] = g[(i + 1) \div 10]
          BY <2>2, <4>1
        <4> QED
          BY <3>1, <3>3, <4>2 DEF Spelled
      <3> QED
        BY <3>2, <3>3
    <2>4. \A l \in 0 .. i + 1 : l = i + 1 \/ l \in 0 .. i
      BY <2>1
    <2> QED
      BY <2>1, <2>2, <2>3, <2>4
  <1>4. S = Nat
    <2>1. S \in SUBSET Nat
      OBVIOUS
    <2> HIDE DEF S
    <2> QED
      BY <1>2, <1>3, <2>1, SetInduction
  <1>5. m \in 0 .. m /\ m <= m /\ m \in S
    BY <1>4
  <1> QED
    BY <1>5

LEMMA DigitsOfIs ==
    ASSUME NEW n \in Nat
    PROVE  /\ DigitsOf[n] \in Seq(Digit)
           /\ n < 10 => DigitsOf[n] = <<n>>
           /\ n >= 10 => DigitsOf[n] = Append(DigitsOf[n \div 10], n % 10)
  <1> DEFINE Q == Seq(Digit)
             best(i) == CHOOSE f \in [0 .. i -> Q] : Spells(f, i)
             H == [i \in Nat |-> best(i)[i]]
             spells(h) == h = [i \in Nat |-> IF i < 10 THEN <<i>> ELSE Append(h[i \div 10], i % 10)]
  <1>1. ASSUME NEW i \in Nat PROVE best(i) \in [0 .. i -> Q] /\ Spells(best(i), i)
    <2>1. \E f \in [0 .. i -> Q] : Spells(f, i)
      BY SpellsExist
    <2> QED
      BY <2>1, Zenon
  <1>2. \A i \in Nat : H[i] = best(i)[i]
    OBVIOUS
  <1>3. ASSUME NEW i \in Nat PROVE H[i] \in Q /\ H[i] = Spelled(H, i)
    <2>1. PICK f \in [0 .. i -> Q] : f = best(i) /\ Spells(f, i)
      BY <1>1
    <2>2. i \in 0 .. i
      OBVIOUS
    <2>3. H[i] = f[i] /\ f[i] \in Q /\ f[i] = Spelled(f, i)
      <3>1. f[i] = Spelled(f, i)
        BY <2>1, <2>2 DEF Spells
      <3> HIDE DEF Q, best, H
      <3> QED
        BY <1>2, <2>1, <2>2, <3>1
    <2>4. CASE i < 10
      BY <2>3, <2>4 DEF Spelled
    <2>5. CASE ~(i < 10)
      <3>1. PICK j \in Nat : j = i \div 10 /\ j <= i
        BY <2>5, Division
      <3>2. Spells(best(j), j)
        BY <1>1
      <3>3. best(j)[j] = f[j]
        <4> HIDE DEF best
        <4> QED
          BY <2>1, <3>1, <3>2, SpellsUnique
      <3>4. H[j] = f[j]
        BY <1>2, <3>3
      <3> HIDE DEF H, best
      <3> QED
        BY <2>3, <2>5, <3>1, <3>4 DEF Spelled
    <2> QED
      BY <2>4, <2>5
  <1>4. H = [i \in Nat |-> H[i]]
    <2> HIDE DEF best, Q
    <2> QED
      OBVIOUS
  <1> HIDE DEF H, best, Q
  <1>5. spells(H)
    <2>1. \A i \in Nat : H[i] = Spelled(H, i)
      BY <1>3
    <2>2. [i \in Nat |-> H[i]] = [i \in Nat |-> Spelled(H, i)]
      BY <2>1, Zenon
    <2> QED
      BY <1>4, <2>2, Zenon DEF Spelled
  <1>6. DigitsOf = CHOOSE h : spells(h)
    BY DEF DigitsOf
  <1>7. spells(DigitsOf)
    <2> HIDE DEF spells
    <2> QED
      BY <1>5, <1>6, Zenon
  <1>8. \A i \in Nat : DigitsOf[i] = Spelled(DigitsOf, i)
    BY <1>7, Zenon DEF Spelled
  <1> HIDE DEF spells
  <1>9. \A i \in Nat : DigitsOf[i] = H[i]
    <2>1. ASSUME NEW m \in Nat PROVE Spells(DigitsOf, m) /\ Spells(H, m)
      <3>1. \A i \in 0 .. m : i \in Nat
        OBVIOUS
      <3>2. \A i \in 0 .. m : DigitsOf[i] = Spelled(DigitsOf, i) /\ H[i] = Spelled(H, i)
        BY <1>3, <1>8, <3>1, Zenon
      <3> QED
        BY <3>2, Zenon DEF Spells
    <2>2. ASSUME NEW i \in Nat PROVE DigitsOf[i] = H[i]
      <3>1. i <= i
        OBVIOUS
      <3> QED
        BY <2>1, <3>1, SpellsUnique
    <2> QED
      BY <2>2
  <1>10. DigitsOf[n] \in Q
    BY <1>3, <1>9
  <1>11. DigitsOf[n] = Spelled(DigitsOf, n)
    BY <1>8
  <1>12. n < 10 => DigitsOf[n] = <<n>>
    BY <1>11, Zenon DEF Spelled
  <1>13. n >= 10 => ~(n < 10)
    OBVIOUS
  <1>14. n >= 10 => DigitsOf[n] = Append(DigitsOf[n \div 10], n % 10)
    BY <1>11, <1>13, Zenon DEF Spelled
  <1> QED
    BY <1>10, <1>12, <1>14, Zenon DEF Q

\* What validate_decimal lets through: at least one digit, and no zero in front.
Canonical(ds) == ds # <<>> /\ (Len(ds) > 1 => ds[1] # 0)

LEMMA DigitsAreCanonical ==
    ASSUME NEW n \in Nat
    PROVE  /\ Canonical(DigitsOf[n]) /\ Value(Digits(DigitsOf[n])) = n
           /\ n >= 1 => DigitsOf[n][1] # 0
  <1> DEFINE Good(l) == /\ Canonical(DigitsOf[l]) /\ Value(Digits(DigitsOf[l])) = l
                        /\ l >= 1 => DigitsOf[l][1] # 0
             S == {i \in Nat : \A l \in 0 .. i : Good(l)}
  <1>1. ASSUME NEW l \in Digit PROVE Good(l)
    <2>1. l \in Nat /\ l < 10
      BY DEF Digit
    <2>2. DigitsOf[l] = <<l>>
      BY <2>1, DigitsOfIs
    <2>3. Value(Digits(<<l>>)) = l
      <3>1. <<l>> = Append(<<>>, l) /\ <<>> \in Seq(Digit)
        OBVIOUS
      <3>2. Value(Digits(Append(<<>>, l))) = 10 * Value(Digits(<<>>)) + l /\ Value(Digits(<<>>)) = 0
        BY <3>1, ValueOfDigits
      <3> QED
        BY <2>1, <3>1, <3>2
    <2> QED
      BY <2>1, <2>2, <2>3 DEF Canonical
  <1>2. 0 \in S
    <2>1. \A l \in 0 .. 0 : l \in Digit
      BY DEF Digit
    <2> HIDE DEF Good
    <2> QED
      BY <1>1, <2>1
  <1>3. ASSUME NEW i \in S PROVE i + 1 \in S
    <2>1. i \in Nat /\ i + 1 \in Nat /\ \A l \in 0 .. i : Good(l)
      <3> HIDE DEF Good
      <3> QED
        OBVIOUS
    <2>2. Good(i + 1)
      <3>1. CASE i + 1 < 10
        <4>1. i + 1 \in Digit
          BY <2>1, <3>1 DEF Digit
        <4> QED
          BY <1>1, <4>1
      <3>2. CASE i + 1 >= 10
        <4>1. PICK j \in 0 .. i, d \in Digit :
                  j = (i + 1) \div 10 /\ d = (i + 1) % 10 /\ i + 1 = 10 * j + d /\ j >= 1
          BY <2>1, <3>2, Division
        <4>2. PICK ds \in Seq(Digit) : ds = DigitsOf[j]
          BY <4>1, DigitsOfIs
        <4>3. DigitsOf[i + 1] = Append(ds, d)
          BY <2>1, <3>2, <4>1, <4>2, DigitsOfIs
        <4>4. Canonical(ds) /\ Value(Digits(ds)) = j /\ ds[1] # 0
          BY <2>1, <4>1, <4>2
        <4>5. Append(ds, d)[1] = ds[1] /\ Append(ds, d) # <<>>
          BY <4>4 DEF Canonical
        <4>6. Value(Digits(Append(ds, d))) = 10 * j + d
          BY <4>4, ValueOfDigits
        <4> QED
          BY <4>1, <4>3, <4>4, <4>5, <4>6 DEF Canonical
      <3> QED
        BY <2>1, <3>1, <3>2
    <2>3. \A l \in 0 .. i + 1 : l = i + 1 \/ l \in 0 .. i
      BY <2>1
    <2> HIDE DEF Good
    <2> QED
      BY <2>1, <2>2, <2>3
  <1>4. S = Nat
    <2>1. S \in SUBSET Nat
      OBVIOUS
    <2> HIDE DEF S
    <2> QED
      BY <1>2, <1>3, <2>1, SetInduction
  <1>5. Good(n)
    <2>1. n \in 0 .. n /\ n \in S
      BY <1>4
    <2> HIDE DEF Good
    <2> QED
      BY <2>1
  <1> QED
    BY <1>5

\* Canonical digits are the digits of their value.
LEMMA CanonicalAreDigits ==
    ASSUME NEW ds \in Seq(Digit), Canonical(ds)
    PROVE  DigitsOf[Value(Digits(ds))] = ds
  <1> DEFINE Good(x) == Canonical(x) => /\ DigitsOf[Value(Digits(x))] = x
                                        /\ x[1] # 0 => Value(Digits(x)) >= 1
             S == {i \in Nat : \A x \in Seq(Digit) : Len(x) = i => Good(x)}
  <1>1. 0 \in S
    <2>1. \A x \in Seq(Digit) : Len(x) = 0 => x = <<>>
      OBVIOUS
    <2> QED
      BY <2>1 DEF Canonical
  <1>2. ASSUME NEW i \in S PROVE i + 1 \in S
    <2>1. i \in Nat /\ i + 1 \in Nat
      OBVIOUS
    <2>2. ASSUME NEW x \in Seq(Digit), Len(x) = i + 1, Canonical(x)
          PROVE  DigitsOf[Value(Digits(x))] = x /\ (x[1] # 0 => Value(Digits(x)) >= 1)
      <3> DEFINE front == SubSeq(x, 1, i)
                 d == x[i + 1]
      <3>1. front \in Seq(Digit) /\ Len(front) = i /\ d \in Digit /\ x = Append(front, d)
        BY <2>1, <2>2
      <3>2. i >= 1 => front[1] = x[1]
        BY <2>1, <2>2
      <3> HIDE DEF front, d
      <3>3. PICK v \in Nat : v = Value(Digits(front))
        BY <3>1, ValueOfDigits
      <3>4. Value(Digits(x)) = 10 * v + d
        BY <3>1, <3>3, ValueOfDigits
      <3>5. d \in Nat /\ d < 10
        BY <3>1 DEF Digit
      <3>6. CASE i = 0
        <4>1. front = <<>>
          BY <3>1, <3>6
        <4>2. v = 0
          BY <3>1, <3>3, <4>1, ValueOfDigits
        <4>3. Value(Digits(x)) = d /\ x = <<d>>
          BY <3>1, <3>4, <3>5, <4>1, <4>2
        <4> QED
          BY <3>5, <4>3, DigitsOfIs
      <3>7. CASE i >= 1
        <4>1. x[1] # 0
          BY <2>1, <2>2, <3>7 DEF Canonical
        <4>2. Canonical(front) /\ front[1] # 0
          BY <3>1, <3>2, <3>7, <4>1 DEF Canonical
        <4>3. DigitsOf[v] = front /\ v >= 1
          <5>1. Good(front)
            <6> HIDE DEF Good
            <6> QED
              BY <3>1
          <5> QED
            BY <3>3, <4>2, <5>1
        <4>4. PICK n \in Nat : n = 10 * v + d
          BY <3>3, <3>5
        <4>5. n >= 10 /\ n \div 10 = v /\ n % 10 = d
          BY <3>5, <4>3, <4>4
        <4>6. DigitsOf[n] = Append(front, d)
          BY <4>3, <4>5, DigitsOfIs
        <4> QED
          BY <3>1, <3>4, <4>4, <4>5, <4>6
      <3> QED
        BY <2>1, <3>6, <3>7
    <2> QED
      BY <2>1, <2>2
  <1>3. S = Nat
    <2>1. S \in SUBSET Nat
      OBVIOUS
    <2> HIDE DEF S
    <2> QED
      BY <1>1, <1>2, <2>1, SetInduction
  <1>4. Good(ds)
    <2>1. Len(ds) \in S
      BY <1>3
    <2> HIDE DEF Good
    <2> QED
      BY <2>1
  <1> QED
    BY <1>4

\* A text is a number of the protocol exactly if it is let through.
LEMMA ParsesIs ==
    ASSUME NEW v \in Texts
    PROVE  /\ Parses(v.text) <=> \E n \in 0 .. U64Max : v.text = Digits(DigitsOf[n])
           /\ Value(v.text) \in Nat
  <1> DEFINE t == v.text
  <1>1. t.digits \in Seq(Digit) /\ t = [word |-> t.word, digits |-> t.digits]
    BY DEF Texts, Digit
  <1>2. Value(t) \in Nat /\ Value(t) = Value(Digits(t.digits))
    <2>1. Digits(t.digits).digits = t.digits
      BY DEF Digits
    <2> QED
      BY <1>1, <2>1, ValueType DEF Value
  <1>3. Parses(t) <=> t.word = "" /\ Canonical(t.digits) /\ Value(t) <= U64Max
    BY DEF Parses, Canonical
  <1>4. ASSUME Parses(t) PROVE \E n \in 0 .. U64Max : t = Digits(DigitsOf[n])
    <2>1. DigitsOf[Value(t)] = t.digits
      BY <1>1, <1>2, <1>3, <1>4, CanonicalAreDigits
    <2>2. t = Digits(t.digits)
      BY <1>1, <1>3, <1>4 DEF Digits
    <2>3. Value(t) \in 0 .. U64Max
      <3>1. PICK m \in Nat : m = Value(t)
        BY <1>2
      <3>2. m <= U64Max /\ U64Max \in Nat
        BY <1>3, <1>4, <3>1, DecodeAssumption
      <3>3. m \in 0 .. U64Max
        BY <3>2
      <3> QED
        BY <3>1, <3>3
    <2> QED
      BY <2>1, <2>2, <2>3
  <1>5. ASSUME NEW n \in 0 .. U64Max, t = Digits(DigitsOf[n]) PROVE Parses(t)
    <2>1. n \in Nat /\ n <= U64Max
      BY DecodeAssumption
    <2>2. t.word = "" /\ t.digits = DigitsOf[n]
      <3>1. \A ds : Digits(ds).word = "" /\ Digits(ds).digits = ds
        BY DEF Digits
      <3> HIDE DEF t
      <3> QED
        BY <1>5, <3>1, Zenon
    <2>3. Canonical(t.digits) /\ Value(t) = n
      BY <1>5, <2>1, <2>2, DigitsAreCanonical
    <2> QED
      BY <1>3, <2>1, <2>2, <2>3
  <1> QED
    BY <1>2, <1>4, <1>5

(***************************************************************************)
(* Documents: the values of a document near its top, and what is taken     *)
(* from an object.                                                         *)
(***************************************************************************)
Levels(f, doc, n) == f[0] = {doc} /\ \A i \in 1 .. n : f[i] = UNION {Members(v) : v \in f[i - 1]}

LEMMA LevelsExist == ASSUME NEW doc, NEW n \in Nat PROVE \E f : Levels(f, doc, n)
  <1> DEFINE S == {m \in Nat : \E f : Levels(f, doc, m)}
  <1>1. 0 \in S
    <2> DEFINE f == [i \in 0 .. 0 |-> {doc}]
    <2>1. Levels(f, doc, 0)
      BY DEF Levels
    <2> HIDE DEF f
    <2> QED
      BY <2>1
  <1>2. ASSUME NEW m \in S PROVE m + 1 \in S
    <2>1. m \in Nat /\ m + 1 \in Nat
      OBVIOUS
    <2>2. PICK f : Levels(f, doc, m)
      OBVIOUS
    <2> DEFINE next == UNION {Members(v) : v \in f[m]}
               g == [i \in 0 .. m + 1 |-> IF i = m + 1 THEN next ELSE f[i]]
    <2>3. g[m + 1] = next /\ \A i \in 0 .. m : g[i] = f[i]
      <3> HIDE DEF next
      <3> QED
        BY <2>1
    <2> HIDE DEF g
    <2>4. g[0] = {doc}
      BY <2>1, <2>2, <2>3 DEF Levels
    <2>5. ASSUME NEW i \in 1 .. m + 1 PROVE g[i] = UNION {Members(v) : v \in g[i - 1]}
      <3>1. CASE i = m + 1
        <4>1. g[i - 1] = f[m]
          BY <2>1, <2>3, <3>1
        <4> QED
          BY <2>3, <3>1, <4>1
      <3>2. CASE i \in 1 .. m
        <4>1. g[i - 1] = f[i - 1] /\ g[i] = f[i]
          BY <2>1, <2>3, <3>2
        <4>2. f[i] = UNION {Members(v) : v \in f[i - 1]}
          BY <2>2, <3>2 DEF Levels
        <4> QED
          BY <4>1, <4>2
      <3> QED
        BY <2>1, <3>1, <3>2
    <2>6. Levels(g, doc, m + 1)
      BY <2>4, <2>5 DEF Levels
    <2> QED
      BY <2>1, <2>6
  <1>3. S = Nat
    <2>1. S \in SUBSET Nat
      OBVIOUS
    <2> HIDE DEF S
    <2> QED
      BY <1>1, <1>2, <2>1, SetInduction
  <1> QED
    BY <1>3

LEMMA LevelIs == ASSUME NEW doc PROVE Levels(Level(doc), doc, Nesting - 1)
  <1> DEFINE below(V) == UNION {Members(v) : v \in V}
             is(h) == h = [n \in 0 .. Nesting - 1 |-> IF n = 0 THEN {doc} ELSE below(h[n - 1])]
             F == CHOOSE h : is(h)
  <1>1. Nesting - 1 \in Nat
    BY DecodeAssumption
  <1>2. PICK f : Levels(f, doc, Nesting - 1)
    BY <1>1, LevelsExist
  <1>3. is([n \in 0 .. Nesting - 1 |-> f[n]])
    <2> DEFINE g == [n \in 0 .. Nesting - 1 |-> f[n]]
    <2>1. ASSUME NEW n \in 0 .. Nesting - 1
          PROVE  f[n] = IF n = 0 THEN {doc} ELSE below(g[n - 1])
      <3>1. CASE n = 0
        BY <1>2, <3>1 DEF Levels
      <3>2. CASE n # 0
        <4>1. n \in 1 .. Nesting - 1 /\ n - 1 \in 0 .. Nesting - 1
          BY <1>1, <3>2
        <4>2. g[n - 1] = f[n - 1]
          BY <4>1
        <4>3. f[n] = below(f[n - 1])
          BY <1>2, <4>1 DEF Levels
        <4> HIDE DEF below, g
        <4> QED
          BY <3>2, <4>2, <4>3
      <3> QED
        BY <3>1, <3>2
    <2> HIDE DEF below
    <2> QED
      BY <2>1, Zenon
  <1>4. is(F)
    <2> HIDE DEF is
    <2> QED
      BY <1>3, Zenon
  <1>5. Level(doc) = F
    BY DEF Level
  <1> HIDE DEF F
  <1>6. ASSUME NEW n \in 0 .. Nesting - 1
        PROVE  F[n] = IF n = 0 THEN {doc} ELSE below(F[n - 1])
    <2> HIDE DEF below
    <2> QED
      BY <1>4, Zenon
  <1>7. F[0] = {doc}
    <2>1. 0 \in 0 .. Nesting - 1
      BY <1>1
    <2> HIDE DEF below
    <2> QED
      BY <1>6, <2>1
  <1>8. ASSUME NEW n \in 1 .. Nesting - 1 PROVE F[n] = below(F[n - 1])
    <2>1. n \in 0 .. Nesting - 1 /\ n # 0
      BY <1>1
    <2> HIDE DEF below
    <2> QED
      BY <1>6, <2>1
  <1> QED
    BY <1>5, <1>7, <1>8 DEF Levels

Good(v) == v.kind \in Kinds /\ (v.kind = "text" => v \in Texts)
Sound(v) == \A k \in Keys(v) : Good(Take(v, k)) /\ \A x \in Members(Take(v, k)) : Good(x)

LEMMA TakeIs ==
    ASSUME NEW v, NEW key
    PROVE  /\ key \in Keys(v) => v.kind = "object" /\ Take(v, key) \in Members(v)
           /\ key \notin Keys(v) => Take(v, key).kind = "missing"
  <1>1. ASSUME key \in Keys(v) PROVE v.kind = "object" /\ Take(v, key) \in Members(v)
    <2>1. v.kind = "object" /\ key \in {f[1] : f \in Range(v.fields)}
      BY <1>1 DEF Keys
    <2>2. \E i \in DOMAIN v.fields : v.fields[i][1] = key
      BY <2>1, Zenon DEF Range
    <2>3. PICK i \in DOMAIN v.fields : i = CHOOSE j \in DOMAIN v.fields : v.fields[j][1] = key
      BY <2>2, Zenon
    <2>4. Take(v, key) = v.fields[i][2]
      BY <1>1, <2>3 DEF Take
    <2>5. v.fields[i] \in Range(v.fields)
      BY DEF Range
    <2>6. v.fields[i][2] \in {f[2] : f \in Range(v.fields)}
      BY <2>5, Zenon
    <2> QED
      BY <2>1, <2>4, <2>6 DEF Members
  <1>2. ASSUME key \notin Keys(v) PROVE Take(v, key).kind = "missing"
    BY <1>2 DEF Take, Missing
  <1> QED
    BY <1>1, <1>2

LEMMA DocumentIs ==
    ASSUME NEW doc, IsDocument(doc)
    PROVE  Good(doc) /\ Sound(doc) /\ Sound(Params(doc))
  <1> DEFINE L == Level(doc)
  <1>1. /\ L[0] = {doc} /\ L[1] = UNION {Members(v) : v \in L[0]}
        /\ L[2] = UNION {Members(v) : v \in L[1]} /\ L[3] = UNION {Members(v) : v \in L[2]}
    <2>1. 1 \in 1 .. Nesting - 1 /\ 2 \in 1 .. Nesting - 1 /\ 3 \in 1 .. Nesting - 1
      BY DecodeAssumption
    <2>2. 1 - 1 = 0 /\ 2 - 1 = 1 /\ 3 - 1 = 2
      OBVIOUS
    <2>3. Levels(L, doc, Nesting - 1)
      BY LevelIs
    <2> HIDE DEF L
    <2> QED
      BY <2>1, <2>2, <2>3 DEF Levels
  <1>2. /\ \A v \in L[0] : Good(v)
        /\ \A v \in L[1] : Good(v)
        /\ \A v \in L[2] : Good(v)
        /\ \A v \in L[3] : Good(v)
    <2>1. 0 \in 0 .. 3 /\ 1 \in 0 .. 3 /\ 2 \in 0 .. 3 /\ 3 \in 0 .. 3
      OBVIOUS
    <2> QED
      BY <2>1 DEF IsDocument, Good
  <1> HIDE DEF L
  <1>3. \A v \in Members(doc) : v \in L[1] /\ \A w \in Members(v) : w \in L[2] /\ \A x \in Members(w) : x \in L[3]
    BY <1>1
  <1>4. ASSUME NEW k \in Keys(doc) PROVE Take(doc, k) \in L[1]
    BY <1>3, TakeIs
  <1>5. Sound(doc)
    BY <1>2, <1>3, <1>4, TakeIs DEF Sound
  <1>6. Sound(Params(doc))
    <2>1. CASE "params" \in Keys(doc)
      <3> DEFINE p == Params(doc)
      <3>1. p \in L[1] /\ p \in Members(doc)
        BY <2>1, <1>4, TakeIs DEF Params
      <3>2. \A k \in Keys(p) : Take(p, k) \in Members(p)
        BY TakeIs
      <3> HIDE DEF p
      <3> QED
        BY <1>2, <1>3, <3>1, <3>2 DEF Sound, p
    <2>2. CASE "params" \notin Keys(doc)
      <3>1. Params(doc).kind = "missing"
        BY <2>2, TakeIs DEF Params
      <3>2. Keys(Params(doc)) = {}
        BY <3>1 DEF Keys
      <3> QED
        BY <3>2 DEF Sound
    <2> QED
      BY <2>1, <2>2
  <1>7. Good(doc)
    BY <1>1, <1>2
  <1> QED
    BY <1>5, <1>6, <1>7

LEMMA CheckIs ==
    ASSUME NEW code
    PROVE  \A ok : (Check(ok, code).ok <=> ok) /\ Check(ok, code).code = code
  BY DEF Check

LEMMA HasTypeIs ==
    ASSUME NEW v
    PROVE  /\ HasType(v, "names") <=>
                  v.kind = "array" /\ v.items # <<>> /\ \A x \in Range(v.items) : IsName(x)
           /\ HasType(v, "u64") <=> IsText(v) /\ \E n \in 0 .. U64Max : v.text = Digits(DigitsOf[n])
           /\ HasType(v, "text") <=> IsText(v)
           /\ HasType(v, "name") <=> IsName(v)
           /\ HasType(v, "id") <=> IsName(v) /\ v.text.word \notin LongIds
  BY DEF HasType

LEMMA EnvelopeIs ==
    ASSUME NEW doc, IsDocument(doc)
    PROVE  LET code == FirstError(EnvelopeChecks(doc))
           IN  /\ code = "ok" <=> Envelope(doc)
               /\ code = "UNSUPPORTED_VERSION" <=>
                      /\ Strict(doc) /\ doc.kind = "object"
                      /\ Version(doc).kind = "number" /\ Version(doc) # Number(1)
               /\ code \in {"ok", "BAD_REQUEST", "UNSUPPORTED_VERSION"}
  <1> DEFINE c == EnvelopeChecks(doc)
             code == FirstError(c)
  <1>1. /\ DOMAIN c = 1 .. 8
        /\ c[1].ok <=> Strict(doc)
        /\ c[2].ok <=> doc.kind = "object"
        /\ c[3].ok <=> Version(doc).kind = "number"
        /\ c[4].ok <=> Version(doc) = Number(1)
        /\ c[5].ok <=> IsText(Take(doc, "id"))
        /\ c[6].ok <=> ValidId(TextOf(Take(doc, "id")))
        /\ c[7].ok <=> IsText(Take(doc, "method"))
        /\ c[8].ok <=> Params(doc).kind = "object"
    <2> DEFINE id == Take(doc, "id")
    <2>1. c = <<Need(Strict(doc)), Need(doc.kind = "object"), Need(Version(doc).kind = "number"),
                Check(Version(doc) = Number(1), "UNSUPPORTED_VERSION"), Need(IsText(id)),
                Need(ValidId(TextOf(id))), Need(IsText(Take(doc, "method"))),
                Need(Params(doc).kind = "object")>>
      BY Zenon DEF EnvelopeChecks
    <2> HIDE DEF c, id
    <2>2. /\ DOMAIN c = 1 .. 8 /\ c[1] = Need(Strict(doc)) /\ c[2] = Need(doc.kind = "object")
          /\ c[3] = Need(Version(doc).kind = "number")
          /\ c[4] = Check(Version(doc) = Number(1), "UNSUPPORTED_VERSION")
          /\ c[5] = Need(IsText(id)) /\ c[6] = Need(ValidId(TextOf(id)))
          /\ c[7] = Need(IsText(Take(doc, "method"))) /\ c[8] = Need(Params(doc).kind = "object")
      BY <2>1
    <2>3. /\ Need(Strict(doc)).ok <=> Strict(doc)
          /\ Need(doc.kind = "object").ok <=> doc.kind = "object"
          /\ Need(Version(doc).kind = "number").ok <=> Version(doc).kind = "number"
          /\ Check(Version(doc) = Number(1), "UNSUPPORTED_VERSION").ok <=> Version(doc) = Number(1)
          /\ Need(IsText(id)).ok <=> IsText(id)
          /\ Need(ValidId(TextOf(id))).ok <=> ValidId(TextOf(id))
          /\ Need(IsText(Take(doc, "method"))).ok <=> IsText(Take(doc, "method"))
          /\ Need(Params(doc).kind = "object").ok <=> Params(doc).kind = "object"
      BY DEF Need, Check
    <2> QED
      BY <2>2, <2>3, Zenon DEF id
  <1>2. c[4].code = "UNSUPPORTED_VERSION" /\ \A i \in 1 .. 8 : i # 4 => c[i].code = "BAD_REQUEST"
    BY CheckIs DEF EnvelopeChecks, Need
  <1>3. \/ code = "ok" /\ \A i \in 1 .. 8 : c[i].ok
        \/ \E i \in 1 .. 8 : ~c[i].ok /\ code = c[i].code /\ \A j \in 1 .. 8 : j < i => c[j].ok
    <2>1. Coded(c)
      BY ChecksCoded
    <2> HIDE DEF c
    <2> QED
      BY <1>1, <2>1, FirstErrorIs
  <1> HIDE DEF c
  <1>4. (\A i \in 1 .. 8 : c[i].ok) <=> Envelope(doc)
    <2>1. \A k : k \notin Keys(doc) => Take(doc, k).kind = "missing"
      BY TakeIs
    <2>2. Number(1).kind = "number"
      BY DEF Number
    <2>3. ASSUME \A i \in 1 .. 8 : c[i].ok PROVE Envelope(doc)
      <3>1. {"v", "id", "method", "params"} \subseteq Keys(doc)
        BY <1>1, <2>1, <2>3 DEF Version, Params, IsText
      <3>2. HasType(Take(doc, "id"), "id")
        BY <1>1, <2>3, HasTypeIs DEF IsName, ValidId, TextOf
      <3> QED
        BY <1>1, <2>3, <3>1, <3>2 DEF Envelope
    <2>4. ASSUME Envelope(doc) PROVE \A i \in 1 .. 8 : c[i].ok
      <3>1. IsText(Take(doc, "id")) /\ ValidId(TextOf(Take(doc, "id")))
        BY <2>4, HasTypeIs DEF Envelope, IsName, ValidId, TextOf
      <3>2. c[1].ok /\ c[2].ok /\ c[3].ok /\ c[4].ok /\ c[5].ok /\ c[6].ok /\ c[7].ok /\ c[8].ok
        BY <1>1, <2>2, <2>4, <3>1 DEF Envelope
      <3>3. \A i \in 1 .. 8 : i = 1 \/ i = 2 \/ i = 3 \/ i = 4 \/ i = 5 \/ i = 6 \/ i = 7 \/ i = 8
        OBVIOUS
      <3> QED
        BY <3>2, <3>3
    <2> QED
      BY <2>3, <2>4
  <1>5. code = "UNSUPPORTED_VERSION" <=> c[1].ok /\ c[2].ok /\ c[3].ok /\ ~c[4].ok
    <2>1. ASSUME code = "UNSUPPORTED_VERSION" PROVE c[1].ok /\ c[2].ok /\ c[3].ok /\ ~c[4].ok
      BY <1>2, <1>3, <2>1
    <2>2. ASSUME c[1].ok, c[2].ok, c[3].ok, ~c[4].ok PROVE code = "UNSUPPORTED_VERSION"
      BY <1>2, <1>3, <2>2
    <2> QED
      BY <2>1, <2>2
  <1>6. code = "ok" <=> \A i \in 1 .. 8 : c[i].ok
    BY <1>2, <1>3
  <1>7. code \in {"ok", "BAD_REQUEST", "UNSUPPORTED_VERSION"}
    BY <1>2, <1>3
  <1> QED
    BY <1>1, <1>4, <1>5, <1>6, <1>7 DEF c

(***************************************************************************)
(* Parameters: what each check of a method asks of them.                   *)
(***************************************************************************)
LEMMA NumbersAre ==
    ASSUME NEW v, Good(v)
    PROVE  /\ HasType(v, "u64") <=> IsText(v) /\ Parses(TextOf(v))
           /\ Value(TextOf(v)) \in Nat
           /\ HasType(v, "u64") => (Value(TextOf(v)) = 0 <=> v = Text(Digits(<<0>>)))
  <1>1. CASE IsText(v)
    <2>1. v \in Texts /\ TextOf(v) = v.text
      BY <1>1 DEF Good, IsText, TextOf
    <2>2. Parses(v.text) <=> \E n \in 0 .. U64Max : v.text = Digits(DigitsOf[n])
      BY <2>1, ParsesIs
    <2>3. HasType(v, "u64") <=> IsText(v) /\ Parses(TextOf(v))
      BY <2>1, <2>2, HasTypeIs
    <2>4. Value(v.text) \in Nat
      BY <2>1, ParsesIs
    <2>5. ASSUME HasType(v, "u64") PROVE Value(v.text) = 0 <=> v = Text(Digits(<<0>>))
      <3>1. PICK n \in Nat : v.text = Digits(DigitsOf[n])
        BY <2>5, HasTypeIs, DecodeAssumption
      <3>2. Value(v.text) = n
        BY <3>1, DigitsAreCanonical
      <3>3. DigitsOf[0] = <<0>>
        BY DigitsOfIs
      <3>4. v = Text(v.text)
        BY <2>1 DEF Texts, Text
      <3>5. v = Text(Digits(<<0>>)) => Value(v.text) = 0
        <4> HAVE v = Text(Digits(<<0>>))
        <4>1. v.text = Digits(DigitsOf[0])
          BY <3>3 DEF Text
        <4>2. 0 \in Nat
          OBVIOUS
        <4> QED
          BY <4>1, <4>2, DigitsAreCanonical
      <3>6. ASSUME Value(v.text) = 0 PROVE v = Text(Digits(<<0>>))
        BY <3>1, <3>2, <3>3, <3>4, <3>6
      <3> QED
        BY <3>5, <3>6
    <2> QED
      BY <2>1, <2>3, <2>4, <2>5
  <1>2. CASE ~IsText(v)
    <2>1. TextOf(v).digits = <<>>
      BY <1>2 DEF TextOf, Empty, Word
    <2>2. <<>> \in Seq(Digit)
      OBVIOUS
    <2>3. Value(TextOf(v)) \in Nat
      BY <2>1, <2>2, ValueType
    <2> QED
      BY <1>2, <2>3, HasTypeIs
  <1> QED
    BY <1>1, <1>2

LEMMA DecimalsAre ==
    ASSUME NEW p, Sound(p), NEW keys
    PROVE  Decimals(p, keys) <=> \A k \in keys \cap Keys(p) : HasType(Take(p, k), "u64")
  BY NumbersAre DEF Sound, Decimals

LEMMA WindowIs ==
    ASSUME NEW doc
    PROVE  LET p == Params(doc)
           IN  /\ ValidWindow(p).ok <=> Ordered(doc)
               /\ ValidWindow(p).code = "INVALID_WINDOW"
               /\ ~(Window \subseteq Keys(p)) => Ordered(doc)
  <1> DEFINE p == Params(doc)
             at == Given(p, Window)
             inOrder == Window \subseteq Keys(p) =>
                            Value(TextOf(Take(p, "start"))) <= Value(TextOf(Take(p, "end")))
  <1>1. DOMAIN at = Window \cap Keys(p) /\ \A k \in Window \cap Keys(p) : at[k] = Value(TextOf(Take(p, k)))
    BY DEF Given
  <1>2. Window \subseteq Keys(p) => "start" \in Window \cap Keys(p) /\ "end" \in Window \cap Keys(p)
    BY DEF Window
  <1>3. DOMAIN at = Window <=> Window \subseteq Keys(p)
    BY <1>1
  <1>4. Ordered(doc) <=> (DOMAIN at = Window => at["start"] <= at["end"])
    BY Zenon DEF Ordered
  <1>5. ValidWindow(p).ok <=> inOrder
    BY DEF ValidWindow, Check
  <1>6. ValidWindow(p).code = "INVALID_WINDOW"
    BY DEF ValidWindow, Check
  <1>7. inOrder <=> Ordered(doc)
    <2>1. CASE Window \subseteq Keys(p)
      <3>1. at["start"] = Value(TextOf(Take(p, "start"))) /\ at["end"] = Value(TextOf(Take(p, "end")))
        BY <1>1, <1>2, <2>1
      <3> HIDE DEF at, p
      <3> QED
        BY <1>3, <1>4, <2>1, <3>1 DEF inOrder
    <2>2. CASE ~(Window \subseteq Keys(p))
      BY <1>3, <1>4, <2>2
    <2> QED
      BY <2>1, <2>2
  <1>8. ~(Window \subseteq Keys(p)) => Ordered(doc)
    BY <1>3, <1>4
  <1> QED
    BY <1>5, <1>6, <1>7, <1>8

LEMMA ResponseIs ==
    ASSUME NEW doc
    PROVE  LET p == Params(doc)
           IN  /\ ValidResponse(p).ok <=> Roomy(doc)
               /\ ValidResponse(p).code = "BAD_REQUEST"
               /\ "max_response_bytes" \notin Keys(p) => Roomy(doc)
  <1> DEFINE p == Params(doc)
             key == "max_response_bytes"
             given == Given(p, {key})
  <1>1. DOMAIN given = {key} \cap Keys(p)
    BY DEF Given
  <1>2. key \in Keys(p) => given[key] = Value(TextOf(Take(p, key)))
    BY DEF Given
  <1>3. Roomy(doc) <=> \A n \in Range(given) : n >= Reserve
    BY Zenon DEF Roomy
  <1>4. Range(given) = {given[k] : k \in DOMAIN given}
    BY DEF Range
  <1>5. ValidResponse(p).ok <=> (key \in Keys(p) => Value(TextOf(Take(p, key))) >= Reserve)
    BY DEF ValidResponse, Need, Check
  <1>6. ValidResponse(p).code = "BAD_REQUEST"
    BY DEF ValidResponse, Need, Check
  <1> HIDE DEF given, p, key
  <1>7. CASE key \in Keys(p)
    <2>1. Range(given) = {given[key]}
      BY <1>1, <1>4, <1>7
    <2> QED
      BY <1>2, <1>3, <1>5, <1>6, <1>7, <2>1 DEF p, key
  <1>8. CASE key \notin Keys(p)
    <2>1. Range(given) = {}
      BY <1>1, <1>4, <1>8
    <2> QED
      BY <1>3, <1>5, <1>6, <1>8, <2>1 DEF p, key
  <1> QED
    BY <1>7, <1>8

LEMMA OccursIs ==
    ASSUME NEW doc, "occurrence" \notin Keys(Params(doc))
    PROVE  Occurs(doc)
  <1>1. Take(Params(doc), "occurrence").kind = "missing"
    BY TakeIs
  <1>2. Text(Digits(<<0>>)).kind = "text"
    BY DEF Text
  <1> QED
    BY <1>1, <1>2 DEF Occurs

LEMMA NamesAre ==
    ASSUME NEW v
    PROVE  Names(v) /\ NoneEmpty(v) <=> HasType(v, "names")
  <1>1. Names(v) <=> v.kind = "array" /\ \A x \in Range(v.items) : IsText(x)
    BY DEF Names, Range
  <1>2. Names(v) => (NoneEmpty(v) <=> v.items # <<>> /\ \A x \in Range(v.items) : x.text # Empty)
    BY DEF NoneEmpty, Range
  <1> QED
    BY <1>1, <1>2, HasTypeIs DEF IsName

LEMMA TypesAre ==
    /\ TypeOf("signals") = "names" /\ TypeOf("signal") = "name" /\ TypeOf("request_id") = "id"
    /\ TypeOf("filter") = "text" /\ TypeOf("value") = "text"
    /\ \A k : k \notin {"signals", "signal", "filter", "value", "request_id"} => TypeOf(k) = "u64"
  BY DEF TypeOf

LEMMA ParametersAre ==
    /\ DOMAIN Parameters =
           {"ping", "describe", "list", "metadata", "extract", "find", "toggles", "cancel"}
    /\ Parameters["ping"] = {} /\ Parameters["describe"] = {}
    /\ Parameters["list"] = {"filter", "max_rows", "max_response_bytes", "timeout_ms"}
    /\ Parameters["metadata"] = {"timeout_ms", "max_commands"}
    /\ Parameters["extract"] = {"start", "end", "timeout_ms", "max_commands", "max_response_bytes",
                                "signals", "max_rows"}
    /\ Parameters["find"] = {"start", "end", "timeout_ms", "max_commands", "max_response_bytes",
                             "signal", "value", "occurrence"}
    /\ Parameters["toggles"] = {"start", "end", "timeout_ms", "max_commands", "max_response_bytes",
                                "signals"}
    /\ Parameters["cancel"] = {"request_id"}
  <1>1. DOMAIN Parameters =
           {"ping", "describe", "list", "metadata", "extract", "find", "toggles", "cancel"}
    BY DEF Parameters
  <1>2. /\ Parameters.ping = {} /\ Parameters.describe = {}
        /\ Parameters.list = {"filter", "max_rows", "max_response_bytes", "timeout_ms"}
        /\ Parameters.metadata = {"timeout_ms", "max_commands"}
        /\ Parameters.cancel = {"request_id"}
    BY DEF Parameters
  <1>3. /\ Parameters.extract = {"start", "end", "timeout_ms", "max_commands",
                                 "max_response_bytes", "signals", "max_rows"}
    BY DEF Parameters, Window
  <1>4. Parameters.find = {"start", "end", "timeout_ms", "max_commands", "max_response_bytes",
                           "signal", "value", "occurrence"}
    BY DEF Parameters, Window
  <1>5. Parameters.toggles = {"start", "end", "timeout_ms", "max_commands", "max_response_bytes",
                              "signals"}
    BY DEF Parameters, Window
  <1> QED
    BY <1>1, <1>2, <1>3, <1>4, <1>5

Fits(p, known) ==
    /\ Keys(p) \subseteq known /\ Needed \cap known \subseteq Keys(p)
    /\ \A k \in Keys(p) : HasType(Take(p, k), TypeOf(k))

LEMMA TypedIs ==
    ASSUME NEW doc, NEW known, MethodOf(doc) \in DOMAIN Parameters,
           Parameters[MethodOf(doc)] = known
    PROVE  Typed(doc) <=> Fits(Params(doc), known)
  BY DEF Typed, Fits

(***************************************************************************)
(* The error of a method's parameters is the one they deserve.             *)
(***************************************************************************)
Judges(doc, code) ==
    /\ code = "ok" <=> Typed(doc) /\ Occurs(doc) /\ Ordered(doc) /\ Roomy(doc)
    /\ code = "INVALID_WINDOW" <=> Typed(doc) /\ Occurs(doc) /\ ~Ordered(doc)
    /\ code = "INVALID_OCCURRENCE" => MethodOf(doc) = "find" /\ ~Occurs(doc)
    /\ code \in {"ok", "BAD_REQUEST", "INVALID_WINDOW", "INVALID_OCCURRENCE"}

LEMMA NothingTaken ==
    ASSUME NEW doc, Sound(Params(doc)), MethodOf(doc) \in {"ping", "describe"}
    PROVE  Judges(doc, FirstError(<<OnlyKeys(Params(doc), {})>>))
  <1> DEFINE p == Params(doc)
             c == <<OnlyKeys(p, {})>>
             code == FirstError(c)
  <1>1. DOMAIN c = 1 .. 1 /\ c[1] = Need(Keys(p) \subseteq {}) /\ Coded(c)
    <2>1. c[1].code \in Errors
      BY DEF OnlyKeys, Need, Check, Errors
    <2> QED
      BY <2>1 DEF OnlyKeys, Coded
  <1> HIDE DEF c
  <1>2. (c[1].ok <=> Keys(p) \subseteq {}) /\ c[1].code = "BAD_REQUEST"
    <2> DEFINE none == Need(Keys(p) \subseteq {})
    <2>1. (none.ok <=> Keys(p) \subseteq {}) /\ none.code = "BAD_REQUEST"
      BY DEF Need, Check
    <2> QED
      BY <1>1, <2>1, Zenon
  <1>3. \/ code = "ok" /\ c[1].ok
        \/ code = c[1].code /\ ~c[1].ok
    BY <1>1, FirstErrorIs
  <1>4. Typed(doc) <=> Fits(p, {})
    BY ParametersAre, TypedIs
  <1>5. c[1].ok <=> Fits(p, {})
    BY <1>2 DEF Fits
  <1>6. c[1].ok => Occurs(doc) /\ Ordered(doc) /\ Roomy(doc)
    BY <1>2, OccursIs, WindowIs, ResponseIs DEF Window
  <1> QED
    BY <1>2, <1>3, <1>4, <1>5, <1>6 DEF Judges, c

LEMMA CancelJudged ==
    ASSUME NEW doc, Sound(Params(doc)), MethodOf(doc) = "cancel"
    PROVE  Judges(doc, FirstError(CancelChecks(Params(doc))))
  <1> DEFINE p == Params(doc)
             id == Take(p, "request_id")
             c == CancelChecks(p)
             code == FirstError(c)
  <1>1. /\ DOMAIN c = 1 .. 3 /\ c[1] = Need(IsText(id)) /\ c[2] = Need(ValidId(TextOf(id)))
        /\ c[3] = Need(Keys(p) \subseteq {"request_id"})
    <2> HIDE DEF p
    <2> QED
      BY DEF CancelChecks, OnlyKeys
  <1>2. Coded(c)
    <2>1. MethodChecks("cancel", p) = c
      BY DEF MethodChecks
    <2> QED
      BY <2>1, ChecksCoded
  <1> HIDE DEF c
  <1>3. /\ c[1].ok <=> IsText(id)
        /\ c[2].ok <=> ValidId(TextOf(id))
        /\ c[3].ok <=> Keys(p) \subseteq {"request_id"}
        /\ \A i \in 1 .. 3 : c[i].code = "BAD_REQUEST"
    <2>1. /\ Need(IsText(id)).ok <=> IsText(id)
          /\ Need(IsText(id)).code = "BAD_REQUEST"
          /\ Need(ValidId(TextOf(id))).ok <=> ValidId(TextOf(id))
          /\ Need(ValidId(TextOf(id))).code = "BAD_REQUEST"
          /\ Need((Keys(p) \subseteq {"request_id"})).ok <=> (Keys(p) \subseteq {"request_id"})
          /\ Need((Keys(p) \subseteq {"request_id"})).code = "BAD_REQUEST"
      BY DEF Need, Check
    <2>2. /\ c[1].ok <=> IsText(id)
          /\ c[2].ok <=> ValidId(TextOf(id))
          /\ c[3].ok <=> (Keys(p) \subseteq {"request_id"})
          /\ c[1].code = "BAD_REQUEST"
          /\ c[2].code = "BAD_REQUEST"
          /\ c[3].code = "BAD_REQUEST"
      BY <1>1, <2>1, Zenon
    <2> QED
      BY <2>2
  <1>4. \/ code = "ok" /\ c[1].ok /\ c[2].ok /\ c[3].ok
        \/ code = "BAD_REQUEST" /\ ~(c[1].ok /\ c[2].ok /\ c[3].ok)
    BY <1>1, <1>2, <1>3, FirstErrorIs
  <1>5. Typed(doc) <=> Fits(p, {"request_id"})
    BY ParametersAre, TypedIs
  <1>6. c[1].ok /\ c[2].ok /\ c[3].ok <=> Fits(p, {"request_id"})
    <2>1. "request_id" \notin Keys(p) => ~IsText(id)
      BY TakeIs DEF IsText
    <2>2. IsText(id) /\ ValidId(TextOf(id)) <=> HasType(id, "id")
      BY HasTypeIs DEF IsName, ValidId, TextOf
    <2>3. Needed \cap {"request_id"} = {"request_id"}
      BY DEF Needed
    <2> QED
      BY <1>3, <2>1, <2>2, <2>3, TypesAre DEF Fits
  <1>7. c[3].ok => Occurs(doc) /\ Ordered(doc) /\ Roomy(doc)
    BY <1>3, OccursIs, WindowIs, ResponseIs DEF Window
  <1> QED
    BY <1>4, <1>5, <1>6, <1>7 DEF Judges, c

LEMMA MetadataJudged ==
    ASSUME NEW doc, Sound(Params(doc)), MethodOf(doc) = "metadata"
    PROVE  Judges(doc, FirstError(MetadataChecks(Params(doc))))
  <1> DEFINE p == Params(doc)
             known == {"timeout_ms", "max_commands"}
             c == MetadataChecks(p)
             code == FirstError(c)
  <1>1. /\ DOMAIN c = 1 .. 2 /\ c[1] = Need(Decimals(p, known))
        /\ c[2] = Need(Keys(p) \subseteq known)
    <2> HIDE DEF p
    <2> QED
      BY DEF MetadataChecks, OnlyKeys
  <1>2. Coded(c)
    <2>1. MethodChecks("metadata", p) = c
      BY DEF MethodChecks
    <2> QED
      BY <2>1, ChecksCoded
  <1> HIDE DEF c
  <1>3. /\ c[1].ok <=> Decimals(p, known)
        /\ c[2].ok <=> Keys(p) \subseteq known
        /\ \A i \in 1 .. 2 : c[i].code = "BAD_REQUEST"
    <2>1. /\ Need(Decimals(p, known)).ok <=> Decimals(p, known)
          /\ Need(Decimals(p, known)).code = "BAD_REQUEST"
          /\ Need((Keys(p) \subseteq known)).ok <=> (Keys(p) \subseteq known)
          /\ Need((Keys(p) \subseteq known)).code = "BAD_REQUEST"
      BY DEF Need, Check
    <2>2. /\ c[1].ok <=> Decimals(p, known)
          /\ c[2].ok <=> (Keys(p) \subseteq known)
          /\ c[1].code = "BAD_REQUEST"
          /\ c[2].code = "BAD_REQUEST"
      BY <1>1, <2>1, Zenon
    <2> QED
      BY <2>2
  <1>4. \/ code = "ok" /\ c[1].ok /\ c[2].ok
        \/ code = "BAD_REQUEST" /\ ~(c[1].ok /\ c[2].ok)
    BY <1>1, <1>2, <1>3, FirstErrorIs
  <1>5. Typed(doc) <=> Fits(p, known)
    BY ParametersAre, TypedIs
  <1>6. c[1].ok /\ c[2].ok <=> Fits(p, known)
    <2>1. Needed \cap known = {}
      BY DEF Needed
    <2>2. Decimals(p, known) <=> \A k \in known \cap Keys(p) : HasType(Take(p, k), "u64")
      BY DecimalsAre
    <2>3. \A k \in known : TypeOf(k) = "u64"
      BY TypesAre
    <2> HIDE DEF known, p
    <2> QED
      BY <1>3, <2>1, <2>2, <2>3 DEF Fits
  <1>7. c[2].ok => Occurs(doc) /\ Ordered(doc) /\ Roomy(doc)
    BY <1>3, OccursIs, WindowIs, ResponseIs DEF Window
  <1> QED
    BY <1>4, <1>5, <1>6, <1>7 DEF Judges, c

LEMMA ListJudged ==
    ASSUME NEW doc, Sound(Params(doc)), MethodOf(doc) = "list"
    PROVE  Judges(doc, FirstError(ListChecks(Params(doc))))
  <1> DEFINE p == Params(doc)
             decimals == Limits \ {"max_commands"}
             known == decimals \cup {"filter"}
             filter == Take(p, "filter")
             c == ListChecks(p)
             code == FirstError(c)
  <1>1. /\ DOMAIN c = 1 .. 4 /\ c[1] = Need(filter.kind \in {"missing", "text"})
        /\ c[2] = Need(Decimals(p, decimals)) /\ c[3] = Need(Keys(p) \subseteq known)
        /\ c[4] = ValidResponse(p)
    <2> HIDE DEF p
    <2> QED
      BY DEF ListChecks, OnlyKeys
  <1>2. Coded(c)
    <2>1. MethodChecks("list", p) = c
      BY DEF MethodChecks
    <2> QED
      BY <2>1, ChecksCoded
  <1> HIDE DEF c
  <1>3. /\ c[1].ok <=> filter.kind \in {"missing", "text"}
        /\ c[2].ok <=> Decimals(p, decimals)
        /\ c[3].ok <=> Keys(p) \subseteq known
        /\ c[4].ok <=> Roomy(doc)
        /\ \A i \in 1 .. 4 : c[i].code = "BAD_REQUEST"
    <2>1. /\ Need((filter.kind \in {"missing", "text"})).ok <=> (filter.kind \in {"missing", "text"})
          /\ Need((filter.kind \in {"missing", "text"})).code = "BAD_REQUEST"
          /\ Need(Decimals(p, decimals)).ok <=> Decimals(p, decimals)
          /\ Need(Decimals(p, decimals)).code = "BAD_REQUEST"
          /\ Need((Keys(p) \subseteq known)).ok <=> (Keys(p) \subseteq known)
          /\ Need((Keys(p) \subseteq known)).code = "BAD_REQUEST"
      BY DEF Need, Check
    <2>2. /\ c[1].ok <=> (filter.kind \in {"missing", "text"})
          /\ c[2].ok <=> Decimals(p, decimals)
          /\ c[3].ok <=> (Keys(p) \subseteq known)
          /\ c[1].code = "BAD_REQUEST"
          /\ c[2].code = "BAD_REQUEST"
          /\ c[3].code = "BAD_REQUEST"
      BY <1>1, <2>1, Zenon
    <2>3. (c[4].ok <=> Roomy(doc)) /\ c[4].code = "BAD_REQUEST"
      BY <1>1, ResponseIs
    <2> QED
      BY <2>2, <2>3
  <1>4. \/ code = "ok" /\ c[1].ok /\ c[2].ok /\ c[3].ok /\ c[4].ok
        \/ code = "BAD_REQUEST" /\ ~(c[1].ok /\ c[2].ok /\ c[3].ok /\ c[4].ok)
    BY <1>1, <1>2, <1>3, FirstErrorIs
  <1>5. Typed(doc) <=> Fits(p, known)
    <2>1. known = {"filter", "max_rows", "max_response_bytes", "timeout_ms"}
      BY DEF Limits
    <2> QED
      BY <2>1, ParametersAre, TypedIs
  <1>6. c[1].ok /\ c[2].ok /\ c[3].ok <=> Fits(p, known)
    <2>1. Needed \cap known = {}
      BY DEF Needed, Limits
    <2>2. Decimals(p, decimals) <=> \A k \in decimals \cap Keys(p) : HasType(Take(p, k), "u64")
      BY DecimalsAre
    <2>3. \A k \in decimals : TypeOf(k) = "u64"
      BY TypesAre DEF Limits
    <2>4. filter.kind \in {"missing", "text"} <=> ("filter" \in Keys(p) => HasType(filter, "text"))
      <3>1. "filter" \notin Keys(p) => filter.kind = "missing"
        BY TakeIs
      <3>2. "filter" \in Keys(p) => filter.kind # "missing"
        BY DEF Sound, Good, Kinds
      <3> HIDE DEF p, filter
      <3> QED
        BY <3>1, <3>2, HasTypeIs DEF IsText
    <2> HIDE DEF p, decimals
    <2> QED
      BY <1>3, <2>1, <2>2, <2>3, <2>4, TypesAre DEF Fits
  <1>7. c[3].ok => Occurs(doc) /\ Ordered(doc)
    BY <1>3, OccursIs, WindowIs DEF Window, Limits
  <1> QED
    BY <1>3, <1>4, <1>5, <1>6, <1>7 DEF Judges, c

LEMMA SignalsJudged ==
    ASSUME NEW doc, NEW limits, Sound(Params(doc)), MethodOf(doc) \in DOMAIN Parameters,
           MethodOf(doc) # "find", "max_response_bytes" \in limits, limits \subseteq Limits,
           Parameters[MethodOf(doc)] = Window \cup limits \cup {"signals"}
    PROVE  Judges(doc, FirstError(SignalsChecks(Params(doc), limits)))
  <1> DEFINE p == Params(doc)
             decimals == Window \cup limits
             known == decimals \cup {"signals"}
             signals == Take(p, "signals")
             c == SignalsChecks(p, limits)
             code == FirstError(c)
  <1>1. /\ DOMAIN c = 1 .. 6 /\ c[1] = Need(Names(signals)) /\ c[2] = Need(NoneEmpty(signals))
        /\ c[3] = Need(Decimals(p, decimals)) /\ c[4] = Need(Keys(p) \subseteq known)
        /\ c[5] = ValidWindow(p) /\ c[6] = ValidResponse(p)
    <2> HIDE DEF p
    <2> QED
      BY DEF SignalsChecks, OnlyKeys
  <1>2. Coded(c)
    BY SignalsCoded
  <1> HIDE DEF c
  <1>3. /\ c[1].ok <=> Names(signals)
        /\ c[2].ok <=> NoneEmpty(signals)
        /\ c[3].ok <=> Decimals(p, decimals)
        /\ c[4].ok <=> Keys(p) \subseteq known
        /\ c[5].ok <=> Ordered(doc)
        /\ c[6].ok <=> Roomy(doc)
        /\ c[5].code = "INVALID_WINDOW" /\ \A i \in 1 .. 6 : i # 5 => c[i].code = "BAD_REQUEST"
    <2>1. /\ Need(Names(signals)).ok <=> Names(signals)
          /\ Need(Names(signals)).code = "BAD_REQUEST"
          /\ Need(NoneEmpty(signals)).ok <=> NoneEmpty(signals)
          /\ Need(NoneEmpty(signals)).code = "BAD_REQUEST"
          /\ Need(Decimals(p, decimals)).ok <=> Decimals(p, decimals)
          /\ Need(Decimals(p, decimals)).code = "BAD_REQUEST"
          /\ Need((Keys(p) \subseteq known)).ok <=> (Keys(p) \subseteq known)
          /\ Need((Keys(p) \subseteq known)).code = "BAD_REQUEST"
      BY DEF Need, Check
    <2>2. /\ c[1].ok <=> Names(signals)
          /\ c[2].ok <=> NoneEmpty(signals)
          /\ c[3].ok <=> Decimals(p, decimals)
          /\ c[4].ok <=> (Keys(p) \subseteq known)
          /\ c[1].code = "BAD_REQUEST"
          /\ c[2].code = "BAD_REQUEST"
          /\ c[3].code = "BAD_REQUEST"
          /\ c[4].code = "BAD_REQUEST"
      BY <1>1, <2>1, Zenon
    <2>3. /\ c[5].ok <=> Ordered(doc)
          /\ c[6].ok <=> Roomy(doc)
          /\ c[5].code = "INVALID_WINDOW" /\ c[6].code = "BAD_REQUEST"
      BY <1>1, WindowIs, ResponseIs
    <2> QED
      BY <2>2, <2>3
  <1>4. \/ code = "ok" /\ c[1].ok /\ c[2].ok /\ c[3].ok /\ c[4].ok /\ c[5].ok /\ c[6].ok
        \/ code = "BAD_REQUEST" /\ ~(c[1].ok /\ c[2].ok /\ c[3].ok /\ c[4].ok)
        \/ code = "INVALID_WINDOW" /\ c[1].ok /\ c[2].ok /\ c[3].ok /\ c[4].ok /\ ~c[5].ok
        \/ code = "BAD_REQUEST" /\ c[1].ok /\ c[2].ok /\ c[3].ok /\ c[4].ok /\ c[5].ok /\ ~c[6].ok
    <2>1. CASE code = "ok" /\ \A i \in 1 .. 6 : c[i].ok
      BY <2>1
    <2>2. ASSUME NEW i \in 1 .. 6, ~c[i].ok, code = c[i].code, \A j \in 1 .. 6 : j < i => c[j].ok
          PROVE  \/ code = "BAD_REQUEST" /\ ~(c[1].ok /\ c[2].ok /\ c[3].ok /\ c[4].ok)
                 \/ code = "INVALID_WINDOW" /\ c[1].ok /\ c[2].ok /\ c[3].ok /\ c[4].ok /\ ~c[5].ok
                 \/ /\ code = "BAD_REQUEST"
                    /\ c[1].ok /\ c[2].ok /\ c[3].ok /\ c[4].ok /\ c[5].ok /\ ~c[6].ok
      BY <1>3, <2>2
    <2> QED
      BY <1>1, <1>2, <2>1, <2>2, FirstErrorIs
  <1>5. Typed(doc) <=> Fits(p, known)
    BY TypedIs
  <1>6. c[1].ok /\ c[2].ok /\ c[3].ok /\ c[4].ok <=> Fits(p, known)
    <2>1. Needed \cap known = {"signals"}
      BY DEF Needed, Limits, Window
    <2>2. Decimals(p, decimals) <=> \A k \in decimals \cap Keys(p) : HasType(Take(p, k), "u64")
      BY DecimalsAre
    <2>3. \A k \in decimals : TypeOf(k) = "u64"
      BY TypesAre DEF Limits, Window
    <2>4. Names(signals) /\ NoneEmpty(signals) <=> HasType(signals, "names")
      BY NamesAre
    <2>5. "signals" \notin Keys(p) => ~Names(signals)
      BY TakeIs DEF Names
    <2> HIDE DEF p, decimals
    <2> QED
      BY <1>3, <2>1, <2>2, <2>3, <2>4, <2>5, TypesAre DEF Fits
  <1>7. c[4].ok => Occurs(doc)
    BY <1>3, OccursIs DEF Window, Limits
  <1> QED
    BY <1>3, <1>4, <1>5, <1>6, <1>7 DEF Judges, c

LEMMA FindJudged ==
    ASSUME NEW doc, Sound(Params(doc)), MethodOf(doc) = "find"
    PROVE  Judges(doc, FirstError(FindChecks(Params(doc))))
  <1> DEFINE p == Params(doc)
             decimals == Window \cup (Limits \ {"max_rows"})
             known == decimals \cup {"signal", "value", "occurrence"}
             signal == Take(p, "signal")
             count == Value(TextOf(Take(p, "occurrence")))
             counts == "occurrence" \in Keys(p) => count # 0
             c == FindChecks(p)
             code == FirstError(c)
  <1>1. /\ DOMAIN c = 1 .. 9
        /\ c[1] = Need(IsText(signal)) /\ c[2] = Need(TextOf(signal) # Empty)
        /\ c[3] = Need(Decimals(p, {"occurrence"}))
        /\ c[4] = Check(counts, "INVALID_OCCURRENCE")
        /\ c[5] = Need(IsText(Take(p, "value")))
        /\ c[6] = Need(Decimals(p, decimals)) /\ c[7] = Need(Keys(p) \subseteq known)
        /\ c[8] = ValidWindow(p) /\ c[9] = ValidResponse(p)
    <2> HIDE DEF p
    <2> QED
      BY DEF FindChecks, OnlyKeys
  <1>2. Coded(c)
    <2>1. MethodChecks("find", p) = c
      BY DEF MethodChecks
    <2> QED
      BY <2>1, ChecksCoded
  <1> HIDE DEF c
  <1>3. /\ c[1].ok <=> IsText(signal)
        /\ c[2].ok <=> TextOf(signal) # Empty
        /\ c[3].ok <=> Decimals(p, {"occurrence"})
        /\ c[4].ok <=> counts
        /\ c[5].ok <=> IsText(Take(p, "value"))
        /\ c[6].ok <=> Decimals(p, decimals)
        /\ c[7].ok <=> Keys(p) \subseteq known
        /\ c[8].ok <=> Ordered(doc)
        /\ c[9].ok <=> Roomy(doc)
        /\ c[4].code = "INVALID_OCCURRENCE" /\ c[8].code = "INVALID_WINDOW"
        /\ \A i \in 1 .. 9 : i # 4 /\ i # 8 => c[i].code = "BAD_REQUEST"
    <2>1. /\ Need(IsText(signal)).ok <=> IsText(signal)
          /\ Need(IsText(signal)).code = "BAD_REQUEST"
          /\ Need((TextOf(signal) # Empty)).ok <=> (TextOf(signal) # Empty)
          /\ Need((TextOf(signal) # Empty)).code = "BAD_REQUEST"
          /\ Need(Decimals(p, {"occurrence"})).ok <=> Decimals(p, {"occurrence"})
          /\ Need(Decimals(p, {"occurrence"})).code = "BAD_REQUEST"
          /\ Need(IsText(Take(p, "value"))).ok <=> IsText(Take(p, "value"))
          /\ Need(IsText(Take(p, "value"))).code = "BAD_REQUEST"
          /\ Need(Decimals(p, decimals)).ok <=> Decimals(p, decimals)
          /\ Need(Decimals(p, decimals)).code = "BAD_REQUEST"
          /\ Need((Keys(p) \subseteq known)).ok <=> (Keys(p) \subseteq known)
          /\ Need((Keys(p) \subseteq known)).code = "BAD_REQUEST"
      BY DEF Need, Check
    <2>2. /\ c[1].ok <=> IsText(signal)
          /\ c[2].ok <=> (TextOf(signal) # Empty)
          /\ c[3].ok <=> Decimals(p, {"occurrence"})
          /\ c[5].ok <=> IsText(Take(p, "value"))
          /\ c[6].ok <=> Decimals(p, decimals)
          /\ c[7].ok <=> (Keys(p) \subseteq known)
          /\ c[1].code = "BAD_REQUEST"
          /\ c[2].code = "BAD_REQUEST"
          /\ c[3].code = "BAD_REQUEST"
          /\ c[5].code = "BAD_REQUEST"
          /\ c[6].code = "BAD_REQUEST"
          /\ c[7].code = "BAD_REQUEST"
      BY <1>1, <2>1, Zenon
    <2>3. /\ c[8].ok <=> Ordered(doc)
          /\ c[9].ok <=> Roomy(doc)
          /\ c[8].code = "INVALID_WINDOW" /\ c[9].code = "BAD_REQUEST"
      BY <1>1, WindowIs, ResponseIs
    <2>4. (c[4].ok <=> counts) /\ c[4].code = "INVALID_OCCURRENCE"
      <3> DEFINE d == Check(counts, "INVALID_OCCURRENCE")
      <3>1. (d.ok <=> counts) /\ d.code = "INVALID_OCCURRENCE"
        BY DEF Check
      <3> QED
        BY <1>1, <3>1, Zenon
    <2> QED
      BY <2>2, <2>3, <2>4
  <1> DEFINE fits == /\ c[1].ok /\ c[2].ok /\ c[3].ok /\ c[5].ok /\ c[6].ok /\ c[7].ok
  <1>4. \/ code = "ok" /\ fits /\ c[4].ok /\ c[8].ok /\ c[9].ok
        \/ code = "BAD_REQUEST" /\ ~fits
        \/ code = "INVALID_OCCURRENCE" /\ c[3].ok /\ ~c[4].ok
        \/ code = "INVALID_WINDOW" /\ fits /\ c[4].ok /\ ~c[8].ok
        \/ code = "BAD_REQUEST" /\ fits /\ c[4].ok /\ c[8].ok /\ ~c[9].ok
    <2>1. CASE code = "ok" /\ \A i \in 1 .. 9 : c[i].ok
      BY <2>1
    <2>2. ASSUME NEW i \in 1 .. 9, ~c[i].ok, code = c[i].code, \A j \in 1 .. 9 : j < i => c[j].ok
          PROVE  \/ code = "BAD_REQUEST" /\ ~fits
                 \/ code = "INVALID_OCCURRENCE" /\ c[3].ok /\ ~c[4].ok
                 \/ code = "INVALID_WINDOW" /\ fits /\ c[4].ok /\ ~c[8].ok
                 \/ code = "BAD_REQUEST" /\ fits /\ c[4].ok /\ c[8].ok /\ ~c[9].ok
      BY <1>3, <2>2
    <2> QED
      BY <1>1, <1>2, <2>1, <2>2, FirstErrorIs
  <1>5. Typed(doc) <=> Fits(p, known)
    <2>1. known = {"start", "end", "timeout_ms", "max_commands", "max_response_bytes",
                   "signal", "value", "occurrence"}
      BY DEF Limits, Window
    <2> QED
      BY <2>1, ParametersAre, TypedIs
  <1>6. fits <=> Fits(p, known)
    <2>1. Needed \cap known = {"signal", "value"}
      BY DEF Needed, Limits, Window
    <2>2. Decimals(p, decimals) <=> \A k \in decimals \cap Keys(p) : HasType(Take(p, k), "u64")
      BY DecimalsAre
    <2>3. Decimals(p, {"occurrence"}) <=>
              ("occurrence" \in Keys(p) => HasType(Take(p, "occurrence"), "u64"))
      <3>1. Decimals(p, {"occurrence"}) <=>
                \A k \in {"occurrence"} \cap Keys(p) : HasType(Take(p, k), "u64")
        BY DecimalsAre
      <3> HIDE DEF p
      <3> QED
        BY <3>1
    <2>4. (\A k \in decimals : TypeOf(k) = "u64") /\ TypeOf("occurrence") = "u64"
      BY TypesAre DEF Limits, Window
    <2>5. IsText(signal) /\ TextOf(signal) # Empty <=> HasType(signal, "name")
      BY HasTypeIs DEF IsName, TextOf
    <2>6. /\ "signal" \notin Keys(p) => ~IsText(signal)
          /\ "value" \notin Keys(p) => ~IsText(Take(p, "value"))
      BY TakeIs DEF IsText
    <2>7. IsText(Take(p, "value")) <=> HasType(Take(p, "value"), "text")
      BY HasTypeIs
    <2> HIDE DEF p, decimals
    <2> QED
      BY <1>3, <2>1, <2>2, <2>3, <2>4, <2>5, <2>6, <2>7, TypesAre DEF Fits
  <1>7. c[3].ok => (c[4].ok <=> Occurs(doc))
    <2>1. CASE "occurrence" \notin Keys(p)
      BY <1>3, <2>1, OccursIs
    <2>2. CASE "occurrence" \in Keys(p)
      <3>1. Good(Take(p, "occurrence"))
        BY <2>2 DEF Sound
      <3>2. c[3].ok => HasType(Take(p, "occurrence"), "u64")
        BY <1>3, <2>2, DecimalsAre
      <3> QED
        BY <1>3, <2>2, <3>1, <3>2, NumbersAre DEF Occurs
    <2> QED
      BY <2>1, <2>2
  <1> QED
    BY <1>3, <1>4, <1>5, <1>6, <1>7 DEF Judges, c

LEMMA MethodIs ==
    ASSUME NEW doc, Sound(Params(doc))
    PROVE  LET code == FirstError(MethodChecks(MethodOf(doc), Params(doc)))
           IN  /\ MethodOf(doc) \in DOMAIN Parameters => Judges(doc, code)
               /\ MethodOf(doc) \notin DOMAIN Parameters => code = "UNKNOWN_METHOD"
  <1> DEFINE m == MethodOf(doc)
             p == Params(doc)
             c == MethodChecks(m, p)
  <1>1. CASE m \in {"ping", "describe"}
    <2>1. c = <<OnlyKeys(p, {})>>
      BY <1>1 DEF MethodChecks
    <2> QED
      BY <1>1, <2>1, NothingTaken, ParametersAre
  <1>2. CASE m = "list"
    <2>1. c = ListChecks(p)
      BY <1>2 DEF MethodChecks
    <2> QED
      BY <1>2, <2>1, ListJudged, ParametersAre
  <1>3. CASE m = "metadata"
    <2>1. c = MetadataChecks(p)
      BY <1>3 DEF MethodChecks
    <2> QED
      BY <1>3, <2>1, MetadataJudged, ParametersAre
  <1>4. CASE m = "extract"
    <2>1. c = SignalsChecks(p, Limits)
      BY <1>4 DEF MethodChecks
    <2>2. Parameters[m] = Window \cup Limits \cup {"signals"} /\ m # "find"
      BY <1>4, ParametersAre DEF Window, Limits
    <2>3. "max_response_bytes" \in Limits /\ m \in DOMAIN Parameters
      BY <1>4, ParametersAre DEF Limits
    <2> QED
      BY <2>1, <2>2, <2>3, SignalsJudged
  <1>5. CASE m = "find"
    <2>1. c = FindChecks(p)
      BY <1>5 DEF MethodChecks
    <2> QED
      BY <1>5, <2>1, FindJudged, ParametersAre
  <1>6. CASE m = "toggles"
    <2> DEFINE limits == Limits \ {"max_rows"}
    <2>1. c = SignalsChecks(p, limits)
      BY <1>6 DEF MethodChecks
    <2>2. Parameters[m] = Window \cup limits \cup {"signals"} /\ m # "find"
      BY <1>6, ParametersAre DEF Window, Limits
    <2>3. "max_response_bytes" \in limits /\ limits \subseteq Limits /\ m \in DOMAIN Parameters
      BY <1>6, ParametersAre DEF Limits
    <2> QED
      BY <2>1, <2>2, <2>3, SignalsJudged
  <1>7. CASE m = "cancel"
    <2>1. c = CancelChecks(p)
      BY <1>7 DEF MethodChecks
    <2> QED
      BY <1>7, <2>1, CancelJudged, ParametersAre
  <1>8. CASE m \notin DOMAIN Parameters
    <2>1. c = <<Check(FALSE, "UNKNOWN_METHOD")>>
      BY <1>8, ParametersAre DEF MethodChecks
    <2>2. DOMAIN c = 1 .. 1 /\ c[1] = Check(FALSE, "UNKNOWN_METHOD")
      BY <2>1
    <2>3. ~c[1].ok /\ c[1].code = "UNKNOWN_METHOD"
      BY <2>2 DEF Check
    <2>4. Coded(c)
      BY ChecksCoded
    <2> HIDE DEF c
    <2>5. FirstError(c) = "UNKNOWN_METHOD"
      <3>1. \/ \A i \in DOMAIN c : c[i].ok
            \/ \E i \in DOMAIN c : FirstError(c) = c[i].code
        BY <2>4, FirstErrorIs, Zenon
      <3>2. 1 \in DOMAIN c /\ \A i \in DOMAIN c : i = 1
        BY <2>2
      <3> QED
        BY <2>3, <3>1, <3>2
    <2> QED
      BY <1>8, <2>5 DEF c
  <1> QED
    BY <1>1, <1>2, <1>3, <1>4, <1>5, <1>6, <1>7, <1>8, ParametersAre

(***************************************************************************)
(* The requests of a connection: the invariant.                            *)
(***************************************************************************)
LEMMA DecodeDeserves ==
    ASSUME NEW doc, IsDocument(doc)
    PROVE  Deserved(doc, DecodeRequest(doc).code)
  <1> DEFINE envelope == FirstError(EnvelopeChecks(doc))
             method == FirstError(MethodChecks(MethodOf(doc), Params(doc)))
             code == DecodeRequest(doc).code
  <1>1. code = IF envelope # "ok" THEN envelope ELSE method
    BY DEF DecodeRequest
  <1>2. /\ envelope = "ok" <=> Envelope(doc)
        /\ envelope = "UNSUPPORTED_VERSION" <=>
               /\ Strict(doc) /\ doc.kind = "object"
               /\ Version(doc).kind = "number" /\ Version(doc) # Number(1)
        /\ envelope \in {"ok", "BAD_REQUEST", "UNSUPPORTED_VERSION"}
    BY EnvelopeIs
  <1>3. /\ MethodOf(doc) \in DOMAIN Parameters => Judges(doc, method)
        /\ MethodOf(doc) \notin DOMAIN Parameters => method = "UNKNOWN_METHOD"
    BY DocumentIs, MethodIs
  <1> HIDE DEF envelope, method, code
  <1>4. CASE envelope # "ok"
    <2>1. code = envelope
      BY <1>1, <1>4
    <2> QED
      BY <1>2, <1>4, <2>1 DEF Deserved, Replies, code
  <1>5. CASE envelope = "ok"
    <2>1. code = method /\ Envelope(doc) /\ Version(doc) = Number(1)
      BY <1>1, <1>2, <1>5 DEF Envelope
    <2>2. CASE MethodOf(doc) \in DOMAIN Parameters
      <3>1. Judges(doc, code)
        BY <1>3, <2>1, <2>2
      <3> QED
        BY <2>1, <2>2, <3>1 DEF Deserved, Replies, Judges, code
    <2>3. CASE MethodOf(doc) \notin DOMAIN Parameters
      <3>1. code = "UNKNOWN_METHOD" /\ ~Typed(doc)
        BY <1>3, <2>1, <2>3 DEF Typed
      <3> QED
        BY <2>1, <2>3, <3>1 DEF Deserved, Replies, code
    <2> QED
      BY <2>2, <2>3
  <1> QED
    BY <1>4, <1>5

\* What is decided of a request after it was decoded says nothing against its line.
LEMMA AdmissionDeserves ==
    ASSUME NEW doc, Deserved(doc, "ok"),
           NEW code \in Replies \cup {"ok", "DUPLICATE_REQUEST_ID", "LIMIT_EXCEEDED"}
    PROVE  Deserved(doc, code)
  BY DEF Deserved, Replies

\* What a request may ask for, once it is admitted.
Modest(r) ==
    /\ \A k \in DOMAIN r.given : r.given[k] \in Nat
    /\ "max_response_bytes" \in DOMAIN r.given => r.given["max_response_bytes"] >= Reserve
Asks(r) ==
    Modest(r) /\ ("timeout_ms" \in DOMAIN r.given => r.given["timeout_ms"] <= MaxTimeout)

LEMMA DecodedIsModest ==
    ASSUME NEW doc, IsDocument(doc), DecodeRequest(doc).code = "ok"
    PROVE  Modest(DecodeRequest(doc))
  <1> DEFINE p == Params(doc)
             key == "max_response_bytes"
             keys == Limits \cup Window \cup {"occurrence"}
             r == DecodeRequest(doc)
             value(k) == Value(TextOf(Take(p, k)))
  <1>1. r.given = Given(p, keys)
    <2> DEFINE envelope == FirstError(EnvelopeChecks(doc))
               method == FirstError(MethodChecks(MethodOf(doc), p))
    <2>1. envelope = "ok" /\ method = "ok"
      BY DEF DecodeRequest
    <2> HIDE DEF p, keys
    <2> QED
      BY <2>1 DEF DecodeRequest, p, keys
  <1>2. DOMAIN Given(p, keys) = keys \cap Keys(p) /\ \A k \in keys \cap Keys(p) : Given(p, keys)[k] = value(k)
    BY DEF Given
  <1>3. \A k \in Keys(p) : value(k) \in Nat
    BY DocumentIs, NumbersAre DEF Sound
  <1>4. key \in Keys(p) => value(key) >= Reserve
    <2>1. Roomy(doc)
      BY DecodeDeserves DEF Deserved
    <2>2. Roomy(doc) <=> ValidResponse(p).ok
      BY ResponseIs
    <2>3. ValidResponse(p).ok <=> (key \in Keys(p) => value(key) >= Reserve)
      BY DEF ValidResponse, Need, Check
    <2> HIDE DEF p, key, value
    <2> QED
      BY <2>1, <2>2, <2>3
  <1> HIDE DEF p, r, keys, value
  <1> QED
    BY <1>1, <1>2, <1>3, <1>4 DEF Modest, r

Fixed(s) ==
    LET asked == s.request.given IN
    /\ "timeout_ms" \in DOMAIN asked => asked["timeout_ms"] <= MaxTimeout
    /\ s.answer.code = "ok" <=> \A k \in DOMAIN Config \cap DOMAIN asked : asked[k] <= Config[k]
    /\ s.answer.code = "ok" =>
           /\ \A k \in DOMAIN Config : s.answer.limits[k] <= Config[k]
           /\ \A k \in DOMAIN Config \cap DOMAIN asked : s.answer.limits[k] = asked[k]
           /\ s.answer.limits["max_response_bytes"] >= Reserve

LEMMA LimitsAreFixed ==
    ASSUME NEW r, Asks(r)
    PROVE  Fixed([request |-> r, answer |-> QueryLimits(r, Config)])
  <1> DEFINE key == "max_response_bytes"
             given == r.given
             asked == [k \in DOMAIN Config |-> Asked(r, k, Config[k])]
             answer == QueryLimits(r, Config)
             s == [request |-> r, answer |-> answer]
             over == \E k \in DOMAIN Config : asked[k] > Config[k]
  <1>1. key \in DOMAIN Config /\ Config[key] >= Reserve /\ \A k \in DOMAIN Config : Config[k] \in Nat
    BY LinesAssumption, DecodeAssumption
  <1>2. \A k \in DOMAIN Config : asked[k] = IF k \in DOMAIN given THEN given[k] ELSE Config[k]
    BY DEF Asked
  <1>3. \A k \in DOMAIN given : given[k] \in Nat
    BY DEF Asks, Modest
  <1>4. key \in DOMAIN given => given[key] >= Reserve
    BY DEF Asks, Modest
  <1>5. "timeout_ms" \in DOMAIN given => given["timeout_ms"] <= MaxTimeout
    BY DEF Asks
  <1>6. answer = IF over \/ asked[key] < Reserve THEN [code |-> "BAD_REQUEST"]
                 ELSE [code |-> "ok", limits |-> asked]
    BY Zenon DEF QueryLimits
  <1> HIDE DEF asked, given, answer, key
  <1>7. asked[key] \in Nat /\ asked[key] >= Reserve
    BY <1>1, <1>2, <1>3, <1>4
  <1>8. over <=> ~(\A k \in DOMAIN Config \cap DOMAIN given : given[k] <= Config[k])
    <2>1. ASSUME NEW k \in DOMAIN Config, asked[k] > Config[k]
          PROVE  k \in DOMAIN given /\ ~(given[k] <= Config[k])
      BY <1>1, <1>2, <1>3, <2>1
    <2>2. ASSUME NEW k \in DOMAIN Config \cap DOMAIN given, ~(given[k] <= Config[k])
          PROVE  asked[k] > Config[k]
      BY <1>1, <1>2, <1>3, <2>2
    <2> QED
      BY <2>1, <2>2
  <1>9. CASE over
    <2>1. answer.code = "BAD_REQUEST"
      BY <1>6, <1>9
    <2>2. answer.code # "ok"
      BY <2>1
    <2> QED
      BY <1>5, <1>8, <1>9, <2>2 DEF Fixed, given, answer
  <1>10. CASE ~over
    <2>1. ~(asked[key] < Reserve)
      BY <1>7, DecodeAssumption
    <2>2. answer = [code |-> "ok", limits |-> asked]
      BY <1>6, <1>10, <2>1, Zenon
    <2>3. answer.code = "ok" /\ answer.limits = asked
      BY <2>2
    <2>4. \A k \in DOMAIN Config : asked[k] <= Config[k]
      BY <1>1, <1>2, <1>3, <1>10
    <2>5. \A k \in DOMAIN Config \cap DOMAIN given : asked[k] = given[k]
      BY <1>2
    <2> QED
      BY <1>5, <1>7, <1>8, <1>10, <2>3, <2>4, <2>5 DEF Fixed, given, answer, key
  <1> QED
    BY <1>9, <1>10

\* The document a line is, of what a client says.
DocOf(in, line) ==
    IF Len(line) = 1 /\ line[1] \in DOMAIN in.says THEN in.says[line[1]] ELSE Garbage

LEMMA DocumentOf ==
    ASSUME NEW in \in Inputs, NEW line
    PROVE  IsDocument(DocOf(in, line))
  <1>1. IsDocument(Garbage)
    <2> DEFINE L == Level(Garbage)
    <2>1. Members(Garbage) = {} /\ Garbage.kind = "garbage"
      BY DEF Members, Garbage
    <2>2. /\ L[0] = {Garbage} /\ L[1] = UNION {Members(v) : v \in L[0]}
          /\ L[2] = UNION {Members(v) : v \in L[1]} /\ L[3] = UNION {Members(v) : v \in L[2]}
      <3>1. 1 \in 1 .. Nesting - 1 /\ 2 \in 1 .. Nesting - 1 /\ 3 \in 1 .. Nesting - 1
        BY DecodeAssumption
      <3>2. 1 - 1 = 0 /\ 2 - 1 = 1 /\ 3 - 1 = 2
        OBVIOUS
      <3>3. Levels(L, Garbage, Nesting - 1)
        BY LevelIs
      <3> HIDE DEF L
      <3> QED
        BY <3>1, <3>2, <3>3 DEF Levels
    <2> HIDE DEF L
    <2>3. L[0] = {Garbage} /\ L[1] = {} /\ L[2] = {} /\ L[3] = {}
      BY <2>1, <2>2
    <2>4. \A n \in 0 .. 3 : n = 0 \/ n = 1 \/ n = 2 \/ n = 3
      OBVIOUS
    <2>5. \A n \in 0 .. 3 : \A v \in L[n] : v.kind = "garbage"
      BY <2>1, <2>3, <2>4
    <2> QED
      BY <2>5 DEF IsDocument, Kinds, L
  <1>2. \A c \in DOMAIN in.says : IsDocument(in.says[c])
    BY LinesAssumption
  <1> QED
    BY <1>1, <1>2 DEF DocOf

ConformInv ==
    /\ \A i \in DOMAIN handled : Deserved(DocOf(input, handled[i].line), handled[i].code)
    /\ IsFiniteSet(active) /\ Cardinality(active) <= MaxActive
    /\ \A r, s \in active : r.id = s.id => r = s
    /\ \A r \in active : Asks(r)
    /\ \A s \in served : Fixed(s)

LEMMA ConformInvImplies == ConformInv => RequestsConform
  <1>1. \A line : Document(line) = DocOf(input, line)
    BY DEF Document, DocOf
  <1> QED
    BY <1>1 DEF ConformInv, RequestsConform, Fixed

LEMMA InitConform == Init => ConformInv
  <1> SUFFICES ASSUME Init PROVE ConformInv
    OBVIOUS
  <1>1. IsFiniteSet({}) /\ Cardinality({}) = 0
    BY FS_EmptySet
  <1> QED
    BY <1>1, LinesAssumption DEF Init, ConformInv

\* A line handled is decoded; a request is admitted only if nothing speaks against it.
LEMMA HandleLineOutcome ==
    ASSUME HandleLine
    PROVE  LET line == Head(frames)
               r == DecodeRequest(DocOf(input, line))
           IN  /\ input' = input /\ served' = served
               /\ \E code :
                      /\ handled' = Append(handled, [line |-> line, code |-> code])
                      /\ \/ code = r.code
                         \/ /\ r.code = "ok"
                            /\ code \in Replies \cup {"DUPLICATE_REQUEST_ID", "LIMIT_EXCEEDED"}
               /\ \/ active' = active
                  \/ /\ active' = active \cup {r} /\ r.code = "ok"
                     /\ \A s \in active : s.id # r.id
                     /\ TimeoutAllowed(r, MaxTimeout) /\ ~(Cardinality(active) >= MaxActive)
  <1> DEFINE line == Head(frames)
             r == DecodeRequest(DocOf(input, line))
             told(code) == handled' = Append(handled, [line |-> line, code |-> code])
             same == input' = input /\ served' = served
  <1>1. Document(line) = DocOf(input, line)
    BY DEF Document, DocOf
  <1>2. ASSUME NEW code, Refuse(code) PROVE told(code) /\ same /\ active' = active
    BY <1>2 DEF Refuse, Answered
  <1>3. ASSUME NEW code \in Replies, Control(code) PROVE told(code) /\ same /\ active' = active
    BY <1>3 DEF Control, Answered
  <1>4. \/ r.code # "ok" /\ Refuse(r.code)
        \/ r.code = "ok" /\ Refuse("DUPLICATE_REQUEST_ID")
        \/ r.code = "ok" /\ Refuse("LIMIT_EXCEEDED")
        \/ r.code = "ok" /\ \E code \in Replies : Control(code)
        \/ /\ r.code = "ok" /\ Admit(r)
           /\ ~(\E s \in active : s.id = r.id)
           /\ TimeoutAllowed(r, MaxTimeout) /\ ~(Cardinality(active) >= MaxActive)
    <2>1. "cancel" \in Replies /\ "late" \in Replies /\ "QUEUE_FULL" \in Replies
      BY DEF Replies
    <2> HIDE DEF r
    <2> QED
      BY <1>1, <2>1, Zenon DEF HandleLine, r
  <1>5. Admit(r) => told("ok") /\ same /\ active' = active \cup {r}
    <2> HIDE DEF r
    <2> QED
      BY DEF Admit, Answered
  <1> HIDE DEF told, r, same
  <1> QED
    BY <1>2, <1>3, <1>4, <1>5, Zenon DEF told, r, same

LEMMA HandleLineConforms ==
    ASSUME LinesInv, ConformInv, HandleLine
    PROVE  ConformInv'
  <1> DEFINE n == Len(handled)
  <1>1. PICK line, r : line = Head(frames) /\ r = DecodeRequest(DocOf(input, line))
    OBVIOUS
  <1>2. /\ input' = input /\ served' = served
        /\ \E code :
               /\ handled' = Append(handled, [line |-> line, code |-> code])
               /\ \/ code = r.code
                  \/ /\ r.code = "ok"
                     /\ code \in Replies \cup {"DUPLICATE_REQUEST_ID", "LIMIT_EXCEEDED"}
        /\ \/ active' = active
           \/ /\ active' = active \cup {r} /\ r.code = "ok"
              /\ \A s \in active : s.id # r.id
              /\ TimeoutAllowed(r, MaxTimeout) /\ ~(Cardinality(active) >= MaxActive)
    BY <1>1, HandleLineOutcome
  <1>3. PICK code :
            /\ handled' = Append(handled, [line |-> line, code |-> code])
            /\ \/ code = r.code
               \/ /\ r.code = "ok"
                  /\ code \in Replies \cup {"DUPLICATE_REQUEST_ID", "LIMIT_EXCEEDED"}
    BY <1>2
  <1>4. input \in Inputs /\ handled \in Seq(Answers)
    BY DEF LinesInv, LinesType
  <1>5. IsDocument(DocOf(input, line))
    BY <1>4, DocumentOf
  <1>6. Deserved(DocOf(input, line), code)
    <2>1. Deserved(DocOf(input, line), r.code)
      BY <1>1, <1>5, DecodeDeserves
    <2> QED
      BY <1>3, <2>1, AdmissionDeserves
  <1>7. \A i \in DOMAIN handled' : Deserved(DocOf(input', handled'[i].line), handled'[i].code)
    <2> DEFINE a == [line |-> line, code |-> code]
               A == Answers
    <2>1. a.line = line /\ a.code = code
      OBVIOUS
    <2> HIDE DEF a, A
    <2>2. handled \in Seq(A)
      BY <1>4 DEF A
    <2>3. handled' = Append(handled, a)
      BY <1>3 DEF a
    <2>4. /\ DOMAIN handled = 1 .. n /\ DOMAIN handled' = 1 .. n + 1 /\ n \in Nat
          /\ handled'[n + 1] = a /\ \A i \in 1 .. n : handled'[i] = handled[i]
      BY <2>2, <2>3
    <2>5. \A i \in DOMAIN handled' : i = n + 1 \/ i \in DOMAIN handled
      BY <2>4
    <2>6. \A i \in DOMAIN handled : Deserved(DocOf(input, handled[i].line), handled[i].code)
      BY DEF ConformInv
    <2> HIDE DEF n
    <2> QED
      BY <1>2, <1>6, <2>1, <2>4, <2>5, <2>6
  <1>8. /\ IsFiniteSet(active') /\ Cardinality(active') <= MaxActive
        /\ \A s, t \in active' : s.id = t.id => s = t
        /\ \A s \in active' : Asks(s)
    <2>1. /\ IsFiniteSet(active) /\ Cardinality(active) <= MaxActive
          /\ \A s, t \in active : s.id = t.id => s = t
          /\ \A s \in active : Asks(s)
      BY DEF ConformInv
    <2>2. CASE active' = active
      BY <2>1, <2>2
    <2>3. CASE /\ active' = active \cup {r} /\ r.code = "ok"
               /\ \A s \in active : s.id # r.id
               /\ TimeoutAllowed(r, MaxTimeout) /\ ~(Cardinality(active) >= MaxActive)
      <3>1. IsFiniteSet(active') /\ Cardinality(active) \in Nat
        BY <2>1, <2>3, FS_AddElement, FS_CardinalityType
      <3>2. Cardinality(active') <= MaxActive
        <4>1. \/ Cardinality(active') = Cardinality(active)
              \/ Cardinality(active') = Cardinality(active) + 1
          BY <2>1, <2>3, FS_AddElement
        <4>2. MaxActive \in Nat
          BY LinesAssumption
        <4> QED
          BY <2>3, <3>1, <4>1, <4>2
      <3>3. \A s, t \in active' : s.id = t.id => s = t
        BY <2>1, <2>3
      <3>4. Asks(r)
        <4>1. Modest(r)
          BY <1>1, <1>5, <2>3, DecodedIsModest
        <4>2. "timeout_ms" \in DOMAIN r.given => r.given["timeout_ms"] <= MaxTimeout
          BY <2>3 DEF TimeoutAllowed, Asked
        <4> QED
          BY <4>1, <4>2 DEF Asks
      <3>5. \A s \in active' : Asks(s)
        BY <2>1, <2>3, <3>4
      <3> QED
        BY <3>1, <3>2, <3>3, <3>5
    <2> QED
      BY <1>2, <2>2, <2>3
  <1>9. \A s \in served' : Fixed(s)
    BY <1>2 DEF ConformInv
  <1> QED
    BY <1>7, <1>8, <1>9 DEF ConformInv

LEMMA LeavesConforms ==
    ASSUME ConformInv, NEW request \in active, Drop(request) \/ Serve(request)
    PROVE  ConformInv'
  <1>1. /\ IsFiniteSet(active) /\ Cardinality(active) <= MaxActive
        /\ \A r, s \in active : r.id = s.id => r = s
        /\ \A r \in active : Asks(r)
        /\ \A s \in served : Fixed(s)
    BY DEF ConformInv
  <1>2. active' = active \ {request} /\ handled' = handled /\ input' = input
    BY DEF Drop, Serve
  <1>3. IsFiniteSet(active') /\ Cardinality(active') <= MaxActive
    <2>1. active' \subseteq active
      BY <1>2
    <2>2. IsFiniteSet(active') /\ Cardinality(active') <= Cardinality(active)
      BY <1>1, <2>1, FS_Subset
    <2>3. Cardinality(active') \in Nat /\ Cardinality(active) \in Nat /\ MaxActive \in Nat
      BY <1>1, <2>2, FS_CardinalityType, LinesAssumption
    <2> QED
      BY <1>1, <2>2, <2>3
  <1>4. \A s \in served' : Fixed(s)
    <2> DEFINE s == [request |-> request, answer |-> QueryLimits(request, Config)]
    <2>1. Fixed(s)
      BY <1>1, LimitsAreFixed
    <2> HIDE DEF s
    <2>2. served' = served \/ served' = served \cup {s}
      BY Zenon DEF Drop, Serve, s
    <2> QED
      BY <1>1, <2>1, <2>2
  <1> QED
    BY <1>1, <1>2, <1>3, <1>4 DEF ConformInv

LEMMA NextConforms == LinesInv /\ ConformInv /\ [Next]_vars => ConformInv'
  <1> SUFFICES ASSUME LinesInv, ConformInv, [Next]_vars PROVE ConformInv'
    OBVIOUS
  <1>1. ASSUME UNCHANGED <<input, handled, active, served>> PROVE ConformInv'
    BY <1>1 DEF ConformInv
  <1>2. ASSUME NEW n \in 1 .. BufferBytes, Read(n) PROVE ConformInv'
    BY <1>1, <1>2 DEF Read
  <1>3. CASE ReadEnds
    BY <1>1, <1>3 DEF ReadEnds
  <1>4. CASE HandleLine
    BY <1>4, HandleLineConforms
  <1>5. ASSUME NEW request \in active, Drop(request) \/ Serve(request) PROVE ConformInv'
    BY <1>5, LeavesConforms
  <1>6. CASE UNCHANGED vars
    BY <1>1, <1>6 DEF vars
  <1> QED
    BY <1>2, <1>3, <1>4, <1>5, <1>6 DEF Next

\* A line is admitted exactly if the protocol allows it and refused for what is wrong
\* with it, and no request at work exceeds what is configured.
THEOREM RequestsAreConform == Spec => []RequestsConform
  <1>1. Spec => []LinesInv
    BY InitLines, NextLines, PTL DEF Spec
  <1> QED
    BY <1>1, InitConform, NextConforms, ConformInvImplies, PTL DEF Spec
=============================================================================
