------------------------- MODULE StreamOutputProofs -------------------------
(***************************************************************************)
(* For every file, request and configuration: the rows of a streamed       *)
(* response arrive once each and in order however its chunks are split,    *)
(* the response stays within its limits, and its end frame always fits.    *)
(* SInv of StreamOutput is the inductive invariant; its conjuncts are      *)
(* shown in three groups, rows, frames and bytes.                          *)
(***************************************************************************)
EXTENDS StreamOutput, FiniteSetTheorems, SequenceTheorems, TLAPS

(* Digits and sizes                                                        *)

\* A number has at least one digit and at most MaxDigits.
LEMMA DigitsType == \A n : Digits(n) \in 1 .. MaxDigits
  <1> SUFFICES ASSUME NEW n PROVE Digits(n) \in 1 .. MaxDigits
    OBVIOUS
  <1> DEFINE D == {p \in Powers : p <= n}
  <1>1. Cardinality(Powers) \in Nat
    BY PowersAssumption, FS_CardinalityType
  <1>2. IsFiniteSet(D) /\ Cardinality(D) <= Cardinality(Powers)
    BY PowersAssumption, FS_Subset
  <1>3. Cardinality(D) \in Nat
    BY <1>2, FS_CardinalityType
  <1>4. Digits(n) = 1 + Cardinality(D)
    BY DEF Digits
  <1> HIDE DEF D
  <1> QED
    BY <1>1, <1>2, <1>3, <1>4 DEF MaxDigits

\* MaxDigits is a number, so Digits(n) is a positive one.
LEMMA DigitsNat == MaxDigits \in Nat /\ MaxDigits < 32 /\ \A n : Digits(n) \in Nat \ {0}
  <1>1. Cardinality(Powers) \in Nat
    BY PowersAssumption, FS_CardinalityType
  <1>2. MaxDigits \in Nat
    BY <1>1 DEF MaxDigits
  <1> QED
    BY <1>2, DigitsType, PowersAssumption

\* A larger number has no fewer digits.
LEMMA DigitsMonotone == \A m, n \in Nat : m <= n => Digits(m) <= Digits(n)
  <1> SUFFICES ASSUME NEW m \in Nat, NEW n \in Nat, m <= n PROVE Digits(m) <= Digits(n)
    OBVIOUS
  <1> DEFINE D(k) == {p \in Powers : p <= k}
  <1>1. D(m) \subseteq D(n)
    <2>1. \A p \in Powers : p <= m => p <= n
      BY PowersAssumption
    <2> QED
      BY <2>1
  <1>2. IsFiniteSet(D(n))
    BY PowersAssumption, FS_Subset
  <1>3. Cardinality(D(m)) <= Cardinality(D(n)) /\ IsFiniteSet(D(m))
    BY <1>1, <1>2, FS_Subset
  <1>4. Cardinality(D(m)) \in Nat /\ Cardinality(D(n)) \in Nat
    BY <1>2, <1>3, FS_CardinalityType
  <1>5. Digits(m) = 1 + Cardinality(D(m)) /\ Digits(n) = 1 + Cardinality(D(n))
    BY DEF Digits
  <1> HIDE DEF D
  <1> QED
    BY <1>3, <1>4, <1>5

\* What the first half and the second half do to the stack.
LEMMA SplitStack ==
    ASSUME NEW S, NEW s \in Seq(S), s # <<>>, NEW a \in S, NEW b \in S,
           NEW q, q = <<a, b>> \o Tail(s)
    PROVE  /\ q \in Seq(S) /\ Len(q) = Len(s) + 1
           /\ q[1] = a /\ q[2] = b
           /\ \A i \in 2 .. Len(s) : q[i + 1] = s[i]
  <1>1. Tail(s) \in Seq(S) /\ Len(Tail(s)) = Len(s) - 1
        /\ \A i \in 1 .. Len(s) - 1 : Tail(s)[i] = s[i + 1]
    BY HeadTailProperties
  <1>2. <<a, b>> \in Seq(S) /\ Len(<<a, b>>) = 2
    OBVIOUS
  <1> QED
    BY <1>1, <1>2, ConcatProperties

\* The prefix sums are numbers.
LEMMA BytesNat == ASSUME TypeOK PROVE \A i \in 0 .. Len(upto) : BytesUpTo(i) \in Nat
  BY DEF TypeOK, BytesUpTo

\* The end frame fits the reserve, so every guess of its size does.
LEMMA EndFitsReserve ==
    ASSUME TypeOK
    PROVE  \A total : EndFrameBytes(total) \in Nat /\ EndFrameBytes(total) <= Reserve
  <1> SUFFICES ASSUME NEW total
               PROVE  EndFrameBytes(total) \in Nat /\ EndFrameBytes(total) <= Reserve
    OBVIOUS
  <1>1. /\ Digits(next_seq) \in 1 .. MaxDigits /\ Digits(rows) \in 1 .. MaxDigits
        /\ Digits(total) \in 1 .. MaxDigits /\ MaxDigits \in Nat
    BY DigitsType, DigitsNat
  <1> QED
    BY <1>1, BytesAssumption, ReserveAssumption DEF EndFrameBytes

\* The guesses of end_success, split into the end frame without its total and
\* the digits of the total.
LEMMA Guess ==
    ASSUME TypeOK
    PROVE  /\ GuessBase \in Nat
           /\ \A total : TotalWith(total) = GuessBase + Digits(total)
           /\ \A total : TotalWith(total) = encoded_bytes + EndFrameBytes(total)
  <1>1. encoded_bytes \in Nat /\ EndBytes \in Nat
    BY BytesAssumption DEF TypeOK
  <1> QED
    BY <1>1, DigitsNat DEF GuessBase, TotalWith, EndFrameBytes

\* What the top of the stack stands for.
LEMMA TopSlice ==
    ASSUME TypeOK, SumsGrow, StackCovers, todo # <<>>
    PROVE  /\ Top = todo[1] /\ Len(todo) \in Nat \ {0}
           /\ Top \in [lo : 0 .. taken, hi : 0 .. taken]
           /\ Top.lo = rows /\ Top.lo < Top.hi /\ Top.hi <= Len(upto)
           /\ RowBytes(Top) \in Nat
           /\ ChunkFrameBytes(Top) \in Nat
  <1>1. Top = todo[1] /\ Len(todo) \in Nat \ {0}
    BY DEF TypeOK, Top
  <1>2. Top \in [lo : 0 .. taken, hi : 0 .. taken] /\ taken \in 0 .. Len(upto)
        /\ Len(upto) \in Nat
    <2> DEFINE S == [lo : 0 .. taken, hi : 0 .. taken]
    <2>1. todo \in Seq(S) /\ taken \in 0 .. Len(upto) /\ Len(upto) \in Nat
      BY DEF TypeOK
    <2> HIDE DEF S
    <2>2. todo[1] \in S
      BY <1>1, <2>1
    <2> QED
      BY <1>1, <2>1, <2>2 DEF S
  <1>3. Top.lo = rows /\ Top.lo < Top.hi
    BY <1>1 DEF StackCovers
  <1>4. Top.lo \in 0 .. Len(upto) /\ Top.hi \in 0 .. Len(upto)
    BY <1>2
  <1>5. RowBytes(Top) \in Nat
    BY <1>3, <1>4, BytesNat DEF RowBytes, SumsGrow
  <1>6. ChunkFrameBytes(Top) \in Nat
    BY <1>5, DigitsNat, BytesAssumption DEF ChunkFrameBytes
  <1> QED
    BY <1>1, <1>2, <1>3, <1>4, <1>5, <1>6

\* An error changes nothing but where the dispatcher stands.
LEMMA Failures ==
    ASSUME NotBegun \/ ScanFails \/ ChunkFails \/ FinishFails, TypeOK
    PROVE  /\ pc' = "failed" /\ pc \notin {"failed", "done"}
           /\ cause' \in Codes /\ code' \in Codes
           /\ UNCHANGED <<method, response_limit, upto, taken, todo, stream, stopped, frames,
                          wire>>
  <1>1. CASE NotBegun
    BY <1>1 DEF NotBegun, Fail, Codes
  <1>2. CASE ScanFails
    BY <1>2 DEF ScanFails, Fail, Codes
  <1>3. CASE ChunkFails
    BY <1>3 DEF ChunkFails, Sending, Fail, Codes
  <1>4. CASE FinishFails
    <2>1. \A c \in FinishErrors : c \in Codes
      BY DEF FinishErrors, Codes
    <2> QED
      BY <1>4, <2>1 DEF FinishFails, Fail, Codes
  <1> QED
    BY <1>1, <1>2, <1>3, <1>4

---------------------------------------------------------------------------
(* Types                                                                   *)

\* The set of frames of TypeOK.
FrameType == [kind : {"result", "error", "begin", "chunk", "end", "end_error"},
              seq : 0 .. MaxSeq, lo : 0 .. MaxVisited, hi : 0 .. MaxVisited, total : Nat]

\* Every action keeps the types.
LEMMA TypeStep == ASSUME SInv, [Next]_vars PROVE TypeOK'
  <1> USE DEF SInv
  <1>1. ASSUME NEW bytes \in UnarySizes, Unary(bytes) PROVE TypeOK'
    <2>1. bytes \in Nat
      BY BytesAssumption
    <2>2. frames' \in Seq(FrameType)
      BY <1>1, CountsAssumption DEF Unary, Send, Frame, TypeOK, FrameType
    <2> QED
      BY <1>1, <2>1, <2>2 DEF Unary, Send, stream, TypeOK, FrameType, Locations
  <1>2. CASE Begin
    <2>2. frames' \in Seq(FrameType)
      BY <1>2, CountsAssumption DEF Begin, Send, Frame, TypeOK, FrameType
    <2> QED
      BY <1>2, <2>2, BytesAssumption DEF Begin, Send, TypeOK, FrameType, Locations
  <1>3. CASE NotBegun \/ ScanFails \/ ChunkFails \/ FinishFails
    BY <1>3, Failures DEF TypeOK, stream, Locations
  <1>4. ASSUME NEW bytes \in RowSizes, Visit(bytes) PROVE TypeOK'
    <2>1. upto' \in Seq(Nat) /\ Len(upto') = Len(upto) + 1
      <3>1. upto \in Seq(Nat) /\ Len(upto) \in Nat
        BY DEF TypeOK
      <3>2. BytesUpTo(Len(upto)) + bytes \in Nat
        BY <3>1, BytesNat, BytesAssumption
      <3> QED
        BY <1>4, <3>1, <3>2, AppendProperties DEF Visit
    <2>2. Len(upto) \in Nat /\ Len(upto') <= MaxVisited
      BY <1>4, <2>1, CountsAssumption DEF Visit, TypeOK
    <2>3. taken' \in 0 .. Len(upto') /\ todo' \in Seq([lo : 0 .. taken', hi : 0 .. taken'])
      <3>1. taken \in 0 .. Len(upto) /\ todo \in Seq([lo : 0 .. taken, hi : 0 .. taken])
        BY DEF TypeOK
      <3>2. CASE taken' = Len(upto) + 1 /\ todo' = <<Slice(taken, Len(upto) + 1)>>
        <4>1. Slice(taken, Len(upto) + 1) \in [lo : 0 .. taken', hi : 0 .. taken']
          BY <2>2, <3>1, <3>2 DEF Slice
        <4> QED
          BY <2>1, <2>2, <3>2, <4>1
      <3>3. CASE taken' = taken /\ todo' = todo
        BY <2>1, <2>2, <3>1, <3>3
      <3> QED
        BY <1>4, <3>2, <3>3 DEF Visit
    <2> QED
      BY <1>4, <2>1, <2>2, <2>3 DEF Visit, TypeOK, stream, Locations
  <1>5. CASE ScanEnds
    <2>1. taken' \in 0 .. Len(upto') /\ todo' \in Seq([lo : 0 .. taken', hi : 0 .. taken'])
      <3>1. taken \in 0 .. Len(upto) /\ todo \in Seq([lo : 0 .. taken, hi : 0 .. taken])
            /\ Len(upto) \in Nat /\ upto' = upto
        BY <1>5 DEF ScanEnds, TypeOK
      <3>2. CASE taken' = Len(upto) /\ todo' = <<Slice(taken, Len(upto))>>
        <4>1. Slice(taken, Len(upto)) \in [lo : 0 .. taken', hi : 0 .. taken']
          BY <3>1, <3>2 DEF Slice
        <4> QED
          BY <3>1, <3>2, <4>1
      <3>3. CASE taken' = taken /\ todo' = todo
        BY <3>1, <3>3
      <3> QED
        BY <1>5, <3>2, <3>3 DEF ScanEnds
    <2> QED
      BY <1>5, <2>1 DEF ScanEnds, TypeOK, stream, Locations
  <1>6. CASE Split
    <2> DEFINE S == [lo : 0 .. taken, hi : 0 .. taken]
               midpoint == Top.lo + (Top.hi - Top.lo) \div 2
    <2>1. Top \in S /\ todo # <<>> /\ taken \in Nat /\ Top.lo < midpoint /\ midpoint < Top.hi
          /\ midpoint \in Nat
      <3>1. todo # <<>> /\ Top.hi - Top.lo > 1
        BY <1>6 DEF Split, Sending
      <3>2. Top \in S /\ taken \in Nat
        BY <3>1, TopSlice DEF TypeOK
      <3>3. Top.lo \in Nat /\ Top.hi \in Nat
        BY <3>2
      <3> QED
        BY <3>1, <3>2, <3>3
    <2>2. Slice(Top.lo, midpoint) \in S /\ Slice(midpoint, Top.hi) \in S
      BY <2>1 DEF Slice
    <2>3. todo' = <<Slice(Top.lo, midpoint), Slice(midpoint, Top.hi)>> \o Tail(todo)
      BY <1>6 DEF Split
    <2>4. todo \in Seq(S)
      BY DEF TypeOK
    <2> HIDE DEF S, midpoint
    <2>5. todo' \in Seq(S)
      BY <2>1, <2>2, <2>3, <2>4, SplitStack
    <2> QED
      BY <1>6, <2>5 DEF S, Split, TypeOK, stream
  <1>7. CASE SendChunk
    <2>1. /\ todo # <<>> /\ Top.lo = rows /\ Top.hi \in 0 .. taken /\ Top.lo \in 0 .. taken
          /\ Top.hi <= Len(upto) /\ ChunkFrameBytes(Top) \in Nat
          /\ taken \in Nat /\ Len(upto) \in Nat /\ taken <= Len(upto) /\ Len(upto) <= MaxVisited
      BY <1>7, TopSlice DEF SendChunk, Sending, TypeOK
    <2>0. /\ rows \in Nat /\ next_seq \in 1 .. MaxSeq /\ MaxSeq \in Nat
          /\ encoded_bytes \in Nat /\ wire \in Nat
      BY CountsAssumption DEF TypeOK
    <2>2. rows' \in 0 .. Len(upto) /\ next_seq' \in 1 .. MaxSeq
      <3>1. /\ rows' = rows + (Top.hi - Top.lo) /\ next_seq' = next_seq + 1
            /\ next_seq < MaxSeq
        BY <1>7 DEF SendChunk
      <3> HIDE DEF SInv
      <3> QED
        BY <2>0, <2>1, <3>1
    <2>3. encoded_bytes' \in Nat /\ wire' \in Nat
      <3>1. /\ encoded_bytes' = encoded_bytes + ChunkFrameBytes(Top)
            /\ wire' = wire + ChunkFrameBytes(Top)
        BY <1>7 DEF SendChunk, Send
      <3> HIDE DEF SInv
      <3> QED
        BY <2>0, <2>1, <3>1
    <2>4. Frame("chunk", next_seq, Top.lo, Top.hi, 0) \in FrameType
      BY <2>0, <2>1, CountsAssumption DEF Frame, FrameType
    <2>5. frames' \in Seq(FrameType)
      BY <1>7, <2>4 DEF SendChunk, Send, TypeOK, FrameType
    <2>6. todo' \in Seq([lo : 0 .. taken, hi : 0 .. taken])
      BY <1>7, <2>1 DEF SendChunk, TypeOK
    <2> QED
      BY <1>7, <2>2, <2>3, <2>5, <2>6 DEF SendChunk, Send, TypeOK, FrameType
  <1>8. CASE Sent
    BY <1>8 DEF Sent, TypeOK, stream, Locations
  <1>9. CASE Measure
    <2>1. candidate' \in Nat
      <3>1. candidate' = TotalWith(candidate) /\ encoded_bytes \in Nat
        BY <1>9 DEF Measure, TypeOK
      <3> QED
        BY <3>1, EndFitsReserve DEF TotalWith
    <2> QED
      BY <1>9, <2>1 DEF Measure, TypeOK
  <1>10. CASE Finish
    <2>1. EndFrameBytes(candidate) \in Nat /\ wire \in Nat
      BY EndFitsReserve DEF TypeOK
    <2>2. Frame("end", next_seq, 0, rows, candidate) \in FrameType
      BY CountsAssumption DEF Frame, FrameType, TypeOK
    <2>3. frames' \in Seq(FrameType)
      BY <1>10, <2>2 DEF Finish, Send, TypeOK, FrameType
    <2>4. wire' = wire + EndFrameBytes(candidate)
      BY <1>10 DEF Finish, Send
    <2>5. wire' \in Nat
      BY <2>1, <2>4
    <2> QED
      BY <1>10, <2>3, <2>5 DEF Finish, TypeOK, FrameType, stream, Locations
  <1>11. CASE AnswerError
    <2>1. ErrorSizes \subseteq Nat
      BY BytesAssumption, ReserveAssumption DEF ErrorSizes
    <2>2. Frame("error", 0, 0, 0, 0) \in FrameType
          /\ Frame("end_error", next_seq, 0, 0, 0) \in FrameType
      BY CountsAssumption DEF Frame, FrameType, TypeOK
    <2>3. frames' \in Seq(FrameType)
      <3>1. frames \in Seq(FrameType)
        BY DEF TypeOK, FrameType
      <3>2. \/ frames' = Append(frames, Frame("error", 0, 0, 0, 0))
            \/ frames' = Append(frames, Frame("end_error", next_seq, 0, 0, 0))
            \/ frames' = frames
        BY <1>11 DEF AnswerError
      <3> HIDE DEF FrameType
      <3> QED
        BY <2>2, <3>1, <3>2, AppendProperties
    <2>4. wire' \in Nat
      <3>1. wire' = wire \/ \E bytes \in ErrorSizes : wire' = wire + bytes
        BY <1>11 DEF AnswerError
      <3> QED
        BY <2>1, <3>1 DEF TypeOK
    <2>5. stopped' \in BOOLEAN
      <3>1. stopped' = stopped \/ stopped' = TRUE
        BY <1>11 DEF AnswerError
      <3> QED
        BY <3>1 DEF TypeOK
    <2> QED
      BY <1>11, <2>3, <2>4, <2>5 DEF AnswerError, TypeOK, FrameType, stream, Locations
  <1>12. CASE Stop
    BY <1>12 DEF Stop, TypeOK, stream
  <1>13. CASE UNCHANGED vars
    BY <1>13 DEF TypeOK, vars
  <1> QED
    BY <1>1, <1>2, <1>3, <1>4, <1>5, <1>6, <1>7, <1>8, <1>9, <1>10, <1>11, <1>12, <1>13
       DEF Next, Dispatcher

---------------------------------------------------------------------------
(* Rows                                                                    *)

\* The sums of the rows so far do not change when a row comes.
LEMMA VisitSums ==
    ASSUME TypeOK, SumsGrow, NEW bytes \in RowSizes, Visit(bytes)
    PROVE  /\ Len(upto) \in Nat /\ Len(upto') = Len(upto) + 1
           /\ \A i \in 0 .. Len(upto) : BytesUpTo(i)' = BytesUpTo(i)
           /\ SumsGrow'
  <1>1. upto \in Seq(Nat) /\ Len(upto) \in Nat
    BY DEF TypeOK
  <1>2. BytesUpTo(Len(upto)) \in Nat /\ bytes \in Nat
    BY <1>1, BytesNat, BytesAssumption
  <1> DEFINE sum == BytesUpTo(Len(upto)) + bytes
  <1>3. upto' = Append(upto, sum) /\ sum \in Nat
    BY <1>2 DEF Visit
  <1> HIDE DEF sum
  <1>4. /\ Len(upto') = Len(upto) + 1
        /\ \A i \in 1 .. Len(upto) : upto'[i] = upto[i]
        /\ upto'[Len(upto) + 1] = sum
    BY <1>1, <1>3, AppendProperties
  <1>5. \A i \in 0 .. Len(upto) : BytesUpTo(i)' = BytesUpTo(i)
    BY <1>1, <1>4 DEF BytesUpTo
  <1>6. \A i \in Nat : i = Len(upto) + 1 => BytesUpTo(i)' = sum
    BY <1>1, <1>4 DEF BytesUpTo
  <1>7. \A i \in 0 .. Len(upto) : BytesUpTo(i) \in Nat /\ BytesUpTo(i) <= BytesUpTo(Len(upto))
    BY <1>1, BytesNat DEF SumsGrow
  <1>8. \A i \in 0 .. Len(upto) + 1 : BytesUpTo(i)' <= sum
    <2> SUFFICES ASSUME NEW i \in 0 .. Len(upto) + 1 PROVE BytesUpTo(i)' <= sum
      OBVIOUS
    <2>1. CASE i \in 0 .. Len(upto)
      <3>1. BytesUpTo(i)' = BytesUpTo(i) /\ BytesUpTo(i) <= BytesUpTo(Len(upto))
            /\ BytesUpTo(i) \in Nat
        BY <1>5, <1>7, <2>1
      <3> QED
        BY <1>2, <3>1 DEF sum
    <2>2. CASE i = Len(upto) + 1
      BY <1>1, <1>3, <1>6, <2>2
    <2> QED
      BY <1>1, <2>1, <2>2
  <1>9. SumsGrow'
    <2> SUFFICES ASSUME NEW i \in 0 .. Len(upto) + 1, NEW j \in 0 .. Len(upto) + 1, i <= j
                 PROVE  BytesUpTo(i)' <= BytesUpTo(j)'
      BY <1>4 DEF SumsGrow
    <2>1. CASE j = Len(upto) + 1
      BY <1>1, <1>6, <1>8, <2>1
    <2>2. CASE j \in 0 .. Len(upto) /\ i \in 0 .. Len(upto)
      BY <1>5, <2>2 DEF SumsGrow
    <2> QED
      BY <1>1, <2>1, <2>2
  <1> QED
    BY <1>1, <1>4, <1>5, <1>9

\* SumsGrow and StackCovers are kept.
LEMMA RowsStep == ASSUME SInv, [Next]_vars PROVE SumsGrow' /\ StackCovers'
  <1>a. TypeOK /\ SumsGrow /\ StackCovers
    BY DEF SInv
  <1> USE <1>a
  <1>0. /\ Len(upto) \in Nat /\ taken \in 0 .. Len(upto) /\ rows \in Nat
        /\ todo \in Seq([lo : 0 .. taken, hi : 0 .. taken]) /\ Len(todo) \in Nat
    BY DEF TypeOK
  <1>1. ASSUME NEW bytes \in RowSizes, Visit(bytes) PROVE SumsGrow' /\ StackCovers'
    <2>1. SumsGrow' /\ Len(upto') = Len(upto) + 1
      BY <1>1, VisitSums
    <2>2. todo = <<>> /\ rows = taken /\ pc = "scan" /\ rows' = rows
      BY <1>1 DEF Visit, StackCovers, stream
    <2>3. CASE todo' = <<Slice(taken, Len(upto) + 1)>> /\ taken' = Len(upto) + 1 /\ pc' = "inner"
      BY <1>0, <2>1, <2>2, <2>3 DEF StackCovers, Slice
    <2>4. CASE UNCHANGED <<todo, taken, pc>>
      BY <2>1, <2>2, <2>4 DEF StackCovers
    <2> QED
      BY <1>1, <2>1, <2>3, <2>4 DEF Visit
  <1>2. CASE ScanEnds
    <2>1. todo = <<>> /\ rows = taken /\ pc = "scan" /\ rows' = rows /\ upto' = upto
      BY <1>2 DEF ScanEnds, StackCovers, stream
    <2>2. CASE /\ todo' = <<Slice(taken, Len(upto))>> /\ taken' = Len(upto)
               /\ pc' = "rest" /\ taken < Len(upto)
      BY <1>0, <2>1, <2>2 DEF StackCovers, Slice, SumsGrow, BytesUpTo
    <2>3. CASE taken = Len(upto) /\ pc' = "finish" /\ UNCHANGED <<todo, taken>>
      BY <2>1, <2>3 DEF StackCovers, SumsGrow, BytesUpTo
    <2> QED
      BY <1>2, <2>2, <2>3 DEF ScanEnds
  <1>3. CASE Split
    <2> DEFINE S == [lo : 0 .. taken, hi : 0 .. taken]
               midpoint == Top.lo + (Top.hi - Top.lo) \div 2
               a == Slice(Top.lo, midpoint)
               b == Slice(midpoint, Top.hi)
    <2>1. todo # <<>> /\ Top.hi - Top.lo > 1 /\ todo' = <<a, b>> \o Tail(todo)
          /\ UNCHANGED <<pc, upto, taken, rows>> /\ pc \in {"inner", "rest"}
      BY <1>3 DEF Split, Sending, stream
    <2>2. Top = todo[1] /\ Top \in S /\ Top.lo = rows /\ Top.lo \in Nat /\ Top.hi \in Nat
          /\ taken \in Nat
      BY <1>0, <2>1, TopSlice
    <2>3. Top.lo < midpoint /\ midpoint < Top.hi /\ midpoint \in Nat
      BY <2>1, <2>2
    <2>4. a \in S /\ b \in S /\ a.lo = Top.lo /\ a.hi = midpoint /\ b.lo = midpoint /\ b.hi = Top.hi
      BY <2>2, <2>3 DEF Slice
    <2> HIDE DEF S, midpoint, a, b
    <2>5. /\ Len(todo') = Len(todo) + 1 /\ todo'[1] = a /\ todo'[2] = b
          /\ \A i \in 2 .. Len(todo) : todo'[i + 1] = todo[i]
      <3>1. todo \in Seq(S)
        BY <1>0 DEF S
      <3> QED
        BY <2>1, <2>4, <3>1, SplitStack
    <2>6. Len(todo) \in Nat \ {0}
      BY <1>0, <2>1
    <2>7. \A i \in 1 .. Len(todo') : todo'[i].lo < todo'[i].hi
      <3> SUFFICES ASSUME NEW i \in 1 .. Len(todo) + 1 PROVE todo'[i].lo < todo'[i].hi
        BY <2>5
      <3>1. CASE i \in {1, 2}
        BY <2>3, <2>4, <2>5, <3>1
      <3>2. CASE i > 2
        <4>1. i - 1 \in 2 .. Len(todo) /\ i - 1 + 1 = i
          BY <1>0, <3>2
        <4>2. todo'[i] = todo[i - 1]
          BY <2>5, <4>1
        <4>3. todo[i - 1].lo < todo[i - 1].hi
          BY <1>0, <4>1 DEF StackCovers
        <4> QED
          BY <4>2, <4>3
      <3> QED
        BY <3>1, <3>2
    <2>8. \A i \in 1 .. Len(todo') - 1 : todo'[i].hi = todo'[i + 1].lo
      <3> SUFFICES ASSUME NEW i \in 1 .. Len(todo) PROVE todo'[i].hi = todo'[i + 1].lo
        BY <1>0, <2>5
      <3>1. CASE i = 1
        BY <2>4, <2>5, <3>1
      <3>2. CASE i = 2
        <4>1. todo[1].hi = todo[2].lo
          BY <1>0, <3>2 DEF StackCovers
        <4> QED
          BY <2>2, <2>4, <2>5, <3>2, <4>1
      <3>3. CASE i > 2
        <4>1. /\ i - 1 \in 2 .. Len(todo) /\ i \in 2 .. Len(todo) /\ i - 1 + 1 = i
              /\ i - 1 \in 1 .. Len(todo) - 1
          BY <1>0, <3>3
        <4>2. todo'[i] = todo[i - 1] /\ todo'[i + 1] = todo[i]
          BY <2>5, <4>1
        <4>3. todo[i - 1].hi = todo[i].lo
          BY <4>1 DEF StackCovers
        <4> QED
          BY <4>2, <4>3
      <3> QED
        BY <3>1, <3>2, <3>3
    <2>9. todo'[1].lo = rows /\ todo'[Len(todo')].hi = taken
      <3>1. todo[Len(todo)].hi = taken
        BY <2>1 DEF StackCovers
      <3>2. CASE Len(todo) = 1
        BY <2>2, <2>4, <2>5, <3>1, <3>2
      <3>3. CASE Len(todo) # 1
        <4>1. Len(todo) \in 2 .. Len(todo)
          BY <2>6, <3>3
        <4> QED
          BY <2>2, <2>4, <2>5, <3>1, <4>1
      <3> QED
        BY <3>2, <3>3
    <2>10. todo' # <<>>
      BY <1>0, <2>5
    <2>11. SumsGrow'
      BY <2>1 DEF SumsGrow, BytesUpTo
    <2> QED
      BY <2>1, <2>7, <2>8, <2>9, <2>10, <2>11 DEF StackCovers
  <1>4. CASE SendChunk
    <2>1. /\ todo # <<>> /\ todo' = Tail(todo) /\ rows' = rows + (Top.hi - Top.lo)
          /\ UNCHANGED <<pc, upto, taken>> /\ pc \in {"inner", "rest"}
      BY <1>4 DEF SendChunk, Sending
    <2>2. Top = todo[1] /\ Top.lo = rows /\ Top.hi \in Nat
      BY <1>0, <2>1, TopSlice
    <2>3. rows' = todo[1].hi
      BY <1>0, <2>1, <2>2
    <2> DEFINE n == Len(todo)
    <2>4. /\ n \in Nat \ {0} /\ Len(todo') = n - 1
          /\ \A i \in 1 .. n - 1 : todo'[i] = todo[i + 1]
      BY <1>0, <2>1, HeadTailProperties
    <2>b. n = 1 => todo' = <<>>
      <3>1. todo' \in Seq([lo : 0 .. taken, hi : 0 .. taken])
        BY <1>0, <2>1, HeadTailProperties
      <3> QED
        BY <2>4, <3>1, EmptySeq
    <2>a. /\ \A i \in 1 .. n : todo[i].lo < todo[i].hi
          /\ \A i \in 1 .. n - 1 : todo[i].hi = todo[i + 1].lo
          /\ todo[n].hi = taken
      BY <2>1 DEF StackCovers
    <2> HIDE <1>a DEF n
    <2>5. \A i \in 1 .. Len(todo') : todo'[i].lo < todo'[i].hi
      <3> SUFFICES ASSUME NEW i \in 1 .. n - 1 PROVE todo'[i].lo < todo'[i].hi
        BY <2>4
      <3>1. i + 1 \in 1 .. n /\ todo'[i] = todo[i + 1]
        BY <2>4
      <3> QED
        BY <2>a, <3>1
    <2>6. \A i \in 1 .. Len(todo') - 1 : todo'[i].hi = todo'[i + 1].lo
      <3> SUFFICES ASSUME NEW i \in 1 .. n - 2 PROVE todo'[i].hi = todo'[i + 1].lo
        BY <2>4
      <3>1. i \in 1 .. n - 1 /\ i + 1 \in 1 .. n - 1
        BY <2>4
      <3>2. todo'[i] = todo[i + 1] /\ todo'[i + 1] = todo[i + 1 + 1]
        BY <2>4, <3>1
      <3>3. todo[i + 1].hi = todo[i + 1 + 1].lo
        BY <2>a, <3>1
      <3> QED
        BY <3>2, <3>3
    <2> USE <1>a
    <2>7. CASE n = 1
      <3>1. todo' = <<>> /\ rows' = taken
        BY <2>1, <2>3, <2>a, <2>b, <2>7
      <3> QED
        BY <2>1, <2>5, <2>6, <3>1 DEF StackCovers, SumsGrow, BytesUpTo
    <2>8. CASE n > 1
      <3>1. 1 \in 1 .. n - 1 /\ n - 1 \in 1 .. n - 1 /\ n - 1 + 1 = n /\ 1 + 1 = 2
        BY <2>4, <2>8
      <3>2. todo'[1] = todo[2] /\ todo'[Len(todo')] = todo[n]
        BY <2>4, <3>1
      <3>3. todo' # <<>>
        BY <2>4, <2>8
      <3>4. todo[1].hi = todo[2].lo
        BY <2>a, <3>1
      <3> QED
        BY <2>1, <2>3, <2>5, <2>6, <2>a, <3>2, <3>3, <3>4 DEF StackCovers, SumsGrow, BytesUpTo
    <2> QED
      BY <2>4, <2>7, <2>8
  <1>5. CASE NotBegun \/ ScanFails \/ ChunkFails \/ FinishFails
    BY <1>5, Failures DEF StackCovers, SumsGrow, BytesUpTo, stream
  <1>6. ASSUME NEW bytes \in UnarySizes, Unary(bytes) PROVE SumsGrow' /\ StackCovers'
    BY <1>6 DEF Unary, StackCovers, SumsGrow, BytesUpTo, stream
  <1>7. CASE Begin
    BY <1>7 DEF Begin, StackCovers, SumsGrow, BytesUpTo
  <1>8. CASE Sent
    BY <1>8 DEF Sent, StackCovers, SumsGrow, BytesUpTo, stream
  <1>9. CASE Measure \/ Stop
    BY <1>9 DEF Measure, Stop, StackCovers, SumsGrow, BytesUpTo, stream
  <1>10. CASE Finish \/ AnswerError
    BY <1>10 DEF Finish, AnswerError, StackCovers, SumsGrow, BytesUpTo, stream
  <1>11. CASE UNCHANGED vars
    BY <1>11 DEF StackCovers, SumsGrow, BytesUpTo, vars
  <1> QED
    BY <1>1, <1>2, <1>3, <1>4, <1>5, <1>6, <1>7, <1>8, <1>9, <1>10, <1>11
       DEF Next, Dispatcher

---------------------------------------------------------------------------
(* Frames                                                                  *)

\* The steps that send nothing.
Quiet ==
    \/ NotBegun \/ ScanFails \/ ChunkFails \/ FinishFails
    \/ \E bytes \in RowSizes : Visit(bytes)
    \/ ScanEnds \/ Split \/ Sent \/ Measure \/ Stop \/ UNCHANGED vars

\* They leave the frames and their counters alone and do not end a response.
LEMMA QuietSteps ==
    ASSUME TypeOK, Quiet
    PROVE  /\ UNCHANGED <<method, response_limit, next_seq, encoded_bytes, rows, frames, wire>>
           /\ pc' = "begin" => pc = "begin"
           /\ pc' \in Streaming => pc \in Streaming
           /\ pc' = "failed" => pc \in Streaming \cup {"begin", "failed"}
           /\ pc = "done" \/ pc' = "done" => UNCHANGED vars
  <1> USE DEF stream, Streaming
  <1>1. CASE NotBegun \/ ScanFails \/ ChunkFails \/ FinishFails
    BY <1>1, Failures DEF TypeOK, Locations
  <1>2. ASSUME NEW bytes \in RowSizes, Visit(bytes)
        PROVE  /\ UNCHANGED <<method, response_limit, next_seq, encoded_bytes, rows, frames,
                              wire>>
               /\ pc = "scan" /\ pc' \in {"scan", "inner"}
    BY <1>2 DEF Visit
  <1>3. CASE ScanEnds
    BY <1>3 DEF ScanEnds
  <1>4. CASE Split
    BY <1>4 DEF Split, Sending
  <1>5. CASE Sent
    BY <1>5 DEF Sent
  <1>6. CASE Measure
    BY <1>6 DEF Measure
  <1>7. CASE Stop
    BY <1>7 DEF Stop, TypeOK, Locations
  <1>8. CASE UNCHANGED vars
    BY <1>8 DEF vars, TypeOK, Locations
  <1> QED
    BY <1>1, <1>2, <1>3, <1>4, <1>5, <1>6, <1>7, <1>8 DEF Quiet

\* Every step sends a frame or is quiet.
LEMMA QuietOrSends ==
    ASSUME [Next]_vars
    PROVE  \/ Quiet
           \/ \E bytes \in UnarySizes : Unary(bytes)
           \/ Begin \/ SendChunk \/ Finish \/ AnswerError
  BY DEF Next, Dispatcher, Quiet

\* A frame is added at the end.
LEMMA AddFrame ==
    ASSUME TypeOK, NEW f, frames' = Append(frames, f)
    PROVE  /\ Len(frames) \in Nat /\ Len(frames') = Len(frames) + 1
           /\ \A i \in 1 .. Len(frames) : frames'[i] = frames[i]
           /\ frames'[Len(frames) + 1] = f
           /\ frames' # <<>>
  <1>1. /\ Len(frames) \in Nat /\ Len(frames') = Len(frames) + 1
        /\ \A i \in 1 .. Len(frames) : frames'[i] = frames[i]
        /\ frames'[Len(frames) + 1] = f
    BY DEF TypeOK
  <1>2. Len(frames') # 0
    BY <1>1
  <1> QED
    BY <1>1, <1>2

\* The kinds of TypeOK, the rows of a frame and the length of the response.
LEMMA FrameTypes ==
    ASSUME TypeOK
    PROVE  /\ Len(frames) \in Nat /\ Len(upto) \in Nat
           /\ \A i \in 1 .. Len(frames) : frames[i].lo \in Nat /\ frames[i].hi \in Nat
           /\ frames # <<>> => Len(frames) \in Nat \ {0}
  <1> DEFINE S == [kind : {"result", "error", "begin", "chunk", "end", "end_error"},
                   seq : 0 .. MaxSeq, lo : 0 .. MaxVisited, hi : 0 .. MaxVisited,
                   total : Nat]
  <1>1. frames \in Seq(S) /\ Len(upto) \in Nat
    BY DEF TypeOK
  <1>2. \A f \in S : f.lo \in Nat /\ f.hi \in Nat
    BY CountsAssumption
  <1> HIDE DEF S
  <1>3. Len(frames) \in Nat /\ \A i \in 1 .. Len(frames) : frames[i] \in S
    BY <1>1, ElementOfSeq
  <1>4. frames # <<>> => Len(frames) \in Nat \ {0}
    BY <1>1, EmptySeq
  <1> QED
    BY <1>1, <1>2, <1>3, <1>4

\* FramesFollow is kept.
LEMMA FramesStep == ASSUME SInv, [Next]_vars PROVE FramesFollow'
  <1>a. TypeOK /\ SumsGrow /\ StackCovers /\ FramesFollow
    BY DEF SInv
  <1> USE <1>a
  <1> DEFINE n == Len(frames)
  <1>0. n \in Nat /\ Len(upto) \in Nat /\ rows \in 0 .. Len(upto) /\ next_seq \in Nat
    BY FrameTypes, CountsAssumption DEF TypeOK
  <1> HIDE DEF n
  <1>1. CASE Quiet
    <2>1. Len(upto') >= Len(upto) /\ Len(upto') \in Nat
      <3>1. ASSUME NEW bytes \in RowSizes, Visit(bytes) PROVE Len(upto') = Len(upto) + 1
        BY <3>1, VisitSums
      <3>2. CASE upto' = upto
        BY <1>0, <3>2
      <3>3. CASE NotBegun \/ ScanFails \/ ChunkFails \/ FinishFails
        BY <1>0, <3>3, Failures
      <3> QED
        BY <1>0, <1>1, <3>1, <3>2, <3>3
           DEF Quiet, ScanEnds, Split, Sent, Measure, Stop, vars, stream
    <2>2. \A i \in 1 .. Len(frames) : frames[i].hi <= Len(upto')
      BY <1>0, <2>1, FrameTypes DEF FramesFollow
    <2>3. /\ UNCHANGED <<frames, next_seq, rows>>
          /\ pc' = "begin" => pc = "begin"
          /\ pc' \in Streaming => pc \in Streaming
          /\ pc' # "done" => pc # "done"
      BY <1>1, QuietSteps DEF vars
    <2>4. /\ pc' = "begin" => frames' = <<>> /\ next_seq' = 1
          /\ pc' \in Streaming =>
                frames' # <<>> /\ next_seq' = Len(frames') /\ frames'[Len(frames')].hi = rows'
          /\ pc' # "done" => \A i \in 1 .. Len(frames) :
                frames[i].kind = IF i = 1 THEN "begin" ELSE "chunk"
      BY <2>3 DEF FramesFollow
    <2>5. \A i \in 1 .. Len(frames) : frames[i].lo <= frames[i].hi
      BY DEF FramesFollow
    <2> QED
      BY <2>2, <2>3, <2>4, <2>5 DEF FramesFollow
  <1>2. ASSUME NEW bytes \in UnarySizes, Unary(bytes) PROVE FramesFollow'
    <2>1. frames = <<>> /\ frames' = Append(frames, Frame("result", 0, 0, 0, 0)) /\ pc' = "done"
          /\ upto' = upto
      BY <1>2 DEF Unary, Send, FramesFollow
    <2>2. frames' = <<Frame("result", 0, 0, 0, 0)>>
      BY <2>1
    <2> QED
      BY <1>0, <2>1, <2>2 DEF FramesFollow, Frame, Streaming
  <1>3. CASE Begin
    <2>1. /\ frames = <<>> /\ frames' = Append(frames, Frame("begin", 0, 0, 0, 0))
          /\ pc' = "scan" /\ next_seq' = 1 /\ rows' = rows /\ rows = 0 /\ upto' = upto
      BY <1>3 DEF Begin, Send, FramesFollow, StackCovers, TypeOK
    <2>2. frames' = <<Frame("begin", 0, 0, 0, 0)>>
      BY <2>1
    <2> QED
      BY <1>0, <2>1, <2>2 DEF FramesFollow, Frame, Streaming
  <1>4. CASE SendChunk
    <2> DEFINE f == Frame("chunk", next_seq, Top.lo, Top.hi, 0)
    <2>1. /\ frames' = Append(frames, f) /\ todo # <<>> /\ pc \in {"inner", "rest"} /\ pc' = pc
          /\ next_seq' = next_seq + 1 /\ rows' = rows + (Top.hi - Top.lo) /\ upto' = upto
      BY <1>4 DEF SendChunk, Sending, Send
    <2>2. /\ Top.lo = rows /\ Top.lo < Top.hi /\ Top.hi <= Len(upto) /\ Top.hi \in Nat
      BY <2>1, TopSlice DEF TypeOK
    <2>3. f.kind = "chunk" /\ f.lo = Top.lo /\ f.hi = Top.hi
      BY DEF Frame
    <2> HIDE DEF f
    <2>4. /\ Len(frames') = n + 1 /\ frames'[n + 1] = f /\ frames' # <<>>
          /\ \A i \in 1 .. n : frames'[i] = frames[i]
      BY <2>1, AddFrame DEF n
    <2>5. /\ frames # <<>> /\ next_seq = n
          /\ \A i \in 1 .. n : frames[i].kind = IF i = 1 THEN "begin" ELSE "chunk"
          /\ \A i \in 1 .. n : frames[i].lo <= frames[i].hi /\ frames[i].hi <= Len(upto)
      BY <2>1 DEF FramesFollow, Streaming, n
    <2>6. n # 0
      BY <2>5, FrameTypes DEF n
    <2>7. rows' = Top.hi
      BY <1>0, <2>1, <2>2
    <2>8. \A i \in 1 .. n + 1 : frames'[i].kind = IF i = 1 THEN "begin" ELSE "chunk"
      BY <1>0, <2>3, <2>4, <2>5, <2>6
    <2>9. \A i \in 1 .. n + 1 : frames'[i].lo <= frames'[i].hi /\ frames'[i].hi <= Len(upto')
      BY <1>0, <2>1, <2>2, <2>3, <2>4, <2>5
    <2> QED
      BY <1>0, <2>1, <2>3, <2>4, <2>5, <2>7, <2>8, <2>9 DEF FramesFollow
  <1>5. CASE Finish
    <2> DEFINE f == Frame("end", next_seq, 0, rows, candidate)
    <2>1. frames' = Append(frames, f) /\ pc' = "done" /\ upto' = upto
      BY <1>5 DEF Finish, Send
    <2>2. f.lo = 0 /\ f.hi = rows
      BY DEF Frame
    <2> HIDE DEF f
    <2>3. \A i \in 1 .. n + 1 : frames'[i].lo <= frames'[i].hi /\ frames'[i].hi <= Len(upto')
      BY <1>0, <2>1, <2>2, AddFrame DEF FramesFollow, n
    <2> QED
      BY <2>1, <2>3, AddFrame DEF FramesFollow, Streaming, n
  <1>6. CASE AnswerError
    <2>1. pc' = "done" /\ upto' = upto
      BY <1>6 DEF AnswerError
    <2>2. ASSUME NEW f, f.lo = 0, f.hi = 0, frames' = Append(frames, f) PROVE FramesFollow'
      <3>1. \A i \in 1 .. n + 1 : frames'[i].lo <= frames'[i].hi /\ frames'[i].hi <= Len(upto')
        BY <1>0, <2>1, <2>2, AddFrame DEF FramesFollow, n
      <3> QED
        BY <2>1, <2>2, <3>1, AddFrame DEF FramesFollow, Streaming, n
    <2>3. CASE frames' = frames
      BY <2>1, <2>3 DEF FramesFollow, Streaming
    <2>4. /\ Frame("error", 0, 0, 0, 0).lo = 0 /\ Frame("error", 0, 0, 0, 0).hi = 0
          /\ Frame("end_error", next_seq, 0, 0, 0).lo = 0
          /\ Frame("end_error", next_seq, 0, 0, 0).hi = 0
      BY DEF Frame
    <2>5. \/ frames' = Append(frames, Frame("error", 0, 0, 0, 0))
          \/ frames' = Append(frames, Frame("end_error", next_seq, 0, 0, 0))
          \/ frames' = frames
      BY <1>6 DEF AnswerError
    <2> QED
      BY <2>2, <2>3, <2>4, <2>5
  <1> QED
    BY <1>1, <1>2, <1>3, <1>4, <1>5, <1>6, QuietOrSends

\* A response that may go on, or has failed, has no end frame.
LEMMA NotEnded == ASSUME TypeOK, FramesFollow, pc # "done" PROVE ~Ended
  <1>1. frames # <<>> => Len(frames) \in 1 .. Len(frames)
    BY FrameTypes
  <1> QED
    BY <1>1 DEF Ended, FramesFollow

\* RowsInOrder is kept.
LEMMA OrderStep == ASSUME SInv, [Next]_vars PROVE RowsInOrder'
  <1>a. TypeOK /\ SumsGrow /\ StackCovers /\ FramesFollow /\ RowsInOrder
    BY DEF SInv
  <1>b. TypeOK' /\ FramesFollow'
    BY TypeStep, FramesStep
  <1> USE <1>a, <1>b
  <1> DEFINE n == Len(frames)
  <1>0. n \in Nat /\ (frames # <<>> => n # 0)
    BY FrameTypes
  <1>1. CASE Quiet
    <2>1. UNCHANGED frames
      BY <1>1, QuietSteps
    <2>2. CASE pc' = "done"
      BY <1>1, <2>2, QuietSteps DEF RowsInOrder, Chunks, Ended, vars
    <2>3. CASE pc' # "done"
      <3>1. ~Ended'
        <4>1. frames' # <<>> => Len(frames') \in 1 .. Len(frames')
          BY <1>0, <2>1
        <4> QED
          BY <2>3, <4>1 DEF Ended, FramesFollow
      <3> QED
        BY <2>1, <3>1 DEF RowsInOrder, Chunks
    <2> QED
      BY <2>2, <2>3
  <1>2. ASSUME NEW f, frames' = Append(frames, f), f.kind \notin {"chunk", "end"}
        PROVE  RowsInOrder'
    <2> HIDE DEF n
    <2>1. /\ Len(frames') = n + 1 /\ frames'[n + 1] = f
          /\ \A i \in 1 .. n : frames'[i] = frames[i]
      BY <1>2, AddFrame DEF n
    <2>2. ~Ended'
      BY <1>2, <2>1 DEF Ended
    <2>3. ASSUME NEW i \in 1 .. n + 1, frames'[i].kind = "chunk"
          PROVE  i > 1 /\ frames'[i].seq = i - 1 /\ frames'[i].lo = frames'[i - 1].hi
      <3>1. i \in 1 .. n /\ frames'[i] = frames[i]
        BY <1>0, <1>2, <2>1, <2>3
      <3>2. i > 1 /\ frames[i].seq = i - 1 /\ frames[i].lo = frames[i - 1].hi
        BY <2>3, <3>1 DEF RowsInOrder, Chunks, n
      <3>3. i - 1 \in 1 .. n
        BY <1>0, <3>1, <3>2
      <3> QED
        BY <2>1, <3>1, <3>2, <3>3
    <2> QED
      BY <2>1, <2>2, <2>3 DEF RowsInOrder, Chunks
  <1>3. ASSUME NEW bytes \in UnarySizes, Unary(bytes) PROVE RowsInOrder'
    <2>1. frames' = Append(frames, Frame("result", 0, 0, 0, 0))
      BY <1>3 DEF Unary, Send
    <2>2. Frame("result", 0, 0, 0, 0).kind \notin {"chunk", "end"}
      BY DEF Frame
    <2> QED
      BY <1>2, <2>1, <2>2
  <1>4. CASE Begin
    <2>1. frames' = Append(frames, Frame("begin", 0, 0, 0, 0))
      BY <1>4 DEF Begin, Send
    <2>2. Frame("begin", 0, 0, 0, 0).kind \notin {"chunk", "end"}
      BY DEF Frame
    <2> QED
      BY <1>2, <2>1, <2>2
  <1>5. CASE SendChunk \/ Finish
    <2> DEFINE f == IF pc = "finish" THEN Frame("end", next_seq, 0, rows, candidate)
                    ELSE Frame("chunk", next_seq, Top.lo, Top.hi, 0)
    <2>1. /\ frames' = Append(frames, f) /\ pc \in {"inner", "rest", "finish"}
          /\ pc # "finish" => todo # <<>> /\ f.kind = "chunk" /\ f.lo = Top.lo
                              /\ f.seq = next_seq
          /\ pc = "finish" => f.kind = "end" /\ pc' = "done"
          /\ pc # "finish" => pc' = pc
          /\ upto' = upto
      BY <1>5 DEF SendChunk, Finish, Sending, Send, Frame
    <2> HIDE DEF f, n
    <2>2. /\ Len(frames') = n + 1 /\ frames'[n + 1] = f
          /\ \A i \in 1 .. n : frames'[i] = frames[i]
      BY <2>1, AddFrame DEF n
    <2>3. /\ frames # <<>> /\ next_seq = n /\ n # 0 /\ frames[n].hi = rows /\ n \in 1 .. n
      BY <1>0, <2>1 DEF FramesFollow, Streaming, n
    <2>4. ASSUME NEW i \in 1 .. n, frames'[i].kind = "chunk"
          PROVE  i > 1 /\ frames'[i].seq = i - 1 /\ frames'[i].lo = frames'[i - 1].hi
      <3>1. frames'[i] = frames[i]
        BY <2>2
      <3>2. i > 1 /\ frames[i].seq = i - 1 /\ frames[i].lo = frames[i - 1].hi
        BY <2>4, <3>1 DEF RowsInOrder, Chunks, n
      <3>3. i - 1 \in 1 .. n
        BY <1>0, <3>2
      <3> QED
        BY <2>2, <3>1, <3>2, <3>3
    <2>5. pc # "finish" => f.lo = rows
      BY <2>1, TopSlice
    <2>6. ASSUME NEW i, i = n + 1, frames'[i].kind = "chunk"
          PROVE  i > 1 /\ frames'[i].seq = i - 1 /\ frames'[i].lo = frames'[i - 1].hi
      <3>1. i > 1 /\ i - 1 = n
        BY <1>0, <2>3, <2>6
      <3>2. pc # "finish"
        BY <2>1, <2>2, <2>6
      <3> QED
        BY <2>1, <2>2, <2>3, <2>5, <2>6, <3>1, <3>2
    <2>7. ASSUME Ended' PROVE frames'[Len(frames') - 1].hi = Len(upto')
      <3>1. pc = "finish"
        BY <2>1, <2>2, <2>7 DEF Ended
      <3>2. rows = Len(upto)
        BY <3>1 DEF StackCovers
      <3>3. Len(frames') - 1 = n
        BY <1>0, <2>2
      <3> QED
        BY <2>1, <2>2, <2>3, <3>2, <3>3
    <2>8. ASSUME NEW i \in 1 .. n + 1, frames'[i].kind = "chunk"
          PROVE  i > 1 /\ frames'[i].seq = i - 1 /\ frames'[i].lo = frames'[i - 1].hi
      <3>1. i \in 1 .. n \/ i = n + 1
        BY <1>0
      <3> QED
        BY <2>4, <2>6, <2>8, <3>1
    <2> QED
      BY <2>2, <2>7, <2>8 DEF RowsInOrder, Chunks
  <1>6. CASE AnswerError
    <2>1. CASE frames' = frames
      <3>1. ~Ended /\ upto' = upto
        BY <1>6, NotEnded DEF AnswerError
      <3> QED
        BY <2>1, <3>1 DEF RowsInOrder, Chunks, Ended
    <2>2. /\ Frame("error", 0, 0, 0, 0).kind \notin {"chunk", "end"}
          /\ Frame("end_error", next_seq, 0, 0, 0).kind \notin {"chunk", "end"}
      BY DEF Frame
    <2>3. \/ frames' = Append(frames, Frame("error", 0, 0, 0, 0))
          \/ frames' = Append(frames, Frame("end_error", next_seq, 0, 0, 0))
          \/ frames' = frames
      BY <1>6 DEF AnswerError
    <2> QED
      BY <1>2, <2>1, <2>2, <2>3
  <1> QED
    BY <1>1, <1>3, <1>4, <1>5, <1>6, QuietOrSends

---------------------------------------------------------------------------
(* Bytes                                                                   *)

\* A chunk that is there already keeps its bytes.
LEMMA ChunkBytesKept ==
    ASSUME TypeOK, SumsGrow, FramesFollow, NEW bytes \in RowSizes, Visit(bytes)
    PROVE  \A i \in 1 .. Len(frames) : RowBytes(frames[i])' = RowBytes(frames[i])
  <1> SUFFICES ASSUME NEW i \in 1 .. Len(frames)
               PROVE  RowBytes(frames[i])' = RowBytes(frames[i])
    OBVIOUS
  <1> DEFINE lo == frames[i].lo
             hi == frames[i].hi
  <1>1. frames' = frames
    BY DEF Visit
  <1>2. lo \in 0 .. Len(upto) /\ hi \in 0 .. Len(upto)
    BY FrameTypes DEF FramesFollow
  <1>3. \A k \in 0 .. Len(upto) : BytesUpTo(k)' = BytesUpTo(k)
    BY VisitSums
  <1>4. \A k, m \in 0 .. Len(upto) : k = lo /\ m = hi =>
          RowBytes(frames[i])' = BytesUpTo(m)' - BytesUpTo(k)'
    BY <1>1 DEF RowBytes, BytesUpTo
  <1>5. RowBytes(frames[i]) = BytesUpTo(hi) - BytesUpTo(lo)
    BY DEF RowBytes
  <1> HIDE DEF lo, hi
  <1> QED
    BY <1>2, <1>3, <1>4, <1>5

\* WithinLimits is kept.
LEMMA LimitsStep == ASSUME SInv, [Next]_vars PROVE WithinLimits'
  <1>a. TypeOK /\ SumsGrow /\ StackCovers /\ FramesFollow /\ WithinLimits
    BY DEF SInv
  <1> USE <1>a
  <1> DEFINE n == Len(frames)
             Fits(f) == ChunkBytes + Digits(f.seq) + RowBytes(f) <= FrameLimit
  <1>0. n \in Nat
    BY FrameTypes
  <1>1. ASSUME NEW bytes \in RowSizes, Visit(bytes) PROVE WithinLimits'
    <2>1. frames' = frames /\ rows = taken
      BY <1>1 DEF Visit, StackCovers
    <2>2. \A i \in 1 .. Len(frames) : RowBytes(frames[i])' = RowBytes(frames[i])
      BY <1>1, ChunkBytesKept
    <2>3. Len(upto') = Len(upto) + 1 /\ Len(upto) \in Nat
      BY <1>1, VisitSums
    <2>4. Len(upto) < MaxRows
      <3>1. rows \in Nat /\ taken = rows
        BY <2>1 DEF TypeOK
      <3> QED
        BY <1>1, <2>3, <3>1 DEF Visit, RowAllowed
    <2>5. Len(upto') <= MaxRows
      BY <2>3, <2>4, CountsAssumption
    <2> QED
      BY <2>1, <2>2, <2>5 DEF WithinLimits, Chunks, Digits
  <1>2. ASSUME UNCHANGED <<upto, frames>> PROVE WithinLimits'
    BY <1>2 DEF WithinLimits, Chunks, Digits, RowBytes, BytesUpTo
  <1>3. CASE Quiet
    <2>1. CASE NotBegun \/ ScanFails \/ ChunkFails \/ FinishFails
      BY <1>2, <2>1, Failures
    <2> QED
      BY <1>1, <1>2, <1>3, <2>1
         DEF Quiet, ScanEnds, Split, Sent, Measure, Stop, vars, stream
  <1>4. ASSUME NEW f, frames' = Append(frames, f), upto' = upto,
               f.kind = "chunk" => Fits(f)
        PROVE  WithinLimits'
    <2>1. /\ Len(frames') = n + 1 /\ frames'[n + 1] = f
          /\ \A i \in 1 .. n : frames'[i] = frames[i]
      BY <1>4, AddFrame
    <2>2. \A i \in 1 .. n + 1 : frames'[i].kind = "chunk" => Fits(frames'[i])
      BY <1>0, <1>4, <2>1 DEF WithinLimits, Chunks
    <2>3. \A i \in 1 .. n + 1 : RowBytes(frames[i])' = RowBytes(frames'[i])
      BY <1>4 DEF RowBytes, BytesUpTo
    <2> QED
      BY <1>4, <2>1, <2>2, <2>3 DEF WithinLimits, Chunks, Digits
  <1>5. ASSUME NEW bytes \in UnarySizes, Unary(bytes) PROVE WithinLimits'
    BY <1>4, <1>5 DEF Unary, Send, Frame
  <1>6. CASE Begin
    BY <1>4, <1>6 DEF Begin, Send, Frame
  <1>7. CASE SendChunk
    <2> DEFINE f == Frame("chunk", next_seq, Top.lo, Top.hi, 0)
    <2>1. frames' = Append(frames, f) /\ upto' = upto /\ FitsFrame(ChunkFrameBytes(Top))
      BY <1>7 DEF SendChunk, Send
    <2>2. Fits(f)
      BY <2>1 DEF FitsFrame, ChunkFrameBytes, Frame, RowBytes
    <2> HIDE DEF f, Fits
    <2> QED
      BY <1>4, <2>1, <2>2
  <1>8. CASE Finish
    BY <1>4, <1>8 DEF Finish, Send, Frame
  <1>9. CASE AnswerError
    BY <1>2, <1>4, <1>9 DEF AnswerError, Frame
  <1> QED
    BY <1>3, <1>5, <1>6, <1>7, <1>8, <1>9, QuietOrSends

\* BudgetReserved and BudgetKept are kept.
LEMMA BudgetStep == ASSUME SInv, [Next]_vars PROVE BudgetReserved' /\ BudgetKept'
  <1>a. TypeOK /\ SumsGrow /\ StackCovers /\ FramesFollow /\ BudgetReserved /\ BudgetKept
    BY DEF SInv
  <1> USE <1>a
  <1>0. /\ encoded_bytes \in Nat /\ wire \in Nat /\ Reserve \in Nat /\ response_limit \in Nat
        /\ response_limit \in ResponseLimits
    BY BytesAssumption, ReserveAssumption DEF TypeOK
  <1>1. CASE Quiet
    <2>1. /\ UNCHANGED <<response_limit, encoded_bytes, frames, wire>>
          /\ pc' = "begin" => pc = "begin"
          /\ pc' \in Streaming => pc \in Streaming
          /\ pc' = "failed" => pc \in Streaming \cup {"begin", "failed"}
      BY <1>1, QuietSteps
    <2>2. pc = "begin" => frames = <<>>
      BY DEF FramesFollow
    <2> QED
      BY <2>1, <2>2 DEF BudgetReserved, BudgetKept
  <1>2. ASSUME NEW bytes \in UnarySizes, Unary(bytes) PROVE BudgetReserved' /\ BudgetKept'
    <2>1. wire = 0 /\ wire' = wire + bytes /\ bytes <= response_limit /\ pc' = "done"
          /\ response_limit' = response_limit
      BY <1>2 DEF Unary, Send, BudgetReserved
    <2>2. bytes \in Nat
      BY BytesAssumption
    <2> QED
      BY <1>0, <2>1, <2>2 DEF BudgetReserved, BudgetKept, Streaming
  <1>3. CASE Begin
    <2>1. /\ wire = 0 /\ wire' = wire + BeginBytes /\ encoded_bytes' = BeginBytes
          /\ 0 + BeginBytes + Reserve <= response_limit
          /\ pc' = "scan" /\ response_limit' = response_limit
      BY <1>3 DEF Begin, Send, FitsBudget, BudgetReserved
    <2> QED
      BY <1>0, <2>1, BytesAssumption DEF BudgetReserved, BudgetKept, Streaming
  <1>4. CASE SendChunk
    <2> DEFINE bytes == ChunkFrameBytes(Top)
    <2>1. /\ wire' = wire + bytes /\ encoded_bytes' = encoded_bytes + bytes
          /\ encoded_bytes + bytes + Reserve <= response_limit
          /\ pc \in {"inner", "rest"} /\ pc' = pc /\ response_limit' = response_limit
          /\ todo # <<>>
      BY <1>4 DEF SendChunk, Sending, Send, FitsBudget
    <2>2. bytes \in Nat /\ wire = encoded_bytes
      BY <2>1, TopSlice DEF BudgetReserved, Streaming
    <2> HIDE DEF bytes
    <2> QED
      BY <1>0, <2>1, <2>2 DEF BudgetReserved, BudgetKept, Streaming
  <1>5. CASE Finish
    <2>1. /\ wire' = wire + EndFrameBytes(candidate) /\ TotalWith(candidate) <= response_limit
          /\ pc' = "done" /\ response_limit' = response_limit /\ wire = encoded_bytes
      BY <1>5 DEF Finish, Send, BudgetReserved, Streaming
    <2> QED
      BY <2>1 DEF TotalWith, BudgetReserved, BudgetKept, Streaming
  <1>6. CASE AnswerError
    <2>1. pc = "failed" /\ pc' = "done" /\ response_limit' = response_limit
      BY <1>6 DEF AnswerError
    <2>2. CASE frames' = frames /\ wire' = wire
      BY <2>1, <2>2 DEF BudgetReserved, BudgetKept, Streaming
    <2>3. CASE frames = <<>> /\ frames' = Append(frames, Frame("error", 0, 0, 0, 0))
      <3>1. frames'[1].kind = "error"
        BY <2>3 DEF Frame
      <3> QED
        BY <2>1, <3>1 DEF BudgetReserved, BudgetKept, Streaming
    <2>4. CASE frames # <<>> /\ \E bytes \in ErrorSizes : wire' = wire + bytes
      <3>1. ErrorSizes = {ErrorBytes}
        BY <2>4 DEF ErrorSizes
      <3>2. wire' = wire + ErrorBytes /\ ErrorBytes \in 0 .. Reserve
        BY <2>4, <3>1, ReserveAssumption
      <3>3. wire + Reserve <= response_limit
        BY <2>1, <2>4 DEF BudgetReserved
      <3>4. wire' <= response_limit
        BY <1>0, <3>2, <3>3
      <3> QED
        BY <2>1, <3>4 DEF BudgetReserved, BudgetKept, Streaming
    <2> QED
      BY <1>6, <2>2, <2>3, <2>4 DEF AnswerError
  <1> QED
    BY <1>1, <1>2, <1>3, <1>4, <1>5, <1>6, QuietOrSends

\* GuessesGrow is kept.
LEMMA GuessStep == ASSUME SInv, [Next]_vars PROVE GuessesGrow'
  <1>a. TypeOK /\ GuessesGrow
    BY DEF SInv
  <1> USE <1>a
  <1>0. tries \in Nat /\ candidate \in Nat
    BY DEF TypeOK
  <1>1. CASE Measure
    <2>1. /\ pc = "finish" /\ pc' = "finish" /\ tries' = tries + 1
          /\ candidate' = TotalWith(candidate) /\ TotalWith(candidate) # candidate
          /\ UNCHANGED <<encoded_bytes, next_seq, rows>>
      BY <1>1 DEF Measure
    <2>2. candidate <= TotalWith(candidate)
      BY <2>1 DEF GuessesGrow
    <2>3. /\ GuessBase \in Nat /\ Digits(candidate) \in Nat \ {0}
          /\ TotalWith(candidate) = GuessBase + Digits(candidate)
      BY Guess, DigitsNat
    <2>4. candidate' \in Nat /\ candidate < candidate'
      BY <1>0, <2>1, <2>2, <2>3
    <2>5. Digits(candidate) <= Digits(candidate')
      BY <1>0, <2>4, DigitsMonotone
    <2>6. GuessBase' = GuessBase
      BY <2>1 DEF GuessBase, Digits
    <2>7. TotalWith(candidate)' = GuessBase + Digits(candidate')
      <3>1. /\ Digits(next_seq)' = Digits(next_seq) /\ Digits(rows)' = Digits(rows)
            /\ Digits(candidate)' = Digits(candidate')
        BY <2>1 DEF Digits
      <3>2. TotalWith(candidate)' = encoded_bytes
              + (EndBytes + Digits(next_seq) + Digits(rows) + Digits(candidate'))
        BY <2>1, <3>1 DEF TotalWith, EndFrameBytes
      <3>3. encoded_bytes \in Nat
        BY DEF TypeOK
      <3> QED
        BY <3>2, <3>3, DigitsNat, BytesAssumption DEF GuessBase
    <2>8. candidate' <= TotalWith(candidate)'
      BY <1>0, <2>1, <2>3, <2>4, <2>5, <2>7, DigitsNat
    <2>9. candidate' >= GuessBase + tries'
      <3>1. tries = 0 => candidate = 0
        BY <2>1 DEF GuessesGrow
      <3>2. tries > 0 => candidate >= GuessBase + tries
        BY <2>1 DEF GuessesGrow
      <3> QED
        BY <1>0, <2>1, <2>3, <2>4, <3>2
    <2> QED
      BY <1>0, <2>1, <2>6, <2>8, <2>9 DEF GuessesGrow
  <1>2. ASSUME UNCHANGED <<candidate, tries>>, pc' # "finish", pc' \in {"failed", "done"}
        PROVE  GuessesGrow'
    BY <1>2 DEF GuessesGrow
  <1>3. ASSUME UNCHANGED <<candidate, tries>>, pc' # "finish", pc \notin {"finish", "failed", "done"}
        PROVE  GuessesGrow'
    BY <1>3 DEF GuessesGrow
  <1>4. ASSUME UNCHANGED <<candidate, tries>>, pc' = "finish",
               pc \notin {"finish", "failed", "done"}
        PROVE  GuessesGrow'
    <2>1. tries' = 0 /\ candidate' = 0
      BY <1>4 DEF GuessesGrow
    <2>2. TotalWith(candidate)' \in Nat
      <3>1. /\ Digits(next_seq)' = Digits(next_seq') /\ Digits(rows)' = Digits(rows')
            /\ Digits(candidate)' = Digits(candidate')
        BY DEF Digits
      <3>2. encoded_bytes' \in Nat
        BY TypeStep DEF TypeOK
      <3> QED
        BY <3>1, <3>2, DigitsNat, BytesAssumption DEF TotalWith, EndFrameBytes
    <2> QED
      BY <1>4, <2>1, <2>2 DEF GuessesGrow
  <1>5. ASSUME UNCHANGED <<pc, candidate, tries, encoded_bytes, next_seq, rows>> PROVE GuessesGrow'
    BY <1>5 DEF GuessesGrow, GuessBase, TotalWith, EndFrameBytes, Digits
  <1>6. CASE NotBegun \/ ScanFails \/ ChunkFails \/ FinishFails
    BY <1>2, <1>6, Failures DEF stream
  <1>7. CASE (\E bytes \in UnarySizes : Unary(bytes)) \/ Finish \/ AnswerError
    BY <1>2, <1>7 DEF Unary, Finish, AnswerError, stream
  <1>8. CASE Begin \/ ScanEnds \/ Sent \/ \E bytes \in RowSizes : Visit(bytes)
    BY <1>3, <1>4, <1>8 DEF Begin, ScanEnds, Sent, Visit, stream
  <1>9. CASE Split \/ SendChunk
    BY <1>3, <1>9 DEF Split, SendChunk, Sending, stream
  <1>10. CASE Stop \/ UNCHANGED vars
    BY <1>5, <1>10 DEF Stop, vars, stream
  <1> QED
    BY <1>1, <1>6, <1>7, <1>8, <1>9, <1>10 DEF Next, Dispatcher

\* EndAccounts is kept.
LEMMA AccountsStep == ASSUME SInv, [Next]_vars PROVE EndAccounts'
  <1>a. TypeOK /\ StackCovers /\ FramesFollow /\ BudgetReserved /\ EndAccounts
    BY DEF SInv
  <1>b. TypeOK' /\ FramesFollow'
    BY TypeStep, FramesStep
  <1> USE <1>a, <1>b
  <1>1. ASSUME pc' # "done" PROVE EndAccounts'
    <2>1. frames' # <<>> => Len(frames') \in Nat \ {0}
      <3> DEFINE S == [kind : {"result", "error", "begin", "chunk", "end", "end_error"},
                       seq : 0 .. MaxSeq, lo : 0 .. MaxVisited, hi : 0 .. MaxVisited,
                       total : Nat]
      <3>1. frames' \in Seq(S)
        BY DEF TypeOK
      <3> HIDE DEF S
      <3> QED
        BY <3>1, EmptySeq
    <2>2. ~Ended'
      BY <1>1, <2>1 DEF Ended, FramesFollow
    <2> QED
      BY <2>2 DEF EndAccounts
  <1>2. ASSUME NEW f, frames' = Append(frames, f), f.kind # "end" PROVE EndAccounts'
    BY <1>2, AddFrame DEF EndAccounts, Ended
  <1>3. CASE Quiet
    <2>1. CASE UNCHANGED vars
      BY <2>1 DEF vars, EndAccounts, Ended
    <2> QED
      BY <1>1, <1>3, <2>1, QuietSteps
  <1>4. ASSUME NEW bytes \in UnarySizes, Unary(bytes) PROVE EndAccounts'
    BY <1>2, <1>4 DEF Unary, Send, Frame
  <1>5. CASE Begin
    BY <1>1, <1>5 DEF Begin
  <1>6. CASE SendChunk
    BY <1>1, <1>6 DEF SendChunk, Sending
  <1>7. CASE Finish
    <2> DEFINE f == Frame("end", next_seq, 0, rows, candidate)
    <2>1. /\ frames' = Append(frames, f) /\ wire' = wire + EndFrameBytes(candidate)
          /\ TotalWith(candidate) = candidate /\ pc = "finish" /\ upto' = upto
      BY <1>7 DEF Finish, Send
    <2>2. f.total = candidate /\ f.hi = rows
      BY DEF Frame
    <2> HIDE DEF f
    <2>3. frames'[Len(frames')] = f
      BY <2>1, AddFrame
    <2>4. wire = encoded_bytes /\ rows = Len(upto)
      BY <2>1 DEF BudgetReserved, StackCovers, Streaming
    <2>5. wire' = candidate
      BY <2>1, <2>4 DEF TotalWith
    <2> QED
      BY <2>1, <2>2, <2>3, <2>4, <2>5 DEF EndAccounts
  <1>8. CASE AnswerError
    <2>1. CASE frames' = frames
      <3>1. ~Ended
        BY <1>8, NotEnded DEF AnswerError
      <3> QED
        BY <2>1, <3>1 DEF EndAccounts, Ended
    <2>2. /\ Frame("error", 0, 0, 0, 0).kind # "end"
          /\ Frame("end_error", next_seq, 0, 0, 0).kind # "end"
      BY DEF Frame
    <2>3. \/ frames' = Append(frames, Frame("error", 0, 0, 0, 0))
          \/ frames' = Append(frames, Frame("end_error", next_seq, 0, 0, 0))
          \/ frames' = frames
      BY <1>8 DEF AnswerError
    <2> QED
      BY <1>2, <2>1, <2>2, <2>3
  <1> QED
    BY <1>3, <1>4, <1>5, <1>6, <1>7, <1>8, QuietOrSends

---------------------------------------------------------------------------
(* The invariant and what follows from it                                  *)

\* SInv holds at the start.
LEMMA InitSInv == Init => SInv
  <1> SUFFICES ASSUME Init PROVE SInv
    OBVIOUS
  <1>1. TypeOK
    <2>1. upto \in Seq(Nat) /\ Len(upto) = 0 /\ frames \in Seq(FrameType)
          /\ todo \in Seq([lo : 0 .. taken, hi : 0 .. taken])
      BY DEF Init
    <2>2. next_seq \in 1 .. MaxSeq /\ 0 <= MaxVisited
      BY CountsAssumption DEF Init
    <2>3. /\ Len(upto) <= MaxVisited /\ taken \in 0 .. Len(upto) /\ rows \in 0 .. Len(upto)
          /\ encoded_bytes \in Nat /\ wire \in Nat /\ candidate \in Nat /\ tries \in 0 .. 32
      BY <2>1, <2>2 DEF Init
    <2>4. stopped \in BOOLEAN /\ pc \in Locations /\ cause \in Codes /\ code \in Codes
      BY DEF Init, Locations, Codes
    <2>5. response_limit \in ResponseLimits /\ method \in {"unary", "list", "extract"}
      BY DEF Init
    <2> HIDE DEF Init
    <2> QED
      BY <2>1, <2>2, <2>3, <2>4, <2>5 DEF TypeOK, FrameType
  <1>2. SumsGrow /\ StackCovers /\ FramesFollow
    BY DEF Init, SumsGrow, StackCovers, FramesFollow, Streaming, BytesUpTo
  <1>3. BudgetReserved /\ GuessesGrow
    BY DEF Init, BudgetReserved, GuessesGrow, Streaming
  <1>4. RowsInOrder /\ BudgetKept /\ WithinLimits /\ EndAccounts
    BY CountsAssumption DEF Init, RowsInOrder, BudgetKept, WithinLimits, EndAccounts, Chunks, Ended
  <1> QED
    BY <1>1, <1>2, <1>3, <1>4 DEF SInv

\* SInv is kept by every step.
LEMMA StepSInv == SInv /\ [Next]_vars => SInv'
  <1> SUFFICES ASSUME SInv, [Next]_vars PROVE SInv'
    OBVIOUS
  <1>1. TypeOK' /\ SumsGrow' /\ StackCovers' /\ FramesFollow'
    BY TypeStep, RowsStep, FramesStep
  <1>2. BudgetReserved' /\ BudgetKept' /\ GuessesGrow'
    BY BudgetStep, GuessStep
  <1>3. RowsInOrder' /\ WithinLimits' /\ EndAccounts'
    BY OrderStep, LimitsStep, AccountsStep
  <1> QED
    BY <1>1, <1>2, <1>3 DEF SInv

LEMMA SInvAlways == Spec => []SInv
  BY InitSInv, StepSInv, PTL DEF Spec

\* The reserve is enough: in finish the search for the size of the end frame
\* succeeds, and the frame fits both limits.
LEMMA EndFits == SInv => EndAlwaysFits
  <1> SUFFICES ASSUME SInv, pc = "finish"
               PROVE  /\ tries < 32
                      /\ FitsFrame(EndFrameBytes(candidate))
                      /\ TotalWith(candidate) <= response_limit
    BY DEF EndAlwaysFits
  <1>a. TypeOK /\ BudgetReserved /\ GuessesGrow
    BY DEF SInv
  <1> USE <1>a
  <1>1. /\ EndFrameBytes(candidate) \in Nat /\ EndFrameBytes(candidate) <= Reserve
        /\ Reserve \in Nat /\ Reserve <= FrameLimit /\ FrameLimit \in Nat
    BY EndFitsReserve, ReserveAssumption, BytesAssumption
  <1>2. /\ encoded_bytes \in Nat /\ response_limit \in Nat /\ tries \in Nat
        /\ encoded_bytes + Reserve <= response_limit
    BY BytesAssumption DEF TypeOK, BudgetReserved, Streaming
  <1>3. TotalWith(candidate) <= response_limit
    BY <1>1, <1>2 DEF TotalWith
  <1>4. tries < 32
    <2>1. /\ GuessBase \in Nat /\ TotalWith(candidate) = GuessBase + Digits(candidate)
          /\ Digits(candidate) \in 1 .. MaxDigits /\ MaxDigits \in Nat /\ MaxDigits < 32
      BY Guess, DigitsType, DigitsNat
    <2>2. candidate <= TotalWith(candidate) /\ candidate \in Nat
      BY DEF GuessesGrow, TypeOK
    <2>3. tries > 0 => candidate >= GuessBase + tries
      BY DEF GuessesGrow
    <2> QED
      BY <1>2, <2>1, <2>2, <2>3
  <1> QED
    BY <1>1, <1>3, <1>4 DEF FitsFrame

\* The state of a response stays in its types; next_seq never overflows.
THEOREM OutputTypeCorrect == Spec => []TypeOK
  BY SInvAlways, PTL DEF SInv

\* However the chunks of any number of rows are halved, the rows go out once
\* each and in the order of the scan (send_rows_split), and a complete response
\* has them all.
THEOREM RowsComplete == Spec => []RowsInOrder
  BY SInvAlways, PTL DEF SInv

\* For all limits, a response never exceeds max_response_bytes
\* (ensure_response_budget, required_terminal).
THEOREM BudgetHolds == Spec => []BudgetKept
  BY SInvAlways, PTL DEF SInv

\* No chunk exceeds the frame limit and no row exceeds max_rows.
THEOREM LimitsHold == Spec => []WithinLimits
  BY SInvAlways, PTL DEF SInv

\* The end frame reports the bytes of the whole response, itself included
\* (end_success).
THEOREM AccountsExact == Spec => []EndAccounts
  BY SInvAlways, PTL DEF SInv

\* Whatever the numbers, the search of end_success succeeds and the reserve
\* holds its frame.
THEOREM ReserveSuffices == Spec => []EndAlwaysFits
  BY SInvAlways, EndFits, PTL
=============================================================================
