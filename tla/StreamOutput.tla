---------------------------- MODULE StreamOutput ----------------------------
(***************************************************************************)
(* How a dispatcher answers (src/src/server/service.rs): send_unary for    *)
(* one result, StreamOutput for the rows of list and extract, which go out *)
(* in chunks that are halved until a frame fits, under the response budget *)
(* of the request.  Rows are numbered in the order of the scan, a slice of *)
(* the row vector is the interval of its numbers, and a frame counts for   *)
(* its bytes.                                                              *)
(***************************************************************************)
EXTENDS Integers, Sequences, FiniteSets

CONSTANTS
    RowSizes,       \* encoded sizes of a row, the comma before it included
    UnarySizes,     \* encoded sizes of a unary result
    MaxVisited,     \* bound: rows in the file
    ChunkRows,      \* CHUNK_ROWS
    MaxRows,        \* max_rows of the request
    BeginBytes, ChunkBytes, EndBytes, \* frames without rows and numbers
    ErrorBytes,     \* an error frame with a fixed text
    LongErrors,     \* error frames that quote a signal name of the request
    FrameLimit,     \* max_encoded_frame_bytes
    ResponseLimits, \* the values of max_response_bytes
    Reserve,        \* TERMINAL_FRAME_RESERVE_BYTES
    MaxSeq,         \* the largest sequence number, u32::MAX in the code
    Powers          \* where a number gets one more digit: 10, 100, ... in the code

ASSUME BytesAssumption ==
    /\ RowSizes \subseteq Nat /\ UnarySizes \subseteq Nat
    /\ BeginBytes \in Nat /\ ChunkBytes \in Nat /\ EndBytes \in Nat
    /\ FrameLimit \in Nat /\ ResponseLimits \subseteq Nat /\ LongErrors \subseteq Nat
MaxDigits == 1 + Cardinality(Powers)

\* A u64 has 20 digits, and end_success guesses 32 times.
ASSUME PowersAssumption == IsFiniteSet(Powers) /\ Powers \subseteq Nat /\ MaxDigits < 32
\* RuntimeConfig::validate and query_context; the fixed texts and the numbers of
\* an end frame, with the request ID, are far smaller than the reserve.
ASSUME ReserveAssumption ==
    /\ Reserve \in Nat /\ Reserve <= FrameLimit
    /\ \A limit \in ResponseLimits : Reserve <= limit
    /\ ErrorBytes \in 0 .. Reserve
    /\ EndBytes + 3 * MaxDigits <= Reserve
ASSUME CountsAssumption ==
    /\ MaxVisited \in Nat /\ ChunkRows \in Nat \ {0} /\ MaxRows \in Nat \ {0}
    /\ MaxSeq \in Nat \ {0}

VARIABLES
    method,          \* "unary", "list" or "extract"
    response_limit,  \* StreamOutput.response_limit
    pc,              \* where the dispatcher stands
    upto,            \* upto[i]: encoded bytes of the first i rows of the scan
    taken,           \* rows handed to send_rows; the rest is in the row vector
    todo,            \* the slices send_rows_split has still to send
    next_seq, encoded_bytes, rows,   \* the fields of StreamOutput
    candidate, tries, \* the loop of end_success
    stopped,         \* the request is cancelled, late or disconnected
    frames,          \* history: the frames sent
    wire,            \* history: their bytes
    cause,           \* history: what made the dispatcher fail
    code             \* the error it reports

stream == <<next_seq, encoded_bytes, rows, candidate, tries>>
vars == <<method, response_limit, pc, upto, taken, todo, next_seq, encoded_bytes, rows,
          candidate, tries, stopped, frames, wire, cause, code>>

\* begin: nothing sent; scan: inside the query's visitor; inner: the visitor
\* is in send_rows; rest: the dispatcher is, after the scan; finish: in finish.
Locations == {"begin", "scan", "inner", "rest", "finish", "failed", "done"}
Codes == {"none", "limit", "stopped", "query", "internal"}

Slice(lo, hi) == [lo |-> lo, hi |-> hi]
Frame(k, n, lo, hi, total) == [kind |-> k, seq |-> n, lo |-> lo, hi |-> hi, total |-> total]

Init ==
    /\ method \in {"unary", "list", "extract"}
    /\ response_limit \in ResponseLimits
    /\ pc = "begin"
    /\ upto = <<>> /\ taken = 0 /\ todo = <<>>
    /\ next_seq = 1 /\ encoded_bytes = 0 /\ rows = 0
    /\ candidate = 0 /\ tries = 0
    /\ stopped = FALSE
    /\ frames = <<>> /\ wire = 0
    /\ cause = "none" /\ code = "none"

---------------------------------------------------------------------------
(* Sizes                                                                   *)

\* The digits of n in a frame.
Digits(n) == 1 + Cardinality({p \in Powers : p <= n})

BytesUpTo(i) == IF i = 0 THEN 0 ELSE upto[i]
RowBytes(s) == BytesUpTo(s.hi) - BytesUpTo(s.lo)
ChunkFrameBytes(s) == ChunkBytes + Digits(next_seq) + RowBytes(s)

\* Mutant: the line feed is not counted.
FitsFrameWithoutNewline(bytes) == bytes - 1 <= FrameLimit

\* CappedCounter: the frame and its line feed.
FitsFrame(bytes) == bytes <= FrameLimit

\* Mutant: the budget is checked before the frame is added.
FitsBudgetBefore(current, next) == current + Reserve <= response_limit

\* ensure_response_budget.
FitsBudget(current, next) == current + next + Reserve <= response_limit

\* The end frame that reports total as its encoded_bytes, and the total that
\* the response then has.
EndFrameBytes(total) == EndBytes + Digits(next_seq) + Digits(rows) + Digits(total)
TotalWith(total) == encoded_bytes + EndFrameBytes(total)

---------------------------------------------------------------------------
(* Errors and the output                                                   *)

\* The dispatcher returns error c.  Inside the visitor an error of send_rows
\* becomes QueryError::Internal.
Fail(c) ==
    /\ pc' = "failed"
    /\ cause' = c
    /\ code' = IF pc = "inner" THEN "internal" ELSE c

\* OutputSink::send_frame, with no effect when the request is stopped.
Send(f, bytes) ==
    /\ ~stopped
    /\ frames' = Append(frames, f)
    /\ wire' = wire + bytes

\* Cancel, disconnect or the deadline, at any moment.
Stop ==
    /\ ~stopped
    /\ pc # "done"
    /\ stopped' = TRUE
    /\ UNCHANGED <<method, response_limit, pc, upto, taken, todo, stream, frames, wire,
                   cause, code>>

---------------------------------------------------------------------------
(* send_unary and StreamOutput::begin                                      *)

Unary(bytes) ==
    /\ pc = "begin" /\ method = "unary"
    /\ FitsFrame(bytes) /\ bytes <= response_limit
    /\ Send(Frame("result", 0, 0, 0, 0), bytes)
    /\ pc' = "done"
    /\ UNCHANGED <<method, response_limit, upto, taken, todo, stream, stopped, cause, code>>

Begin ==
    /\ pc = "begin" /\ method # "unary"
    /\ FitsFrame(BeginBytes) /\ FitsBudget(0, BeginBytes)
    /\ Send(Frame("begin", 0, 0, 0, 0), BeginBytes)
    /\ encoded_bytes' = BeginBytes
    /\ pc' = "scan"
    /\ UNCHANGED <<method, response_limit, upto, taken, todo, next_seq, rows, candidate, tries,
                   stopped, cause, code>>

\* The first frame is too large or refused, or the query failed before it.
NotBegun ==
    /\ pc = "begin"
    /\ \/ /\ method = "unary" /\ Fail("limit")
          /\ \E bytes \in UnarySizes : ~(FitsFrame(bytes) /\ bytes <= response_limit)
       \/ /\ method # "unary" /\ Fail("limit")
          /\ ~(FitsFrame(BeginBytes) /\ FitsBudget(0, BeginBytes))
       \/ stopped /\ Fail("stopped")
       \/ Fail("query")
    /\ UNCHANGED <<method, response_limit, upto, taken, todo, stream, stopped, frames, wire>>

---------------------------------------------------------------------------
(* The scan and its visitor                                                *)

\* list compares rows sent and rows in the vector with max_rows; for extract
\* the query itself counts.
RowAllowed ==
    \/ method = "list" /\ rows + (Len(upto) - taken) < MaxRows
    \/ method = "extract" /\ Len(upto) < MaxRows

\* The visitor takes a row; a full vector goes to send_rows.
Visit(bytes) ==
    /\ pc = "scan"
    /\ Len(upto) < MaxVisited
    /\ RowAllowed
    /\ upto' = Append(upto, BytesUpTo(Len(upto)) + bytes)
    /\ \/ /\ Len(upto) + 1 - taken = ChunkRows
          /\ todo' = <<Slice(taken, Len(upto) + 1)>>
          /\ taken' = Len(upto) + 1
          /\ pc' = "inner"
       \/ /\ Len(upto) + 1 - taken < ChunkRows
          /\ UNCHANGED <<todo, taken, pc>>
    /\ UNCHANGED <<method, response_limit, stream, stopped, frames, wire, cause, code>>

\* One row too many, or any other error of the query.
ScanFails ==
    /\ pc = "scan"
    /\ \/ ~RowAllowed /\ Len(upto) < MaxVisited /\ Fail("limit")
       \/ stopped /\ Fail("stopped")
       \/ Fail("query")
    /\ UNCHANGED <<method, response_limit, upto, taken, todo, stream, stopped, frames, wire>>

\* The scan is complete; what is left in the vector is sent.
ScanEnds ==
    /\ pc = "scan"
    /\ \/ /\ taken < Len(upto)
          /\ todo' = <<Slice(taken, Len(upto))>>
          /\ taken' = Len(upto)
          /\ pc' = "rest"
       \/ /\ taken = Len(upto)
          /\ pc' = "finish"
          /\ UNCHANGED <<todo, taken>>
    /\ UNCHANGED <<method, response_limit, upto, stream, stopped, frames, wire, cause, code>>

---------------------------------------------------------------------------
(* send_rows_split: todo is the stack of its recursive calls               *)

Sending == pc \in {"inner", "rest"} /\ todo # <<>>
Top == Head(todo)

\* Mutant: the halves are sent in the wrong order.
SplitBackwards ==
    /\ Sending
    /\ ~FitsFrame(ChunkFrameBytes(Top))
    /\ Top.hi - Top.lo > 1
    /\ LET midpoint == Top.lo + (Top.hi - Top.lo) \div 2 IN
        todo' = <<Slice(midpoint, Top.hi), Slice(Top.lo, midpoint)>> \o Tail(todo)
    /\ UNCHANGED <<method, response_limit, pc, upto, taken, stream, stopped, frames, wire,
                   cause, code>>

\* The frame is too large: each half is a call of its own.
Split ==
    /\ Sending
    /\ ~FitsFrame(ChunkFrameBytes(Top))
    /\ Top.hi - Top.lo > 1
    /\ LET midpoint == Top.lo + (Top.hi - Top.lo) \div 2 IN
        todo' = <<Slice(Top.lo, midpoint), Slice(midpoint, Top.hi)>> \o Tail(todo)
    /\ UNCHANGED <<method, response_limit, pc, upto, taken, stream, stopped, frames, wire,
                   cause, code>>

SendChunk ==
    /\ Sending
    /\ next_seq < MaxSeq
    /\ LET bytes == ChunkFrameBytes(Top) IN
        /\ FitsFrame(bytes) /\ FitsBudget(encoded_bytes, bytes)
        /\ Send(Frame("chunk", next_seq, Top.lo, Top.hi, 0), bytes)
        /\ encoded_bytes' = encoded_bytes + bytes
    /\ rows' = rows + (Top.hi - Top.lo)
    /\ next_seq' = next_seq + 1
    /\ todo' = Tail(todo)
    /\ UNCHANGED <<method, response_limit, pc, upto, taken, candidate, tries, stopped, cause, code>>

\* Mutant: a row that no frame can hold is never given up.
ChunkFailsUnlessSingle ==
    /\ Sending
    /\ LET bytes == ChunkFrameBytes(Top) IN
        /\ FitsFrame(bytes)
        /\ \/ ~FitsBudget(encoded_bytes, bytes) /\ Fail("limit")
           \/ FitsBudget(encoded_bytes, bytes) /\ next_seq = MaxSeq /\ Fail("internal")
           \/ FitsBudget(encoded_bytes, bytes) /\ stopped /\ Fail("stopped")
    /\ UNCHANGED <<method, response_limit, upto, taken, todo, stream, stopped, frames, wire>>

\* One row is too large for a frame, the budget is spent, the sink has no
\* sequence number left or the request is stopped.
ChunkFails ==
    /\ Sending
    /\ LET bytes == ChunkFrameBytes(Top) IN
        \/ ~FitsFrame(bytes) /\ Top.hi - Top.lo = 1 /\ Fail("limit")
        \/ FitsFrame(bytes) /\ ~FitsBudget(encoded_bytes, bytes) /\ Fail("limit")
        \/ /\ FitsFrame(bytes) /\ FitsBudget(encoded_bytes, bytes)
           /\ \/ next_seq = MaxSeq /\ Fail("internal")
              \/ stopped /\ Fail("stopped")
    /\ UNCHANGED <<method, response_limit, upto, taken, todo, stream, stopped, frames, wire>>

\* send_rows returns to the visitor or to the dispatcher.
Sent ==
    /\ pc \in {"inner", "rest"} /\ todo = <<>>
    /\ pc' = IF pc = "inner" THEN "scan" ELSE "finish"
    /\ UNCHANGED <<method, response_limit, upto, taken, todo, stream, stopped, frames, wire,
                   cause, code>>

---------------------------------------------------------------------------
(* finish and the error terminal                                           *)

\* Mutant: the end frame is added to the guess.
MeasureAccumulates ==
    /\ pc = "finish"
    /\ tries < 32
    /\ TotalWith(candidate) # candidate
    /\ candidate' = candidate + EndFrameBytes(candidate)
    /\ tries' = tries + 1
    /\ UNCHANGED <<method, response_limit, pc, upto, taken, todo, next_seq, encoded_bytes, rows,
                   stopped, frames, wire, cause, code>>

\* end_success guesses the total it has to report, and guesses again when the
\* guess changes the length of the frame.
Measure ==
    /\ pc = "finish"
    /\ tries < 32
    /\ TotalWith(candidate) # candidate
    /\ candidate' = TotalWith(candidate)
    /\ tries' = tries + 1
    /\ UNCHANGED <<method, response_limit, pc, upto, taken, todo, next_seq, encoded_bytes, rows,
                   stopped, frames, wire, cause, code>>

\* Mutant: the second guess is taken.
FinishSecondGuess ==
    /\ pc = "finish"
    /\ tries = 1
    /\ FitsFrame(EndFrameBytes(candidate)) /\ TotalWith(candidate) <= response_limit
    /\ Send(Frame("end", next_seq, 0, rows, candidate), EndFrameBytes(candidate))
    /\ pc' = "done"
    /\ UNCHANGED <<method, response_limit, upto, taken, todo, stream, stopped, cause, code>>

Finish ==
    /\ pc = "finish"
    /\ tries < 32 /\ TotalWith(candidate) = candidate
    /\ FitsFrame(EndFrameBytes(candidate)) /\ TotalWith(candidate) <= response_limit
    /\ Send(Frame("end", next_seq, 0, rows, candidate), EndFrameBytes(candidate))
    /\ pc' = "done"
    /\ UNCHANGED <<method, response_limit, upto, taken, todo, stream, stopped, cause, code>>

\* The errors of finish; list validates the source and checks its context first.
FinishErrors ==
    {c \in {"query"} : method = "list" /\ tries = 0}
    \cup {c \in {"internal"} : tries = 32}
    \cup {c \in {"limit", "stopped"} :
            /\ tries < 32 /\ TotalWith(candidate) = candidate
            /\ LET fits == /\ FitsFrame(EndFrameBytes(candidate))
                           /\ TotalWith(candidate) <= response_limit
               IN IF fits THEN c = "stopped" /\ stopped ELSE c = "limit"}

FinishFails ==
    /\ pc = "finish"
    /\ \E c \in FinishErrors : Fail(c)
    /\ UNCHANGED <<method, response_limit, upto, taken, todo, stream, stopped, frames, wire>>

\* OutputSink::required_terminal.  Only a signal that does not exist is quoted,
\* which is found before the first frame.
ErrorSizes == {ErrorBytes} \cup (IF frames = <<>> /\ cause = "query" THEN LongErrors ELSE {})

\* The error is sent, whatever the budget, or is too large for a frame, which
\* disconnects the client; or the client is gone.
AnswerError ==
    /\ pc = "failed"
    /\ pc' = "done"
    /\ \/ \E bytes \in ErrorSizes :
             /\ FitsFrame(bytes)
             /\ frames' = Append(frames, IF frames = <<>> THEN Frame("error", 0, 0, 0, 0)
                                         ELSE Frame("end_error", next_seq, 0, 0, 0))
             /\ wire' = wire + bytes
             /\ UNCHANGED stopped
       \/ /\ stopped \/ \E bytes \in ErrorSizes : ~FitsFrame(bytes)
          /\ stopped' = TRUE
          /\ UNCHANGED <<frames, wire>>
    /\ UNCHANGED <<method, response_limit, upto, taken, todo, stream, cause, code>>

---------------------------------------------------------------------------

Dispatcher ==
    \/ \E bytes \in UnarySizes : Unary(bytes)
    \/ Begin \/ NotBegun
    \/ \E bytes \in RowSizes : Visit(bytes)
    \/ ScanFails \/ ScanEnds \/ Split \/ SendChunk \/ ChunkFails \/ Sent
    \/ Measure \/ Finish \/ FinishFails \/ AnswerError

Next == Dispatcher \/ Stop

Spec == Init /\ [][Next]_vars

\* A worker runs its dispatcher; the file is finite.
FairSpec == Spec /\ WF_vars(Dispatcher)

---------------------------------------------------------------------------

\* Type invariant; next_seq never overflows.
TypeOK ==
    /\ method \in {"unary", "list", "extract"}
    /\ response_limit \in ResponseLimits
    /\ pc \in Locations
    /\ upto \in Seq(Nat) /\ Len(upto) <= MaxVisited
    /\ taken \in 0 .. Len(upto)
    /\ todo \in Seq([lo : 0 .. taken, hi : 0 .. taken])
    /\ next_seq \in 1 .. MaxSeq
    /\ encoded_bytes \in Nat /\ wire \in Nat
    /\ rows \in 0 .. Len(upto)
    /\ candidate \in Nat /\ tries \in 0 .. 32
    /\ stopped \in BOOLEAN
    /\ frames \in Seq([kind : {"result", "error", "begin", "chunk", "end", "end_error"},
                       seq : 0 .. MaxSeq, lo : 0 .. MaxVisited, hi : 0 .. MaxVisited,
                       total : Nat])
    /\ cause \in Codes /\ code \in Codes

Chunks == {i \in 1 .. Len(frames) : frames[i].kind = "chunk"}
Ended == frames # <<>> /\ frames[Len(frames)].kind = "end"

\* However chunks are halved, the rows go out once each and in the order of the
\* scan, numbered without a gap; a complete response has them all.
RowsInOrder ==
    /\ \A i \in Chunks : i > 1 /\ frames[i].seq = i - 1 /\ frames[i].lo = frames[i - 1].hi
    /\ Ended => frames[Len(frames) - 1].hi = Len(upto)

\* A response never exceeds max_response_bytes, the error that ends a started
\* one included.  (An error that is the whole response is not counted.)
BudgetKept == frames # <<>> /\ frames[1].kind # "error" => wire <= response_limit

\* No chunk exceeds the frame limit and no row exceeds max_rows.
WithinLimits ==
    /\ \A i \in Chunks :
          ChunkBytes + Digits(frames[i].seq) + RowBytes(frames[i]) <= FrameLimit
    /\ Len(upto) <= MaxRows

\* A complete response reports the rows it sent, and the bytes of all its frames,
\* the end frame that carries the number included.
EndAccounts ==
    Ended => frames[Len(frames)].total = wire /\ frames[Len(frames)].hi = Len(upto)

\* The reserve is enough: a response whose rows are all sent is always ended,
\* and the search for its size finds one.
EndAlwaysFits ==
    pc = "finish" =>
        /\ tries < 32
        /\ FitsFrame(EndFrameBytes(candidate)) /\ TotalWith(candidate) <= response_limit

(* The inductive invariant behind them                                     *)

\* After begin, before the end.
Streaming == {"scan", "inner", "rest", "finish"}

\* The prefix sums of the rows grow.
SumsGrow == \A i, j \in 0 .. Len(upto) : i <= j => BytesUpTo(i) <= BytesUpTo(j)

\* The stack of send_rows_split covers the rows taken and not yet sent, in order.
StackCovers ==
    /\ \A i \in 1 .. Len(todo) : todo[i].lo < todo[i].hi
    /\ \A i \in 1 .. Len(todo) - 1 : todo[i].hi = todo[i + 1].lo
    /\ todo # <<>> => todo[1].lo = rows /\ todo[Len(todo)].hi = taken
    /\ todo = <<>> => rows = taken
    /\ pc \in {"begin", "scan", "finish"} => todo = <<>>
    /\ pc = "begin" => upto = <<>>
    /\ pc \in {"rest", "finish"} => taken = Len(upto)

\* The frames so far, and how the counters follow them.
FramesFollow ==
    /\ pc = "begin" => frames = <<>> /\ next_seq = 1
    /\ pc \in Streaming =>
          frames # <<>> /\ next_seq = Len(frames) /\ frames[Len(frames)].hi = rows
    /\ pc # "done" => \A i \in 1 .. Len(frames) :
          frames[i].kind = IF i = 1 THEN "begin" ELSE "chunk"
    /\ \A i \in 1 .. Len(frames) : frames[i].lo <= frames[i].hi /\ frames[i].hi <= Len(upto)

\* While a response may go on, its bytes and the reserve are within the budget.
BudgetReserved ==
    /\ pc = "begin" => wire = 0 /\ encoded_bytes = 0
    /\ pc \in Streaming => wire = encoded_bytes
    /\ pc \in Streaming \/ (pc = "failed" /\ frames # <<>>) => wire + Reserve <= response_limit

\* Every guess of end_success has more digits than the one before.
GuessBase == encoded_bytes + EndBytes + Digits(next_seq) + Digits(rows)
GuessesGrow ==
    /\ pc \notin {"finish", "failed", "done"} => tries = 0 /\ candidate = 0
    /\ pc = "finish" =>
          /\ tries = 0 => candidate = 0
          /\ tries > 0 => candidate >= GuessBase + tries
          /\ candidate <= TotalWith(candidate)

SInv == /\ TypeOK /\ SumsGrow /\ StackCovers /\ FramesFollow /\ BudgetReserved /\ GuessesGrow
        /\ RowsInOrder /\ BudgetKept /\ WithinLimits /\ EndAccounts

---------------------------------------------------------------------------

\* Every response ends: halving, too, comes to an end.
ResponseEnds == <>(pc = "done")

\* "If not, do not send that chunk; send end with complete:false and
\* LIMIT_EXCEEDED."
LimitIsReported == cause = "limit" => code = "limit"
=============================================================================
