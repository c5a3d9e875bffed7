------------------------------ MODULE RequestLines ------------------------------
(***************************************************************************)
(* From a stream of bytes, read in pieces of any size, to the requests a   *)
(* connection admits (JsonLineAccumulator in server/protocol.rs and the    *)
(* reader's loop in server/runtime.rs), and the limits they run under.     *)
(*                                                                         *)
(* A line of one character c is the document input.says[c]; an empty line  *)
(* and one of several characters are no JSON document.                     *)
(***************************************************************************)
EXTENDS RequestDecode

CONSTANTS
    Inputs,      \* records of the bytes a client sends and what characters say
    Newline,
    NotUtf8,     \* a byte that makes its line no UTF-8 text
    BufferBytes, \* bound: bytes one read returns
    MaxLine,     \* request_line_bytes, the newline included
    MaxActive,   \* max_active_requests_per_connection
    MaxTimeout,  \* max_timeout_ms
    Config       \* the configured limits, by the name of their parameter

\* What the values of a document are; a text is a word or digits.
Kinds == {"garbage", "null", "boolean", "number", "text", "array", "object"}
Texts == [kind : {"text"}, text : [word : STRING, digits : Seq(0 .. 9)]]
IsDocument(doc) ==
    \A n \in 0 .. 3 : \A v \in Level(doc)[n] :
        v.kind \in Kinds /\ (v.kind = "text" => v \in Texts)

ASSUME LinesAssumption ==
    /\ \A i \in Inputs : i.bytes \in Seq(Range(i.bytes))
    /\ \A i \in Inputs : \A c \in DOMAIN i.says : IsDocument(i.says[c])
    /\ MaxLine \in Nat \ {0} /\ MaxActive \in Nat \ {0} /\ BufferBytes \in Nat \ {0}
    /\ DOMAIN Config = {"max_commands", "max_rows", "max_response_bytes"}
    /\ \A k \in DOMAIN Config : Config[k] \in 0 .. U64Max
    /\ Config["max_response_bytes"] >= Reserve

VARIABLES
    input,    \* what the client sends
    taken,    \* how many of its bytes were read
    start,    \* how many before the last read
    buffer,   \* the accumulator's bytes of an unfinished line
    frames,   \* complete lines of the last read, not yet handled
    handled,  \* history: the lines handled, each with its answer
    active,   \* the requests admitted and not finished
    served,   \* history: what the service made of a request's limits
    status    \* "open", or what ended the connection

vars == <<input, taken, start, buffer, frames, handled, active, served, status>>

Init ==
    /\ input \in Inputs
    /\ taken = 0 /\ start = 0 /\ buffer = <<>> /\ frames = <<>>
    /\ handled = <<>> /\ active = {} /\ served = {}
    /\ status = "open"

--------------------------------------------------------------------------------
\* A bug: room is left for one byte more than the line may have.
PushByteLate(acc, byte) ==
    IF acc.failed THEN acc
    ELSE IF byte = Newline
         THEN [acc EXCEPT !.failed = NotUtf8 \in Range(acc.buffer),
                          !.buffer = <<>>,
                          !.frames = Append(@, acc.buffer)]
         ELSE IF Len(acc.buffer) > MaxLine - 1
              THEN [acc EXCEPT !.failed = TRUE, !.buffer = <<>>]
              ELSE [acc EXCEPT !.buffer = Append(@, byte)]

\* One byte of push: a newline completes the line, if it fits and is UTF-8;
\* an error poisons the accumulator.
PushByte(acc, byte) ==
    IF acc.failed THEN acc
    ELSE IF byte = Newline
         THEN [acc EXCEPT !.failed = Len(acc.buffer) + 1 > MaxLine
                                        \/ NotUtf8 \in Range(acc.buffer),
                          !.buffer = <<>>,
                          !.frames = Append(@, acc.buffer)]
         ELSE IF Len(acc.buffer) >= MaxLine - 1
              THEN [acc EXCEPT !.failed = TRUE, !.buffer = <<>>]
              ELSE [acc EXCEPT !.buffer = Append(@, byte)]

\* push: what n more bytes make of the accumulator.
Pushed(n) ==
    LET pushed[i \in 0 .. n] ==
            IF i = 0 THEN [buffer |-> buffer, frames |-> <<>>, failed |-> FALSE]
            ELSE PushByte(pushed[i - 1], input.bytes[taken + i])
    IN  pushed[n]

\* A read gives its bytes to push, whose error takes the place of the lines
\* completed before it: the connection is told and closed.
Read(n) ==
    /\ status = "open" /\ frames = <<>>
    /\ n <= Len(input.bytes) - taken
    /\ buffer' = Pushed(n).buffer
    /\ frames' = IF Pushed(n).failed THEN <<>> ELSE Pushed(n).frames
    /\ status' = IF Pushed(n).failed THEN "misframed" ELSE "open"
    /\ taken' = taken + n /\ start' = taken
    /\ UNCHANGED <<input, handled, active, served>>

\* End of file, an error of read, or a read that times out while the server
\* shuts down or the connection is disconnected.
ReadEnds ==
    /\ status = "open" /\ frames = <<>>
    /\ status' = "ended"
    /\ UNCHANGED <<input, taken, start, buffer, frames, handled, active, served>>

Document(line) ==
    IF Len(line) = 1 /\ line[1] \in DOMAIN input.says THEN input.says[line[1]] ELSE Garbage

Answered(code) ==
    /\ handled' = Append(handled, [line |-> Head(frames), code |-> code])
    /\ frames' = Tail(frames)

\* An error of decoding, an ID in use or one request too many ends the
\* connection, and the lines after it are dropped.
Refuse(code) ==
    /\ Answered(code)
    /\ status' = "refused"
    /\ UNCHANGED <<input, taken, start, buffer, active, served>>

\* send_encoded_control finds room for an answer that ends nothing else, or gives up
\* on a full queue: then the connection ends, and the lines after it are dropped.
Control(code) ==
    /\ Answered(code)
    /\ status' \in {"open", "unheard"}
    /\ UNCHANGED <<input, taken, start, buffer, active, served>>

Admit(request) ==
    /\ Answered("ok")
    /\ active' = active \cup {request}
    /\ UNCHANGED <<input, taken, start, buffer, served, status>>

\* A bug: an ID in use is no reason to refuse.
HandleLineAnyId ==
    /\ status = "open" /\ frames # <<>>
    /\ LET request == DecodeRequest(Document(Head(frames)))
       IN  IF request.code # "ok" THEN Refuse(request.code)
           ELSE IF request.method = "cancel" THEN Control("cancel")
           ELSE IF ~TimeoutAllowed(request, MaxTimeout) THEN Control("late")
           ELSE IF Cardinality(active) >= MaxActive THEN Refuse("LIMIT_EXCEEDED")
           ELSE Admit(request) \/ Control("QUEUE_FULL")

\* A request is admitted, unless the scheduler's queue is full: then it is
\* registered, removed and answered.
HandleLine ==
    /\ status = "open" /\ frames # <<>>
    /\ LET request == DecodeRequest(Document(Head(frames)))
       IN  IF request.code # "ok" THEN Refuse(request.code)
           ELSE IF \E r \in active : r.id = request.id
                THEN Refuse("DUPLICATE_REQUEST_ID")
           ELSE IF request.method = "cancel" THEN Control("cancel")
           ELSE IF ~TimeoutAllowed(request, MaxTimeout) THEN Control("late")
           ELSE IF Cardinality(active) >= MaxActive THEN Refuse("LIMIT_EXCEEDED")
           ELSE Admit(request) \/ Control("QUEUE_FULL")

\* The request was stopped before the service saw it.
Drop(request) ==
    /\ active' = active \ {request}
    /\ UNCHANGED <<input, taken, start, buffer, frames, handled, served, status>>

\* A worker gives the request to the service, which fixes its limits.
Serve(request) ==
    /\ served' = IF request.method \in {"ping", "describe"} THEN served
                 ELSE served \cup {[request |-> request,
                                    answer |-> QueryLimits(request, Config)]}
    /\ active' = active \ {request}
    /\ UNCHANGED <<input, taken, start, buffer, frames, handled, status>>

Next ==
    \/ \E n \in 1 .. BufferBytes : Read(n)
    \/ ReadEnds
    \/ HandleLine
    \/ \E request \in active : Drop(request) \/ Serve(request)

Spec == Init /\ [][Next]_vars

--------------------------------------------------------------------------------
(***************************************************************************)
(* The protocol's side: lines of a stream, and for every method its        *)
(* parameters, their types, and those it cannot do without.                *)
(***************************************************************************)

\* What k bytes of a stream s hold.
Newlines(s, k) == {i \in 1 .. k : s[i] = Newline}
LastOf(s, k) == IF Newlines(s, k) = {} THEN 0 ELSE Max(Newlines(s, k))
Rest(s, k) == SubSeq(s, LastOf(s, k) + 1, k)

\* The line that ends with the j-th newline.
LinesOf(s, k) ==
    [j \in 1 .. Cardinality(Newlines(s, k)) |->
        Rest(s, (CHOOSE i \in Newlines(s, k) : Cardinality(Newlines(s, i)) = j) - 1)]

Misframed(s, k) ==
    \/ Len(Rest(s, k)) >= MaxLine
    \/ \E line \in Range(LinesOf(s, k)) : Len(line) >= MaxLine \/ NotUtf8 \in Range(line)

Parameters ==
    LET bounded == Window \cup {"timeout_ms", "max_commands", "max_response_bytes"}
    IN  [ping |-> {}, describe |-> {},
         list |-> {"filter", "max_rows", "max_response_bytes", "timeout_ms"},
         metadata |-> {"timeout_ms", "max_commands"},
         extract |-> bounded \cup {"signals", "max_rows"},
         find |-> bounded \cup {"signal", "value", "occurrence"},
         toggles |-> bounded \cup {"signals"},
         cancel |-> {"request_id"}]
Needed == {"signals", "signal", "value", "request_id"}
TypeOf(k) ==
    CASE k = "signals" -> "names"
      [] k = "signal" -> "name"
      [] k \in {"filter", "value"} -> "text"
      [] k = "request_id" -> "id"
      [] OTHER -> "u64"

DigitsOf[n \in Nat] == IF n < 10 THEN <<n>> ELSE Append(DigitsOf[n \div 10], n % 10)

IsName(v) == IsText(v) /\ v.text # Empty
HasType(v, type) ==
    CASE type = "names" -> v.kind = "array" /\ v.items # <<>> /\ \A x \in Range(v.items) : IsName(x)
      [] type = "u64" -> IsText(v) /\ \E n \in 0 .. U64Max : v.text = Digits(DigitsOf[n])
      [] type = "text" -> IsText(v)
      [] type = "name" -> IsName(v)
      [] type = "id" -> IsName(v) /\ v.text.word \notin LongIds

Envelope(doc) ==
    /\ Strict(doc) /\ doc.kind = "object" /\ {"v", "id", "method", "params"} \subseteq Keys(doc)
    /\ Version(doc) = Number(1) /\ HasType(Take(doc, "id"), "id")
    /\ IsText(Take(doc, "method")) /\ Params(doc).kind = "object"

Typed(doc) ==
    LET p == Params(doc)
        known == Parameters[MethodOf(doc)]
    IN  /\ MethodOf(doc) \in DOMAIN Parameters
        /\ Keys(p) \subseteq known /\ Needed \cap known \subseteq Keys(p)
        /\ \A k \in Keys(p) : HasType(Take(p, k), TypeOf(k))

Occurs(doc) == Take(Params(doc), "occurrence") # Text(Digits(<<0>>))
Ordered(doc) ==
    LET at == Given(Params(doc), Window) IN DOMAIN at = Window => at["start"] <= at["end"]
Roomy(doc) == \A n \in Range(Given(Params(doc), {"max_response_bytes"})) : n >= Reserve

\* The answers that the reader gives itself, and reads on.
Replies == {"cancel", "late", "QUEUE_FULL"}

\* The error a client is told is the one its line deserves.
Deserved(doc, code) ==
    /\ code = "UNSUPPORTED_VERSION" <=>
           /\ Strict(doc) /\ doc.kind = "object"
           /\ Version(doc).kind = "number" /\ Version(doc) # Number(1)
    /\ code = "UNKNOWN_METHOD" <=> Envelope(doc) /\ MethodOf(doc) \notin DOMAIN Parameters
    /\ code = "INVALID_OCCURRENCE" => Envelope(doc) /\ MethodOf(doc) = "find" /\ ~Occurs(doc)
    /\ code = "INVALID_WINDOW" <=> Envelope(doc) /\ Typed(doc) /\ Occurs(doc) /\ ~Ordered(doc)
    /\ code \in Replies \cup {"ok", "DUPLICATE_REQUEST_ID", "LIMIT_EXCEEDED"} <=>
           Envelope(doc) /\ Typed(doc) /\ Occurs(doc) /\ Ordered(doc) /\ Roomy(doc)

--------------------------------------------------------------------------------
\* However the stream is cut into reads, the lines handled are its lines, in
\* order, once each.  A read loses lines in two ways only: all it completed, if one
\* is too long or no UTF-8 text, and those behind a line that is refused or whose
\* reply finds no room.
LinesInOrder ==
    LET lines == [i \in DOMAIN handled |-> handled[i].line]
        bytes == input.bytes
    IN  /\ Misframed(bytes, taken) <=> status = "misframed"
        /\ status = "open" => lines \o frames = LinesOf(bytes, taken) /\ buffer = Rest(bytes, taken)
        /\ status = "ended" => lines = LinesOf(bytes, taken)
        /\ status = "misframed" => lines = LinesOf(bytes, start)
        /\ status \in {"refused", "unheard"} =>
               IsPrefix(lines, LinesOf(bytes, taken)) /\ Len(lines) > Len(LinesOf(bytes, start))
        /\ status = "unheard" => handled[Len(handled)].code \in Replies
        /\ \A i \in DOMAIN handled :
               status = "refused" /\ i = Len(handled)
                   <=> handled[i].code \notin Replies \cup {"ok"}

\* A line is admitted exactly if the protocol allows it and refused for what is
\* wrong with it; no two requests at work share an ID; and what the service runs
\* was asked for, never exceeds what is configured, and keeps the reserve.
RequestsConform ==
    /\ \A i \in DOMAIN handled : Deserved(Document(handled[i].line), handled[i].code)
    /\ \A r, s \in active : r.id = s.id => r = s
    /\ Cardinality(active) <= MaxActive
    /\ \A s \in served :
           LET asked == s.request.given IN
           /\ "timeout_ms" \in DOMAIN asked => asked["timeout_ms"] <= MaxTimeout
           /\ s.answer.code = "ok" <=>
                  \A k \in DOMAIN Config \cap DOMAIN asked : asked[k] <= Config[k]
           /\ s.answer.code = "ok" =>
                  /\ \A k \in DOMAIN Config : s.answer.limits[k] <= Config[k]
                  /\ \A k \in DOMAIN Config \cap DOMAIN asked : s.answer.limits[k] = asked[k]
                  /\ s.answer.limits["max_response_bytes"] >= Reserve
================================================================================
