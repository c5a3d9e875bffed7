------------------------------ MODULE QueryEngine ------------------------------
(***************************************************************************)
(* One query over one opened waveform: the selected change stream over a   *)
(* VCD body (src/query/stream.rs), the row iterator above it               *)
(* (src/query/extract.rs), the FST callback scan (src/opened/fst.rs), and  *)
(* the three consumers extract, find and toggles (src/query/ops.rs,        *)
(* src/opened/waveform.rs); and the older TimeValueIter of src/lib.rs,     *)
(* which has the same rows to deliver without limits or checks.            *)
(*                                                                         *)
(* The body of the file is drawn one command at a time while the scan      *)
(* reads it, so file is at once the input and the history of the scan.     *)
(* Another thread may cancel the query and another process may replace the *)
(* source between any two steps.                                           *)
(***************************************************************************)
EXTENDS Integers, FiniteSets, SequencesExt, TLC

CONSTANTS
    Catalog,        \* [name |-> [id, size, bytes]], the signals of the file
    Commands,       \* [op |-> the body commands the parser may return, "bad" included]
    Queries,        \* the queries asked; body bounds the body drawn for one
    CheckInterval,  \* COMMAND_CHECK_INTERVAL
    MaxVector       \* longest vector that becomes an integer

\* An Option is the set of at most one value.
None == {}
ASSUME LimitsAssumption == CheckInterval \in Nat \ {0}

\* Times are natural numbers, and so are limits, where there is one.
ASSUME CommandsAssumption ==
    \A query \in Queries : \A command \in Commands[query.op] :
        command.kind = "time" => command.time \in Nat

IsOption(limit) == limit \subseteq Nat /\ \A x, y \in limit : x = y

\* Every query says what is asked of which reader.
ASSUME QueriesAssumption ==
    \A query \in Queries :
        /\ {"op", "backend", "targets", "window", "max_rows", "max_bytes", "max_commands",
            "occurrence"} \subseteq DOMAIN query
        /\ query.targets \in Seq(Range(query.targets))
        /\ \A limit \in {query.window.start, query.window.end, query.max_rows,
                         query.max_bytes, query.max_commands} : IsOption(limit)
        /\ query.occurrence \in Nat

VARIABLES
    q,          \* the query: op, backend, targets, window, limits, argument
    file,       \* the commands read so far
    time,       \* current_time
    pending,    \* events of the last change not yet delivered
    rows,       \* events delivered to the consumer
    bytes,      \* logical bytes delivered
    last,       \* the consumer's last formatted value of every target
    counts,     \* the consumer's toggle counts
    found,      \* the event a find has found
    phase,      \* where the query is
    result,     \* "ok" or the error that ended it
    cancelled,  \* the context is cancelled or past its deadline
    changed,    \* the source no longer is the opened generation
    late,       \* observation: commands read since cancelled
    mixed       \* observation: a command was read after the source changed

vars == <<q, file, time, pending, rows, bytes, last, counts, found, phase,
          result, cancelled, changed, late, mixed>>
consumer == <<last, counts, found>>
environment == <<cancelled, changed>>

Phases == {"resolve", "admit", "scan", "finish", "validate", "recheck", "ended"}

(***************************************************************************)
(* Values.  A change carries a raw VCD or FST value; it is converted once, *)
(* and compared by its normalised or formatted text.                       *)
(***************************************************************************)
Concat(bits) == FoldLeft(LAMBDA text, bit : text \o bit, "", bits)

Binary(bits) ==
    ToString(FoldLeft(LAMBDA n, bit : 2 * n + (IF bit = "1" THEN 1 ELSE 0), 0, bits))

\* String changes may hold capitals; normalize() folds them, format does not.
Lower(bits) == [i \in DOMAIN bits |-> IF bits[i] = "X" THEN "x" ELSE bits[i]]

Text(bits) == [kind |-> "text", text |-> Concat(bits), normal |-> Concat(Lower(bits)),
               bytes |-> Len(bits)]
Number(bits) == [kind |-> "int", text |-> Binary(bits), normal |-> Binary(bits),
                 bytes |-> 16]

Known(bits) == Range(bits) \subseteq {"0", "1"} /\ Len(bits) <= MaxVector

vector_to_change_value(bits) == IF Known(bits) THEN Number(bits) ELSE Text(bits)

\* The FST reader hands every non-real value over as characters.
fst_value(raw) ==
    IF raw.kind # "string" /\ Len(raw.bits) > 1 /\ Known(raw.bits)
    THEN Number(raw.bits)
    ELSE Text(raw.bits)

\* A real is charged eight bytes, whatever its text; its text names its value.
Convert(backend, raw) ==
    IF raw.kind = "real" THEN [Text(raw.bits) EXCEPT !.bytes = 8]
    ELSE IF backend = "fst" THEN fst_value(raw)
    ELSE IF raw.kind = "vector" THEN vector_to_change_value(raw.bits)
    ELSE Text(raw.bits)

format_value_for_signal(value, size) ==
    [hex |-> size > 1 /\ value.kind = "int", text |-> value.text]

\* The text find compares with, from a target typed in hex, decimal or letters.
parse_target_value(target) ==
    IF target.base = "text" THEN target.text ELSE ToString(target.n)

EmptyText == [hex |-> FALSE, text |-> ""]

logical_event_bytes(name, value) == Catalog[name].bytes + 8 + value.bytes

(***************************************************************************)
(* Selection, window, limits.                                              *)
(***************************************************************************)
\* Mutant: the start of the window is left out.
containsAfterStart(window, t) ==
    /\ \A start \in window.start : t > start
    /\ \A end \in window.end : t <= end

contains(window, t) ==
    /\ \A start \in window.start : t >= start
    /\ \A end \in window.end : t <= end

PastEnd(window, t) == \E end \in window.end : t > end

EmptyWindow(window) == \E start \in window.start, end \in window.end : start > end

\* Mutant: a limit is a result too many.
Reaches(actual, limit) == \E max \in limit : actual >= max

Exceeds(actual, limit) == \E max \in limit : actual > max

Missing == {n \in Range(q.targets) : n \notin DOMAIN Catalog}

\* Targets bound to an identifier, in request order; a repeated request and an
\* alias are bindings of their own.
Bindings(id) ==
    FlattenSeq([j \in DOMAIN q.targets |->
        IF Catalog[q.targets[j]].id = id THEN <<q.targets[j]>> ELSE <<>>])

Selected(command) == command.kind = "change" /\ Bindings(command.id) # <<>>

Events(command, t) ==
    [i \in 1..Len(Bindings(command.id)) |->
        [signal |-> Bindings(command.id)[i], time |-> t,
         value |-> Convert(q.backend, command.raw)]]

--------------------------------------------------------------------------------
Init ==
    /\ q \in Queries
    /\ file = <<>>
    /\ time = 0
    /\ pending = <<>>
    /\ rows = <<>>
    /\ bytes = 0
    /\ last = [n \in Range(q.targets) |-> EmptyText]
    /\ counts = [n \in Range(q.targets) |-> 0]
    /\ found = None
    /\ phase = "resolve"
    /\ result = "none"
    /\ cancelled = FALSE
    /\ changed = FALSE
    /\ late = 0
    /\ mixed = FALSE

End(outcome) == phase' = "ended" /\ result' = outcome
Continue(next) == phase' = next /\ UNCHANGED result

Untouched == UNCHANGED <<q, file, time, pending, rows, bytes, consumer,
                         environment, late, mixed>>

\* context.check() of a query that has a context.
Stopped == cancelled /\ q.backend # "legacy"

\* Signal budget and target resolution, before any of the body is read.  An
\* FST query with an empty window is answered before its targets are looked at.
Resolve ==
    /\ phase = "resolve"
    /\ IF q.op = "find" /\ q.occurrence = 0 THEN End("occurrence")
       ELSE IF q.op = "find" /\ q.backend = "fst" /\ Missing # {} THEN End("missing")
       ELSE IF Stopped THEN End("cancelled")
       ELSE IF q.op = "find" /\ Missing # {} THEN End("missing")
       ELSE IF Exceeds(Len(q.targets), q.max_signals) THEN End("signals")
       ELSE IF q.backend = "fst" /\ EmptyWindow(q.window) THEN End("ok")
       ELSE IF Missing # {} THEN End("missing")
       ELSE Continue("admit")
    /\ Untouched

\* The check before admission, and the validation that admits a body reader.
Admit ==
    /\ phase = "admit"
    /\ IF Stopped THEN End("cancelled")
       ELSE IF changed /\ q.backend # "legacy" THEN End("stale")
       ELSE Continue("scan")
    /\ Untouched

\* A body the reader may find: an FST reader returns changes in time order.
Readable(command) ==
    q.backend = "fst" =>
        /\ command.kind # "other"
        /\ command.kind = "time" => command.time >= time

\* The command loses its data to an error: nothing is queued.
Drop == UNCHANGED pending

Record(command) ==
    /\ file' = Append(file, command)
    /\ late' = IF cancelled THEN late + 1 ELSE late
    /\ mixed' = (mixed \/ changed)
    /\ time' = IF command.kind = "time" THEN command.time ELSE time

\* One iteration of TimeValueIter::next.
ParseLegacy(command) ==
    /\ q.backend = "legacy"
    /\ IF command.kind = "bad" THEN End("parse") /\ Drop
       ELSE IF command.kind = "time" /\ PastEnd(q.window, command.time)
            THEN End("ok") /\ Drop
       ELSE IF Selected(command) /\ contains(q.window, time)
            THEN pending' = Events(command, time) /\ Continue("scan")
       ELSE Continue("scan") /\ Drop

\* Mutant: only timestamps are checkpoints.
TimestampOnly(command) == command.kind = "time"

Checkpoint(command) == Len(file') % CheckInterval = 0 \/ command.kind = "time"

\* One iteration of SelectedChangeStream::next.  The periodic and timestamp
\* checks come before the command budget, the budget before a parse error.
ParseVcd(command) ==
    /\ q.backend = "vcd"
    /\ IF cancelled /\ Checkpoint(command)
       THEN End("cancelled") /\ Drop
       ELSE IF Exceeds(Len(file'), q.max_commands) THEN End("commands") /\ Drop
       ELSE IF command.kind = "bad" THEN End("parse") /\ Drop
       ELSE IF command.kind = "time" /\ PastEnd(q.window, command.time)
            THEN Continue("finish") /\ Drop
       ELSE IF Selected(command) /\ contains(q.window, time)
            THEN IF cancelled THEN End("cancelled") /\ Drop
                 ELSE pending' = Events(command, time) /\ Continue("scan")
       ELSE Continue("scan") /\ Drop

\* Work the command budget of an FST query is charged for.
Callbacks(commands) == Cardinality({i \in DOMAIN commands : Selected(commands[i])})

\* One callback of FstReader::read_signals: the context is polled for every
\* selected change, also for those the reader delivers outside the window.
CallbackFst(command) ==
    /\ q.backend = "fst"
    /\ IF command.kind = "bad" THEN End("parse") /\ Drop
       ELSE IF ~Selected(command) THEN Continue("scan") /\ Drop
       ELSE IF cancelled THEN End("cancelled") /\ Drop
       ELSE IF Exceeds(Callbacks(file'), q.max_commands)
            THEN End("commands") /\ Drop
       ELSE IF ~contains(q.window, time) THEN Continue("scan") /\ Drop
       ELSE pending' = Events(command, time) /\ Continue("scan")

Parse ==
    /\ phase = "scan" /\ pending = <<>>
    /\ Len(file) < q.body
    /\ \E command \in Commands[q.op] :
        /\ Readable(command)
        /\ Record(command)
        /\ ParseVcd(command) \/ CallbackFst(command) \/ ParseLegacy(command)
    /\ UNCHANGED <<q, rows, bytes, consumer, environment>>

EndOfBody ==
    /\ phase = "scan" /\ pending = <<>>
    /\ IF q.backend = "legacy" THEN End("ok") ELSE Continue("finish")
    /\ Untouched

Matches(event) == event.value.normal = parse_target_value(q.target)

\* The delivered events that count for a find.
Hits(events) == {i \in DOMAIN events : Matches(events[i])}

\* What the consumer does with a delivered event.
ConsumeFind(event) ==
    /\ q.op = "find"
    /\ UNCHANGED <<last, counts>>
    /\ IF Matches(event) /\ Cardinality(Hits(rows')) = q.occurrence
       THEN found' = {event} /\ pending' = <<>> /\ Continue("finish")
       ELSE pending' = Tail(pending) /\ Continue("scan") /\ UNCHANGED found

\* Mutant: the last value is remembered only when it counts.
TogglesFromFirst(event) ==
    LET text == format_value_for_signal(event.value, Catalog[event.signal].size)
        seen == last[event.signal] # EmptyText
    IN  /\ counts' = IF seen /\ last[event.signal] # text
                     THEN [counts EXCEPT ![event.signal] = @ + 1] ELSE counts
        /\ last' = IF seen THEN last ELSE [last EXCEPT ![event.signal] = text]

\* The VCD consumer takes an empty formatted text for "no value yet".
Toggles(event) ==
    LET text == format_value_for_signal(event.value, Catalog[event.signal].size)
        seen == IF q.backend = "vcd" THEN last[event.signal] # EmptyText
                ELSE \E i \in DOMAIN rows : rows[i].signal = event.signal
    IN  /\ counts' = IF seen /\ last[event.signal] # text
                     THEN [counts EXCEPT ![event.signal] = @ + 1] ELSE counts
        /\ last' = [last EXCEPT ![event.signal] = text]

Consume(event) ==
    \/ ConsumeFind(event)
    \/ /\ q.op # "find"
       /\ pending' = Tail(pending) /\ Continue("scan") /\ UNCHANGED found
       /\ IF q.op = "toggles" THEN Toggles(event) ELSE UNCHANGED <<last, counts>>

Delivered == <<rows, bytes, consumer>>

\* Mutant: the error does not end the iteration.
RefuseRetries(outcome) == Continue("scan") /\ UNCHANGED <<pending, Delivered>>

Refuse(outcome) == End(outcome) /\ pending' = <<>> /\ UNCHANGED Delivered

\* emit_pending: context (VCD only), row budget, byte budget, delivery.
Emit ==
    /\ phase = "scan" /\ pending # <<>>
    /\ LET event == Head(pending)
           size == bytes + logical_event_bytes(event.signal, event.value)
       IN  IF q.backend = "vcd" /\ cancelled THEN Refuse("cancelled")
           ELSE IF Exceeds(Len(rows) + 1, q.max_rows) THEN Refuse("rows")
           ELSE IF Exceeds(size, q.max_bytes) THEN Refuse("bytes")
           ELSE /\ rows' = Append(rows, event)
                /\ bytes' = size
                /\ Consume(event)
    /\ UNCHANGED <<q, file, time, environment, late, mixed>>

\* Completion: check, validate the generation, and for a VCD check again.
Finish ==
    /\ phase = "finish"
    /\ IF cancelled THEN End("cancelled") ELSE Continue("validate")
    /\ Untouched

\* Mutant: an exhausted scan is not validated.
ValidateFound ==
    /\ phase = "validate"
    /\ IF changed /\ found # None THEN End("stale")
       ELSE IF q.backend = "vcd" THEN Continue("recheck") ELSE End("ok")
    /\ Untouched

Validate ==
    /\ phase = "validate"
    /\ IF changed THEN End("stale")
       ELSE IF q.backend = "vcd" THEN Continue("recheck") ELSE End("ok")
    /\ Untouched

Recheck ==
    /\ phase = "recheck"
    /\ End(IF cancelled THEN "cancelled" ELSE "ok")
    /\ Untouched

Cancel ==
    /\ phase # "ended" /\ ~cancelled
    /\ cancelled' = TRUE
    /\ UNCHANGED <<q, file, time, pending, rows, bytes, consumer, phase, result,
                   changed, late, mixed>>

ReplaceSource ==
    /\ phase # "ended" /\ ~changed
    /\ changed' = TRUE
    /\ UNCHANGED <<q, file, time, pending, rows, bytes, consumer, phase, result,
                   cancelled, late, mixed>>

Step == Resolve \/ Admit \/ Parse \/ EndOfBody \/ Emit \/ Finish \/ Validate \/ Recheck

--------------------------------------------------------------------------------
(***************************************************************************)
(* What a query means, read off the whole body at once.                    *)
(***************************************************************************)
TimeAt(i) ==
    LET stamps == {k \in 1..i : file[k].kind = "time"}
    IN  IF stamps = {} THEN 0 ELSE file[Max(stamps)].time

InWindow(t) ==
    /\ ~PastEnd(q.window, t)
    /\ q.window.start \subseteq 0..t

\* The first timestamp after the end of the window ends the body: what a
\* decreasing timestamp brings back into the window is not read.
BeforeEnd(i) ==
    \A k \in 1..i : file[k].kind = "time" => ~PastEnd(q.window, file[k].time)

Row(j, i) == [signal |-> q.targets[j], time |-> TimeAt(i),
              value |-> Convert(q.backend, file[i].raw)]

ExpectedAt(i) ==
    IF file[i].kind = "change" /\ BeforeEnd(i) /\ InWindow(TimeAt(i))
    THEN FlattenSeq([j \in DOMAIN q.targets |->
            IF Catalog[q.targets[j]].id = file[i].id THEN <<Row(j, i)>> ELSE <<>>])
    ELSE <<>>

Expected == FlattenSeq([i \in DOMAIN file |-> ExpectedAt(i)])

\* Events of a name with another text than the one before.
TogglesIn(events, n) ==
    LET own == {i \in DOMAIN events : events[i].signal = n}
        text(i) == format_value_for_signal(events[i].value, Catalog[n].size)
        Before(i) == {j \in own : j < i /\ \A m \in own : m <= j \/ m >= i}
    IN  Cardinality({i \in own : \E j \in Before(i) :
            /\ text(i) # text(j)
            /\ q.backend = "vcd" => text(j) # EmptyText})

BytesOf(events) ==
    LET sum[i \in 0..Len(events)] ==
            IF i = 0 THEN 0
            ELSE sum[i - 1] + logical_event_bytes(events[i].signal, events[i].value)
    IN  sum[Len(events)]

Resolved == phase \notin {"resolve", "admit"} /\ result \notin {"missing", "signals"}
                /\ Missing = {}

(***************************************************************************)
(* Properties.                                                             *)
(***************************************************************************)
\* The rows delivered are, in order and without gap, the events of the window
\* bound to the request's names; when extract or toggles succeed they are all
\* of them.  (stream.rs next, extract.rs next, fst.rs visit_changes)
RowsExact ==
    Resolved => /\ IsPrefix(rows, Expected)
                /\ result = "ok" /\ q.op # "find" => rows = Expected

\* A successful find names the n-th matching event of the body or none when
\* there are fewer; a successful toggle count is the number of changes of the
\* formatted value, whichever backend and however the scan was cut.
AnswerExact ==
    result = "ok" /\ Missing = {} =>
        CASE q.op = "find" ->
                found = {Expected[i] : i \in {h \in Hits(Expected) :
                            Cardinality(Hits(SubSeq(Expected, 1, h))) = q.occurrence}}
          [] q.op = "toggles" -> \A n \in Range(q.targets) : counts[n] = TogglesIn(Expected, n)
          [] OTHER -> found = None

\* A budget never cuts a result that fits it and never lets one through that
\* does not: the error comes with exactly the budget used up.
LimitsExact ==
    Resolved =>
        /\ ~Exceeds(Len(rows), q.max_rows)
        /\ ~Exceeds(BytesOf(rows), q.max_bytes)
        /\ result = "rows" => q.max_rows = {Len(rows)} /\ Len(Expected) > Len(rows)
        /\ result = "bytes" =>
            Exceeds(BytesOf(SubSeq(Expected, 1, Len(rows) + 1)), q.max_bytes)
        /\ result = "commands" =>
            q.max_commands =
                {(IF q.backend = "vcd" THEN Len(file) ELSE Callbacks(file)) - 1}
        /\ result = "ok" /\ q.backend = "vcd" => ~Exceeds(Len(file), q.max_commands)

\* No answer of an opened generation is published from a body part of which was
\* read after the source had stopped being the opened generation.
NoMixedAnswer == result = "ok" /\ q.backend # "legacy" => ~mixed

\* After a cancellation a VCD scan reads at most one check interval of the
\* body, and does not publish a success it has not rechecked.
StopIsPrompt ==
    q.backend = "vcd" => late <= CheckInterval /\ (result = "ok" /\ q.op # "compare" => ~cancelled)
================================================================================
