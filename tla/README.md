# A TLA+ model of vcd_tools_rs

vcd_tools_rs opens VCD and FST waveform files and answers queries about them:
from a library, a command line, Python, and a query server on a Unix socket.
This directory holds TLA+ modules translated from the source, the TLC
configurations that check them on small instances, and proofs that TLAPS checks.

Paths below are relative to the repository (`src/...` is the crate's source,
listed as `src/src/...` in `PROJECT.json`).

## 1. Inventory

| Part | Source | State it keeps | Operations |
|---|---|---|---|
| Metadata cache | `src/opened/mod.rs` | a phase (Absent, Building, Ready, Failed), the next attempt identifier, the count of waiters; one mutex, one condition variable | `metadata`, `metadata_with_context`, `retry_metadata`; dropping a waiter registration; dropping a build guard |
| Connection runtime | `src/server/runtime.rs` | per connection: the registry of active requests, the `disconnected` flag, the bounded output queue; shared: the job queue, the workers | read a line, refuse, cancel, register and submit, write a frame, run a job, finish it, tear down |
| Scan gate | `src/server/runtime.rs`, used by `src/server/service.rs` | one flag and a condition variable | acquire with a deadline, drop of the guard |
| Server assembly | `src/server/app.rs` | the shutdown flag, the connection threads, the connection limiter | accept, reject, reap, shut down |
| Query service | `src/server/service.rs` | the current generation of the file; per response: rows, bytes and sequence number sent | dispatch of every method, chunking and splitting, budgets |
| Wire protocol | `src/server/protocol.rs` | the line accumulator's partial line | split lines, decode requests, encode frames, the self-referential size of an end frame |
| Socket listener | `src/server/listener.rs` | the socket file in the file system | bind, detect a stale socket, remove, clean up |
| Source identity | `src/opened/identity.rs` | length, times, inode and samples of the opened file | capture, validate |
| Query context | `src/query/mod.rs` | a cancellation flag, a deadline, limits | cancel, check |
| Query engine | `src/query/{stream,extract,ops}.rs`, `src/opened/waveform.rs` | current time, dump state, selected identifiers | stream events, extract, find, count toggles |
| Compare | `src/query/compare.rs` | two cursors and the current values | merge of two streams |
| Parser, legacy iterators | `src/lib.rs`, `src/header.rs` | reader position | header, time/value iteration |
| Formats, FST | `src/waveform.rs`, `src/opened/fst.rs` | immutable after open | detect, open with limits, read blocks |
| Catalog | `src/catalog.rs` | immutable after construction | lookups, aliases |
| Front ends | `src/main.rs`, `src/python.rs`, `src/bin/vcd2trace.rs` | none | arguments, formatting, glue |

How the parts interact.  A client writes lines to a socket.  The connection's
**reader** thread splits and decodes them, answers control requests itself and
registers and queues the others.  A **worker** takes a job, calls the service
(the `Dispatcher`), and sends frames through an `OutputSink` to the connection's
output queue; the **writer** thread moves frames from that queue to the socket.
The service obtains the current generation, takes the **scan gate** for
expensive scans, and for metadata goes through the **metadata cache**, which
the library's own callers share.  Cancellation, disconnect and deadlines are
flags and clocks that all of these poll.

Hard behaviours: retries that race waiters of a failed attempt; cancelled and
panicking builders; the registry that the reader fills and the workers empty;
one output queue with two kinds of producers; teardown, where reader, writer and
workers each wait for another; a client that stops reading; half-closed
sockets; the permit of the gate held across a send; a file that other programs rewrite
or replace while it is read; servers that start, stop or crash on one socket path;
a query that is cancelled while it holds changes it has not delivered.
`PROJECT.json` lists the hazards at their lines with the properties that cover them.

What makes each part correct:

- metadata cache: one scan at a time, exact waiter counts, nobody stranded,
  retries that are fresh, waiters that see the attempt they waited for;
- connection runtime: the registry is exactly the queued and running jobs,
  every client sees a legal prefix of one response per request, a stopped request
  passes no check any more (it sends at most the frame already past them and its
  error terminal), every job and every connection ends;
- scan gate: mutual exclusion, no leaked permit, no waiter held for ever;
- service and protocol: budgets that leave room for the end frame, sizes that
  reach their fixed point, decoding that does not depend on chunking;
- generations: an answer is one content of the file that the path led to, and a
  generation is replaced once per change;
- listener and assembly: a live server keeps its path, and a server that was told
  to stop ends and leaves nothing behind;
- query engine and compare: every answer equals a reference definition over the
  file's event list, whatever the limits, windows and checkpoints.

## 2. Plan

| Part | Modules | State |
|---|---|---|
| Metadata cache | `SingleFlight`, `MetadataCache`, `MCMetadataCache`; proofs `MetadataCacheProofs` | checked and proved |
| Connection runtime | `ServerRuntime`, `MCServerRuntime`; proofs `ServerRuntimeProofs`, `SequenceLemmas` | checked and proved |
| Scan gate | `ScanGate`, `MCScanGate`; proofs in `ServerRuntimeProofs` | checked and proved |
| Answers of the service | `StreamOutput`, `MCStreamOutput`, `StreamOutputProofs` | checked and proved |
| Query engine, compare | `QueryEngine`, `Compare` (which extends it), `MCQueryEngine`; proofs `CompareProofs`, `SequenceLemmas` | checked and proved |
| Source identity, generations | `Generations`, `MCGenerations`, `GenerationsProofs` | checked and proved |
| Listener and assembly | `ServerLifecycle`, `MCServerLifecycle`, `ServerLifecycleProofs` | checked and proved |
| Framing and decoding | `RequestDecode`, `RequestLines` (which extends it), `MCRequestLines`; proofs `RequestLinesProofs`, `SequenceLemmas` | checked and proved |

`SingleFlight` is the abstract specification that `MetadataCache` implements; the
reference definitions of `QueryEngine`, `Compare` and `RequestLines` (what a body,
two timelines, or a stream of bytes mean, read at once) play that part for the
sequential components.

What is left: the bounds of error details and the encoding of values in
`protocol.rs`, and the missing-signal answers of the service.

Not planned: the front ends, lexing of header text, FST decoding (a vendored
reader), the catalog beyond aliases.

## 3. Modules

### MetadataCache and SingleFlight

`MetadataCache` is `MetadataCache` of `opened/mod.rs`, critical section by
critical section.  A thread's `pc` says where it stands: `enter` (before the
first check), `loop` (about to look at the phase), `wait` (in the condition
variable), `drop` (about to drop a registration), `build` (scanning without the
lock), `notify` (between the unlock and `notify_all`), `retry`, `retry_wait`,
`settle` (about to return).  `reg` is the local `registration` or `waiting_for`,
`elected` the attempt in the build guard, `floor` a history variable for
freshness.  The scan itself is four outcomes: success, cacheable error,
transient error, panic.

`SingleFlight` is what the cache promises, without counters, identifiers or
wake-ups: one scanner, and a failure that is owed to each caller that joined.
`ImplementsSingleFlight` maps the cell to the phase, the scanner to the thread
in `build`, and the owed callers to the threads registered on the attempt; so
the integer test of `retry_failed` is shown to mean "owed to nobody".

### ServerRuntime

One action per step of the reader, the writer and a worker.  `out` is the
bounded channel of frames, `writing` the frame the writer holds, `queue` the
scheduler's channel.  A sender of a channel is dropped where the code drops it:
by the reader at `closing`, by a job when its `OutputSink` goes.  The dispatcher
is arbitrary: it may send any frame, stop after an error, fail, panic or return
early; frames that `validate_frame` rejects have no effect and are not actions.
Requests carry serial numbers, which the code does not have, so that responses
to a reused ID can be told apart.  `disconnect()` is one action, although it
stores the flag and then cancels tokens one by one: everyone who looks at a
token also looks at the flag, or stops at either.

`send_frame` is a loop of three steps, each an action: the context (`ContextChecked`),
the flag (`FlagChecked`), `try_send` (`FrameSent`, or `FrameFull` and around again).  A
stop may fall between any two, so a frame that has passed its checks (`PastChecks`)
is queued although its request has stopped meanwhile.  `required_terminal` is the
same loop without the context: `TerminalChecked`, then `TerminalSent` or `TerminalFull`.

Merged into one step are, besides `disconnect()`:

- the two looks at the registry (`is_active` when a line is decoded, `register` under
  the lock), the insertion and `submit`: only the connection's reader inserts IDs, so one
  found free stays free until it is registered, one found in use is refused at once, and
  a job rejected by a full queue is never seen by a worker;
- the writer's look at the flag and its write: one that is under way when the flag is set could as well
  have ended before;
- the last `Full` of `send_encoded_control` or `required_terminal` and the disconnect that
  follows: in between, nobody can tell that the sender has given up.

A client may send at any time, close its socket fully (`full`) or only its
sending half (`half`, as the tests do), or stop reading (`stall`).

### ScanGate

The gate with one request per worker, over and over.  `scan` and `chunk` hold
the guard; `chunk` is `send_frame` called from extract's visitor; `output` is
the answer after the guard is dropped.  `stalled` are the clients that do not
read.  Metadata, find and toggles are the scans that never enter `chunk`.  The gate is
part of `runtime.rs`; its names are apart from those of `ServerRuntime`, so that one
module of proofs can extend both.

### StreamOutput

One dispatcher and its response.  `pc` is `begin` (nothing sent), `scan` (in the
visitor of the query), `inner` (the visitor is in `send_rows`), `rest` (the
dispatcher is, after the scan), `finish`, `failed` and `done`.  Rows are
numbered in the order of the scan; `upto` holds the prefix sums of their encoded
sizes, so the size of a slice of the row vector is a difference, and a frame
counts for its bytes.  `todo` is the stack of the recursive calls of
`send_rows_split`: `Split` replaces the slice on top by its halves, `SendChunk`
and `ChunkFails` pop it or give up.  `candidate` and `tries` are the loop of
`end_success`; a number has one digit more at each member of `Powers`, which
stands for 10, 100, and so on.  `Stop` is cancellation, disconnect or the deadline,
between any two steps.  `frames`, `wire` and `cause` are history.

The sizes are constants, with what `RuntimeConfig::validate` and `query_context`
guarantee of them as assumptions: both limits are at least the reserve, and the
reserve holds an end frame or an error with a fixed text.  An error that quotes
a signal name (`LongErrors`) has no such bound, which is why `AnswerError` may
disconnect.  Saturating sums do not saturate: all of them are bounded by
`max_response_bytes` before they are stored.

The extract visitor of this module is the `chunk` state of `ScanGate`, and its
frames are those a dispatcher of `ServerRuntime` chooses freely.

### QueryEngine and Compare

One query over one opened waveform.  The body is drawn one command at a time
while the scan reads it, so `file` is the input and its own history: TLC sees
every body over `Commands` up to the bound of the query.  `phase` follows the code:
`resolve` (signal budget, targets), `admit` (a body reader is admitted), `scan`,
`finish`, `validate`, `recheck`, `ended`.  `pending` holds the events of one change
that are not delivered yet; one name may be bound twice, and two names to one
identifier, so that a limit or a stop can fall between them.  `ParseVcd` is one
iteration of `SelectedChangeStream::next`, `CallbackFst` one callback of the FST
reader, `ParseLegacy` one iteration of the older `TimeValueIter`; `Emit` is
`emit_pending` with its budgets, and `Consume` what extract, find and toggles do
with an event.  The order of the checks (stop, command budget, parse error,
window, row budget, byte budget) is the code's, since it decides which error a
query ends with.  `Cancel` and `ReplaceSource` may come between any two steps.

The two backends differ where the code does: VCD toggles take an empty text for
"no value yet", FST charges its command budget per selected change, answers an
empty window before it looks at names, and validates without the last recheck.

`Compare` runs the engine on one source and then on the other, and merges the two
timelines signal by signal (`Tick`).  `k`, `at`, `current` and `count` are the locals
of the two loops: the signal, the two positions, the two values, and the mismatches of
this signal.  `Never` is `u64::MAX`, the time that also stands for the end of a timeline.

The properties compare with definitions that read the whole body at once:
`Expected` (the events of the window, in order, bound to the request's names),
`TogglesIn`, `Mismatches` (every time below `Never` at which the values both sides
hold differ, `Told`, cut at the limit of a signal).  The assumptions of `QueryEngine` are the types of a request:
times and limits are natural numbers and a limit may be absent (`IsOption`).

### Generations

The slot of the server, the identities of opened files, and requests while other
programs change the source.  A file is a format, a stamp (length and modification
time) and four blocks: what the bounded samples cover, two blocks of the body they
do not, and the header.  Every operation of the code is a program, a sequence of
steps that each stand for one system call or one fingerprint on one file handle:
`ValidateVcd`, `ValidateHandle`, `OpenVcd`, `ScanFst` and so on are those
sequences, and `Program` what a request makes of them.  `WriteBlock` writes in
place, with or without a new modification time, and may put an old block back;
`Retarget` leads the path elsewhere, removes it, or puts it back.

`Tolerated` names what an answer survives.  Bounded fingerprints do not see a second
write that keeps length and modification time.  The full fingerprint of a strict
generation does, but only if no write puts an earlier value back: while the body is
read between two fingerprints, a block may be changed, read, and changed back, so four
silent writes can pair a header and a body that were never together.  `restored` marks
such a write in the history.  The FST reader opens the path once more after
validating it.

### ServerLifecycle

Processes that share a socket path.  `entry` is what the path holds; a socket is
named after the server that bound it.  Each step of `bind` is an action (look,
connect, recheck, remove, bind a temporary name, publish by hard link, unlink,
verify), so that another server may run, or a crash fall, between any two.  The
probe of a second server is a connection to the first.  `SendStop` and
`JoinWorkers` are the drop of the scheduler, whose messages go through the channel
of the jobs.

`raced` records that a file was removed that was not the one checked before: the
check and the removal are two system calls, in `remove_stale` and in
`remove_if_owned`.  `PathLeadsToServer` says that nothing else takes a live
server's path; a run without that premise shows both races.

### RequestDecode and RequestLines

`RequestDecode` is `decode_request`: a JSON value is a record, an object a sequence
of pairs (so that a key can be repeated), a text a word or decimal digits.  The
parser goes into arrays and objects one level at a time (`Level`), and a document is
strict if no value of any level repeats a key and none is nested deeper than
`Nesting`, which stands for the limit of serde_json (128).
`EnvelopeChecks` and, for each method, `ListChecks`, `SignalsChecks` and so on list
the checks in the order of the code; the first that fails names the error
(`FirstError`).  `QueryLimits` and `TimeoutAllowed` are what the service and the
runtime make of the limits.

`RequestLines` reads a stream in pieces of every size through the line
accumulator, handles the completed lines, registers and serves.  A line of one
character is the document that character stands for; longer lines test the length
limit.  Its properties compare with a definition of the stream's lines that does
not know of reads, and with a table of every method's parameters and types.

## 4. Runs

| Run | Question | Bounds |
|---|---|---|
| `MetadataCache` | counts, builder, freshness, stability, refinement; is anyone stranded | 3 threads: each entry point is that of two of them; 2 attempts, a third finds the identifiers used up |
| `MetadataCacheDebugAssertions` | the code's assertions: violated | the same, 3 attempts |
| `ServerRuntimeSafety` | registry, grammar, teardown, what a stopped request may send | 1 connection with 2 requests of every kind and all faults; 2 connections that use the same IDs, 3 queries, 1 active request each; 1 worker, queues of one |
| `ServerRuntimeLiveness` | do jobs and connections end | 1 connection, 2 queries, half close, stall, shutdown |
| `ScanGate` | exclusion, leaks, progress | 3 workers |
| `StreamOutput` | rows, limits, reported totals, end | 7 rows of 4 sizes, chunks of 5 rows, 6 rows allowed, 5 response limits, 5 sequence numbers |
| `StreamOutputLimitIsReported` | protocol document, line 335: violated | the same |
| `QueryEngine` | rows, answers, limits, stops, comparisons | bodies of 2 to 4 commands, 2 identifiers and 3 names, 3 times, about 40 queries |
| `Generations` | are answers one content; are failures real | 2 files of either format; 2 changes and 1 request, 1 change and 2 requests at once, 2 changes and 2 metadata requests in a row |
| `GenerationsRetry` | protocol document, lines 366-367: violated | the same |
| `ServerLifecycle` | who owns the path; does shutdown end | 2 servers, 2 clients, 2 workers, 1 connection, 1 queued job |
| `RequestLines` | which lines are handled, how each is answered | streams of 6 bytes over 3 documents, 5 with bad UTF-8; about 3,500 single documents, nested up to the limit of 5 and beyond |

Why the bounds are enough for what they ask.  Three threads are a builder, a
waiter and a retry; two attempts are a failed one and its replacement, on which a
waiter of the first must not be counted; the third finds no identifier left
(`LoopAbsent`); the assertions run has one more, for a waiter on the attempt after that.  Two requests on one connection meet every
branch of the reader, a full job queue and a full output queue (both of capacity
one, so that full and empty are adjacent); the third request of two connections
reuses an ID and hits the limit.  Sequence numbers go to their bound, so their
overflow is reached.  Three workers at the gate are a holder, a waiter and one
that overtakes the notified waiter.  A chunk of five rows is halved unevenly
and twice over; the sizes are a row that always fits (1), one of which a frame holds
a single one (10), the largest a frame holds, which one more digit of the
sequence number pushes out (16), and one that no frame holds (17); the response limits stop a response before its
first frame, after it, inside a split, after the scan, or never.

A body of three commands is a time and two changes, or two times around a change:
it leaves and enters a window, decreases in time, and delivers a group of events
that a budget cuts; toggles have four, for a value that changes and changes back.
The check interval is two commands, so that both kinds of checkpoint (periodic and
at a timestamp) are met and missed.  The last time of a comparison is `Never`.
`Tick` looks for a stop at the first time of each signal and before a mismatch; the code
also looks every so many entries, which is left out: that only lets the model compare on for longer.

Two changes of a file are enough to leave and return (A to B to A), the case
identities are made for; one change with two requests is enough for both to find
the slot stale.  Two servers are one that lives and one that starts; a third
would only repeat the second.  One connection, one queued job and two workers make
every limit adjacent to empty, and let the stop messages find the channel full.
Six bytes hold three lines and, with two bytes allowed in a line, lines that are
empty, just fit, or are one too long, in every cut.  `U64Max` is 19, so that a
decimal has two digits, a leading zero, or one too many; `Nesting` is 5, one level
more than a request has, so that a document is nested as deep as allowed, or deeper;
`Reserve` is 2, and the configured limits 4, with requests below, at and above each.

`CHECK_DEADLOCK FALSE` is set where the system really may stop: all requests of
the bound are served, connections are gone or a process has ended, a query has its
answer, and no client owes anything.

The finite bounds that matter beyond size: `EveryCallReturns` relies on the
finite supply of attempts in one respect.  An unlimited series of callers that
are elected and cancelled could keep a waiting caller from ever being elected;
the code has no fairness among them.  `ConnectionsEnd` relies on a client that
sends finitely many lines: the reader looks at the flags only when a read times
out, so a client that never pauses postpones the end (a hazard in the list).

Fairness.  Every thread runs (weak fairness of its steps), mutexes and condition
variables do not starve a thread, timed waits end, deadlines pass (every query
has one: `max_timeout_ms`).  In `StreamOutput` and `QueryEngine` the dispatcher
runs and the file is finite.  A dispatcher ends, because every query checks its
context; in `MetadataCache` and `ScanGate` the end of builds and scans is a
premise of the property that needs it (`BuildsEnd`, `ScansEnd`) and not of the
others, which therefore also hold when they hang.  In `ServerLifecycle` the end of
a connection after a shutdown is strongly fair: its thread looks at the flag each
time a read times out (`runtime.rs:896-906`), which happens again and again for a
client that sends requests but pauses between them.  In `ServerRuntime` the end of
`required_terminal` is strongly fair for the same reason: its worker goes around
between `terminal` and `last`, and after 100 ms it gives up (`runtime.rs:567-582`).
Clients owe nothing.

Debug assertions are not executed in the models (a release build); two of them
are stated as `DebugAssertions` and are violated.

## 5. Findings

Shown by a run of their own (`PROJECT.json` quotes the lines):

- two debug assertions of the metadata cache are reachable when a context builder
  is cancelled (`MetadataCacheDebugAssertions`);
- a limit that a chunk meets inside the scan is reported as INTERNAL
  (`StreamOutputLimitIsReported`);
- the failure of a metadata scan whose file was away is cached in the generation,
  which validates again when the path is put back: the server then repeats the
  failure for ever, although the protocol calls it retryable (`GenerationsRetry`).

Met while modelling, and visible in the models, but not given a run:

- `register` does not look at the `disconnected` flag (`runtime.rs:159`): a request
  registered after another thread's `disconnect()` keeps its token, against line
  341 of `docs/design/unix-json-protocol-v1.md`.  The job still ends, because
  `send_frame` looks at the flag as well (`JobsEnd`).
- A cancellation, a deadline or a disconnect that falls between the checks of
  `send_frame` and its `try_send` (`runtime.rs:517-526`) is followed by the frame, which
  may be a whole result; `StoppedStaysSilent` says that it is the only one.
- A worker frees an ID after it has queued the final frame (`runtime.rs:220`): a
  client that reuses the ID at once can be refused, against line 74 of the same
  document.  Responses stay legal (`ResponsesLegal`).
- Extract sends its chunks while it holds the scan permit (`service.rs:377`), against
  the comment at `runtime.rs:332-333`.  Stalled clients therefore delay scans until
  their deadline, and no longer (`EveryRequestEnds`).
- An FST request validates the path and then opens it again (`fst.rs:591-592`,
  `684-685`); if the path leads to another file in between and back before the
  second validation, rows of that file are published under the first one's
  catalog.  `docs/design/fst-support-architecture.md:253-262` describes the check;
  `Tolerated` excludes this case from `AnswerIsOneContent`.
- Every error of decoding is answered with a null ID and ends the connection, with
  its other requests (`runtime.rs:928-935`); lines 79-80 of the protocol document
  keep the null ID for malformed text, oversize and duplicates, and
  `tests/fixtures/protocol/v1/errors.jsonl:2-7` has such errors under the request's
  own ID.
- `remove_stale` and `remove_if_owned` check a file and then remove a name
  (`listener.rs:207`): two servers that start or stop at the same moment can take
  each other's socket away, against line 416 of the protocol document ("a live
  listener blocks startup").  `raced` marks these states.

## 6. Proofs

`MetadataCacheProofs` proves for every finite set of threads, every assignment
of entry points and every `MaxAttempt` (the module's three assumptions):
`TypeCorrect`, `AccountingExact`, `SingleBuilder`, `RetryFreshness` and
`AttemptStability`.  They all come from one inductive invariant `IInv`.  The
counting invariant alone is not inductive: a registration must be known to be
alive only inside the loop (`RegistrationsLive`), or a later attempt could be
miscounted, and attempts must be known to be handed out in order
(`AttemptsOrdered`), or a new attempt could find threads already registered on
it.  Freshness needs `FloorsRespected`, which follows a retry from its reset to
its result.  `CountMove` is the lemma behind every change of a count: one thread
enters or leaves the set of registered threads.  Each action has a lemma of its
own, and `NextIInv` collects them.

`WaiterFidelity` (`WaiterSeesItsAttempt`) adds to `IInv` that the phase has the newest
attempt (`NewestAttempt`) and what a caller returns that is about to drop its
registration (`DropKnows`).  `Refinement` maps the initial state to the initial state
of `SingleFlight` and each action to one of its actions or to a stutter.  The two
facts it needs are that a failure with waiter count zero is owed to nobody
(`WaiterAccounting`) and that publishing finds its own phase (`BuilderOwnsPhase`).

`ServerRuntimeProofs` proves `GateTypeCorrect` and `GateExact` for any finite set of
workers (`ScannersAssumption`): the permit is taken exactly while one of them holds the
guard, through every failure, panic and refused chunk.

`StreamOutputProofs` proves, for every size, limit, bound and set of `Powers` that
meets the module's assumptions, all safety properties of its run.  The inductive
invariant `SInv` adds to them: the prefix sums grow (`SumsGrow`), so no slice has
a negative size; the stack of `send_rows_split` covers, in order and without a
gap, the rows between those sent and those taken (`StackCovers`; `SplitStack` is
what halving does to it); the last frame ends where the next must begin
(`FramesFollow`); what was sent and the reserve stay within the budget
(`BudgetReserved`); and every guess of `end_success` is larger than the one before
(`GuessesGrow`).  Since a larger number has no fewer digits (`DigitsMonotone`)
and none has more than `MaxDigits`, there are at most `MaxDigits` wrong guesses,
fewer than the 32 the code allows: this is `ReserveSuffices`.

`ServerRuntimeProofs` also proves `RuntimeTypeCorrect`, `RegistryIsExact` and
`WriterOutlives` for any finite sets of connections, workers and IDs and every load
and queue size.  `RegistryExact` is not inductive: that a line which is read does not
collide with an accepted job needs to be known of every line still on a socket.  So
the invariant `RInv` follows a serial through its life: on one socket, once (`Unread`),
then in the queue or with one worker, once (`HeldOnce`), and registered exactly while
it is there (`Entered`, `Registered`).  Removal by name (`WorkerReleases`, and
`ReadQueueFull`, which removes what it has just put in) then removes its own entry.
`WriterOutlivesSenders` is inductive once a job is known to belong to the connection
that it was read from: a job reaches a worker from the queue and the queue from a
reader, so a sender never appears where there is none.  That the frame which waits
for room was found legal (`PendingLegal`) is needed for the type of `life`.

It also proves `ResponsesAreLegal` and `StoppedIsSilent`.  What a connection said for a
request (`Said`) is what the client received and then what is on its way: the frame that
the writer holds and those in the output queue.  The invariant `RespInv` says of it:

- every prefix of a response has its frames numbered from zero, kinds where they
  belong, and a final frame only at its end (`Proper`), and nothing is on its way for a
  request of somebody else (`FlightLegal`);
- whoever may still answer a request knows the number of frames so far, none of them
  final (`Open`).  The request's line is unread, or it is queued, or it is the
  reader's reply, or it is with one worker, whose lifecycle has that number (`Turns`).

`Emit` is the lemma behind every frame that is added, `Written` the one behind every
frame that is received, and `TurnsKept` says why nobody else loses a turn: requests
have one holder (`RegistryInv`).  A disconnected connection is excepted from what is on
its way, because its writer drops frames; it delivers nothing more, and what it
delivered stays a prefix of a response (`GotLegal`).

`StoppedStaysSilent` compares what was said before and after a step, so it needs who
may speak: a stopped request was accepted, and the reader's own reply answers a
request that was not (`HolderInv`), so only the worker that holds the request could add
a frame.  What that worker adds is its error terminal, or the frame that has passed
its checks and is then no longer in `PastChecks`; and nothing new gets there while the
request is stopped (`PastShrinks`, from `LooksMove`: the two checks refuse).  `SentStays`
and `SaidGrows` are the rest: the log of requests is not rewritten, and every step
appends frames, passes them on or drops them.

Both properties read the output queue for one request.  `SequenceLemmas` unfolds that
selection over appending, taking from the front and joining (`PicksAppend`,
`PicksFirst`, `ConcatFacts`), by the induction described below.

`ServerLifecycleProofs` proves `PathIsKept`, `EndIsClean` and `LifecycleTypeCorrect`
for any finite sets of servers, clients and workers and all limits.  The invariant
`LInv` says that a server publishes its socket once, and that nobody sees a socket
before (`SocketsPublished`).  So the socket that `Recheck` finds again is the one whose
connection was refused, and it no longer listens (`StaleIsDead`): removing it takes
no live server's path (`PathKept`), unless the removal raced another server's change
(`raced`).  For the end of a server, connections are served only between the first
accept and the join and jobs belong to served connections (`ServedWhileOpen`); the
orders to stop, in the queue or taken, are at most one per worker (`StopsCounted`), so
when every worker took one nothing is left in the queue.

`CompareProofs` proves `AnswerIsUnmixed`, `CancellationIsPrompt` and
`ComparisonIsOfOneMoment` for all identifiers, names, commands, limits and sets of
queries.  The comparison contains the engine, so one invariant serves both: `QInv` is the types
of the control state (`Typed`) and three facts about what stands between a reading
and its publication.  `Fresh`: a body that was read in part after a change belongs to a
source that is still changed at the validation, so it does not reach the last recheck
or an answer.  `Prompt`: the commands read since a cancellation are no more than those
read since the last checkpoint, which is the remainder of the count by the check
interval; `CountToCheckpoint` is the lemma that one more command either continues the
remainder or is a checkpoint, where the scan stops.  `Together`: past the engine the
second timeline is unmixed, the first had changed when it was read only if it is still
changed, and past the first revalidation it had not.

The same module proves `RowsAreExact`, `LimitsAreExact` and `AnswersAreExact`, for every
catalog, body, window and budget whose numbers are naturals.  The references read the
whole body, the engine one command, so a second invariant `AInv` says at each instant how the
two correspond:

- while a scan runs, what was delivered and what is pending is together what the
  commands read so far ask for (`Delivery`); afterwards it is a prefix of it, since a
  limit, a stop or the hit of a find may have left the rest behind;
- `ExpectedGrows` is the step of this: one more command adds to the expectation exactly
  what `Events` adds to the pending events (`AddedIsTold`), which needs that the scan's
  own clock is the last timestamp of the body and that it is still before the
  end of the window unless the reader is FST, which goes on behind it (`Scanned`);
- `Budgets` says what each counter has counted and, once a limit is reported, that one
  more event would have exceeded it.  `Finding` is the number of hits before the one
  that is looked for, and `Counting` that the remembered text is that of a name's last event;
  a delivered event then adds to the hits and toggles what the references count
  (`HitsGrow`, `TogglesGrow`).

The references are recursive (`FlattenSeq`, the sum in `BytesOf`).  `SequenceLemmas` is
how they are unfolded: `SetInduction` is induction with a set of numbers in place of a
predicate, from the library's theorem on minimal elements, and the lemmas on sums and
joined sequences show that such a recursion has one solution and what it adds
for one more element (`FlattenAppend`, `FlattenMap`, `BytesGrow`).  So no induction
principle with a predicate as parameter is needed.

`ComparisonIsExact` is the third result about queries.  The reference reads a timeline as a
function of time (`ValueAt`), the merge steps from entry to entry of two timelines, so
the invariant `MergeInv` says at which time the merge stands:

- `Standing`: there is a time such that on both sides every entry before the position is
  earlier and no entry from the position on is (`Splits`), and the current value is that
  of the entry passed last.  Only timelines in order have such a time after an
  iteration (`SortedPairs`, `AfterIs`), which is why `CompareExact` has that premise;
- `Underway`: what was found is what there is to tell of the signals before
  (`ToldBefore`) and of this signal up to that time (`Told`), and `count` is the length
  of the latter and below the limit.

An iteration goes to the next time at which a side has an entry (`NextTime`); in between
no values can start to differ (`QuietUntil`).  There the values it compares are
those of the reference (`ValueThen`, `ValuesAre`), so it adds what `Told` adds
(`JudgeKeeps`), and where it leaves a signal early, what was told so far is exactly what
the limit leaves of all (`AtTheLimit`; a limit of zero still tells one).  `Timely` says
that the times read are numbers up to `Never`, which needs `CompareAssumption`: times have 64
bits.  The joined sequences are unfolded by `UptoGrows`, `UptoQuiet` and `UptoPrefix`.

`GenerationsProofs` proves `AnswersAreOfOneContent`, `SourceFailuresAreReal` and
`OneOpeningPerChange` for any sets of files and requests, any number of
changes, retargets and silent writes, and either format (`GenerationsAssumption`: there
is a file, `None` is none, and the scenarios have their types).  A property of an answer speaks of the past, the
history of what the path led to, while a request compares only what it can see now:
its invariant `GInv` has to say at each instant what a request's readings are worth.

- `World` links the files to the history (`Linked`): while a file keeps the stamp of a
  content the path once led to, it is that content up to what silent writes have
  changed since, one block if there was one.  Nobody invents a stamp that was used.
- `Snap` is the heart of it: since the request began the path has led to a content with
  the generation's stamp, and what was read is of that content or of what the file is
  now.  It survives a change of the stamp (then it is claimed of the past only) and one
  silent write.  `ReadBody` keeps it without looking, `CheckStat` and `CheckPrint` make
  it a claim about now, and the claim about the answer (`ClaimSilent`) is what is left
  when the path was opened for the last time.
- For strict generations `Recalls` says that a block which is as the full fingerprint
  has it was so when it was read, if nothing was put back; `Recent` carries the same
  for the file the path was last found to lead to until the last fingerprint
  (`ClaimStrict`).
- `OnOwner` is where FST differs: a handle that `FstReader` opened may be on another
  file, but only after one change and while the path leads there, so that the
  validation after the scan needs a second change to succeed (`ClaimFst`).
- `Validated` programs: every reading is followed by an `admit`, and in a strict
  generation every `admit` by the full fingerprint.  The claims rest on what is still to be done
  (`RunShape`, `CheckShape`, `OpenShape`), not on a place in a program; one lemma on
  sequences (`TailHas`, `TailFollowed`, `ConcatFollowed`) carries each of these facts
  over a step, and `ProgramIsValidated` shows the programs of the code to have them.
- Failures and the count of generations need the converse, that a check which finds
  nothing changed succeeds: `Steady` names the requests for which nothing has changed,
  or which hold the slot while all changes are used up, and `Certain` says that their
  readings are those of the file the path leads to.  With `SlotOk` (one holder; when
  there are as many generations as changes, the slot matches its file) a request that
  replaces a generation has found a change that no earlier one has.

Two conjuncts were corrected because the proof failed: a claim that a full
fingerprint survives any silent writes is false with four of them (see `Tolerated`),
and `None` must not be a file.

`RequestLinesProofs` proves `LinesAreInOrder` and `RequestsAreConform`, for every set of
inputs, line limit, read size, limit of active requests and configuration that meets
`DecodeAssumption` and `LinesAssumption`: a stream is a sequence, what its characters say
are documents (`IsDocument`, whose texts are words or digits), the nesting limit leaves
room for a request, and the configured limits fit their type and leave the reserve.

`LinesInOrder` compares with a reading of the whole stream: `LinesOf`, `Rest` and
`Misframed` are defined by the set of newlines among the first k bytes.
`NewlinesStep`, `RestStep`, `LinesStep` and `MisframedStep` say what one more byte makes of
them, and `PushByteMirrors` that a byte makes the same of the accumulator.
`PushedMirrors` is the induction over the bytes of a read: until one of them fails, the
lines completed are those the reference has gained, and a failure is that of the
reference, since a stream that is misframed stays so.  The invariant `LinesInv` then
follows the lines handled: those of all earlier reads, and of the last read the ones
before `frames`.  That no read happens while lines are left is why a read that fails
loses no others than its own.  A line that ends the connection, refused or with a
reply for which the output queue has no room (`unheard`), is the last one handled, and its
answer tells which it was (`Leaves`); those behind it are lost.

`RequestsConform` compares the checks of the code with a table of parameters and types
that does not know their order.

- A decimal is canonical and small enough exactly if it is the digits of a number of its
  type (`ParsesIs`): the digits of a number have its value (`DigitsOfIs`) and no two
  canonical texts the same value (`SpellsUnique`).
- The recursion of `Level` has the solution it should (`LevelsExist`, `LevelIs`), so the
  values a request consists of, three levels deep, are values and texts (`DocumentIs`).
- For each method one lemma says that the checks of its list pass exactly if the
  parameters fit the table, and which error they give otherwise (`ListJudged`,
  `FindJudged` and so on, collected in `MethodIs`; `EnvelopeIs` is that of the envelope).
  A later check may read a parameter only because an earlier one has found it to be
  a text.
- `DecodeDeserves` joins them: the code of a decoded line is the one it deserves.
- The invariant `ConformInv` adds what is known of a request at work: its limits are
  numbers, it asks for at least the reserve, and for no more time than the maximum
  (`Asks`).  With it `QueryLimits` returns either an error or limits between the
  reserve and the configured ones (`LimitsAreFixed`).

Only model-checked are the temporal properties (`EveryCallReturns`, `EveryRequestEnds`,
`JobsEnd`, `ConnectionsEnd` and the others that state progress or use fairness): liveness
and ENABLED are out of the prover's reach.  Every invariant of the runs is proved.

## 7. Left out of the models

- Statistics counters and their snapshots, logging, message texts, mutex poisoning
  (recovered from in the cache, impossible elsewhere because no code panics under
  those locks), hooks for tests.
- `ServerRuntime`: the byte limits of frames and lines (a frame that is too large is
  `TerminalGivesUp` or has no effect; lines are in `RequestLines`), the contents of
  rows.  The steps merged into one are listed in section 3.
- `StreamOutput`: the statistics of an end frame other than its rows and bytes
  (`service.rs:376`, `392` report the commands read).
- `QueryEngine`: lexing, real arithmetic of values (a real is its text), wide
  integers beyond `MaxVector` bits, the extra decompression limits of FST.
- `Generations`: a fingerprint is one step although it reads several pieces; a hash
  has no collisions; what a parser says of a half-written file (the code validates
  after an error too, and the answer is a failure either way); cancellation, which
  `MetadataCache` has; find and toggles, whose programs are extract's.
- `ServerLifecycle`: reuse of an inode number, programs other than servers in the
  private directory, cleanup whose system calls fail; `reap_finished`, which joins
  threads that have ended; a client connects once.
- `RequestLines`: characters of a document below the level of its values, the
  encoding of answers.  Whether the scheduler's queue or the output queue is full is a
  free choice of `HandleLine` (`QUEUE_FULL`, `unheard`), for `ServerRuntime` has both queues;
  and whether a request stops before the service sees it is the free choice `Drop`.
- The first look at the registry (`is_active`, `runtime.rs:928`) and the second (`register`,
  `:959`) are one step in `ServerRuntime` and in `RequestLines`, for the reason given in
  section 3.  The error of `RequestContext::new` (`:973-983`) is left out: a timeout is
  at most `max_timeout_ms`, which the start of the server has bounded and added to the
  clock without overflow (`:74-80`).
- Not modelled: the catalog (immutable after construction), the command line, the
  Python bindings and `vcd2trace` (argument parsing, formatting and glue), lexing of
  header text, FST decoding (a vendored reader).
