--------------------------- MODULE ServerRuntime ---------------------------
(***************************************************************************)
(* The connection runtime of the query server                              *)
(* (src/src/server/runtime.rs): one reader thread and one writer thread    *)
(* per connection, a bounded job queue, a pool of workers, and a bounded   *)
(* output queue per connection that the reader and the workers feed.       *)
(*                                                                         *)
(* The client is the environment.  So is the Dispatcher: it may send any   *)
(* frame, ignore errors, return early, fail or panic.  Requests carry a    *)
(* serial number that the code does not have; it only names them.          *)
(***************************************************************************)
EXTENDS Naturals, Sequences, FiniteSets, SequencesExt

CONSTANTS
    Conns,        \* connections
    Workers,      \* worker threads
    Ids,          \* request IDs a client may choose
    Loads,        \* what may happen in a behaviour, see LoadsAssumption
    MaxRequests,  \* bound: requests of any load
    QueueDepth,   \* queue_depth of the scheduler
    OutputChunks  \* output_chunks, the capacity of an output queue

ASSUME SizesAssumption ==
    MaxRequests \in Nat /\ QueueDepth \in Nat \ {0} /\ OutputChunks \in Nat \ {0}
\* A load: the connections open, the kinds of request clients send, what befalls
\* the connections, how many requests are sent (bound), the configured limit of
\* active requests, and the largest sequence number (bound; u32::MAX in the code).
ASSUME LoadsAssumption ==
    Loads \subseteq [conns : SUBSET Conns,
                    kinds : SUBSET {"query", "cancel", "late", "bad"},
                    faults : SUBSET {"half", "full", "stall", "shutdown"},
                    requests : 0 .. MaxRequests, active : Nat \ {0}, seq : Nat \ {0}]
ASSUME SetsAssumption == IsFiniteSet(Conns) /\ IsFiniteSet(Workers) /\ IsFiniteSet(Ids)

VARIABLES
    load,          \* the load of this behaviour
    sent,          \* history: the requests, by serial number
    inbound,       \* per connection: serials on the socket, not yet read
    closed,        \* per connection: "no", or the client closed "half" or "full"
    stalled,       \* connections whose client stopped reading
    shutdown,      \* the process-wide shutdown flag
    reader,        \* per connection: where the reader thread stands
    control,       \* per connection: the frame the reader is enqueuing
    active,        \* ConnectionState.active: from IDs to serials, 0 for none
    disconnected,  \* connections whose ConnectionState.disconnected is set
    stopped,       \* requests whose token is cancelled or deadline passed
    out,           \* per connection: the output queue
    writing,       \* per connection: the frame the writer holds
    writer,        \* per connection: "run" or "done"
    queue,         \* the scheduler's queue of serials
    wpc,           \* per worker: its location
    job,           \* per worker: the serial it runs, 0 for none
    life,          \* per worker: OutputSink.lifecycle
    pending,       \* per worker: the frame it is enqueuing
    got            \* per request: the frames its client has received

client == <<load, sent, inbound, closed, stalled, shutdown>>
conn == <<reader, control, active, disconnected, stopped>>
output == <<out, writing, writer, got>>
pool == <<queue, wpc, job, life, pending>>
vars == <<load, sent, inbound, closed, stalled, shutdown, reader, control, active,
          disconnected, stopped, out, writing, writer, queue, wpc, job, life,
          pending, got>>

Serials == 1 .. MaxRequests
Requests == [conn : load.conns, id : Ids, kind : load.kinds, target : Ids]

\* A frame: the request it answers (0: uncorrelated), its type, its seq.
Frame(r, k, n) == [req |-> r, kind |-> k, seq |-> n]
NoFrame == Frame(0, "none", 0)
Frames == [req : 0 .. MaxRequests,
           kind : {"none", "transport", "result", "error", "begin", "chunk", "end", "end_error"},
           seq : 0 .. load.seq]

\* OutputLifecycle; next_seq is meaningful while Streaming.
Lifecycle(t, n) == [tag |-> t, next_seq |-> n]
NotStarted == Lifecycle("NotStarted", 0)
Streaming(n) == Lifecycle("Streaming", n)
Terminal == Lifecycle("Terminal", 0)
Rejected == Lifecycle("Rejected", 0)

ConnOf(w) == sent[job[w]].conn
ActiveIds(c) == {i \in Ids : active[c][i] # 0}
ActiveSerials(c) == {active[c][i] : i \in ActiveIds(c)}
HasRoom(c) == Len(out[c]) < OutputChunks
Enqueue(c, f) == out' = [out EXCEPT ![c] = Append(@, f)]

\* A connection the load does not use has ended before.
Init ==
    /\ load \in Loads
    /\ sent = <<>>
    /\ inbound = [c \in Conns |-> <<>>]
    /\ closed = [c \in Conns |-> "no"]
    /\ stalled = {} /\ shutdown = FALSE
    /\ reader = [c \in Conns |-> IF c \in load.conns THEN "reading" ELSE "gone"]
    /\ control = [c \in Conns |-> NoFrame]
    /\ active = [c \in Conns |-> [i \in Ids |-> 0]]
    /\ disconnected = {} /\ stopped = {}
    /\ out = [c \in Conns |-> <<>>]
    /\ writing = [c \in Conns |-> NoFrame]
    /\ writer = [c \in Conns |-> IF c \in load.conns THEN "run" ELSE "done"]
    /\ queue = <<>>
    /\ wpc = [w \in Workers |-> "recv"]
    /\ job = [w \in Workers |-> 0]
    /\ life = [w \in Workers |-> NotStarted]
    /\ pending = [w \in Workers |-> NoFrame]
    /\ got = [r \in Serials |-> <<>>]

---------------------------------------------------------------------------
(* The environment: clients, deadlines, the shutdown signal                *)

ClientSend(c, q) ==
    /\ closed[c] = "no"
    /\ reader[c] \notin {"join", "gone"}
    /\ Len(sent) < load.requests
    /\ q.conn = c
    /\ q.kind # "cancel" => q.target = q.id
    /\ sent' = Append(sent, q)
    /\ inbound' = [inbound EXCEPT ![c] = Append(@, Len(sent) + 1)]
    /\ UNCHANGED <<load, closed, stalled, shutdown, conn, output, pool>>

\* The client closes its socket, or only its sending half and reads on.
ClientClose(c, h) ==
    /\ h \in load.faults
    /\ closed[c] = "no" \/ (closed[c] = "half" /\ h = "full")
    /\ closed' = [closed EXCEPT ![c] = h]
    /\ UNCHANGED <<load, sent, inbound, stalled, shutdown, conn, output, pool>>

\* The client stops reading: writes to its socket time out from now on.
ClientStall(c) ==
    /\ "stall" \in load.faults
    /\ c \notin stalled
    /\ stalled' = stalled \cup {c}
    /\ UNCHANGED <<load, sent, inbound, closed, shutdown, conn, output, pool>>

Shutdown ==
    /\ "shutdown" \in load.faults
    /\ ~shutdown
    /\ shutdown' = TRUE
    /\ UNCHANGED <<load, sent, inbound, closed, stalled, conn, output, pool>>

\* The deadline of a queued or running request passes.
DeadlinePasses(r) ==
    /\ r \notin stopped
    /\ \E c \in Conns : r \in ActiveSerials(c)
    /\ stopped' = stopped \cup {r}
    /\ UNCHANGED <<client, reader, control, active, disconnected, output, pool>>

---------------------------------------------------------------------------
(* ConnectionState                                                         *)

\* disconnect(): the flag, then every active token.  The two are one action:
\* whoever sees only the flag stops exactly as one who sees a cancelled token.
Disconnect(c) ==
    /\ disconnected' = disconnected \cup {c}
    /\ stopped' = stopped \cup ActiveSerials(c)

\* Mutant: the ID is removed from the registry of every connection.
RemoveIdEverywhere(c, i) == active' = [d \in Conns |-> [active[d] EXCEPT ![i] = 0]]

RemoveId(c, i) == active' = [active EXCEPT ![c][i] = 0]

---------------------------------------------------------------------------
(* The reader thread                                                       *)

\* The next line of the socket.
Line(c) == Head(inbound[c])
TakeLine(c) ==
    /\ reader[c] = "reading"
    /\ inbound[c] # <<>>
    /\ inbound' = [inbound EXCEPT ![c] = Tail(@)]
    /\ UNCHANGED <<load, sent, closed, stalled, shutdown>>

\* The reader starts to enqueue f; then = where it goes on afterwards.
Reply(c, f, then) ==
    /\ reader' = [reader EXCEPT ![c] = then]
    /\ control' = [control EXCEPT ![c] = f]

\* What decode_request_with_active and register refuse: an undecodable line,
\* an active ID, or a query above the limit.  Answered without an ID, fatal.
Refused(c, q) ==
    \/ q.kind = "bad"
    \/ q.id \in ActiveIds(c)
    \/ q.kind = "query" /\ Cardinality(ActiveIds(c)) >= load.active

ReadRefused(c) ==
    /\ TakeLine(c)
    /\ Refused(c, sent[Line(c)])
    /\ Reply(c, Frame(0, "transport", 0), "fatal")
    /\ UNCHANGED <<active, disconnected, stopped, output, pool>>

\* A cancel request: the target's token, then a result through the output.
ReadCancel(c) ==
    /\ TakeLine(c)
    /\ LET q == sent[Line(c)] IN
        /\ ~Refused(c, q)
        /\ q.kind = "cancel"
        /\ stopped' = stopped \cup ({active[c][q.target]} \ {0})
    /\ Reply(c, Frame(Line(c), "result", 0), "reply")
    /\ UNCHANGED <<active, disconnected, output, pool>>

\* A timeout above the configured maximum is answered and not registered.
ReadLate(c) ==
    /\ TakeLine(c)
    /\ ~Refused(c, sent[Line(c)])
    /\ sent[Line(c)].kind = "late"
    /\ Reply(c, Frame(Line(c), "error", 0), "reply")
    /\ UNCHANGED <<active, disconnected, stopped, output, pool>>

\* A query is registered and submitted ...
ReadQuery(c) ==
    /\ TakeLine(c)
    /\ LET q == sent[Line(c)] IN
        /\ ~Refused(c, q)
        /\ q.kind = "query"
        /\ Len(queue) < QueueDepth
        /\ active' = [active EXCEPT ![c][q.id] = Line(c)]
    /\ queue' = Append(queue, Line(c))
    /\ UNCHANGED <<reader, control, disconnected, stopped, output, wpc, job, life, pending>>

\* Mutant: the ID of a rejected job stays registered.
ReadQueueFullKeepsId(c) ==
    /\ TakeLine(c)
    /\ ~Refused(c, sent[Line(c)])
    /\ sent[Line(c)].kind = "query"
    /\ Len(queue) >= QueueDepth
    /\ active' = [active EXCEPT ![c][sent[Line(c)].id] = Line(c)]
    /\ Reply(c, Frame(Line(c), "error", 0), "reply")
    /\ UNCHANGED <<disconnected, stopped, output, pool>>

\* ... or, when the queue is full, registered, removed and answered QUEUE_FULL.
ReadQueueFull(c) ==
    /\ TakeLine(c)
    /\ ~Refused(c, sent[Line(c)])
    /\ sent[Line(c)].kind = "query"
    /\ Len(queue) >= QueueDepth
    /\ RemoveId(c, sent[Line(c)].id)
    /\ Reply(c, Frame(Line(c), "error", 0), "reply")
    /\ UNCHANGED <<disconnected, stopped, output, pool>>

\* send_encoded_control succeeds: read on, or disconnect after a fatal line.
ControlSent(c) ==
    /\ reader[c] \in {"reply", "fatal"}
    /\ HasRoom(c)
    /\ Enqueue(c, control[c])
    /\ \/ /\ reader[c] = "reply"
          /\ Reply(c, NoFrame, "reading")
          /\ UNCHANGED <<disconnected, stopped>>
       \/ /\ reader[c] = "fatal"
          /\ Reply(c, NoFrame, "closing")
          /\ Disconnect(c)
    /\ UNCHANGED <<client, active, writing, writer, got, pool>>

\* send_encoded_control gives up on a queue that stays full for 100 ms.
ControlGivesUp(c) ==
    /\ reader[c] \in {"reply", "fatal"}
    /\ ~HasRoom(c)
    /\ Reply(c, NoFrame, "closing")
    /\ Disconnect(c)
    /\ UNCHANGED <<client, active, output, pool>>

\* End of file after the last line, or a reset that may lose unread lines.
ReadEnds(c) ==
    /\ reader[c] = "reading"
    /\ closed[c] = "full" \/ (closed[c] = "half" /\ inbound[c] = <<>>)
    /\ Reply(c, NoFrame, "closing")
    /\ UNCHANGED <<client, active, disconnected, stopped, output, pool>>

\* The read times out: the only place where the reader looks at the flags.
ReadTimesOut(c) ==
    /\ reader[c] = "reading"
    /\ inbound[c] = <<>>
    /\ c \in disconnected \/ shutdown
    /\ Reply(c, NoFrame, "closing")
    /\ UNCHANGED <<client, active, disconnected, stopped, output, pool>>

\* Mutant: the reader joins the writer without a disconnect.
ReaderClosesConnected(c) ==
    /\ reader[c] = "closing"
    /\ Reply(c, NoFrame, "join")
    /\ UNCHANGED <<client, active, disconnected, stopped, output, pool>>

\* After the loop: disconnect, shut the socket down, drop the sender.
ReaderCloses(c) ==
    /\ reader[c] = "closing"
    /\ Reply(c, NoFrame, "join")
    /\ Disconnect(c)
    /\ UNCHANGED <<client, active, output, pool>>

\* The writer has ended: the connection and its permit are released.
ReaderJoins(c) ==
    /\ reader[c] = "join"
    /\ writer[c] = "done"
    /\ Reply(c, NoFrame, "gone")
    /\ UNCHANGED <<client, active, disconnected, stopped, output, pool>>

---------------------------------------------------------------------------
(* The writer thread                                                       *)

\* Jobs that still own a clone of the connection's sender.
QueuedFor(c) == {r \in ToSet(queue) : sent[r].conn = c}
Sending == {"start", "run", "send", "flag", "push", "terminal", "last"}
SendersOf(c) == {w \in Workers : wpc[w] \in Sending /\ ConnOf(w) = c}
\* Mutant: a queued job holds no sender.
NoRunningSenders(c) == reader[c] \in {"join", "gone"} /\ SendersOf(c) = {}

NoSenders(c) ==
    reader[c] \in {"join", "gone"} /\ QueuedFor(c) = {} /\ SendersOf(c) = {}

WriterTakes(c) ==
    /\ writer[c] = "run"
    /\ writing[c] = NoFrame
    /\ out[c] # <<>>
    /\ writing' = [writing EXCEPT ![c] = Head(out[c])]
    /\ out' = [out EXCEPT ![c] = Tail(@)]
    /\ UNCHANGED <<client, conn, writer, got, pool>>

\* The whole frame reaches the client.
WriterWrites(c) ==
    /\ writing[c] # NoFrame
    /\ c \notin disconnected
    /\ closed[c] # "full" /\ c \notin stalled
    /\ got' = IF writing[c].req = 0 THEN got
              ELSE [got EXCEPT ![writing[c].req] = Append(@, writing[c])]
    /\ writing' = [writing EXCEPT ![c] = NoFrame]
    /\ UNCHANGED <<client, conn, out, writer, pool>>

\* The flag stops the write loop, possibly inside a frame.
WriterDiscards(c) ==
    /\ writing[c] # NoFrame
    /\ c \in disconnected
    /\ writing' = [writing EXCEPT ![c] = NoFrame]
    /\ UNCHANGED <<client, conn, out, writer, got, pool>>

\* A write to a closed peer fails.
WriterFails(c) ==
    /\ writing[c] # NoFrame
    /\ c \notin disconnected
    /\ closed[c] = "full"
    /\ Disconnect(c)
    /\ writing' = [writing EXCEPT ![c] = NoFrame]
    /\ UNCHANGED <<client, reader, control, active, out, writer, got, pool>>

\* recv fails once the queue is empty and every sender is dropped.
WriterEnds(c) ==
    /\ writer[c] = "run"
    /\ writing[c] = NoFrame /\ out[c] = <<>>
    /\ NoSenders(c)
    /\ writer' = [writer EXCEPT ![c] = "done"]
    /\ UNCHANGED <<client, conn, out, writing, got, pool>>

---------------------------------------------------------------------------
(* OutputSink                                                              *)

\* validate_frame: the lifecycle after a frame of type k with sequence n.
Validate(l, k, n) ==
    CASE l.tag = "NotStarted" /\ k \in {"result", "error"} /\ n = 0 -> Terminal
      [] l.tag = "NotStarted" /\ k = "begin" /\ n = 0 -> Streaming(1)
      [] l.tag = "Streaming" /\ k = "chunk" /\ n = l.next_seq /\ n < load.seq -> Streaming(n + 1)
      [] l.tag = "Streaming" /\ k = "end" /\ n = l.next_seq -> Terminal
      [] OTHER -> Rejected

\* Mutant: the error of a started stream is sent as a fresh response.
ErrorFrameUnary(w) == Frame(job[w], "error", 0)

\* The frame of required_terminal.
ErrorFrame(w) ==
    IF life[w].tag = "NotStarted" THEN Frame(job[w], "error", 0)
    ELSE Frame(job[w], "end_error", life[w].next_seq)

WorkerAt(w, l) == wpc' = [wpc EXCEPT ![w] = l]

---------------------------------------------------------------------------
(* The workers                                                             *)

WorkerTakes(w) ==
    /\ wpc[w] = "recv"
    /\ queue # <<>>
    /\ queue' = Tail(queue)
    /\ job' = [job EXCEPT ![w] = Head(queue)]
    /\ WorkerAt(w, "start")
    /\ UNCHANGED <<client, conn, output, life, pending>>

\* context.check() before the dispatch: a stopped request is not dispatched.
WorkerStarts(w) ==
    /\ wpc[w] = "start"
    /\ WorkerAt(w, IF job[w] \in stopped THEN "terminal" ELSE "run")
    /\ UNCHANGED <<client, conn, output, queue, job, life, pending>>

\* The dispatcher sends a frame.  One that validate_frame or the size limit
\* rejects has no effect, so only the others are actions.
DispatchSends(w, k, n) ==
    /\ wpc[w] = "run"
    /\ Validate(life[w], k, n) # Rejected
    /\ pending' = [pending EXCEPT ![w] = Frame(job[w], k, n)]
    /\ WorkerAt(w, "send")
    /\ UNCHANGED <<client, conn, output, queue, job, life>>

\* Mutant: the context is not checked.
ContextUnchecked(w) ==
    /\ wpc[w] = "send"
    /\ WorkerAt(w, "flag")
    /\ UNCHANGED <<client, conn, output, queue, job, life, pending>>

\* The loop of send_frame: context.check(), then is_disconnected(), then try_send;
\* a stop or a disconnect may fall between any two.
ContextChecked(w) ==
    /\ wpc[w] = "send"
    /\ job[w] \notin stopped
    /\ WorkerAt(w, "flag")
    /\ UNCHANGED <<client, conn, output, queue, job, life, pending>>

FlagChecked(w) ==
    /\ wpc[w] = "flag"
    /\ ConnOf(w) \notin disconnected
    /\ WorkerAt(w, "push")
    /\ UNCHANGED <<client, conn, output, queue, job, life, pending>>

FrameSent(w) ==
    /\ wpc[w] = "push"
    /\ HasRoom(ConnOf(w))
    /\ Enqueue(ConnOf(w), pending[w])
    /\ life' = [life EXCEPT ![w] = Validate(@, pending[w].kind, pending[w].seq)]
    /\ pending' = [pending EXCEPT ![w] = NoFrame]
    /\ WorkerAt(w, "run")
    /\ UNCHANGED <<client, conn, writing, writer, got, queue, job>>

\* The queue is full: the worker checks again.
FrameFull(w) ==
    /\ wpc[w] = "push"
    /\ ~HasRoom(ConnOf(w))
    /\ WorkerAt(w, "send")
    /\ UNCHANGED <<client, conn, output, queue, job, life, pending>>

\* Mutant: an error is added to a response that ended.
FinishingAlways(w) == "terminal"

\* The request is answered already, or required_terminal has to do it.
Finishing(w) == IF life[w].tag = "Terminal" THEN "release" ELSE "terminal"

\* Mutant: only a disconnect ends the wait for room.
FrameRefusedDisconnected(w) ==
    /\ wpc[w] = "flag"
    /\ ConnOf(w) \in disconnected
    /\ pending' = [pending EXCEPT ![w] = NoFrame]
    /\ WorkerAt(w, Finishing(w))
    /\ UNCHANGED <<client, conn, output, queue, job, life>>

\* A check fails: the dispatcher returns the error ("?" after every send).
FrameRefused(w) ==
    /\ \/ wpc[w] = "send" /\ job[w] \in stopped
       \/ wpc[w] = "flag" /\ ConnOf(w) \in disconnected
    /\ pending' = [pending EXCEPT ![w] = NoFrame]
    /\ WorkerAt(w, Finishing(w))
    /\ UNCHANGED <<client, conn, output, queue, job, life>>

\* The dispatcher returns, with or without an error, or panics.
DispatchEnds(w) ==
    /\ wpc[w] = "run"
    /\ WorkerAt(w, Finishing(w))
    /\ UNCHANGED <<client, conn, output, queue, job, life, pending>>

\* required_terminal looks at the connection, not at the context, and tries.
TerminalChecked(w) ==
    /\ wpc[w] = "terminal"
    /\ ConnOf(w) \notin disconnected
    /\ WorkerAt(w, "last")
    /\ UNCHANGED <<client, conn, output, queue, job, life, pending>>

TerminalSkipped(w) ==
    /\ wpc[w] = "terminal"
    /\ ConnOf(w) \in disconnected
    /\ WorkerAt(w, "release")
    /\ UNCHANGED <<client, conn, output, queue, job, life, pending>>

TerminalSent(w) ==
    /\ wpc[w] = "last"
    /\ HasRoom(ConnOf(w))
    /\ Enqueue(ConnOf(w), ErrorFrame(w))
    /\ life' = [life EXCEPT ![w] = Terminal]
    /\ WorkerAt(w, "release")
    /\ UNCHANGED <<client, conn, writing, writer, got, queue, job, pending>>

TerminalFull(w) ==
    /\ wpc[w] = "last"
    /\ ~HasRoom(ConnOf(w))
    /\ WorkerAt(w, "terminal")
    /\ UNCHANGED <<client, conn, output, queue, job, life, pending>>

\* The error frame is too large, or the queue was full for 100 ms.
TerminalGivesUp(w) ==
    /\ wpc[w] = "terminal"
    /\ Disconnect(ConnOf(w))
    /\ WorkerAt(w, "release")
    /\ UNCHANGED <<client, reader, control, active, output, queue, job, life, pending>>

\* ActiveGuard: after the sender is dropped the ID is removed by its name; the
\* token and the sink are gone with the job.
WorkerReleases(w) ==
    /\ wpc[w] = "release"
    /\ RemoveId(ConnOf(w), sent[job[w]].id)
    /\ stopped' = stopped \ {job[w]}
    /\ job' = [job EXCEPT ![w] = 0]
    /\ life' = [life EXCEPT ![w] = NotStarted]
    /\ WorkerAt(w, "recv")
    /\ UNCHANGED <<client, reader, control, disconnected, output, queue, pending>>

---------------------------------------------------------------------------

Environment ==
    \/ \E c \in load.conns :
          \/ \E q \in Requests : ClientSend(c, q)
          \/ \E h \in {"half", "full"} : ClientClose(c, h)
          \/ ClientStall(c)
    \/ Shutdown
    \/ \E r \in Serials : DeadlinePasses(r)

Reader(c) ==
    \/ ReadRefused(c) \/ ReadCancel(c) \/ ReadLate(c) \/ ReadQuery(c) \/ ReadQueueFull(c)
    \/ ControlSent(c) \/ ControlGivesUp(c) \/ ReadEnds(c) \/ ReadTimesOut(c)
    \/ ReaderCloses(c) \/ ReaderJoins(c)

Writer(c) ==
    WriterTakes(c) \/ WriterWrites(c) \/ WriterDiscards(c) \/ WriterFails(c) \/ WriterEnds(c)

\* The steps of a worker that the runtime itself takes.
WorkerStep(w) ==
    \/ WorkerTakes(w) \/ WorkerStarts(w) \/ WorkerReleases(w)
    \/ ContextChecked(w) \/ FlagChecked(w) \/ FrameSent(w) \/ FrameFull(w) \/ FrameRefused(w)
    \/ TerminalChecked(w) \/ TerminalSkipped(w) \/ TerminalSent(w) \/ TerminalFull(w)
    \/ TerminalGivesUp(w)

Dispatch(w) ==
    \/ \E k \in {"result", "error", "begin", "chunk", "end"}, n \in 0 .. load.seq :
          DispatchSends(w, k, n)
    \/ DispatchEnds(w)

Next ==
    \/ Environment
    \/ \E c \in Conns : Reader(c) \/ Writer(c)
    \/ \E w \in Workers : WorkerStep(w) \/ Dispatch(w)

Spec == Init /\ [][Next]_vars

\* Threads run, dispatchers end, deadlines and the 100 ms of required_terminal
\* pass; clients owe nothing.
Fairness ==
    /\ \A c \in Conns : WF_vars(Reader(c)) /\ WF_vars(Writer(c))
    /\ \A w \in Workers : WF_vars(WorkerStep(w)) /\ WF_vars(Dispatch(w)) /\ SF_vars(TerminalGivesUp(w))
    /\ \A r \in Serials : WF_vars(DeadlinePasses(r))
FairSpec == Spec /\ Fairness

---------------------------------------------------------------------------
(* Properties                                                              *)

\* Type invariant of the runtime's state.
TypeOK ==
    /\ sent \in Seq(Requests) /\ Len(sent) <= MaxRequests
    /\ inbound \in [Conns -> Seq(Serials)]
    /\ closed \in [Conns -> {"no", "half", "full"}] /\ stalled \subseteq Conns /\ shutdown \in BOOLEAN
    /\ reader \in [Conns -> {"reading", "reply", "fatal", "closing", "join", "gone"}]
    /\ control \in [Conns -> Frames]
    /\ active \in [Conns -> [Ids -> 0 .. MaxRequests]]
    /\ disconnected \subseteq Conns /\ stopped \subseteq Serials
    /\ out \in [Conns -> Seq(Frames)] /\ \A c \in Conns : Len(out[c]) <= OutputChunks
    /\ writing \in [Conns -> Frames]
    /\ writer \in [Conns -> {"run", "done"}]
    /\ queue \in Seq(Serials) /\ Len(queue) <= QueueDepth
    /\ wpc \in [Workers -> {"recv", "release"} \cup Sending]
    /\ job \in [Workers -> 0 .. MaxRequests]
    /\ life \in [Workers -> {Terminal, NotStarted} \cup {Streaming(n) : n \in 1 .. load.seq}]
    /\ pending \in [Workers -> Frames]
    /\ got \in [Serials -> Seq(Frames)]

Running == {job[w] : w \in {v \in Workers : wpc[v] # "recv"}}

\* The registry holds exactly the queued and the running jobs, each under its
\* own ID, whichever of reader and worker put it in or took it out; so removal
\* by name never removes somebody else's entry, and the limit holds.
RegistryExact ==
    /\ \A c \in Conns :
        /\ ActiveSerials(c) = {r \in ToSet(queue) \cup Running : sent[r].conn = c}
        /\ \A i \in ActiveIds(c) : sent[active[c][i]].id = i
        /\ Cardinality(ActiveIds(c)) <= load.active
    /\ ToSet(queue) \cap Running = {}
    /\ \A v, w \in Workers : job[v] = job[w] /\ job[v] # 0 => v = w

\* Response grammar: result or error alone, or begin, chunks numbered without a
\* gap, and one end.
LegalResponse(s) ==
    \/ s = <<>>
    \/ Len(s) = 1 /\ s[1].kind \in {"result", "error"} /\ s[1].seq = 0
    \/ /\ \A i \in 1 .. Len(s) : s[i].seq = i - 1
       /\ s[1].kind = "begin"
       /\ \A i \in 2 .. Len(s) :
             s[i].kind = "chunk" \/ (i = Len(s) /\ s[i].kind \in {"end", "end_error"})

InFlight(c) == (IF writing[c] = NoFrame THEN <<>> ELSE <<writing[c]>>) \o out[c]
FramesOf(r, frames) ==
    FlattenSeq([n \in DOMAIN frames |-> IF frames[n].req = r THEN <<frames[n]>> ELSE <<>>])
Emitted(r) == got[r] \o FramesOf(r, InFlight(sent[r].conn))

\* What a client has received for a request is a prefix of one response.
DeliveredLegal == \A r \in Serials : LegalResponse(got[r])

\* Whatever the dispatcher does, and although reader and workers write to the
\* same queue, what is emitted for a request is a prefix of one response.  Only
\* a disconnected writer drops frames, and then nothing later is delivered.
ResponsesLegal ==
    /\ DeliveredLegal
    /\ \A r \in 1 .. Len(sent) :
          sent[r].conn \notin disconnected => LegalResponse(Emitted(r))

\* The writer outlives every sender: no job still to run can find its output
\* queue closed, and a connection is released only after its jobs let go.
WriterOutlivesSenders ==
    \A c \in Conns : writer[c] = "done" => NoSenders(c) /\ out[c] = <<>>

\* The workers whose frame for r no check can stop any more.
PastChecks(r) ==
    {w \in Workers :
        /\ job[w] = r
        /\ wpc[w] = "push" \/ (wpc[w] = "flag" /\ ConnOf(w) \notin disconnected)}

\* A request that is cancelled, late or disconnected passes no check any more: it
\* emits the frame that has passed them, if there is one, and its error terminal.
StoppedStaysSilent ==
    [][\A r \in stopped :
          r \in stopped' =>
              /\ PastChecks(r)' \subseteq PastChecks(r)
              /\ Len(Emitted(r)') > Len(Emitted(r)) =>
                    \/ Last(Emitted(r)').kind \in {"error", "end_error"}
                    \/ PastChecks(r)' # PastChecks(r)]_vars

\* Every accepted job ends and frees its ID, although its client may never
\* read, its dispatcher may only stop at the deadline and workers are shared.
JobsEnd ==
    \A r \in Serials :
        (\E c \in Conns : r \in ActiveSerials(c)) ~> ~(\E c \in Conns : r \in ActiveSerials(c))

\* A connection whose client left, or that the shutdown flag reaches, ends: its
\* reader waits for the writer, and the writer for every queued or running job.
ConnectionsEnd ==
    \A c \in Conns : (closed[c] # "no" \/ shutdown) ~> reader[c] = "gone"
===========================================================================
