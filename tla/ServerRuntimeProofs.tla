------------------------- MODULE ServerRuntimeProofs -------------------------
(***************************************************************************)
(* The registry of active requests is exact, the writer outlives every     *)
(* sender, what is emitted for a request is a prefix of a legal response,  *)
(* and a request that was stopped passes no check on its way out: for      *)
(* every set of connections, workers and IDs, every load and every size of *)
(* the queues.                                                             *)
(* The scan gate of the same file follows at the end.                      *)
(***************************************************************************)
EXTENDS ServerRuntime, ScanGate, SequenceLemmas, FiniteSetTheorems, TLAPS

(***************************************************************************)
(* The inductive invariant.  A serial names the same request for good, so  *)
(* it suffices to know where serials are: on one socket, once (Unread), or *)
(* in the queue or with one worker (Accepted), never twice; and those that *)
(* are accepted are the registered ones (Entered, Registered).             *)
(***************************************************************************)
Accepted == ToSet(queue) \cup Running

\* A serial that is on a socket, queued or with a worker was sent, and a worker
\* has one exactly while it does not wait for the next.
SerialsSent ==
    /\ \A c \in Conns : \A r \in ToSet(inbound[c]) : r \in 1 .. Len(sent) /\ sent[r].conn = c
    /\ \A r \in ToSet(queue) : r \in 1 .. Len(sent)
    /\ \A w \in Workers : job[w] \in 0 .. Len(sent) /\ (job[w] = 0 <=> wpc[w] = "recv")

\* Where a worker has a frame to enqueue; the frame was found legal.
Enqueuing == {"send", "flag", "push"}
PendingLegal ==
    \A w \in Workers :
        wpc[w] \in Enqueuing => Validate(life[w], pending[w].kind, pending[w].seq) # Rejected

\* Types, and what they rest on.
Typed == load \in Loads /\ TypeOK /\ SerialsSent /\ PendingLegal

\* Every serial on a socket is there once and was not accepted before.
Unread ==
    \A c \in Conns : IsInjective(inbound[c]) /\ ToSet(inbound[c]) \cap Accepted = {}

\* An accepted serial is in one place.
HeldOnce ==
    /\ IsInjective(queue)
    /\ ToSet(queue) \cap Running = {}
    /\ \A v, w \in Workers : job[v] = job[w] /\ job[v] # 0 => v = w

Entered ==
    \A c \in Conns, i \in Ids :
        active[c][i] # 0 =>
            /\ active[c][i] \in Accepted
            /\ sent[active[c][i]].conn = c /\ sent[active[c][i]].id = i

Registered == \A r \in Accepted : active[sent[r].conn][sent[r].id] = r

WithinActive == \A c \in Conns : Cardinality(ActiveIds(c)) <= load.active

RegistryInv == Unread /\ HeldOnce /\ Entered /\ Registered /\ WithinActive
RInv == Typed /\ RegistryInv /\ WriterOutlivesSenders

---------------------------------------------------------------------------
(* Sequences and constants                                                 *)

LEMMA AppendSet ==
    ASSUME NEW S, NEW s \in Seq(S), NEW x \in S
    PROVE  /\ Append(s, x) \in Seq(S)
           /\ ToSet(Append(s, x)) = ToSet(s) \cup {x}
           /\ IsInjective(s) /\ x \notin ToSet(s) => IsInjective(Append(s, x))
  <1> DEFINE t == Append(s, x)
  <1>1. /\ t \in Seq(S) /\ Len(t) = Len(s) + 1 /\ t[Len(s) + 1] = x
        /\ \A n \in 1 .. Len(s) : t[n] = s[n]
    OBVIOUS
  <1>2. DOMAIN t = 1 .. Len(s) + 1 /\ DOMAIN s = 1 .. Len(s)
    BY <1>1
  <1>3. ToSet(t) \subseteq ToSet(s) \cup {x}
    BY <1>1, <1>2 DEF ToSet
  <1>4. ToSet(s) \cup {x} \subseteq ToSet(t)
    <2>1. ASSUME NEW n \in DOMAIN s PROVE s[n] \in ToSet(t)
      BY <1>1, <1>2 DEF ToSet
    <2>2. x \in ToSet(t)
      BY <1>1, <1>2 DEF ToSet
    <2> QED
      BY <2>1, <2>2 DEF ToSet
  <1>5. ASSUME IsInjective(s), x \notin ToSet(s),
               NEW m \in DOMAIN t, NEW n \in DOMAIN t, t[m] = t[n]
        PROVE  m = n
    BY <1>1, <1>2, <1>5 DEF IsInjective, ToSet
  <1>6. IsInjective(s) /\ x \notin ToSet(s) => IsInjective(t)
    BY <1>5 DEF IsInjective
  <1> QED
    BY <1>1, <1>3, <1>4, <1>6

LEMMA TailSet ==
    ASSUME NEW S, NEW s \in Seq(S), s # <<>>
    PROVE  /\ Head(s) \in S /\ Head(s) \in ToSet(s)
           /\ Tail(s) \in Seq(S) /\ Len(Tail(s)) = Len(s) - 1
           /\ ToSet(Tail(s)) \subseteq ToSet(s)
           /\ ToSet(s) = {Head(s)} \cup ToSet(Tail(s))
           /\ IsInjective(s) => IsInjective(Tail(s)) /\ Head(s) \notin ToSet(Tail(s))
  <1> DEFINE t == Tail(s)
  <1>1. /\ Head(s) = s[1] /\ Head(s) \in S /\ Len(s) > 0
        /\ t \in Seq(S) /\ Len(t) = Len(s) - 1
        /\ \A n \in 1 .. Len(t) : t[n] = s[n + 1]
    OBVIOUS
  <1>2. DOMAIN t = 1 .. Len(t) /\ DOMAIN s = 1 .. Len(s)
    BY <1>1
  <1>3. Head(s) \in ToSet(s)
    BY <1>1, <1>2 DEF ToSet
  <1>4. ToSet(t) \subseteq ToSet(s)
    BY <1>1, <1>2 DEF ToSet
  <1>5. ASSUME NEW n \in DOMAIN s PROVE s[n] = Head(s) \/ s[n] \in ToSet(t)
    <2>1. CASE n = 1
      BY <1>1, <2>1
    <2>2. CASE n # 1
      <3>1. n - 1 \in DOMAIN t /\ t[n - 1] = s[n]
        BY <1>1, <1>2, <2>2
      <3> QED
        BY <3>1 DEF ToSet
    <2> QED
      BY <2>1, <2>2
  <1>6. ToSet(s) = {Head(s)} \cup ToSet(t)
    BY <1>3, <1>4, <1>5 DEF ToSet
  <1>7. ASSUME IsInjective(s) PROVE IsInjective(t) /\ Head(s) \notin ToSet(t)
    BY <1>1, <1>2, <1>7 DEF IsInjective, ToSet
  <1> QED
    BY <1>1, <1>3, <1>4, <1>6, <1>7

LEMMA LoadFacts ==
    ASSUME load \in Loads
    PROVE  /\ load.conns \subseteq Conns /\ load.requests \in 0 .. MaxRequests
           /\ load.active \in Nat \ {0} /\ load.seq \in Nat \ {0}
  BY LoadsAssumption

LEMMA FrameType ==
    ASSUME NEW r \in 0 .. MaxRequests, NEW n \in 0 .. load.seq,
           NEW k \in {"none", "transport", "result", "error", "begin", "chunk", "end", "end_error"}
    PROVE  Frame(r, k, n) \in Frames
  BY DEF Frame, Frames

LEMMA NoFrameType ==
    ASSUME load \in Loads
    PROVE  NoFrame \in Frames
  BY LoadFacts, SizesAssumption DEF NoFrame, Frame, Frames

\* The request of a serial that was sent.
LEMMA SentRequest ==
    ASSUME Typed, NEW r \in 1 .. Len(sent)
    PROVE  /\ r \in Serials /\ sent[r] \in Requests
           /\ sent[r].conn \in Conns /\ sent[r].id \in Ids /\ sent[r].target \in Ids
  <1>1. sent \in Seq(Requests) /\ Len(sent) <= MaxRequests /\ load.conns \subseteq Conns
    BY LoadFacts DEF Typed, TypeOK
  <1>2. sent[r] \in Requests
    BY <1>1
  <1>3. r \in Serials
    BY <1>1, SizesAssumption DEF Serials
  <1> QED
    BY <1>1, <1>2, <1>3 DEF Requests

\* What the next line of a socket is.
LEMMA LineFacts ==
    ASSUME Typed, NEW c \in Conns, inbound[c] # <<>>
    PROVE  /\ Line(c) \in 1 .. Len(sent) /\ Line(c) \in Serials
           /\ Line(c) \in ToSet(inbound[c])
           /\ sent[Line(c)] \in Requests /\ sent[Line(c)].conn = c
           /\ sent[Line(c)].id \in Ids /\ sent[Line(c)].target \in Ids
           /\ Tail(inbound[c]) \in Seq(Serials)
           /\ ToSet(Tail(inbound[c])) \subseteq ToSet(inbound[c])
  <1>1. inbound[c] \in Seq(Serials)
    BY DEF Typed, TypeOK
  <1>2. Line(c) \in ToSet(inbound[c]) /\ Tail(inbound[c]) \in Seq(Serials)
        /\ ToSet(Tail(inbound[c])) \subseteq ToSet(inbound[c])
    BY <1>1, TailSet DEF Line
  <1>3. Line(c) \in 1 .. Len(sent) /\ sent[Line(c)].conn = c
    BY <1>2 DEF Typed, SerialsSent
  <1> QED
    BY <1>2, <1>3, SentRequest

\* The connection of a worker that has a job.
LEMMA JobFacts ==
    ASSUME Typed, NEW w \in Workers, wpc[w] # "recv"
    PROVE  /\ job[w] \in 1 .. Len(sent) /\ job[w] \in Serials
           /\ ConnOf(w) \in Conns /\ sent[job[w]].id \in Ids
  <1>1. job[w] \in 1 .. Len(sent)
    BY DEF Typed, TypeOK, SerialsSent
  <1> QED
    BY <1>1, SentRequest DEF ConnOf

LEMMA ActiveSerialsType ==
    ASSUME Typed, NEW c \in Conns
    PROVE  ActiveSerials(c) \subseteq Serials
  BY SizesAssumption DEF Typed, TypeOK, ActiveSerials, ActiveIds, Serials

---------------------------------------------------------------------------
(* Types                                                                   *)

LEMMA SameSets ==
    ASSUME load' = load
    PROVE  /\ Frames' = Frames /\ Requests' = Requests
           /\ {Streaming(n) : n \in 1 .. load'.seq} = {Streaming(n) : n \in 1 .. load.seq}
           /\ \A l, k, n : Validate(l, k, n)' = Validate(l, k, n)
  BY DEF Frames, Requests, Validate

LEMMA EnqueueType ==
    ASSUME Typed, NEW c \in Conns, NEW f \in Frames, HasRoom(c), Enqueue(c, f)
    PROVE  /\ out' \in [Conns -> Seq(Frames)]
           /\ \A d \in Conns : Len(out'[d]) <= OutputChunks
           /\ \A d \in Conns : d # c => out'[d] = out[d]
  <1>1. out \in [Conns -> Seq(Frames)] /\ \A d \in Conns : Len(out[d]) <= OutputChunks
    BY DEF Typed, TypeOK
  <1>2. Append(out[c], f) \in Seq(Frames) /\ Len(Append(out[c], f)) = Len(out[c]) + 1
    BY <1>1
  <1>3. Len(out[c]) + 1 <= OutputChunks
    BY <1>1, SizesAssumption DEF HasRoom
  <1> QED
    BY <1>1, <1>2, <1>3 DEF Enqueue

LEMMA TakeLineType ==
    ASSUME Typed, NEW c \in Conns, TakeLine(c)
    PROVE  /\ inbound' \in [Conns -> Seq(Serials)]
           /\ \A d \in Conns : ToSet(inbound'[d]) \subseteq ToSet(inbound[d])
           /\ UNCHANGED <<load, sent, closed, stalled, shutdown>>
           /\ sent \in Seq(Requests) /\ Len(sent) <= MaxRequests
  BY LineFacts DEF TakeLine, Typed, TypeOK

\* A step that leaves serials, workers and their frames alone.
LEMMA SerialsKept ==
    ASSUME Typed, UNCHANGED <<load, sent, queue, wpc, job, life, pending>>,
           \A c \in Conns : ToSet(inbound'[c]) \subseteq ToSet(inbound[c])
    PROVE  load' \in Loads /\ SerialsSent' /\ PendingLegal'
  BY SameSets DEF Typed, SerialsSent, PendingLegal

LEMMA EnvironmentType ==
    ASSUME Typed, Environment
    PROVE  Typed'
  <1>1. ASSUME NEW c \in load.conns, NEW q \in Requests, ClientSend(c, q)
        PROVE  Typed'
    <2>1. c \in Conns /\ load' = load /\ load' \in Loads /\ load.requests <= MaxRequests
          /\ load.requests \in Nat /\ Len(sent) \in Nat
      BY <1>1, LoadFacts, SizesAssumption DEF Typed, TypeOK, ClientSend
    <2>2. /\ sent' \in Seq(Requests) /\ Len(sent') = Len(sent) + 1 /\ Len(sent') <= MaxRequests
          /\ sent'[Len(sent) + 1] = q /\ \A r \in 1 .. Len(sent) : sent'[r] = sent[r]
      <3>1. sent \in Seq(Requests) /\ sent' = Append(sent, q) /\ Len(sent) < load.requests
        BY <1>1 DEF Typed, TypeOK, ClientSend
      <3>2. /\ sent' \in Seq(Requests) /\ Len(sent') = Len(sent) + 1
            /\ sent'[Len(sent) + 1] = q /\ \A r \in 1 .. Len(sent) : sent'[r] = sent[r]
        BY <3>1
      <3> QED
        BY <2>1, <3>1, <3>2, SizesAssumption
    <2>3. Len(sent) + 1 \in Serials
      BY <2>1, <2>2, SizesAssumption DEF Serials
    <2>4. inbound[c] \in Seq(Serials)
      BY <2>1 DEF Typed, TypeOK
    <2>5. inbound' \in [Conns -> Seq(Serials)]
          /\ ToSet(inbound'[c]) = ToSet(inbound[c]) \cup {Len(sent) + 1}
          /\ \A d \in Conns : d # c => inbound'[d] = inbound[d]
      BY <1>1, <2>1, <2>3, <2>4, AppendSet DEF Typed, TypeOK, ClientSend
    <2>6. TypeOK'
      BY <1>1, <2>1, <2>2, <2>5, SameSets DEF ClientSend, conn, output, pool, Typed, TypeOK
    <2>7. SerialsSent' /\ PendingLegal'
      BY <1>1, <2>1, <2>2, <2>5, SameSets
         DEF ClientSend, conn, output, pool, Typed, SerialsSent, PendingLegal
    <2> QED
      BY <2>1, <2>6, <2>7 DEF Typed
  <1>2. ASSUME NEW c \in load.conns, NEW h \in {"half", "full"}, ClientClose(c, h)
        PROVE  Typed'
    BY <1>2, SerialsKept, SameSets DEF ClientClose, conn, output, pool, Typed, TypeOK
  <1>3. ASSUME NEW c \in load.conns, ClientStall(c) PROVE Typed'
    BY <1>3, SerialsKept, SameSets, LoadFacts
       DEF ClientStall, conn, output, pool, Typed, TypeOK
  <1>4. CASE Shutdown
    BY <1>4, SerialsKept, SameSets DEF Shutdown, conn, output, pool, Typed, TypeOK
  <1>5. ASSUME NEW r \in Serials, DeadlinePasses(r) PROVE Typed'
    BY <1>5, SerialsKept, SameSets DEF DeadlinePasses, client, output, pool, Typed, TypeOK
  <1> QED
    BY <1>1, <1>2, <1>3, <1>4, <1>5 DEF Environment

LEMMA ReaderType ==
    ASSUME Typed, NEW c \in Conns, Reader(c)
    PROVE  Typed'
  <1> USE DEF Reply, conn, output, pool, Typed, TypeOK
  <1>1. NoFrame \in Frames /\ 0 \in 0 .. load.seq /\ 0 \in 0 .. MaxRequests
    BY NoFrameType, LoadFacts, SizesAssumption
  <1>2. ASSUME TakeLine(c)
        PROVE  /\ Line(c) \in Serials /\ Line(c) \in 0 .. MaxRequests
               /\ Line(c) \in 1 .. Len(sent) /\ sent[Line(c)] \in Requests
               /\ sent[Line(c)].id \in Ids /\ sent[Line(c)].target \in Ids
    BY <1>2, LineFacts DEF TakeLine, Serials
  <1>3. CASE ReadRefused(c)
    <2>1. Frame(0, "transport", 0) \in Frames
      BY <1>1, FrameType
    <2> QED
      BY <1>3, <2>1, TakeLineType, SerialsKept, SameSets DEF ReadRefused
  <1>4. CASE ReadCancel(c)
    <2>1. TakeLine(c)
      BY <1>4 DEF ReadCancel
    <2>2. Frame(Line(c), "result", 0) \in Frames
      BY <1>1, <1>2, <2>1, FrameType
    <2>3. {active[c][sent[Line(c)].target]} \ {0} \subseteq Serials
      BY <1>2, <2>1, SizesAssumption DEF Serials
    <2> QED
      BY <1>4, <2>1, <2>2, <2>3, TakeLineType, SerialsKept, SameSets DEF ReadCancel
  <1>5. CASE ReadLate(c)
    <2>1. TakeLine(c)
      BY <1>5 DEF ReadLate
    <2>2. Frame(Line(c), "error", 0) \in Frames
      BY <1>1, <1>2, <2>1, FrameType
    <2> QED
      BY <1>5, <2>1, <2>2, TakeLineType, SerialsKept, SameSets DEF ReadLate
  <1>6. CASE ReadQuery(c)
    <2>1. TakeLine(c) /\ load' = load
      BY <1>6 DEF ReadQuery, TakeLine
    <2>2. queue' \in Seq(Serials) /\ Len(queue') <= QueueDepth
          /\ ToSet(queue') = ToSet(queue) \cup {Line(c)}
      BY <1>2, <1>6, <2>1, AppendSet, SizesAssumption DEF ReadQuery
    <2>3. active' \in [Conns -> [Ids -> 0 .. MaxRequests]]
      BY <1>2, <1>6, <2>1 DEF ReadQuery
    <2>4. TypeOK'
      BY <1>6, <2>1, <2>2, <2>3, TakeLineType, SameSets DEF ReadQuery
    <2>5. PendingLegal'
      BY <1>6, <2>1, SameSets DEF ReadQuery, PendingLegal
    <2>6. UNCHANGED <<sent, wpc, job>>
      BY <1>6, <2>1 DEF ReadQuery, TakeLine
    <2>7. SerialsSent'
      <3>1. \A d \in Conns : \A r \in ToSet(inbound'[d]) :
                r \in 1 .. Len(sent') /\ sent'[r].conn = d
        BY <2>1, <2>6, TakeLineType DEF SerialsSent
      <3>2. \A r \in ToSet(queue') : r \in 1 .. Len(sent')
        BY <1>2, <2>1, <2>2, <2>6 DEF SerialsSent
      <3>3. \A w \in Workers :
                job'[w] \in 0 .. Len(sent') /\ (job'[w] = 0 <=> wpc'[w] = "recv")
        BY <2>6 DEF SerialsSent
      <3> QED
        BY <3>1, <3>2, <3>3 DEF SerialsSent
    <2> QED
      BY <2>1, <2>4, <2>5, <2>7
  <1>7. CASE ReadQueueFull(c)
    <2>1. TakeLine(c)
      BY <1>7 DEF ReadQueueFull
    <2>2. Frame(Line(c), "error", 0) \in Frames
      BY <1>1, <1>2, <2>1, FrameType
    <2> QED
      BY <1>1, <1>7, <2>1, <2>2, TakeLineType, SerialsKept, SameSets DEF ReadQueueFull, RemoveId
  <1>8. CASE ControlSent(c)
    <2>1. control[c] \in Frames
      OBVIOUS
    <2>2. /\ out' \in [Conns -> Seq(Frames)]
          /\ \A d \in Conns : Len(out'[d]) <= OutputChunks
          /\ UNCHANGED <<client, active, writing, writer, got, pool>>
      BY <1>8, <2>1, EnqueueType DEF ControlSent
    <2>3. reader' \in [Conns -> {"reading", "reply", "fatal", "closing", "join", "gone"}]
          /\ control' \in [Conns -> Frames]
      <3>1. Reply(c, NoFrame, "reading") \/ Reply(c, NoFrame, "closing")
        BY <1>8 DEF ControlSent
      <3> QED
        BY <1>1, <3>1
    <2>4. disconnected' \subseteq Conns /\ stopped' \subseteq Serials
      BY <1>8, ActiveSerialsType DEF ControlSent, Disconnect
    <2> QED
      BY <2>2, <2>3, <2>4, SerialsKept, SameSets DEF client
  <1>9. CASE ControlGivesUp(c)
    BY <1>1, <1>9, ActiveSerialsType, SerialsKept, SameSets DEF ControlGivesUp, Disconnect, client
  <1>10. CASE ReadEnds(c)
    BY <1>1, <1>10, SerialsKept, SameSets DEF ReadEnds, client
  <1>11. CASE ReadTimesOut(c)
    BY <1>1, <1>11, SerialsKept, SameSets DEF ReadTimesOut, client
  <1>12. CASE ReaderCloses(c)
    BY <1>1, <1>12, ActiveSerialsType, SerialsKept, SameSets DEF ReaderCloses, Disconnect, client
  <1>13. CASE ReaderJoins(c)
    BY <1>1, <1>13, SerialsKept, SameSets DEF ReaderJoins, client
  <1> QED
    BY <1>3, <1>4, <1>5, <1>6, <1>7, <1>8, <1>9, <1>10, <1>11, <1>12, <1>13 DEF Reader

LEMMA WriterType ==
    ASSUME Typed, NEW c \in Conns, Writer(c)
    PROVE  Typed'
  <1> USE DEF client, conn, pool, Typed, TypeOK
  <1>1. NoFrame \in Frames
    BY NoFrameType
  <1>2. CASE WriterTakes(c)
    <2>1. out[c] \in Seq(Frames) /\ Len(out[c]) <= OutputChunks /\ out[c] # <<>>
      BY <1>2 DEF WriterTakes
    <2>2. Head(out[c]) \in Frames /\ Tail(out[c]) \in Seq(Frames)
          /\ Len(Tail(out[c])) <= OutputChunks
      BY <2>1, SizesAssumption
    <2> QED
      BY <1>2, <2>2, SerialsKept, SameSets DEF WriterTakes
  <1>3. CASE WriterWrites(c)
    <2>1. got' \in [Serials -> Seq(Frames)]
      <3>1. CASE writing[c].req = 0
        BY <1>3, <3>1 DEF WriterWrites
      <3>2. CASE writing[c].req # 0
        <4>1. writing[c].req \in Serials /\ writing[c] \in Frames
          BY <3>2, SizesAssumption DEF Frames, Serials
        <4>2. Append(got[writing[c].req], writing[c]) \in Seq(Frames)
          BY <4>1
        <4> QED
          BY <1>3, <3>2, <4>2 DEF WriterWrites
      <3> QED
        BY <3>1, <3>2
    <2> QED
      BY <1>1, <1>3, <2>1, SerialsKept, SameSets DEF WriterWrites
  <1>4. CASE WriterDiscards(c)
    BY <1>1, <1>4, SerialsKept, SameSets DEF WriterDiscards
  <1>5. CASE WriterFails(c)
    BY <1>1, <1>5, ActiveSerialsType, SerialsKept, SameSets DEF WriterFails, Disconnect
  <1>6. CASE WriterEnds(c)
    BY <1>6, SerialsKept, SameSets DEF WriterEnds
  <1> QED
    BY <1>2, <1>3, <1>4, <1>5, <1>6 DEF Writer

\* What a legal frame makes of the lifecycle.
LEMMA ValidateType ==
    ASSUME load \in Loads,
           NEW l \in {Terminal, NotStarted} \cup {Streaming(n) : n \in 1 .. load.seq},
           NEW k, NEW n \in 0 .. load.seq, Validate(l, k, n) # Rejected
    PROVE  Validate(l, k, n) \in {Terminal, NotStarted} \cup {Streaming(m) : m \in 1 .. load.seq}
  <1>1. load.seq \in Nat \ {0}
    BY LoadFacts
  <1>2. Validate(l, k, n) = Terminal \/ Validate(l, k, n) = Streaming(1)
        \/ (n < load.seq /\ Validate(l, k, n) = Streaming(n + 1))
    BY DEF Validate
  <1> QED
    BY <1>1, <1>2

\* The steps of send_frame and required_terminal that only look.
Looks(w) ==
    \/ ContextChecked(w) \/ FlagChecked(w) \/ FrameFull(w)
    \/ TerminalChecked(w) \/ TerminalFull(w) \/ TerminalSkipped(w)

LEMMA LooksMove ==
    ASSUME NEW w \in Workers, Looks(w)
    PROVE  /\ UNCHANGED <<client, conn, output, queue, job, life, pending>>
           /\ \/ wpc[w] \in Enqueuing /\ \E l \in Enqueuing : WorkerAt(w, l)
              \/ /\ wpc[w] \in {"terminal", "last"}
                 /\ \E l \in {"terminal", "last", "release"} : WorkerAt(w, l)
  BY DEF Looks, ContextChecked, FlagChecked, FrameFull, TerminalChecked, TerminalFull,
         TerminalSkipped, Enqueuing

\* A worker moves on with the job it has.
Moves(w) ==
    /\ wpc[w] # "recv"
    /\ \E l \in (Sending \cup {"release"}) \ {"start"} : WorkerAt(w, l)
    /\ UNCHANGED <<client, active, queue, job>>

LEMMA MovesSerials ==
    ASSUME Typed, NEW w \in Workers, Moves(w)
    PROVE  /\ load' \in Loads /\ SerialsSent'
           /\ wpc' \in [Workers -> {"recv", "release"} \cup Sending]
           /\ \A v \in Workers : wpc'[v] = "recv" <=> wpc[v] = "recv"
  BY DEF Moves, WorkerAt, client, Typed, TypeOK, SerialsSent, Sending

LEMMA WorkerMoves ==
    ASSUME Typed, NEW w \in Workers,
           \/ WorkerStarts(w) \/ FrameSent(w) \/ FrameRefused(w) \/ TerminalSent(w)
           \/ TerminalGivesUp(w) \/ Looks(w) \/ Dispatch(w)
    PROVE  Moves(w)
  <1>1. CASE Looks(w)
    BY <1>1, LooksMove DEF Moves, Enqueuing, Sending, conn, client
  <1>2. CASE ~Looks(w)
    BY <1>2
       DEF Moves, Sending, WorkerStarts, FrameSent, FrameRefused, TerminalSent, TerminalGivesUp,
           Dispatch, DispatchSends, DispatchEnds, Finishing, WorkerAt, Disconnect, conn, output,
           client
  <1> QED
    BY <1>1, <1>2

LEMMA WorkerMovesType ==
    ASSUME Typed, NEW w \in Workers,
           \/ WorkerStarts(w) \/ FrameSent(w) \/ FrameRefused(w) \/ TerminalSent(w)
           \/ TerminalGivesUp(w) \/ Looks(w) \/ Dispatch(w)
    PROVE  Typed'
  <1>1. /\ load' \in Loads /\ SerialsSent' /\ load' = load
        /\ wpc' \in [Workers -> {"recv", "release"} \cup Sending]
        /\ wpc[w] # "recv" /\ UNCHANGED <<client, active, queue, job>>
    BY WorkerMoves, MovesSerials DEF Moves, client
  <1>2. job[w] \in 0 .. MaxRequests /\ ConnOf(w) \in Conns /\ NoFrame \in Frames
    BY <1>1, JobFacts, NoFrameType DEF Typed, TypeOK
  <1> USE DEF client, conn, output, Typed, TypeOK
  <1>3. CASE WorkerStarts(w)
    BY <1>1, <1>3, SameSets DEF WorkerStarts, WorkerAt, PendingLegal, Enqueuing
  <1>4. CASE FrameSent(w)
    <2>1. /\ out' \in [Conns -> Seq(Frames)]
          /\ \A d \in Conns : Len(out'[d]) <= OutputChunks
      BY <1>2, <1>4, EnqueueType DEF FrameSent
    <2>2. /\ wpc[w] = "push" /\ pending[w] \in Frames /\ pending[w].seq \in 0 .. load.seq
          /\ life[w] \in {Terminal, NotStarted} \cup {Streaming(n) : n \in 1 .. load.seq}
          /\ Validate(life[w], pending[w].kind, pending[w].seq) # Rejected
      BY <1>4 DEF FrameSent, PendingLegal, Enqueuing, Frames
    <2>3. life' \in [Workers -> {Terminal, NotStarted} \cup {Streaming(n) : n \in 1 .. load.seq}]
      BY <1>4, <2>2, ValidateType DEF FrameSent
    <2>4. PendingLegal'
      BY <1>1, <1>4, SameSets DEF FrameSent, WorkerAt, PendingLegal, Enqueuing
    <2>5. pending' \in [Workers -> Frames]
      BY <1>2, <1>4 DEF FrameSent
    <2> QED
      BY <1>1, <1>4, <2>1, <2>3, <2>4, <2>5, SameSets DEF FrameSent
  <1>5. CASE FrameRefused(w)
    <2>1. PendingLegal'
      BY <1>1, <1>5, SameSets DEF FrameRefused, WorkerAt, Finishing, PendingLegal, Enqueuing
    <2> QED
      BY <1>1, <1>2, <1>5, <2>1, SameSets DEF FrameRefused
  <1>6. CASE TerminalSent(w)
    <2>1. life[w] \in {Terminal, NotStarted} \cup {Streaming(n) : n \in 1 .. load.seq}
      OBVIOUS
    <2>2. ErrorFrame(w) \in Frames
      <3>1. 0 \in 0 .. load.seq
        BY LoadFacts
      <3>2. life[w].next_seq \in 0 .. load.seq
        BY <2>1, <3>1, LoadFacts DEF Terminal, NotStarted, Streaming, Lifecycle
      <3> QED
        BY <1>2, <3>1, <3>2, FrameType DEF ErrorFrame
    <2>3. /\ out' \in [Conns -> Seq(Frames)]
          /\ \A d \in Conns : Len(out'[d]) <= OutputChunks
      BY <1>2, <1>6, <2>2, EnqueueType DEF TerminalSent
    <2>4. PendingLegal'
      BY <1>1, <1>6, SameSets DEF TerminalSent, WorkerAt, PendingLegal, Enqueuing
    <2> QED
      BY <1>1, <1>6, <2>3, <2>4, SameSets DEF TerminalSent
  <1>7. CASE Looks(w)
    <2>1. PendingLegal'
      <3>1. UNCHANGED <<load, life, pending>> /\ wpc \in [Workers -> {"recv", "release"} \cup Sending]
        BY <1>7, LooksMove
      <3>2. ASSUME NEW v \in Workers, wpc'[v] \in Enqueuing PROVE wpc[v] \in Enqueuing
        BY <1>7, <3>1, <3>2, LooksMove DEF WorkerAt, Enqueuing
      <3> QED
        BY <3>1, <3>2, SameSets DEF PendingLegal
    <2> QED
      BY <1>1, <1>7, <2>1, LooksMove, SameSets
  <1>8. CASE TerminalGivesUp(w)
    <2>1. PendingLegal'
      BY <1>1, <1>8, SameSets DEF TerminalGivesUp, WorkerAt, PendingLegal, Enqueuing
    <2> QED
      BY <1>1, <1>2, <1>8, <2>1, ActiveSerialsType, SameSets DEF TerminalGivesUp, Disconnect
  <1>9. CASE DispatchEnds(w)
    BY <1>1, <1>9, SameSets DEF DispatchEnds, WorkerAt, Finishing, PendingLegal, Enqueuing
  <1>10. ASSUME NEW k \in {"result", "error", "begin", "chunk", "end"}, NEW n \in 0 .. load.seq,
                DispatchSends(w, k, n)
         PROVE  Typed'
    <2>1. Frame(job[w], k, n) \in Frames
      BY <1>2, FrameType
    <2>2. PendingLegal'
      BY <1>1, <1>10, SameSets DEF DispatchSends, WorkerAt, PendingLegal, Enqueuing, Frame
    <2> QED
      BY <1>1, <1>10, <2>1, <2>2, SameSets DEF DispatchSends
  <1> QED
    BY <1>3, <1>4, <1>5, <1>6, <1>7, <1>8, <1>9, <1>10 DEF Dispatch

\* A job goes from the queue to a worker.
LEMMA WorkerTakesType ==
    ASSUME Typed, NEW w \in Workers, WorkerTakes(w)
    PROVE  Typed'
  <1>1. /\ queue \in Seq(Serials) /\ Head(queue) \in Serials /\ Head(queue) \in ToSet(queue)
        /\ queue' \in Seq(Serials) /\ Len(queue') <= QueueDepth
        /\ ToSet(queue') \subseteq ToSet(queue)
    BY TailSet, SizesAssumption DEF WorkerTakes, Typed, TypeOK
  <1>2. Head(queue) \in 1 .. Len(sent) /\ Head(queue) \in 0 .. MaxRequests
    BY <1>1 DEF Typed, SerialsSent, Serials
  <1>3. Len(sent) \in Nat /\ Head(queue) # 0
    BY <1>2 DEF Typed, TypeOK
  <1>4. UNCHANGED <<client, conn, output, life, pending>> /\ load' = load
    BY DEF WorkerTakes, client
  <1>5. /\ wpc' = [wpc EXCEPT ![w] = "start"] /\ job' = [job EXCEPT ![w] = Head(queue)]
    BY DEF WorkerTakes, WorkerAt
  <1>6. TypeOK'
    BY <1>1, <1>2, <1>4, <1>5, SameSets DEF client, conn, output, Typed, TypeOK, Sending
  <1>7. SerialsSent'
    BY <1>1, <1>2, <1>3, <1>4, <1>5 DEF client, Typed, TypeOK, SerialsSent
  <1>8. PendingLegal'
    BY <1>4, <1>5, SameSets DEF Typed, TypeOK, PendingLegal, Enqueuing
  <1> QED
    BY <1>4, <1>6, <1>7, <1>8 DEF Typed

\* The job of a worker ends.
LEMMA WorkerReleasesType ==
    ASSUME Typed, NEW w \in Workers, WorkerReleases(w)
    PROVE  Typed'
  <1>1. UNCHANGED <<client, reader, control, disconnected, output, queue, pending>> /\ load' = load
    BY DEF WorkerReleases, client
  <1>2. /\ wpc' = [wpc EXCEPT ![w] = "recv"] /\ job' = [job EXCEPT ![w] = 0]
        /\ life' = [life EXCEPT ![w] = NotStarted] /\ stopped' \subseteq stopped
    BY DEF WorkerReleases, WorkerAt
  <1>3. active' \in [Conns -> [Ids -> 0 .. MaxRequests]]
    <2>1. 0 \in 0 .. MaxRequests /\ active \in [Conns -> [Ids -> 0 .. MaxRequests]]
      BY SizesAssumption DEF Typed, TypeOK
    <2>2. ConnOf(w) \in Conns /\ sent[job[w]].id \in Ids
      BY JobFacts DEF WorkerReleases
    <2>3. active' = [active EXCEPT ![ConnOf(w)] =
                        [active[ConnOf(w)] EXCEPT ![sent[job[w]].id] = 0]]
      BY DEF WorkerReleases, RemoveId
    <2> QED
      BY <2>1, <2>2, <2>3
  <1>4. TypeOK'
    BY <1>1, <1>2, <1>3, SameSets, SizesAssumption DEF client, output, Typed, TypeOK
  <1>5. Len(sent) \in Nat
    BY DEF Typed, TypeOK
  <1>6. SerialsSent'
    BY <1>1, <1>2, <1>5 DEF client, Typed, TypeOK, SerialsSent
  <1>7. PendingLegal'
    BY <1>1, <1>2, SameSets DEF Typed, TypeOK, PendingLegal, Enqueuing
  <1> QED
    BY <1>1, <1>4, <1>6, <1>7 DEF Typed

LEMMA NextTyped == Typed /\ [Next]_vars => Typed'
  <1> SUFFICES ASSUME Typed, [Next]_vars PROVE Typed'
    OBVIOUS
  <1>1. CASE UNCHANGED vars
    BY <1>1, SerialsKept, SameSets DEF vars, Typed, TypeOK
  <1>2. CASE Environment
    BY <1>2, EnvironmentType
  <1>3. ASSUME NEW c \in Conns, Reader(c) \/ Writer(c) PROVE Typed'
    BY <1>3, ReaderType, WriterType
  <1>4. ASSUME NEW w \in Workers, WorkerStep(w) \/ Dispatch(w) PROVE Typed'
    BY <1>4, WorkerMovesType, WorkerTakesType, WorkerReleasesType DEF WorkerStep, Looks
  <1> QED
    BY <1>1, <1>2, <1>3, <1>4 DEF Next

---------------------------------------------------------------------------
(* The registry                                                            *)

LEMMA RunningIs ==
    ASSUME Typed
    PROVE  /\ Running = {job[w] : w \in Workers} \ {0}
           /\ Accepted \subseteq 1 .. Len(sent) /\ 0 \notin Accepted
  BY DEF Typed, TypeOK, SerialsSent, Running, Accepted

LEMMA RunningIsNext ==
    ASSUME Typed'
    PROVE  /\ Running' = {job'[w] : w \in Workers} \ {0}
           /\ Accepted' = ToSet(queue') \cup Running'
  BY DEF Typed, TypeOK, SerialsSent, Running, Accepted

LEMMA ActiveIdsFinite ==
    ASSUME NEW c \in Conns
    PROVE  IsFiniteSet(ActiveIds(c)) /\ Cardinality(ActiveIds(c)) \in Nat
  BY SetsAssumption, FS_Subset, FS_CardinalityType DEF ActiveIds

\* A step that only moves frames, or a worker with its job.
LEMMA RegistryKept ==
    ASSUME Typed, Typed', RegistryInv, UNCHANGED <<load, sent, inbound, active, queue, job>>
    PROVE  RegistryInv'
  <1>1. Running' = Running
    BY RunningIs, RunningIsNext
  <1>2. Accepted' = Accepted
    BY <1>1 DEF Accepted
  <1> QED
    BY <1>1, <1>2 DEF RegistryInv, Unread, HeldOnce, Entered, Registered, WithinActive, ActiveIds

\* A line that is read and registers nothing.
LEMMA LineDropped ==
    ASSUME Typed, Typed', RegistryInv, NEW c \in Conns, TakeLine(c),
           UNCHANGED <<active, queue, job>>
    PROVE  RegistryInv'
  <1>1. Accepted' = Accepted /\ Running' = Running
    BY RunningIs, RunningIsNext DEF Accepted
  <1>2. UNCHANGED <<load, sent>>
    BY DEF TakeLine
  <1>3. ASSUME NEW d \in Conns
        PROVE  IsInjective(inbound'[d]) /\ ToSet(inbound'[d]) \subseteq ToSet(inbound[d])
    BY TailSet DEF TakeLine, Typed, TypeOK, RegistryInv, Unread
  <1>4. Unread'
    BY <1>1, <1>3 DEF RegistryInv, Unread
  <1> QED
    BY <1>1, <1>2, <1>4
       DEF RegistryInv, HeldOnce, Entered, Registered, WithinActive, ActiveIds

LEMMA EnvironmentRegistry ==
    ASSUME Typed, Typed', RegistryInv, Environment
    PROVE  RegistryInv'
  <1>1. ASSUME NEW c \in load.conns, NEW q \in Requests, ClientSend(c, q)
        PROVE  RegistryInv'
    <2> DEFINE s == Len(sent) + 1
    <2>1. UNCHANGED <<load, active, queue, wpc, job>>
      BY <1>1 DEF ClientSend, conn, pool
    <2>2. c \in Conns /\ inbound[c] \in Seq(Serials) /\ Len(sent) \in Nat /\ Len(sent) < MaxRequests
      <3>1. c \in Conns /\ load.requests \in 0 .. MaxRequests /\ Len(sent) < load.requests
        BY <1>1, LoadFacts DEF ClientSend, Typed
      <3>2. inbound[c] \in Seq(Serials) /\ Len(sent) \in Nat
        BY <3>1 DEF Typed, TypeOK
      <3> QED
        BY <3>1, <3>2, SizesAssumption
    <2>3. s \in Serials
      BY <2>2, SizesAssumption DEF Serials
    <2>4. \A r \in 1 .. Len(sent) : sent'[r] = sent[r]
      BY <1>1 DEF ClientSend, Typed, TypeOK
    <2>5. Accepted' = Accepted /\ Running' = Running
      BY <2>1, RunningIs, RunningIsNext DEF Accepted
    <2>6. s \notin Accepted /\ s \notin ToSet(inbound[c])
      BY <2>2, RunningIs DEF Typed, SerialsSent
    <2>7. /\ \A d \in Conns : d # c => inbound'[d] = inbound[d]
          /\ inbound'[c] = Append(inbound[c], s)
      BY <1>1, <2>2 DEF ClientSend, Typed, TypeOK
    <2>8. IsInjective(inbound'[c]) /\ ToSet(inbound'[c]) = ToSet(inbound[c]) \cup {s}
      BY <2>2, <2>3, <2>6, <2>7, AppendSet DEF RegistryInv, Unread
    <2>9. Unread'
      BY <2>2, <2>5, <2>6, <2>7, <2>8 DEF RegistryInv, Unread
    <2>10. Entered' /\ Registered'
      BY <2>1, <2>4, <2>5, RunningIs DEF RegistryInv, Entered, Registered
    <2> QED
      BY <2>1, <2>5, <2>9, <2>10 DEF RegistryInv, HeldOnce, WithinActive, ActiveIds
  <1>2. ASSUME NEW c \in load.conns, NEW h \in {"half", "full"}, ClientClose(c, h)
        PROVE  RegistryInv'
    BY <1>2, RegistryKept DEF ClientClose, conn, pool
  <1>3. ASSUME NEW c \in load.conns, ClientStall(c) PROVE RegistryInv'
    BY <1>3, RegistryKept DEF ClientStall, conn, pool
  <1>4. CASE Shutdown
    BY <1>4, RegistryKept DEF Shutdown, conn, pool
  <1>5. ASSUME NEW r \in Serials, DeadlinePasses(r) PROVE RegistryInv'
    BY <1>5, RegistryKept DEF DeadlinePasses, client, pool
  <1> QED
    BY <1>1, <1>2, <1>3, <1>4, <1>5 DEF Environment

\* A query that is read is registered under an ID that was free.
LEMMA ReadQueryRegistry ==
    ASSUME Typed, Typed', RegistryInv, NEW c \in Conns, ReadQuery(c)
    PROVE  RegistryInv'
  <1> DEFINE r == Line(c)
             i == sent[r].id
  <1>1. /\ TakeLine(c) /\ inbound[c] # <<>> /\ inbound[c] \in Seq(Serials)
        /\ UNCHANGED <<load, sent, job, wpc>>
        /\ active' = [active EXCEPT ![c][i] = r] /\ queue' = Append(queue, r)
        /\ i \notin ActiveIds(c) /\ Cardinality(ActiveIds(c)) < load.active
    <2>1. TakeLine(c) /\ ~Refused(c, sent[r]) /\ sent[r].kind = "query"
      BY DEF ReadQuery
    <2>2. i \notin ActiveIds(c) /\ ~(Cardinality(ActiveIds(c)) >= load.active)
      BY <2>1 DEF Refused
    <2>3. Cardinality(ActiveIds(c)) < load.active
      BY <2>2, ActiveIdsFinite, LoadFacts DEF Typed
    <2> QED
      BY <2>1, <2>2, <2>3 DEF ReadQuery, TakeLine, Typed, TypeOK
  <1>2. /\ r \in Serials /\ r # 0 /\ r \in ToSet(inbound[c]) /\ r \notin Accepted
        /\ sent[r].conn = c /\ i \in Ids
    BY <1>1, LineFacts DEF RegistryInv, Unread, Serials
  <1>3. /\ ToSet(queue') = ToSet(queue) \cup {r} /\ IsInjective(queue')
    <2>1. queue \in Seq(Serials) /\ IsInjective(queue) /\ r \notin ToSet(queue)
      BY <1>2 DEF Typed, TypeOK, RegistryInv, HeldOnce, Accepted
    <2> QED
      BY <1>1, <1>2, <2>1, AppendSet
  <1>4. Running' = Running /\ Accepted' = Accepted \cup {r}
    BY <1>1, <1>3, RunningIs, RunningIsNext DEF Accepted
  <1>5. Unread'
    <2>1. ASSUME NEW d \in Conns, d # c
          PROVE  inbound'[d] = inbound[d] /\ r \notin ToSet(inbound[d])
      <3>1. inbound'[d] = inbound[d]
        BY <1>1, <2>1 DEF TakeLine, Typed, TypeOK
      <3>2. r \notin ToSet(inbound[d])
        BY <1>2, <2>1 DEF Typed, SerialsSent
      <3> QED
        BY <3>1, <3>2
    <2>2. /\ inbound'[c] = Tail(inbound[c])
          /\ IsInjective(inbound'[c]) /\ r \notin ToSet(inbound'[c])
          /\ ToSet(inbound'[c]) \subseteq ToSet(inbound[c])
      BY <1>1, TailSet DEF TakeLine, Line, Typed, TypeOK, RegistryInv, Unread
    <2> QED
      BY <1>4, <2>1, <2>2 DEF RegistryInv, Unread
  <1>6. HeldOnce'
    BY <1>1, <1>2, <1>3, <1>4 DEF RegistryInv, HeldOnce, Accepted
  <1>7. /\ active[c][i] = 0 /\ active'[c][i] = r
        /\ \A d \in Conns, j \in Ids : d # c \/ j # i => active'[d][j] = active[d][j]
    <2>1. active \in [Conns -> [Ids -> 0 .. MaxRequests]]
      BY DEF Typed, TypeOK
    <2>2. active[c][i] = 0
      BY <1>1, <1>2 DEF ActiveIds
    <2> QED
      BY <1>1, <1>2, <2>1, <2>2
  <1>8. Entered'
    BY <1>1, <1>2, <1>4, <1>7 DEF RegistryInv, Entered
  <1>9. Registered'
    <2>1. ASSUME NEW x \in Accepted PROVE active'[sent[x].conn][sent[x].id] = x
      <3>1. active[sent[x].conn][sent[x].id] = x /\ x # 0
        BY RunningIs DEF RegistryInv, Registered
      <3>2. sent[x].conn \in Conns /\ sent[x].id \in Ids
        BY RunningIs, SentRequest
      <3> QED
        BY <1>7, <3>1, <3>2
    <2> QED
      BY <1>1, <1>2, <1>4, <1>7, <2>1 DEF Registered
  <1>10. WithinActive'
    <2>1. ActiveIds(c)' = ActiveIds(c) \cup {i}
      BY <1>2, <1>7 DEF ActiveIds
    <2>2. \A d \in Conns : d # c => ActiveIds(d)' = ActiveIds(d)
      BY <1>7 DEF ActiveIds
    <2>3. Cardinality(ActiveIds(c)') = Cardinality(ActiveIds(c)) + 1
      BY <1>1, <2>1, ActiveIdsFinite, FS_AddElement
    <2>4. Cardinality(ActiveIds(c)') <= load.active
      BY <1>1, <2>3, ActiveIdsFinite, LoadFacts DEF Typed
    <2> QED
      BY <1>1, <2>2, <2>4 DEF RegistryInv, WithinActive
  <1> QED
    BY <1>5, <1>6, <1>8, <1>9, <1>10 DEF RegistryInv

LEMMA ReaderRegistry ==
    ASSUME Typed, Typed', RegistryInv, NEW c \in Conns, Reader(c)
    PROVE  RegistryInv'
  <1>1. CASE ReadRefused(c) \/ ReadCancel(c) \/ ReadLate(c)
    BY <1>1, LineDropped DEF ReadRefused, ReadCancel, ReadLate, pool
  <1>2. CASE ReadQuery(c)
    BY <1>2, ReadQueryRegistry
  <1>3. CASE ReadQueueFull(c)
    <2>1. TakeLine(c) /\ inbound[c] # <<>> /\ sent[Line(c)].id \notin ActiveIds(c)
      BY <1>3 DEF ReadQueueFull, TakeLine, Refused
    <2>2. sent[Line(c)].id \in Ids
      BY <2>1, LineFacts
    <2>3. active' = active
      BY <1>3, <2>1, <2>2 DEF ReadQueueFull, RemoveId, ActiveIds, Typed, TypeOK
    <2> QED
      BY <1>3, <2>1, <2>3, LineDropped DEF ReadQueueFull, pool
  <1>4. CASE ControlSent(c) \/ ControlGivesUp(c) \/ ReadEnds(c) \/ ReadTimesOut(c)
             \/ ReaderCloses(c) \/ ReaderJoins(c)
    BY <1>4, RegistryKept
       DEF ControlSent, ControlGivesUp, ReadEnds, ReadTimesOut, ReaderCloses, ReaderJoins,
           client, pool
  <1> QED
    BY <1>1, <1>2, <1>3, <1>4 DEF Reader

LEMMA WriterRegistry ==
    ASSUME Typed, Typed', RegistryInv, NEW c \in Conns, Writer(c)
    PROVE  RegistryInv'
  BY RegistryKept
     DEF Writer, WriterTakes, WriterWrites, WriterDiscards, WriterFails, WriterEnds,
         client, conn, pool

\* A job that a worker takes stays accepted.
LEMMA WorkerTakesRegistry ==
    ASSUME Typed, Typed', RegistryInv, NEW w \in Workers, WorkerTakes(w)
    PROVE  RegistryInv'
  <1> DEFINE h == Head(queue)
  <1>1. UNCHANGED <<load, sent, inbound, active>>
    BY DEF WorkerTakes, client, conn
  <1>2. /\ ToSet(queue) = {h} \cup ToSet(queue') /\ IsInjective(queue')
        /\ h \notin ToSet(queue') /\ h \in Serials /\ h # 0
    <2>1. queue \in Seq(Serials) /\ queue # <<>> /\ queue' = Tail(queue) /\ IsInjective(queue)
      BY DEF WorkerTakes, Typed, TypeOK, RegistryInv, HeldOnce
    <2>2. /\ ToSet(queue) = {h} \cup ToSet(Tail(queue)) /\ IsInjective(Tail(queue))
          /\ h \notin ToSet(Tail(queue)) /\ h \in Serials
      BY <2>1, TailSet
    <2>3. h # 0
      BY <2>2, SizesAssumption DEF Serials
    <2> QED
      BY <2>1, <2>2, <2>3
  <1>3. /\ job[w] = 0 /\ job'[w] = h
        /\ \A v \in Workers : v # w => job'[v] = job[v]
    BY DEF WorkerTakes, Typed, TypeOK, SerialsSent
  <1>4. Running' = Running \cup {h}
    BY <1>2, <1>3, RunningIs, RunningIsNext
  <1>5. Accepted' = Accepted
    BY <1>2, <1>4 DEF Accepted
  <1>6. h \notin Running
    BY <1>2 DEF RegistryInv, HeldOnce
  <1>7. \A v \in Workers : job[v] # h
    BY <1>2, <1>6, RunningIs
  <1>8. HeldOnce'
    BY <1>2, <1>3, <1>4, <1>7 DEF RegistryInv, HeldOnce
  <1> QED
    BY <1>1, <1>5, <1>8
       DEF RegistryInv, Unread, Entered, Registered, WithinActive, ActiveIds

\* The ID that a worker removes by name is the one of its own job.
LEMMA WorkerReleasesRegistry ==
    ASSUME Typed, Typed', RegistryInv, NEW w \in Workers, WorkerReleases(w)
    PROVE  RegistryInv'
  <1> DEFINE r == job[w]
             c == ConnOf(w)
             i == sent[r].id
  <1>1. UNCHANGED <<load, sent, inbound, queue>> /\ wpc[w] = "release"
    BY DEF WorkerReleases, client
  <1>2. r \in Serials /\ r # 0 /\ c \in Conns /\ i \in Ids /\ r \in Running
    BY <1>1, JobFacts DEF Serials, Running
  <1>3. job'[w] = 0 /\ \A v \in Workers : v # w => job'[v] = job[v] /\ job[v] # r
    BY <1>2 DEF WorkerReleases, Typed, TypeOK, RegistryInv, HeldOnce
  <1>4. Running' = Running \ {r}
    BY <1>2, <1>3, RunningIs, RunningIsNext
  <1>5. Accepted' = Accepted \ {r}
    BY <1>1, <1>2, <1>4 DEF Accepted, RegistryInv, HeldOnce
  <1>6. active'[c][i] = 0
        /\ \A d \in Conns, j \in Ids : d # c \/ j # i => active'[d][j] = active[d][j]
    BY <1>2 DEF WorkerReleases, RemoveId, Typed, TypeOK
  <1>7. HeldOnce'
    BY <1>1, <1>3, <1>4 DEF RegistryInv, HeldOnce
  <1>8. Entered'
    <2>1. ASSUME NEW d \in Conns, NEW j \in Ids, active'[d][j] # 0
          PROVE  active'[d][j] = active[d][j] /\ active[d][j] # r
      BY <1>6, <2>1 DEF RegistryInv, Entered, ConnOf
    <2> QED
      BY <1>1, <1>5, <2>1 DEF RegistryInv, Entered
  <1>9. Registered'
    <2>1. ASSUME NEW x \in Accepted, x # r PROVE active'[sent[x].conn][sent[x].id] = x
      <3>1. active[sent[x].conn][sent[x].id] = x
        BY DEF RegistryInv, Registered
      <3>2. active[c][i] = r
        BY <1>2 DEF RegistryInv, Registered, ConnOf, Accepted
      <3>3. sent[x].conn \in Conns /\ sent[x].id \in Ids
        BY RunningIs, SentRequest
      <3> QED
        BY <1>6, <2>1, <3>1, <3>2, <3>3
    <2> QED
      BY <1>1, <1>5, <2>1 DEF Registered
  <1>10. WithinActive'
    <2>1. ASSUME NEW d \in Conns PROVE Cardinality(ActiveIds(d)') <= load'.active
      <3>1. ActiveIds(d)' \subseteq ActiveIds(d)
        BY <1>6 DEF ActiveIds
      <3>2. Cardinality(ActiveIds(d)') <= Cardinality(ActiveIds(d))
        BY <3>1, ActiveIdsFinite, FS_Subset
      <3>3. Cardinality(ActiveIds(d)') \in Nat
        BY <3>1, ActiveIdsFinite, FS_Subset, FS_CardinalityType
      <3> QED
        BY <1>1, <3>2, <3>3, ActiveIdsFinite, LoadFacts DEF Typed, RegistryInv, WithinActive
    <2> QED
      BY <2>1 DEF WithinActive
  <1> QED
    BY <1>1, <1>5, <1>7, <1>8, <1>9, <1>10 DEF RegistryInv, Unread

LEMMA NextRegistry == Typed /\ RegistryInv /\ [Next]_vars => RegistryInv'
  <1> SUFFICES ASSUME Typed, RegistryInv, [Next]_vars PROVE RegistryInv'
    OBVIOUS
  <1>1. Typed'
    BY NextTyped
  <1>2. CASE UNCHANGED vars
    BY <1>1, <1>2, RegistryKept DEF vars
  <1>3. CASE Environment
    BY <1>1, <1>3, EnvironmentRegistry
  <1>4. ASSUME NEW c \in Conns, Reader(c) \/ Writer(c) PROVE RegistryInv'
    BY <1>1, <1>4, ReaderRegistry, WriterRegistry
  <1>5. ASSUME NEW w \in Workers, WorkerStep(w) \/ Dispatch(w) PROVE RegistryInv'
    <2>1. CASE WorkerTakes(w)
      BY <1>1, <2>1, WorkerTakesRegistry
    <2>2. CASE WorkerReleases(w)
      BY <1>1, <2>2, WorkerReleasesRegistry
    <2>3. ASSUME Moves(w) PROVE RegistryInv'
      BY <1>1, <2>3, RegistryKept DEF Moves, client
    <2> QED
      BY <1>5, <2>1, <2>2, <2>3, WorkerMoves DEF WorkerStep, Looks
  <1> QED
    BY <1>2, <1>3, <1>4, <1>5 DEF Next

---------------------------------------------------------------------------
(* The writer                                                              *)

\* Which jobs hold senders of a connection, when serials do not move.
LEMMA SendersSame ==
    ASSUME UNCHANGED <<sent, queue, wpc, job>>
    PROVE  \A c \in Conns : QueuedFor(c)' = QueuedFor(c) /\ SendersOf(c)' = SendersOf(c)
  BY DEF QueuedFor, SendersOf, ConnOf

LEMMA EnvironmentSenders ==
    ASSUME Typed, WriterOutlivesSenders, Environment
    PROVE  WriterOutlivesSenders'
  <1>1. UNCHANGED <<out, writer, reader, queue, wpc, job>>
    BY DEF Environment, ClientSend, ClientClose, ClientStall, Shutdown, DeadlinePasses,
           conn, output, pool
  <1>2. \A r \in 1 .. Len(sent) : sent'[r] = sent[r]
    <2>1. sent' = sent \/ \E q : sent' = Append(sent, q)
      BY DEF Environment, ClientSend, ClientClose, ClientStall, Shutdown, DeadlinePasses, client
    <2>2. sent \in Seq(Requests)
      BY DEF Typed, TypeOK
    <2>3. ASSUME NEW q, sent' = Append(sent, q) PROVE \A r \in 1 .. Len(sent) : sent'[r] = sent[r]
      BY <2>2, <2>3
    <2> QED
      BY <2>1, <2>3
  <1>3. \A r \in ToSet(queue) : sent'[r] = sent[r]
    BY <1>2 DEF Typed, SerialsSent
  <1>4. \A w \in Workers : wpc[w] # "recv" => sent'[job[w]] = sent[job[w]]
    BY <1>2, JobFacts
  <1>5. ASSUME NEW c \in Conns PROVE QueuedFor(c)' = QueuedFor(c) /\ SendersOf(c)' = SendersOf(c)
    BY <1>1, <1>3, <1>4 DEF QueuedFor, SendersOf, ConnOf, Sending
  <1> QED
    BY <1>1, <1>5 DEF WriterOutlivesSenders, NoSenders

LEMMA ReaderSenders ==
    ASSUME Typed, WriterOutlivesSenders, NEW c \in Conns, Reader(c)
    PROVE  WriterOutlivesSenders'
  <1>1. UNCHANGED writer
    BY DEF Reader, ReadRefused, ReadCancel, ReadLate, ReadQuery, ReadQueueFull, ControlSent,
           ControlGivesUp, ReadEnds, ReadTimesOut, ReaderCloses, ReaderJoins, output, Reply
  <1>2. \A d \in Conns : d # c => reader'[d] = reader[d]
    BY DEF Reader, ReadRefused, ReadCancel, ReadLate, ReadQuery, ReadQueueFull, ControlSent,
           ControlGivesUp, ReadEnds, ReadTimesOut, ReaderCloses, ReaderJoins, Reply, Typed, TypeOK
  <1>3. CASE ReadQuery(c)
    <2>1. /\ TakeLine(c) /\ inbound[c] # <<>> /\ reader[c] = "reading"
          /\ queue' = Append(queue, Line(c))
          /\ UNCHANGED <<sent, wpc, job, out, reader>>
      BY <1>3 DEF ReadQuery, TakeLine, output
    <2>2. Line(c) \in Serials /\ sent[Line(c)].conn = c
      BY <2>1, LineFacts
    <2>3. ToSet(queue') = ToSet(queue) \cup {Line(c)}
      BY <2>1, <2>2, AppendSet DEF Typed, TypeOK
    <2>4. ASSUME NEW d \in Conns, d # c
          PROVE  QueuedFor(d)' = QueuedFor(d) /\ SendersOf(d)' = SendersOf(d)
      BY <2>1, <2>2, <2>3, <2>4 DEF QueuedFor, SendersOf, ConnOf
    <2> QED
      BY <1>1, <2>1, <2>4 DEF WriterOutlivesSenders, NoSenders
  <1>4. CASE ~ReadQuery(c)
    <2>1. UNCHANGED <<sent, queue, wpc, job>>
      BY <1>4 DEF Reader, ReadRefused, ReadCancel, ReadLate, ReadQueueFull, ControlSent,
             ControlGivesUp, ReadEnds, ReadTimesOut, ReaderCloses, ReaderJoins, client, pool,
             TakeLine
    <2>2. reader[c] \in {"join", "gone"} => reader'[c] \in {"join", "gone"}
      BY <1>4 DEF Reader, ReadRefused, ReadCancel, ReadLate, ReadQueueFull, ControlSent,
             ControlGivesUp, ReadEnds, ReadTimesOut, ReaderCloses, ReaderJoins, Reply, TakeLine,
             Typed, TypeOK
    <2>3. ASSUME NEW d \in Conns, reader[d] \in {"join", "gone"} PROVE out'[d] = out[d]
      BY <1>4, <2>3 DEF Reader, ReadRefused, ReadCancel, ReadLate, ReadQueueFull, ControlSent,
             ControlGivesUp, ReadEnds, ReadTimesOut, ReaderCloses, ReaderJoins, output, Enqueue,
             Typed, TypeOK
    <2> QED
      BY <1>1, <1>2, <2>1, <2>2, <2>3, SendersSame DEF WriterOutlivesSenders, NoSenders
  <1> QED
    BY <1>3, <1>4

LEMMA WriterSenders ==
    ASSUME Typed, WriterOutlivesSenders, NEW c \in Conns, Writer(c)
    PROVE  WriterOutlivesSenders'
  <1>1. UNCHANGED <<sent, queue, wpc, job, reader>>
    BY DEF Writer, WriterTakes, WriterWrites, WriterDiscards, WriterFails, WriterEnds,
           client, conn, pool
  <1>2. \A d \in Conns : NoSenders(d)' = NoSenders(d)
    BY <1>1, SendersSame DEF NoSenders
  <1>3. CASE WriterTakes(c)
    BY <1>2, <1>3 DEF WriterTakes, WriterOutlivesSenders, Typed, TypeOK
  <1>4. CASE WriterEnds(c)
    BY <1>2, <1>4 DEF WriterEnds, WriterOutlivesSenders, Typed, TypeOK
  <1>5. CASE WriterWrites(c) \/ WriterDiscards(c) \/ WriterFails(c)
    BY <1>2, <1>5 DEF WriterWrites, WriterDiscards, WriterFails, WriterOutlivesSenders
  <1> QED
    BY <1>3, <1>4, <1>5 DEF Writer

\* A worker takes a job that held a sender already.
LEMMA WorkerTakesSenders ==
    ASSUME Typed, WriterOutlivesSenders, NEW w \in Workers, WorkerTakes(w)
    PROVE  WriterOutlivesSenders'
  <1>1. /\ UNCHANGED <<sent, reader, out, writer>>
        /\ wpc' = [wpc EXCEPT ![w] = "start"] /\ job' = [job EXCEPT ![w] = Head(queue)]
        /\ queue \in Seq(Serials) /\ queue # <<>> /\ queue' = Tail(queue)
    BY DEF WorkerTakes, WorkerAt, client, conn, output, Typed, TypeOK
  <1>2. Head(queue) \in ToSet(queue) /\ ToSet(queue') \subseteq ToSet(queue)
    BY <1>1, TailSet
  <1>3. ASSUME NEW c \in Conns, NoSenders(c) PROVE NoSenders(c)'
    <2>1. sent[Head(queue)].conn # c
      BY <1>2, <1>3 DEF NoSenders, QueuedFor
    <2>2. QueuedFor(c)' = {}
      BY <1>1, <1>2, <1>3 DEF NoSenders, QueuedFor
    <2>3. SendersOf(c)' = {}
      BY <1>1, <1>3, <2>1 DEF NoSenders, SendersOf, ConnOf, Typed, TypeOK
    <2> QED
      BY <1>1, <1>3, <2>2, <2>3 DEF NoSenders
  <1> QED
    BY <1>1, <1>3 DEF WriterOutlivesSenders

\* A worker goes on with its job, or ends it; it enqueues while it is a sender.
LEMMA WorkerMovesSenders ==
    ASSUME Typed, WriterOutlivesSenders, NEW w \in Workers,
           WorkerStep(w) \/ Dispatch(w), ~WorkerTakes(w)
    PROVE  WriterOutlivesSenders'
  <1>1. /\ UNCHANGED <<sent, reader, queue, writer>>
        /\ \A v \in Workers : v # w => wpc'[v] = wpc[v] /\ job'[v] = job[v]
        /\ wpc'[w] = "recv" \/ (wpc[w] \in Sending /\ job'[w] = job[w])
    <2>1. CASE WorkerReleases(w)
      BY <2>1 DEF WorkerReleases, WorkerAt, client, output, Typed, TypeOK
    <2>2. CASE WorkerStarts(w) \/ FrameSent(w) \/ FrameRefused(w)
      BY <2>2 DEF WorkerStarts, FrameSent, FrameRefused, WorkerAt, client, conn, output,
             Typed, TypeOK, Sending
    <2>3. CASE TerminalSent(w) \/ TerminalGivesUp(w)
      BY <2>3 DEF TerminalSent, TerminalGivesUp, WorkerAt, client, conn, output,
             Typed, TypeOK, Sending
    <2>4. CASE Dispatch(w)
      BY <2>4 DEF Dispatch, DispatchSends, DispatchEnds, WorkerAt, client, conn, output,
             Typed, TypeOK, Sending
    <2>5. CASE Looks(w)
      BY <2>5, LooksMove DEF WorkerAt, client, conn, output, Typed, TypeOK, Sending, Enqueuing
    <2> QED
      BY <2>1, <2>2, <2>3, <2>4, <2>5 DEF WorkerStep, Looks
  <1>2. \A c \in Conns : out'[c] = out[c] \/ w \in SendersOf(c)
    <2>1. CASE UNCHANGED out
      BY <2>1
    <2>2. CASE FrameSent(w) \/ TerminalSent(w)
      BY <2>2 DEF FrameSent, TerminalSent, Enqueue, SendersOf, Typed, TypeOK, Sending
    <2>3. CASE Looks(w)
      BY <2>3, LooksMove DEF output
    <2> QED
      BY <2>1, <2>2, <2>3
         DEF WorkerStep, Looks, Dispatch, WorkerStarts, FrameRefused, TerminalGivesUp,
             WorkerReleases, DispatchSends, DispatchEnds, output
  <1>3. ASSUME NEW c \in Conns PROVE SendersOf(c)' \subseteq SendersOf(c)
    BY <1>1 DEF SendersOf, ConnOf, Sending
  <1>4. ASSUME NEW c \in Conns, NoSenders(c) PROVE NoSenders(c)' /\ out'[c] = out[c]
    BY <1>1, <1>2, <1>3, <1>4 DEF NoSenders, QueuedFor
  <1> QED
    BY <1>1, <1>4 DEF WriterOutlivesSenders

LEMMA NextSenders == Typed /\ WriterOutlivesSenders /\ [Next]_vars => WriterOutlivesSenders'
  <1> SUFFICES ASSUME Typed, WriterOutlivesSenders, [Next]_vars PROVE WriterOutlivesSenders'
    OBVIOUS
  <1>1. CASE UNCHANGED vars
    BY <1>1, SendersSame DEF vars, WriterOutlivesSenders, NoSenders
  <1>2. CASE Environment
    BY <1>2, EnvironmentSenders
  <1>3. ASSUME NEW c \in Conns, Reader(c) \/ Writer(c) PROVE WriterOutlivesSenders'
    BY <1>3, ReaderSenders, WriterSenders
  <1>4. ASSUME NEW w \in Workers, WorkerStep(w) \/ Dispatch(w) PROVE WriterOutlivesSenders'
    BY <1>4, WorkerTakesSenders, WorkerMovesSenders
  <1> QED
    BY <1>1, <1>2, <1>3, <1>4 DEF Next

---------------------------------------------------------------------------
(* The theorems                                                            *)

LEMMA InitRInv == Init => RInv
  <1> SUFFICES ASSUME Init PROVE RInv
    OBVIOUS
  <1>1. load \in Loads /\ NoFrame \in Frames /\ Len(sent) = 0 /\ 0 \in 0 .. MaxRequests
    BY NoFrameType, SizesAssumption DEF Init
  <1>2. TypeOK
    <2>1. /\ sent \in Seq(Requests) /\ Len(sent) <= MaxRequests
          /\ queue \in Seq(Serials) /\ Len(queue) <= QueueDepth
      BY SizesAssumption DEF Init
    <2>2. /\ inbound \in [Conns -> Seq(Serials)] /\ got \in [Serials -> Seq(Frames)]
          /\ out \in [Conns -> Seq(Frames)] /\ \A c \in Conns : Len(out[c]) <= OutputChunks
      BY SizesAssumption DEF Init
    <2>3. /\ active \in [Conns -> [Ids -> 0 .. MaxRequests]]
          /\ job \in [Workers -> 0 .. MaxRequests]
          /\ control \in [Conns -> Frames] /\ writing \in [Conns -> Frames]
          /\ pending \in [Workers -> Frames]
          /\ life \in [Workers -> {Terminal, NotStarted} \cup {Streaming(n) : n \in 1 .. load.seq}]
      BY <1>1 DEF Init
    <2> QED
      BY <2>1, <2>2, <2>3 DEF Init, TypeOK
  <1>3. \A c \in Conns : ToSet(inbound[c]) = {} /\ IsInjective(inbound[c])
    BY DEF Init, ToSet, IsInjective
  <1>4. ToSet(queue) = {} /\ IsInjective(queue) /\ Running = {}
    BY DEF Init, ToSet, IsInjective, Running
  <1>5. SerialsSent /\ PendingLegal
    BY <1>1, <1>3, <1>4 DEF Init, SerialsSent, PendingLegal, Enqueuing
  <1>6. \A c \in Conns : ActiveIds(c) = {}
    BY DEF Init, ActiveIds
  <1>7. WithinActive
    <2>1. Cardinality({}) = 0
      BY FS_EmptySet
    <2>2. load.active \in Nat
      BY <1>1, LoadFacts
    <2>3. 0 <= load.active
      BY <2>2
    <2> QED
      BY <1>6, <2>1, <2>3 DEF WithinActive
  <1>8. Unread /\ HeldOnce /\ Registered
    BY <1>3, <1>4 DEF Init, Unread, HeldOnce, Registered, Accepted
  <1>9. Entered
    BY DEF Init, Entered
  <1>10. WriterOutlivesSenders
    BY <1>4 DEF Init, WriterOutlivesSenders, NoSenders, QueuedFor, SendersOf, Sending
  <1> QED
    BY <1>1, <1>2, <1>5, <1>7, <1>8, <1>9, <1>10 DEF RInv, Typed, RegistryInv

LEMMA NextRInv == RInv /\ [Next]_vars => RInv'
  BY NextTyped, NextRegistry, NextSenders DEF RInv

\* Every variable keeps its type; no queue exceeds its capacity.
THEOREM RuntimeTypeCorrect == Spec => []TypeOK
  <1>1. RInv => TypeOK
    BY DEF RInv, Typed
  <1> QED
    BY <1>1, InitRInv, NextRInv, PTL DEF Spec

\* The registry is exactly the set of queued and running jobs.
THEOREM RegistryIsExact == Spec => []RegistryExact
  <1>1. RInv => RegistryExact
    <2> SUFFICES ASSUME RInv PROVE RegistryExact
      OBVIOUS
    <2> USE DEF RInv, RegistryInv
    <2>1. ASSUME NEW c \in Conns
          PROVE  ActiveSerials(c) = {r \in Accepted : sent[r].conn = c}
      <3>1. ASSUME NEW r \in Accepted, sent[r].conn = c PROVE r \in ActiveSerials(c)
        <4>1. r # 0 /\ sent[r].id \in Ids /\ active[c][sent[r].id] = r
          BY <3>1, RunningIs, SentRequest DEF Registered
        <4> QED
          BY <4>1 DEF ActiveSerials, ActiveIds
      <3>2. ASSUME NEW r \in ActiveSerials(c) PROVE r \in Accepted /\ sent[r].conn = c
        BY DEF Entered, ActiveSerials, ActiveIds
      <3> QED
        BY <3>1, <3>2
    <2>2. ASSUME NEW c \in Conns, NEW i \in ActiveIds(c) PROVE sent[active[c][i]].id = i
      BY DEF Entered, ActiveIds
    <2> QED
      BY <2>1, <2>2 DEF RegistryExact, WithinActive, HeldOnce, Accepted
  <1> QED
    BY <1>1, InitRInv, NextRInv, PTL DEF Spec

\* The writer ends after every sender of its queue is gone.
THEOREM WriterOutlives == Spec => []WriterOutlivesSenders
  <1>1. RInv => WriterOutlivesSenders
    BY DEF RInv
  <1> QED
    BY <1>1, InitRInv, NextRInv, PTL DEF Spec

(***************************************************************************)
(* Responses: the second inductive invariant.  What a connection has said  *)
(* for a request, received or on its way, is a prefix of one legal         *)
(* response, whatever the dispatcher sends and however the reader and the  *)
(* workers share the output queue (FlightLegal); whoever may still answer  *)
(* a request knows the number of the frame that comes next (Turns).  Both  *)
(* say nothing of a disconnected connection, whose writer drops frames:    *)
(* it delivers nothing more.                                               *)
(***************************************************************************)
Final(f) == f.kind \notin {"begin", "chunk"}

\* The kinds that may open a response, and those that may not.
Shape(f) ==
    \/ f.kind \in {"result", "error", "begin"} /\ f.seq = 0
    \/ f.kind \in {"chunk", "end", "end_error"} /\ f.seq # 0

\* A prefix of a response, and one that may go on.
Proper(s) ==
    \A i \in DOMAIN s : s[i].seq = i - 1 /\ Shape(s[i]) /\ (Final(s[i]) => i = Len(s))
Unfinished(s) == \A i \in DOMAIN s : ~Final(s[i])

Asked(c, r) == r \in 1 .. Len(sent) /\ sent[r].conn = c

\* What a connection said for a request: received, or on its way.
Said(c, r) == got[r] \o FramesOf(r, InFlight(c))

\* The frames on their way answer requests of the connection.
FlightLegal(c) ==
    \A r \in Serials :
        /\ Asked(c, r) => Proper(Said(c, r))
        /\ ~Asked(c, r) => FramesOf(r, InFlight(c)) = <<>>

\* The response to r has k frames so far, none of them final.
Open(c, r, k) == k = Len(Said(c, r)) /\ Unfinished(Said(c, r))

\* The reader's reply is a response of its own.
ReplyOpen(c) ==
    control[c].req # 0 =>
        /\ Asked(c, control[c].req)
        /\ control[c].kind \in {"result", "error"} /\ control[c].seq = 0
        /\ Open(c, control[c].req, 0)

Turns(c) ==
    /\ \A r \in ToSet(inbound[c]) : Open(c, r, 0)
    /\ \A r \in ToSet(queue) : sent[r].conn = c => Open(c, r, 0)
    /\ ReplyOpen(c)
    /\ \A w \in Workers :
          wpc[w] # "recv" /\ ConnOf(w) = c /\ life[w] # Terminal =>
              Open(c, job[w], life[w].next_seq)

ConnLegal(c) == c \notin disconnected => FlightLegal(c) /\ Turns(c)

\* Where a worker stands in its response.
WorkersKnow ==
    \A w \in Workers :
        /\ wpc[w] \in {"recv", "start"} => life[w] = NotStarted
        /\ wpc[w] \in {"terminal", "last"} => life[w] # Terminal
        /\ wpc[w] \in Enqueuing => pending[w].req = job[w]

\* What has been received.
GotLegal == \A r \in Serials : Proper(got[r]) /\ (r > Len(sent) => got[r] = <<>>)

RespInv == (\A c \in Conns : ConnLegal(c)) /\ WorkersKnow /\ GotLegal

\* The reader's reply answers a request that nobody else will, and only
\* accepted requests are stopped.
HolderInv ==
    /\ \A c \in Conns :
          control[c].req # 0 =>
              /\ Asked(c, control[c].req) /\ control[c].req \notin Accepted
              /\ control[c].req \notin ToSet(inbound[c])
    /\ stopped \subseteq Accepted

---------------------------------------------------------------------------
(* Frames on their way                                                     *)

\* The frames of every load.
AnyFrame == [req : 0 .. MaxRequests,
             kind : {"none", "transport", "result", "error", "begin", "chunk", "end", "end_error"},
             seq : Nat]

LEMMA FramesAny ==
    ASSUME load \in Loads
    PROVE  Frames \subseteq AnyFrame
  <1>1. load.seq \in Nat
    BY LoadFacts
  <1> QED
    BY <1>1 DEF Frames, AnyFrame

LEMMA QueuesAny ==
    ASSUME Typed
    PROVE  /\ \A c \in Conns : out[c] \in Seq(AnyFrame) /\ writing[c] \in AnyFrame
           /\ \A r \in Serials : got[r] \in Seq(AnyFrame)
  <1>1. /\ \A c \in Conns : out[c] \in Seq(Frames) /\ writing[c] \in Frames
        /\ \A r \in Serials : got[r] \in Seq(Frames)
        /\ Frames \subseteq AnyFrame
    BY FramesAny DEF Typed, TypeOK
  <1> HIDE DEF AnyFrame, Frames
  <1>2. \A s \in Seq(Frames) : s \in Seq(AnyFrame)
    BY <1>1
  <1> QED
    BY <1>1, <1>2

\* FramesOf, one frame more at the end or at the front.
FramesMore(r, s, f) ==
    /\ f.req = r => FramesOf(r, Append(s, f)) = Append(FramesOf(r, s), f)
    /\ f.req # r => FramesOf(r, Append(s, f)) = FramesOf(r, s)
FramesFirst(r, s, f) ==
    /\ f.req = r => FramesOf(r, <<f>> \o s) = <<f>> \o FramesOf(r, s)
    /\ f.req # r => FramesOf(r, <<f>> \o s) = FramesOf(r, s)

LEMMA FramesPicked ==
    ASSUME NEW r, NEW s \in Seq(AnyFrame)
    PROVE  FramesOf(r, s) = Picks(s, {f \in AnyFrame : f.req = r})
  <1>1. \A n \in DOMAIN s : s[n] \in AnyFrame
    <2> HIDE DEF AnyFrame
    <2> QED
      OBVIOUS
  <1>2. \A n \in DOMAIN s :
           (IF s[n].req = r THEN <<s[n]>> ELSE <<>>) = Pick(s, {f \in AnyFrame : f.req = r}, n)
    BY <1>1 DEF Pick
  <1>3. [n \in DOMAIN s |-> IF s[n].req = r THEN <<s[n]>> ELSE <<>>]
        = [n \in DOMAIN s |-> Pick(s, {f \in AnyFrame : f.req = r}, n)]
    BY <1>2
  <1> QED
    BY <1>3 DEF FramesOf, Picks

LEMMA FramesFacts ==
    ASSUME NEW r, NEW s \in Seq(AnyFrame), NEW f \in AnyFrame
    PROVE  /\ FramesOf(r, <<>>) = <<>> /\ FramesOf(r, s) \in Seq(AnyFrame)
           /\ FramesMore(r, s, f) /\ FramesFirst(r, s, f)
  <1> DEFINE S == {g \in AnyFrame : g.req = r}
  <1>1. f \in S <=> f.req = r
    OBVIOUS
  <1> HIDE DEF AnyFrame, S
  <1>2. <<>> \in Seq(AnyFrame) /\ Append(s, f) \in Seq(AnyFrame) /\ <<f>> \o s \in Seq(AnyFrame)
    OBVIOUS
  <1>3. \A t \in Seq(AnyFrame) : FramesOf(r, t) = Picks(t, S)
    BY FramesPicked DEF S
  <1>4. Picks(s, S) \in Seq(AnyFrame) /\ PicksMore(s, f, S)
    BY PicksAppend
  <1>5. PicksFirst(f, s, S)
    BY PicksCons
  <1>6. FramesOf(r, <<>>) = <<>>
    BY <1>2, <1>3, PicksEmpty
  <1>7. FramesMore(r, s, f)
    BY <1>1, <1>2, <1>3, <1>4 DEF FramesMore, PicksMore
  <1>8. FramesFirst(r, s, f)
    <2>1. <<>> \o Picks(s, S) = Picks(s, S)
      BY <1>4
    <2> QED
      BY <1>1, <1>2, <1>3, <1>5, <2>1 DEF FramesFirst, PicksFirst
  <1> QED
    BY <1>3, <1>4, <1>6, <1>7, <1>8

\* The writer's frame, when it answers r, and the rest of what is on its way.
Held(c, r) == IF writing[c].req = r THEN <<writing[c]>> ELSE <<>>
Rest(c, r) == FramesOf(r, out[c])

FlightParts(c, r) ==
    /\ FramesOf(r, InFlight(c)) = Held(c, r) \o Rest(c, r)
    /\ Held(c, r) \in Seq(AnyFrame) /\ Rest(c, r) \in Seq(AnyFrame)
    /\ got[r] \in Seq(AnyFrame)
    /\ Said(c, r) = got[r] \o (Held(c, r) \o Rest(c, r))
    /\ Said(c, r) \in Seq(AnyFrame) /\ Len(Said(c, r)) \in Nat

LEMMA FlightIs == Typed => \A c \in Conns, r \in Serials : FlightParts(c, r)
  <1> SUFFICES ASSUME Typed, NEW c \in Conns, NEW r \in Serials PROVE FlightParts(c, r)
    OBVIOUS
  <1>1. out[c] \in Seq(AnyFrame) /\ writing[c] \in AnyFrame /\ got[r] \in Seq(AnyFrame)
    BY QueuesAny
  <1>2. r # 0 /\ NoFrame.req = 0
    BY SizesAssumption DEF Serials, NoFrame, Frame
  <1> HIDE DEF AnyFrame
  <1>3. /\ Rest(c, r) \in Seq(AnyFrame) /\ FramesFirst(r, out[c], writing[c])
    BY <1>1, FramesFacts DEF Rest
  <1>4. Held(c, r) \in Seq(AnyFrame)
    BY <1>1 DEF Held
  <1>5. FramesOf(r, InFlight(c)) = Held(c, r) \o Rest(c, r)
    <2>1. <<>> \o out[c] = out[c] /\ <<>> \o Rest(c, r) = Rest(c, r)
      BY <1>1, <1>3
    <2>2. CASE writing[c] = NoFrame
      BY <1>2, <2>1, <2>2 DEF InFlight, Held, Rest
    <2>3. CASE writing[c] # NoFrame
      BY <1>3, <2>1, <2>3 DEF InFlight, Held, Rest, FramesFirst
    <2> QED
      BY <2>2, <2>3
  <1>6. Said(c, r) = got[r] \o (Held(c, r) \o Rest(c, r))
    BY <1>5 DEF Said
  <1>7. Said(c, r) \in Seq(AnyFrame)
    BY <1>1, <1>3, <1>4, <1>6, ConcatFacts
  <1>8. Len(Said(c, r)) \in Nat
    BY <1>7
  <1> QED
    BY <1>1, <1>3, <1>4, <1>5, <1>6, <1>7, <1>8 DEF FlightParts

\* The same of the next state.
LEMMA FlightIsNext == Typed' => \A c \in Conns, r \in Serials : FlightParts(c, r)'
  <1>1. (Typed => \A c \in Conns, r \in Serials : FlightParts(c, r))'
    BY FlightIs, PTL
  <1> QED
    BY <1>1

\* A frame is added at the end, or a frame without a request.
LEMMA SaidAppended ==
    ASSUME Typed, Typed', NEW c \in Conns, NEW f \in Frames, NEW r \in Serials,
           out'[c] = Append(out[c], f), writing'[c] = writing[c], got'[r] = got[r]
    PROVE  /\ f.req = r => Said(c, r)' = Append(Said(c, r), f)
           /\ f.req # r => /\ Said(c, r)' = Said(c, r)
                           /\ FramesOf(r, InFlight(c))' = FramesOf(r, InFlight(c))
  <1>1. /\ f \in AnyFrame /\ out[c] \in Seq(AnyFrame)
        /\ Held(c, r)' = Held(c, r) /\ Rest(c, r)' = FramesOf(r, Append(out[c], f))
    BY FramesAny, QueuesAny DEF Held, Rest, Typed
  <1> HIDE DEF AnyFrame
  <1>2. FramesMore(r, out[c], f)
    BY <1>1, FramesFacts
  <1>3. /\ FramesOf(r, InFlight(c)) = Held(c, r) \o Rest(c, r)
        /\ Held(c, r) \in Seq(AnyFrame) /\ Rest(c, r) \in Seq(AnyFrame)
        /\ got[r] \in Seq(AnyFrame) /\ Said(c, r) = got[r] \o (Held(c, r) \o Rest(c, r))
    BY FlightIs DEF FlightParts
  <1>4. /\ FramesOf(r, InFlight(c))' = Held(c, r) \o Rest(c, r)'
        /\ Said(c, r)' = got[r] \o (Held(c, r) \o Rest(c, r)')
    BY <1>1, FlightIsNext DEF FlightParts
  <1>5. ASSUME f.req = r PROVE Said(c, r)' = Append(Said(c, r), f)
    <2>1. Rest(c, r)' = Append(Rest(c, r), f)
      BY <1>1, <1>2, <1>5 DEF FramesMore, Rest
    <2>2. /\ Held(c, r) \o Append(Rest(c, r), f) = Append(Held(c, r) \o Rest(c, r), f)
          /\ Held(c, r) \o Rest(c, r) \in Seq(AnyFrame)
      <3>1. PICK s \in Seq(AnyFrame), t \in Seq(AnyFrame) : s = Held(c, r) /\ t = Rest(c, r)
        BY <1>3
      <3>2. s \o Append(t, f) = Append(s \o t, f) /\ s \o t \in Seq(AnyFrame)
        OBVIOUS
      <3> QED
        BY <3>1, <3>2
    <2>3. got[r] \o Append(Held(c, r) \o Rest(c, r), f)
          = Append(got[r] \o (Held(c, r) \o Rest(c, r)), f)
      <3>1. PICK t \in Seq(AnyFrame) : t = Held(c, r) \o Rest(c, r)
        BY <2>2
      <3>2. PICK s \in Seq(AnyFrame) : s = got[r]
        BY <1>3
      <3>3. s \o Append(t, f) = Append(s \o t, f)
        BY <1>1, ConcatFacts
      <3> QED
        BY <3>1, <3>2, <3>3
    <2> QED
      BY <1>3, <1>4, <2>1, <2>2, <2>3
  <1>6. ASSUME f.req # r PROVE Rest(c, r)' = Rest(c, r)
    BY <1>1, <1>2, <1>6 DEF FramesMore, Rest
  <1> QED
    BY <1>3, <1>4, <1>5, <1>6

\* The writer takes the first frame of the queue.
LEMMA SaidTaken ==
    ASSUME Typed, Typed', NEW c \in Conns, WriterTakes(c), NEW r \in Serials
    PROVE  /\ Said(c, r)' = Said(c, r)
           /\ FramesOf(r, InFlight(c))' = FramesOf(r, InFlight(c))
  <1> DEFINE s == Tail(out[c])
             f == Head(out[c])
  <1>1. /\ writing[c] = NoFrame /\ writing'[c] = f /\ out'[c] = s
        /\ out[c] \in Seq(AnyFrame) /\ out[c] # <<>> /\ got' = got
    BY QueuesAny DEF WriterTakes, Typed, TypeOK
  <1>2. NoFrame.req # r
    BY SizesAssumption DEF NoFrame, Frame, Serials
  <1> HIDE DEF AnyFrame
  <1>3. s \in Seq(AnyFrame) /\ f \in AnyFrame /\ out[c] = <<f>> \o s
    BY <1>1
  <1> HIDE DEF s, f
  <1>4. FramesFirst(r, s, f) /\ FramesOf(r, s) \in Seq(AnyFrame)
    BY <1>3, FramesFacts
  <1>5. Held(c, r) = <<>> /\ Rest(c, r) = FramesOf(r, <<f>> \o s)
    BY <1>1, <1>2, <1>3 DEF Held, Rest
  <1>6. Held(c, r)' = (IF f.req = r THEN <<f>> ELSE <<>>) /\ Rest(c, r)' = FramesOf(r, s)
    BY <1>1 DEF Held, Rest
  <1>7. Held(c, r)' \o Rest(c, r)' = Rest(c, r)
    <2>1. <<>> \o FramesOf(r, s) = FramesOf(r, s)
      BY <1>4
    <2> QED
      BY <1>4, <1>5, <1>6, <2>1 DEF FramesFirst
  <1>8. Held(c, r) \o Rest(c, r) = Rest(c, r)
    <2>1. Rest(c, r) \in Seq(AnyFrame)
      BY FlightIs DEF FlightParts
    <2> QED
      BY <1>5, <2>1
  <1>9. /\ FramesOf(r, InFlight(c)) = Held(c, r) \o Rest(c, r)
        /\ Said(c, r) = got[r] \o (Held(c, r) \o Rest(c, r))
    BY FlightIs DEF FlightParts
  <1>10. /\ FramesOf(r, InFlight(c))' = Held(c, r)' \o Rest(c, r)'
         /\ Said(c, r)' = got[r] \o (Held(c, r)' \o Rest(c, r)')
    BY <1>1, FlightIsNext DEF FlightParts
  <1> QED
    BY <1>7, <1>8, <1>9, <1>10

\* The client receives the frame that the writer holds.
LEMMA SaidWritten ==
    ASSUME Typed, Typed', NEW c \in Conns, WriterWrites(c), NEW r \in Serials
    PROVE  /\ Said(c, r)' = Said(c, r)
           /\ FramesOf(r, InFlight(c)) = <<>> =>
                 FramesOf(r, InFlight(c))' = <<>> /\ got'[r] = got[r]
           /\ FramesOf(r, InFlight(c))' = Rest(c, r) /\ got'[r] = got[r] \o Held(c, r)
  <1>1. /\ writing'[c] = NoFrame /\ out' = out /\ writing[c] \in AnyFrame
        /\ got' = IF writing[c].req = 0 THEN got
                  ELSE [got EXCEPT ![writing[c].req] = Append(@, writing[c])]
        /\ got \in [Serials -> Seq(Frames)]
    BY QueuesAny DEF WriterWrites, Typed, TypeOK
  <1>2. NoFrame.req # r /\ r # 0
    BY SizesAssumption DEF NoFrame, Frame, Serials
  <1> HIDE DEF AnyFrame
  <1>3. /\ FramesOf(r, InFlight(c)) = Held(c, r) \o Rest(c, r)
        /\ Held(c, r) \in Seq(AnyFrame) /\ Rest(c, r) \in Seq(AnyFrame)
        /\ got[r] \in Seq(AnyFrame) /\ Said(c, r) = got[r] \o (Held(c, r) \o Rest(c, r))
    BY FlightIs DEF FlightParts
  <1>4. Held(c, r)' = <<>> /\ Rest(c, r)' = Rest(c, r)
    BY <1>1, <1>2 DEF Held, Rest
  <1>5. got'[r] = got[r] \o Held(c, r)
    <2>1. CASE writing[c].req = r
      <3>1. got'[r] = Append(got[r], writing[c]) /\ Held(c, r) = <<writing[c]>>
        BY <1>1, <1>2, <2>1 DEF Held
      <3>2. PICK f \in AnyFrame : f = writing[c]
        BY <1>1
      <3>3. got[r] \o <<f>> = Append(got[r], f)
        BY <1>3, ConcatFacts
      <3> QED
        BY <3>1, <3>2, <3>3
    <2>2. CASE writing[c].req # r
      <3>1. got'[r] = got[r] /\ Held(c, r) = <<>>
        BY <1>1, <2>2 DEF Held
      <3> QED
        BY <1>3, <3>1, ConcatFacts
    <2> QED
      BY <2>1, <2>2
  <1>6. /\ FramesOf(r, InFlight(c))' = <<>> \o Rest(c, r)
        /\ Said(c, r)' = (got[r] \o Held(c, r)) \o (<<>> \o Rest(c, r))
    BY <1>4, <1>5, FlightIsNext DEF FlightParts
  <1>7. <<>> \o Rest(c, r) = Rest(c, r)
    BY <1>3
  <1>8. (got[r] \o Held(c, r)) \o Rest(c, r) = got[r] \o (Held(c, r) \o Rest(c, r))
    <2>1. PICK s \in Seq(AnyFrame), t \in Seq(AnyFrame), u \in Seq(AnyFrame) :
             s = got[r] /\ t = Held(c, r) /\ u = Rest(c, r)
      BY <1>3
    <2>2. (s \o t) \o u = s \o (t \o u)
      OBVIOUS
    <2> QED
      BY <2>1, <2>2
  <1>9. ASSUME FramesOf(r, InFlight(c)) = <<>> PROVE Rest(c, r) = <<>> /\ Held(c, r) = <<>>
    <2>1. Held(c, r) \o Rest(c, r) = <<>>
      BY <1>3, <1>9
    <2> QED
      BY <1>3, <2>1
  <1>10. ASSUME FramesOf(r, InFlight(c)) = <<>> PROVE got'[r] = got[r]
    BY <1>3, <1>5, <1>9, <1>10
  <1> QED
    BY <1>3, <1>5, <1>6, <1>7, <1>8, <1>9, <1>10

\* The writer drops the frame that it holds.
LEMMA SaidDropped ==
    ASSUME Typed, Typed', NEW c \in Conns, NEW r \in Serials,
           out'[c] = out[c], writing'[c] = NoFrame, got'[r] = got[r]
    PROVE  Len(Said(c, r)') <= Len(Said(c, r))
  <1>1. NoFrame.req # r
    BY SizesAssumption DEF NoFrame, Frame, Serials
  <1>2. Held(c, r)' = <<>> /\ Rest(c, r)' = Rest(c, r)
    BY <1>1 DEF Held, Rest
  <1> HIDE DEF AnyFrame
  <1>3. /\ Held(c, r) \in Seq(AnyFrame) /\ Rest(c, r) \in Seq(AnyFrame)
        /\ got[r] \in Seq(AnyFrame) /\ Said(c, r) = got[r] \o (Held(c, r) \o Rest(c, r))
    BY FlightIs DEF FlightParts
  <1>4. Said(c, r)' = got[r] \o (<<>> \o Rest(c, r))
    BY <1>2, FlightIsNext DEF FlightParts
  <1>5. /\ <<>> \o Rest(c, r) = Rest(c, r)
        /\ \A s \in Seq(AnyFrame) : Len(got[r] \o s) = Len(got[r]) + Len(s) /\ Len(s) \in Nat
        /\ Held(c, r) \o Rest(c, r) \in Seq(AnyFrame) /\ Len(got[r]) \in Nat
        /\ Len(Held(c, r) \o Rest(c, r)) = Len(Held(c, r)) + Len(Rest(c, r))
        /\ Len(Held(c, r)) \in Nat /\ Len(Rest(c, r)) \in Nat
    BY <1>3
  <1>6. PICK s \in Seq(AnyFrame) : s = Held(c, r) \o Rest(c, r)
    BY <1>5
  <1>7. Len(got[r] \o s) = Len(got[r]) + Len(s) /\ Len(s) = Len(Held(c, r)) + Len(Rest(c, r))
    <2>1. Len(got[r] \o s) = Len(got[r]) + Len(s)
      BY <1>5
    <2>2. Len(s) = Len(Held(c, r)) + Len(Rest(c, r))
      BY <1>5, <1>6
    <2> QED
      BY <2>1, <2>2
  <1>8. Len(got[r] \o Rest(c, r)) = Len(got[r]) + Len(Rest(c, r))
    BY <1>3, <1>5
  <1>9. Said(c, r)' = got[r] \o Rest(c, r) /\ Said(c, r) = got[r] \o s
    BY <1>3, <1>4, <1>5, <1>6
  <1>10. /\ Len(Said(c, r)') = Len(got[r]) + Len(Rest(c, r))
         /\ Len(Said(c, r)) = Len(got[r]) + (Len(Held(c, r)) + Len(Rest(c, r)))
    BY <1>7, <1>8, <1>9
  <1> QED
    BY <1>5, <1>10

LEMMA HoldersType ==
    ASSUME Typed
    PROVE  /\ Len(sent) \in Nat /\ 1 .. Len(sent) \subseteq Serials
           /\ \A r \in 1 .. Len(sent) : sent[r].conn \in Conns
           /\ \A c \in Conns : ToSet(inbound[c]) \subseteq 1 .. Len(sent)
           /\ ToSet(queue) \subseteq 1 .. Len(sent)
           /\ \A w \in Workers : wpc[w] # "recv" => job[w] \in 1 .. Len(sent)
           /\ \A w \in Workers : life[w].next_seq \in Nat
  <1>1. load.seq \in Nat
    BY LoadFacts DEF Typed
  <1>2. \A w \in Workers : life[w].next_seq \in Nat
    <2>1. \A w \in Workers :
              life[w] \in {Terminal, NotStarted} \cup {Streaming(n) : n \in 1 .. load.seq}
      BY DEF Typed, TypeOK
    <2> QED
      BY <1>1, <2>1 DEF Terminal, NotStarted, Streaming, Lifecycle
  <1>3. \A r \in 1 .. Len(sent) : r \in Serials /\ sent[r].conn \in Conns
    BY SentRequest
  <1>4. \A w \in Workers : wpc[w] # "recv" => job[w] \in 1 .. Len(sent)
    BY JobFacts
  <1> QED
    BY <1>2, <1>3, <1>4 DEF Typed, TypeOK, SerialsSent

\* A response with one more frame, and with fewer.
LEMMA ProperAppend ==
    ASSUME NEW s \in Seq(AnyFrame), NEW f \in AnyFrame, Proper(s), Unfinished(s),
           Shape(f), f.seq = Len(s)
    PROVE  /\ Proper(Append(s, f)) /\ (~Final(f) => Unfinished(Append(s, f)))
           /\ Len(Append(s, f)) = Len(s) + 1
  <1> DEFINE t == Append(s, f)
  <1> HIDE DEF AnyFrame
  <1>1. /\ Len(s) \in Nat /\ Len(t) = Len(s) + 1 /\ t[Len(s) + 1] = f
        /\ DOMAIN t = 1 .. Len(s) + 1 /\ DOMAIN s = 1 .. Len(s)
        /\ \A i \in 1 .. Len(s) : t[i] = s[i]
    OBVIOUS
  <1> HIDE DEF t
  <1>2. ASSUME NEW i \in 1 .. Len(s) + 1
        PROVE  /\ t[i].seq = i - 1 /\ Shape(t[i]) /\ (Final(t[i]) => i = Len(t))
               /\ ~Final(f) => ~Final(t[i])
    <2>1. CASE i = Len(s) + 1
      BY <1>1, <2>1
    <2>2. CASE i # Len(s) + 1
      <3>1. i \in DOMAIN s /\ t[i] = s[i]
        BY <1>1, <2>2
      <3> QED
        BY <3>1 DEF Proper, Unfinished
    <2> QED
      BY <2>1, <2>2
  <1> QED
    BY <1>1, <1>2 DEF Proper, Unfinished, t

LEMMA ProperPrefix ==
    ASSUME NEW s \in Seq(AnyFrame), NEW t \in Seq(AnyFrame), Proper(s \o t)
    PROVE  Proper(s)
  <1> DEFINE u == s \o t
  <1> HIDE DEF AnyFrame
  <1>1. /\ Len(s) \in Nat /\ Len(t) \in Nat /\ Len(u) = Len(s) + Len(t)
        /\ DOMAIN u = 1 .. Len(u) /\ DOMAIN s = 1 .. Len(s)
        /\ \A i \in 1 .. Len(s) : u[i] = s[i]
    OBVIOUS
  <1>2. Proper(u)
    OBVIOUS
  <1> HIDE DEF u
  <1> QED
    BY <1>1, <1>2 DEF Proper

\* FlightLegal speaks of what was asked, said and is on its way, and of nothing else.
LEMMA FlightFrom ==
    ASSUME Typed, NEW c \in Conns, FlightLegal(c),
           \A r \in Serials : Asked(c, r)' <=> Asked(c, r),
           \A r \in Serials : Asked(c, r) => Said(c, r)' = Said(c, r),
           \A r \in Serials : FramesOf(r, InFlight(c)) = <<>> => FramesOf(r, InFlight(c))' = <<>>
    PROVE  FlightLegal(c)'
  BY DEF FlightLegal

\* A connection whose frames, and whose clients' frames, stay as they are.
LEMMA FlightKept ==
    ASSUME Typed, NEW c \in Conns, FlightLegal(c), GotLegal,
           out'[c] = out[c], writing'[c] = writing[c],
           Len(sent) <= Len(sent'), Len(sent') \in Nat,
           \A r \in 1 .. Len(sent) : sent'[r] = sent[r],
           \A r \in Serials : r > Len(sent) \/ sent[r].conn = c => got'[r] = got[r]
    PROVE  /\ FlightLegal(c)'
           /\ \A r, k : r \in 1 .. Len(sent) /\ sent[r].conn = c /\ Open(c, r, k) => Open(c, r, k)'
           /\ \A r \in Serials : r > Len(sent) => Open(c, r, 0)'
  <1>1. Len(sent) \in Nat /\ 1 .. Len(sent) \subseteq Serials /\ \A r \in Serials : r \in Nat /\ r > 0
    BY HoldersType, SizesAssumption DEF Serials
  <1>2. InFlight(c)' = InFlight(c)
    BY DEF InFlight
  <1>3. ASSUME NEW r \in Serials, r > Len(sent) \/ sent[r].conn = c
        PROVE  Said(c, r)' = Said(c, r)
    BY <1>2, <1>3 DEF Said
  <1>4. ASSUME NEW r \in Serials, r > Len(sent)
        PROVE  Said(c, r)' = <<>>
    <2>1. got[r] = <<>> /\ FramesOf(r, InFlight(c)) = <<>>
      BY <1>1, <1>4 DEF GotLegal, FlightLegal, Asked
    <2>2. Said(c, r)' = <<>> \o <<>>
      BY <1>3, <1>4, <2>1 DEF Said
    <2> QED
      BY <2>2
  <1>5. ASSUME NEW r \in Serials
        PROVE  /\ Asked(c, r)' => Proper(Said(c, r))'
               /\ ~Asked(c, r)' => FramesOf(r, InFlight(c))' = <<>>
    <2>1. CASE r > Len(sent)
      <3>1. Proper(Said(c, r))'
        BY <1>4, <2>1 DEF Proper
      <3>2. FramesOf(r, InFlight(c)) = <<>>
        BY <1>1, <2>1 DEF FlightLegal, Asked
      <3> QED
        BY <1>2, <3>1, <3>2
    <2>2. CASE r <= Len(sent)
      <3>1. r \in 1 .. Len(sent) /\ r \in 1 .. Len(sent')
        BY <1>1, <2>2
      <3>2. Asked(c, r)' <=> Asked(c, r)
        BY <3>1 DEF Asked
      <3> QED
        BY <1>2, <1>3, <3>2 DEF FlightLegal, Asked
    <2> QED
      BY <1>1, <2>1, <2>2
  <1>6. FlightLegal(c)'
    BY <1>5 DEF FlightLegal
  <1>7. ASSUME NEW r \in 1 .. Len(sent), NEW k, sent[r].conn = c, Open(c, r, k) PROVE Open(c, r, k)'
    BY <1>1, <1>3, <1>7 DEF Open
  <1>8. ASSUME NEW r \in Serials, r > Len(sent) PROVE Open(c, r, 0)'
    BY <1>4, <1>8 DEF Open, Unfinished
  <1> QED
    BY <1>6, <1>7, <1>8

\* A frame that continues its response is added at the end.
LEMMA Emit ==
    ASSUME Typed, Typed', NEW c \in Conns, FlightLegal(c), NEW f \in Frames,
           Asked(c, f.req), Shape(f), Open(c, f.req, f.seq),
           out'[c] = Append(out[c], f), writing'[c] = writing[c], UNCHANGED <<sent, got>>
    PROVE  /\ FlightLegal(c)'
           /\ ~Final(f) => Open(c, f.req, f.seq + 1)'
           /\ \A r \in Serials, k \in Nat : r # f.req /\ Open(c, r, k) => Open(c, r, k)'
  <1>1. f.req \in Serials /\ f \in AnyFrame
    BY HoldersType, FramesAny DEF Asked, Typed
  <1>2. \A r \in Serials : Asked(c, r)' <=> Asked(c, r)
    BY DEF Asked
  <1>3. \A r \in Serials :
           /\ f.req = r => Said(c, r)' = Append(Said(c, r), f)
           /\ f.req # r => /\ Said(c, r)' = Said(c, r)
                           /\ FramesOf(r, InFlight(c))' = FramesOf(r, InFlight(c))
    BY SaidAppended
  <1> DEFINE s == Said(c, f.req)
  <1>4. s \in Seq(AnyFrame) /\ Proper(s) /\ Unfinished(s) /\ f.seq = Len(s)
    BY <1>1, FlightIs DEF FlightParts, FlightLegal, Open
  <1> HIDE DEF s
  <1>5. /\ Proper(Append(s, f)) /\ (~Final(f) => Unfinished(Append(s, f)))
        /\ Len(Append(s, f)) = Len(s) + 1
    BY <1>1, <1>4, ProperAppend
  <1>6. PICK t : /\ t = Append(s, f)
                 /\ Proper(t) /\ (~Final(f) => Unfinished(t)) /\ Len(t) = Len(s) + 1
    BY <1>5, Zenon
  <1>7. \A r \in Serials : r = f.req => Asked(c, r) /\ Said(c, r)' = t
    BY <1>1, <1>3, <1>6 DEF s
  <1>8. FlightLegal(c)'
    <2>1. ASSUME NEW r \in Serials
          PROVE  /\ Asked(c, r)' => Proper(Said(c, r))'
                 /\ ~Asked(c, r)' => FramesOf(r, InFlight(c))' = <<>>
      <3>1. CASE r = f.req
        BY <1>2, <1>6, <1>7, <3>1
      <3>2. CASE r # f.req
        BY <1>2, <1>3, <3>2 DEF FlightLegal
      <3> QED
        BY <3>1, <3>2
    <2> QED
      BY <2>1 DEF FlightLegal
  <1>9. ASSUME ~Final(f) PROVE Open(c, f.req, f.seq + 1)'
    BY <1>1, <1>4, <1>6, <1>7, <1>9 DEF Open
  <1>10. ASSUME NEW r \in Serials, NEW k \in Nat, r # f.req, Open(c, r, k) PROVE Open(c, r, k)'
    BY <1>3, <1>10 DEF Open
  <1> QED
    BY <1>8, <1>9, <1>10

\* A frame without a request changes no response.
LEMMA EmitOther ==
    ASSUME Typed, Typed', NEW c \in Conns, FlightLegal(c), NEW f \in Frames, f.req = 0,
           out'[c] = Append(out[c], f), writing'[c] = writing[c], UNCHANGED <<sent, got>>
    PROVE  /\ FlightLegal(c)'
           /\ \A r \in Serials, k \in Nat : Open(c, r, k) => Open(c, r, k)'
  <1>1. \A r \in Serials : Asked(c, r)' <=> Asked(c, r)
    BY DEF Asked
  <1>2. \A r \in Serials : f.req # r
    BY SizesAssumption DEF Serials
  <1>3. \A r \in Serials :
           /\ Said(c, r)' = Said(c, r)
           /\ FramesOf(r, InFlight(c))' = FramesOf(r, InFlight(c))
    BY <1>2, SaidAppended
  <1> QED
    BY <1>1, <1>3, FlightFrom DEF Open

LEMMA Taken ==
    ASSUME Typed, Typed', NEW c \in Conns, FlightLegal(c), WriterTakes(c)
    PROVE  /\ FlightLegal(c)'
           /\ \A r \in Serials, k \in Nat : Open(c, r, k) => Open(c, r, k)'
  <1>1. \A r \in Serials : Asked(c, r)' <=> Asked(c, r)
    BY DEF Asked, WriterTakes, client
  <1>2. \A r \in Serials :
           /\ Said(c, r)' = Said(c, r)
           /\ FramesOf(r, InFlight(c))' = FramesOf(r, InFlight(c))
    BY SaidTaken
  <1> QED
    BY <1>1, <1>2, FlightFrom DEF Open

LEMMA Written ==
    ASSUME Typed, Typed', NEW c \in Conns, FlightLegal(c), GotLegal, WriterWrites(c)
    PROVE  /\ FlightLegal(c)' /\ GotLegal'
           /\ \A r \in Serials, k \in Nat : Open(c, r, k) => Open(c, r, k)'
           /\ \A r \in Serials : r > Len(sent) \/ sent[r].conn # c => got'[r] = got[r]
  <1>1. /\ \A r \in Serials : Asked(c, r)' <=> Asked(c, r)
        /\ sent' = sent /\ Len(sent) \in Nat
    BY HoldersType DEF Asked, WriterWrites, client
  <1>2. \A r \in Serials :
           /\ Said(c, r)' = Said(c, r)
           /\ FramesOf(r, InFlight(c)) = <<>> =>
                 FramesOf(r, InFlight(c))' = <<>> /\ got'[r] = got[r]
           /\ FramesOf(r, InFlight(c))' = Rest(c, r) /\ got'[r] = got[r] \o Held(c, r)
    BY SaidWritten
  <1>3. FlightLegal(c)'
    BY <1>1, <1>2, FlightFrom
  <1>4. \A r \in Serials, k \in Nat : Open(c, r, k) => Open(c, r, k)'
    BY <1>2 DEF Open
  <1>5. ASSUME NEW r \in Serials, ~Asked(c, r) PROVE got'[r] = got[r]
    BY <1>2, <1>5 DEF FlightLegal
  <1>6. \A r \in Serials : r > Len(sent) \/ sent[r].conn # c => got'[r] = got[r]
    BY <1>1, <1>5 DEF Asked, Serials
  <1>7. ASSUME NEW r \in Serials, Asked(c, r) PROVE Proper(got'[r])
    <2>1. /\ got[r] \o Held(c, r) \in Seq(AnyFrame) /\ Rest(c, r) \in Seq(AnyFrame)
          /\ Said(c, r) = (got[r] \o Held(c, r)) \o Rest(c, r)
      <3>1. FlightParts(c, r)
        BY FlightIs
      <3> HIDE DEF AnyFrame
      <3>2. PICK x \in Seq(AnyFrame), y \in Seq(AnyFrame), z \in Seq(AnyFrame) :
               x = got[r] /\ y = Held(c, r) /\ z = Rest(c, r) /\ Said(c, r) = x \o (y \o z)
        BY <3>1 DEF FlightParts
      <3>3. x \o y \in Seq(AnyFrame) /\ x \o (y \o z) = (x \o y) \o z
        OBVIOUS
      <3> QED
        BY <3>2, <3>3
    <2>2. Proper(Said(c, r))
      BY <1>7 DEF FlightLegal
    <2>3. PICK x \in Seq(AnyFrame), y \in Seq(AnyFrame) :
             x = got[r] \o Held(c, r) /\ y = Rest(c, r)
      BY <2>1
    <2>4. Proper(x \o y)
      BY <2>1, <2>2, <2>3
    <2>5. Proper(x)
      BY <2>4, ProperPrefix
    <2> QED
      BY <1>2, <2>3, <2>5
  <1>8. GotLegal'
    <2>1. ASSUME NEW r \in Serials
          PROVE  Proper(got'[r]) /\ (r > Len(sent) => got'[r] = <<>>)
      <3>1. r > Len(sent) => ~Asked(c, r)
        BY <1>1 DEF Asked, Serials
      <3> QED
        BY <1>5, <1>7, <3>1 DEF GotLegal
    <2> QED
      BY <1>1, <2>1 DEF GotLegal
  <1> QED
    BY <1>3, <1>4, <1>6, <1>8

---------------------------------------------------------------------------
(* Turns                                                                   *)

\* Whoever may answer in the next state either has its turn there, or had it and

\* did not lose it to an answer for a request in E.
LEMMA TurnsKept ==
    ASSUME Typed, NEW c \in Conns, Turns(c), NEW E,
           \A r \in Serials, k \in Nat : r \notin E /\ Open(c, r, k) => Open(c, r, k)',
           \A r \in 1 .. Len(sent) : sent'[r] = sent[r],
           Len(sent') \in Nat, Len(sent) <= Len(sent'),
           \A r \in ToSet(inbound'[c]) : Open(c, r, 0)' \/ r \in ToSet(inbound[c]) \ E,
           \A r \in ToSet(queue') :
              sent'[r].conn = c => Open(c, r, 0)' \/ r \in ToSet(queue) \ E,
           ReplyOpen(c)' \/ (control'[c] = control[c] /\ control[c].req \notin E),
           \A w \in Workers :
              wpc'[w] # "recv" /\ ConnOf(w)' = c /\ life'[w] # Terminal =>
                 \/ Open(c, job[w], life[w].next_seq)'
                 \/ wpc[w] # "recv" /\ UNCHANGED <<job[w], life[w]>> /\ job[w] \notin E
    PROVE  Turns(c)'
  <1>1. ASSUME NEW r \in ToSet(inbound'[c]) PROVE Open(c, r, 0)'
    BY HoldersType DEF Turns
  <1>2. ASSUME NEW r \in ToSet(queue'), sent'[r].conn = c PROVE Open(c, r, 0)'
    BY <1>2, HoldersType DEF Turns
  <1>3. ReplyOpen(c)'
    <2> SUFFICES ASSUME ~ReplyOpen(c)', control[c].req # 0
                 PROVE  /\ Asked(c, control[c].req)'
                        /\ control[c].kind \in {"result", "error"} /\ control[c].seq = 0
                        /\ Open(c, control[c].req, 0)'
      BY DEF ReplyOpen
    <2>1. /\ Asked(c, control[c].req) /\ control[c].kind \in {"result", "error"}
          /\ control[c].seq = 0 /\ Open(c, control[c].req, 0)
          /\ control'[c] = control[c] /\ control[c].req \notin E
      BY DEF Turns, ReplyOpen
    <2>2. PICK r : r = control[c].req
      OBVIOUS
    <2>3. r \in Serials /\ Asked(c, r)'
      BY <2>1, <2>2, HoldersType DEF Asked
    <2>4. Open(c, r, 0)'
      BY <2>1, <2>2, <2>3
    <2> QED
      BY <2>1, <2>2, <2>3, <2>4
  <1>4. ASSUME NEW w \in Workers, wpc'[w] # "recv", ConnOf(w)' = c, life'[w] # Terminal
        PROVE  Open(c, job[w], life[w].next_seq)'
    <2>1. CASE wpc[w] # "recv" /\ UNCHANGED <<job[w], life[w]>> /\ job[w] \notin E
      <3>1. ConnOf(w) = c
        BY <1>4, <2>1, HoldersType DEF ConnOf
      <3>2. Open(c, job[w], life[w].next_seq)
        BY <1>4, <2>1, <3>1 DEF Turns
      <3>3. \A r, k : r = job[w] /\ k = life[w].next_seq => Open(c, r, k)'
        BY <2>1, <3>2, HoldersType
      <3> QED
        BY <2>1, <3>3
    <2> QED
      BY <1>4, <2>1
  <1> QED
    BY <1>1, <1>2, <1>3, <1>4 DEF Turns

\* The same for a step that adds a frame: it answers at most the request in E.
LEMMA TurnsAfterFrame ==
    ASSUME Typed, NEW c \in Conns, Turns(c), NEW E,
           \A r \in Serials, k \in Nat : r \notin E /\ Open(c, r, k) => Open(c, r, k)',
           UNCHANGED <<sent, inbound, queue, job>>,
           ToSet(inbound[c]) \cap E = {}, ToSet(queue) \cap E = {},
           ReplyOpen(c)' \/ (control'[c] = control[c] /\ control[c].req \notin E),
           \A w \in Workers :
              wpc'[w] # "recv" /\ ConnOf(w) = c /\ life'[w] # Terminal =>
                 \/ Open(c, job[w], life[w].next_seq)'
                 \/ wpc[w] # "recv" /\ life'[w] = life[w] /\ job[w] \notin E
    PROVE  Turns(c)'
  <1>1. /\ Len(sent') \in Nat /\ Len(sent) <= Len(sent')
        /\ \A r \in 1 .. Len(sent) : sent'[r] = sent[r]
    BY HoldersType
  <1>2. \A r \in ToSet(inbound'[c]) : r \in ToSet(inbound[c]) \ E
    OBVIOUS
  <1>3. \A r \in ToSet(queue') : r \in ToSet(queue) \ E
    OBVIOUS
  <1>4. \A w \in Workers :
           wpc'[w] # "recv" /\ ConnOf(w)' = c /\ life'[w] # Terminal =>
              \/ Open(c, job[w], life[w].next_seq)'
              \/ wpc[w] # "recv" /\ UNCHANGED <<job[w], life[w]>> /\ job[w] \notin E
    BY DEF ConnOf
  <1> QED
    BY <1>1, <1>2, <1>3, <1>4, TurnsKept

\* A connection at which nobody gets a new turn and no frame moves.
LEMMA ConnKept ==
    ASSUME Typed, NEW c \in Conns, ConnLegal(c), GotLegal,
           disconnected \subseteq disconnected',
           out'[c] = out[c], writing'[c] = writing[c],
           Len(sent') \in Nat, Len(sent) <= Len(sent'),
           \A r \in 1 .. Len(sent) : sent'[r] = sent[r],
           \A r \in Serials : r > Len(sent) \/ sent[r].conn = c => got'[r] = got[r],
           ToSet(inbound'[c]) \subseteq ToSet(inbound[c]),
           \A r \in ToSet(queue') : sent'[r].conn = c => r \in ToSet(queue),
           control'[c] = control[c] \/ control'[c].req = 0,
           \A w \in Workers :
              wpc'[w] # "recv" /\ ConnOf(w)' = c /\ life'[w] # Terminal =>
                 wpc[w] # "recv" /\ UNCHANGED <<job[w], life[w]>>
    PROVE  ConnLegal(c)'
  <1> SUFFICES ASSUME c \notin disconnected PROVE FlightLegal(c)' /\ Turns(c)'
    BY DEF ConnLegal
  <1>1. FlightLegal(c) /\ Turns(c)
    BY DEF ConnLegal
  <1>2. /\ FlightLegal(c)'
        /\ \A r, k : r \in 1 .. Len(sent) /\ sent[r].conn = c /\ Open(c, r, k) => Open(c, r, k)'
    BY <1>1, FlightKept
  <1> DEFINE E == {r \in Serials : r \notin 1 .. Len(sent) \/ sent[r].conn # c}
  <1>3. \A r \in Serials, k \in Nat : r \notin E /\ Open(c, r, k) => Open(c, r, k)'
    BY <1>2
  <1>4. \A r \in ToSet(inbound'[c]) : r \in ToSet(inbound[c]) \ E
    BY DEF Typed, SerialsSent
  <1>5. \A r \in ToSet(queue') : sent'[r].conn = c => r \in ToSet(queue) \ E
    BY HoldersType
  <1>6. ReplyOpen(c)' \/ (control'[c] = control[c] /\ control[c].req \notin E)
    BY <1>1 DEF ReplyOpen, Turns, Asked
  <1>7. \A w \in Workers :
            wpc'[w] # "recv" /\ ConnOf(w)' = c /\ life'[w] # Terminal =>
               wpc[w] # "recv" /\ UNCHANGED <<job[w], life[w]>> /\ job[w] \notin E
    BY HoldersType DEF ConnOf
  <1> HIDE DEF E
  <1> QED
    BY <1>1, <1>2, <1>3, <1>4, <1>5, <1>6, <1>7, TurnsKept

LEMMA GotKept ==
    ASSUME GotLegal, got' = got, Len(sent) \in Nat, Len(sent') \in Nat, Len(sent) <= Len(sent')
    PROVE  GotLegal'
  BY SizesAssumption DEF GotLegal, Serials

---------------------------------------------------------------------------
(* Steps                                                                   *)

\* A step that moves no frame to or from a queue and no job.
LEMMA QuietStep ==
    ASSUME Typed, RespInv, disconnected \subseteq disconnected',
           UNCHANGED <<sent, out, writing, got, queue, wpc, job, life, pending>>,
           \A c \in Conns : ToSet(inbound'[c]) \subseteq ToSet(inbound[c]),
           \A c \in Conns : control'[c] = control[c] \/ control'[c].req = 0
    PROVE  RespInv'
  <1>2. ASSUME NEW c \in Conns PROVE ConnLegal(c)'
    BY ConnKept, HoldersType DEF RespInv, ConnOf
  <1>3. WorkersKnow' /\ GotLegal'
    BY GotKept, HoldersType DEF RespInv, WorkersKnow
  <1> QED
    BY <1>2, <1>3 DEF RespInv

LEMMA EnvironmentResp ==
    ASSUME Typed, Typed', RegistryInv, RespInv, Environment
    PROVE  RespInv'
  <1>1. ASSUME NEW c \in load.conns, NEW q \in Requests, ClientSend(c, q)
        PROVE  RespInv'
    <2>1. /\ UNCHANGED <<out, writing, got, queue, wpc, job, life, pending, control, disconnected>>
          /\ sent' = Append(sent, q)
          /\ inbound' = [inbound EXCEPT ![c] = Append(@, Len(sent) + 1)]
      BY <1>1 DEF ClientSend, conn, output, pool
    <2>2. /\ c \in Conns /\ inbound[c] \in Seq(Serials) /\ inbound \in [Conns -> Seq(Serials)]
          /\ Len(sent) \in Nat /\ Len(sent') = Len(sent) + 1 /\ Len(sent) + 1 \in Serials
          /\ \A r \in 1 .. Len(sent) : sent'[r] = sent[r]
      <3>1. /\ c \in Conns /\ sent \in Seq(Requests) /\ inbound[c] \in Seq(Serials)
            /\ inbound \in [Conns -> Seq(Serials)]
        BY LoadFacts DEF Typed, TypeOK
      <3>2. Len(sent) \in Nat /\ Len(sent') = Len(sent) + 1
            /\ \A r \in 1 .. Len(sent) : sent'[r] = sent[r]
        BY <2>1, <3>1
      <3>3. Len(sent') <= MaxRequests
        BY DEF Typed, TypeOK
      <3> QED
        BY <3>1, <3>2, <3>3, SizesAssumption DEF Serials
    <2>4. /\ ToSet(inbound'[c]) = ToSet(inbound[c]) \cup {Len(sent) + 1}
          /\ \A d \in Conns : d # c => inbound'[d] = inbound[d]
      BY <2>1, <2>2, AppendSet
    <2>5. \A w \in Workers : wpc[w] # "recv" => ConnOf(w)' = ConnOf(w)
      BY <2>1, <2>2, HoldersType DEF ConnOf
    <2>6. ASSUME NEW d \in Conns, d # c PROVE ConnLegal(d)'
      <3>1. Len(sent') \in Nat /\ Len(sent) <= Len(sent')
        BY <2>2
      <3>3. \A w \in Workers : UNCHANGED <<job[w], life[w], wpc[w]>>
        BY <2>1
      <3> QED
        BY <2>1, <2>2, <2>4, <2>6, <3>1, <3>3, ConnKept DEF RespInv
    <2>7. ConnLegal(c)'
      <3> SUFFICES ASSUME c \notin disconnected PROVE FlightLegal(c)' /\ Turns(c)'
        BY <2>1 DEF ConnLegal
      <3>1. FlightLegal(c) /\ Turns(c)
        BY <2>2 DEF RespInv, ConnLegal
      <3>2. /\ FlightLegal(c)'
            /\ \A r, k :
                  r \in 1 .. Len(sent) /\ sent[r].conn = c /\ Open(c, r, k) => Open(c, r, k)'
            /\ \A r \in Serials : r > Len(sent) => Open(c, r, 0)'
        BY <2>1, <2>2, <3>1, FlightKept DEF RespInv
      <3>3. \A r : r = Len(sent) + 1 => Open(c, r, 0)'
        BY <2>2, <3>2
      <3>4. \A r \in ToSet(inbound'[c]) : Open(c, r, 0)' \/ r \in ToSet(inbound[c])
        BY <2>4, <3>3
      <3>5. \A r \in ToSet(inbound[c]) : Open(c, r, 0)'
        BY <2>2, <3>1, <3>2 DEF Turns, Typed, SerialsSent
      <3>6. \A r \in ToSet(queue) : sent[r].conn = c => Open(c, r, 0)'
        BY <3>1, <3>2, HoldersType DEF Turns
      <3>7. ReplyOpen(c)'
        BY <2>1, <2>2, <3>1, <3>2 DEF Turns, ReplyOpen, Asked
      <3>8. ASSUME NEW w \in Workers, wpc[w] # "recv", ConnOf(w) = c, life[w] # Terminal
            PROVE  Open(c, job[w], life[w].next_seq)'
        <4>1. \A r, k : r = job[w] /\ k = life[w].next_seq => Open(c, r, k)'
          BY <3>1, <3>2, <3>8, HoldersType DEF Turns, ConnOf
        <4> QED
          BY <2>1, <4>1
      <3> QED
        BY <2>1, <2>2, <2>5, <3>2, <3>4, <3>5, <3>6, <3>7, <3>8, HoldersType DEF Turns
    <2>8. WorkersKnow' /\ GotLegal'
      BY <2>1, <2>2, GotKept DEF RespInv, WorkersKnow
    <2> QED
      BY <2>6, <2>7, <2>8 DEF RespInv
  <1>2. ASSUME NEW c \in load.conns, NEW h \in {"half", "full"}, ClientClose(c, h)
        PROVE  RespInv'
    BY <1>2, QuietStep DEF ClientClose, conn, output, pool
  <1>3. ASSUME NEW c \in load.conns, ClientStall(c) PROVE RespInv'
    BY <1>3, QuietStep DEF ClientStall, conn, output, pool
  <1>4. CASE Shutdown
    BY <1>4, QuietStep DEF Shutdown, conn, output, pool
  <1>5. ASSUME NEW r \in Serials, DeadlinePasses(r) PROVE RespInv'
    BY <1>5, QuietStep DEF DeadlinePasses, client, output, pool
  <1> QED
    BY <1>1, <1>2, <1>3, <1>4, <1>5 DEF Environment

\* A line that the reader itself answers.
LEMMA Replied ==
    ASSUME Typed, Typed', RegistryInv, RespInv, NEW c \in Conns, TakeLine(c),
           NEW k \in {"result", "error"}, control' = [control EXCEPT ![c] = Frame(Line(c), k, 0)],
           UNCHANGED <<disconnected, output, pool>>
    PROVE  RespInv'
  <1> DEFINE s == Line(c)
  <1>1. /\ UNCHANGED <<sent, out, writing, got, queue, wpc, job, life, pending>>
        /\ inbound' = [inbound EXCEPT ![c] = Tail(@)] /\ inbound[c] # <<>>
        /\ Accepted' = Accepted /\ Len(sent) \in Nat
    BY HoldersType DEF TakeLine, output, pool, Accepted, Running
  <1>2. /\ inbound[c] \in Seq(Serials) /\ inbound \in [Conns -> Seq(Serials)]
        /\ control \in [Conns -> Frames] /\ IsInjective(inbound[c])
    BY DEF Typed, TypeOK, RegistryInv, Unread
  <1>3. /\ s \in 1 .. Len(sent) /\ s \in ToSet(inbound[c]) /\ sent[s].conn = c /\ s \notin Accepted
        /\ inbound'[c] = Tail(inbound[c]) /\ ToSet(inbound'[c]) \subseteq ToSet(inbound[c])
        /\ s \notin ToSet(inbound'[c])
        /\ \A d \in Conns : d # c => inbound'[d] = inbound[d] /\ control'[d] = control[d]
        /\ control'[c] = Frame(s, k, 0)
    <2>1. inbound'[c] = Tail(inbound[c]) /\ s \notin ToSet(Tail(inbound[c]))
      BY <1>1, <1>2, TailSet DEF Line
    <2> QED
      BY <1>1, <1>2, <2>1, LineFacts DEF RegistryInv, Unread
  <1>4. ASSUME NEW d \in Conns, d # c PROVE ConnLegal(d)'
    BY <1>1, <1>3, <1>4, ConnKept DEF RespInv, ConnOf
  <1>5. ConnLegal(c)'
    <2> SUFFICES ASSUME c \notin disconnected PROVE FlightLegal(c)' /\ Turns(c)'
      BY DEF ConnLegal
    <2>1. FlightLegal(c) /\ Turns(c)
      BY DEF RespInv, ConnLegal
    <2>2. /\ FlightLegal(c)'
          /\ \A r, n : r \in 1 .. Len(sent) /\ sent[r].conn = c /\ Open(c, r, n) => Open(c, r, n)'
      BY <1>1, <2>1, FlightKept DEF RespInv
    <2>3. \A r : r = s => Open(c, r, 0)'
      BY <1>3, <2>1, <2>2 DEF Turns
    <2>4. ReplyOpen(c)'
      BY <1>1, <1>3, <2>3 DEF ReplyOpen, Frame, Asked
    <2>5. \A r \in ToSet(inbound'[c]) : Open(c, r, 0)'
      BY <1>3, <2>1, <2>2 DEF Turns, Typed, SerialsSent
    <2>6. \A r \in ToSet(queue) : sent[r].conn = c => Open(c, r, 0)'
      BY <2>1, <2>2, HoldersType DEF Turns
    <2>7. ASSUME NEW w \in Workers, wpc[w] # "recv", ConnOf(w) = c, life[w] # Terminal
          PROVE  Open(c, job[w], life[w].next_seq)'
      <3>1. \A r, n : r = job[w] /\ n = life[w].next_seq => Open(c, r, n)'
        BY <2>1, <2>2, <2>7, HoldersType DEF Turns, ConnOf
      <3> QED
        BY <1>1, <3>1
    <2> QED
      BY <1>1, <2>2, <2>4, <2>5, <2>6, <2>7 DEF Turns, ConnOf
  <1>6. WorkersKnow' /\ GotLegal'
    BY <1>1, GotKept DEF RespInv, WorkersKnow
  <1> QED
    BY <1>4, <1>5, <1>6 DEF RespInv

\* A query that is queued keeps its turn.
LEMMA Queued ==
    ASSUME Typed, Typed', RegistryInv, RespInv, NEW c \in Conns, ReadQuery(c)
    PROVE  RespInv'
  <1> DEFINE s == Line(c)
  <1>1. /\ UNCHANGED <<sent, out, writing, got, wpc, job, life, pending, control, disconnected>>
        /\ inbound' = [inbound EXCEPT ![c] = Tail(@)] /\ inbound[c] # <<>>
        /\ queue' = Append(queue, s) /\ Len(sent) \in Nat
    BY HoldersType DEF ReadQuery, TakeLine, output
  <1>2. /\ inbound[c] \in Seq(Serials) /\ inbound \in [Conns -> Seq(Serials)]
        /\ queue \in Seq(Serials)
    BY DEF Typed, TypeOK
  <1>3. /\ s \in 1 .. Len(sent) /\ s \in Serials /\ s \in ToSet(inbound[c]) /\ sent[s].conn = c
        /\ inbound'[c] = Tail(inbound[c]) /\ ToSet(inbound'[c]) \subseteq ToSet(inbound[c])
        /\ \A d \in Conns : d # c => inbound'[d] = inbound[d]
    BY <1>1, <1>2, LineFacts
  <1>4. ToSet(queue') = ToSet(queue) \cup {s} /\ Accepted' = Accepted \cup {s}
    <2>1. ToSet(queue') = ToSet(queue) \cup {s}
      BY <1>1, <1>2, <1>3, AppendSet
    <2> QED
      BY <1>1, <2>1 DEF Accepted, Running
  <1>5. ASSUME NEW d \in Conns, d # c PROVE ConnLegal(d)'
    BY <1>1, <1>3, <1>4, <1>5, ConnKept DEF RespInv, ConnOf
  <1>6. ConnLegal(c)'
    <2> SUFFICES ASSUME c \notin disconnected PROVE FlightLegal(c)' /\ Turns(c)'
      BY <1>1 DEF ConnLegal
    <2>1. FlightLegal(c) /\ Turns(c)
      BY DEF RespInv, ConnLegal
    <2>2. /\ FlightLegal(c)'
          /\ \A r, n : r \in 1 .. Len(sent) /\ sent[r].conn = c /\ Open(c, r, n) => Open(c, r, n)'
      BY <1>1, <2>1, FlightKept DEF RespInv
    <2>3. \A r \in ToSet(inbound[c]) : Open(c, r, 0)'
      BY <2>1, <2>2 DEF Turns, Typed, SerialsSent
    <2>4. \A r \in ToSet(queue') : sent[r].conn = c => Open(c, r, 0)'
      BY <1>3, <1>4, <2>1, <2>2, <2>3, HoldersType DEF Turns
    <2>5. ReplyOpen(c)'
      BY <1>1, <1>3, <2>1, <2>2 DEF Turns, ReplyOpen, Asked
    <2>6. ASSUME NEW w \in Workers, wpc[w] # "recv", ConnOf(w) = c, life[w] # Terminal
          PROVE  Open(c, job[w], life[w].next_seq)'
      <3>1. \A r, n : r = job[w] /\ n = life[w].next_seq => Open(c, r, n)'
        BY <2>1, <2>2, <2>6, HoldersType DEF Turns, ConnOf
      <3> QED
        BY <1>1, <3>1
    <2> QED
      BY <1>1, <1>3, <2>2, <2>3, <2>4, <2>5, <2>6 DEF Turns, ConnOf
  <1>7. WorkersKnow' /\ GotLegal'
    BY <1>1, GotKept DEF RespInv, WorkersKnow
  <1> QED
    BY <1>5, <1>6, <1>7 DEF RespInv

\* The reader adds its reply to the output.
LEMMA ReplySent ==
    ASSUME Typed, Typed', RegistryInv, RespInv, HolderInv, NEW c \in Conns, ControlSent(c)
    PROVE  RespInv'
  <1> DEFINE f == control[c]
  <1>1. /\ UNCHANGED <<sent, inbound, writing, got, queue, wpc, job, life, pending>>
        /\ out' = [out EXCEPT ![c] = Append(@, control[c])]
        /\ control' = [control EXCEPT ![c] = NoFrame]
        /\ disconnected \subseteq disconnected' /\ Accepted' = Accepted /\ Len(sent) \in Nat
    BY HoldersType
       DEF ControlSent, Enqueue, Reply, Disconnect, client, pool, Accepted, Running
  <1>2. /\ out'[c] = Append(out[c], f) /\ f \in Frames
        /\ control'[c].req = 0
        /\ \A d \in Conns : d # c => out'[d] = out[d] /\ control'[d] = control[d]
    BY <1>1 DEF Typed, TypeOK, NoFrame, Frame
  <1>3. ASSUME NEW d \in Conns, d # c PROVE ConnLegal(d)'
    BY <1>1, <1>2, <1>3, ConnKept DEF RespInv, ConnOf
  <1>4. ConnLegal(c)'
    <2> SUFFICES ASSUME c \notin disconnected PROVE FlightLegal(c)' /\ Turns(c)'
      BY <1>1 DEF ConnLegal
    <2>1. FlightLegal(c) /\ Turns(c)
      BY DEF RespInv, ConnLegal
    <2>2. ReplyOpen(c)'
      BY <1>2 DEF ReplyOpen
    <2>3. CASE f.req = 0
      <3>1. FlightLegal(c)' /\ \A r \in Serials, k \in Nat : Open(c, r, k) => Open(c, r, k)'
        BY <1>1, <1>2, <2>1, <2>3, EmitOther
      <3> QED
        <4>1. PICK E : E = {}
          OBVIOUS
        <4>2. \A r \in Serials, k \in Nat : r \notin E /\ Open(c, r, k) => Open(c, r, k)'
          BY <3>1
        <4>3. ToSet(inbound[c]) \cap E = {} /\ ToSet(queue) \cap E = {}
          BY <4>1
        <4>4. \A w \in Workers :
                 wpc'[w] # "recv" /\ ConnOf(w) = c /\ life'[w] # Terminal =>
                    wpc[w] # "recv" /\ life'[w] = life[w] /\ job[w] \notin E
          BY <1>1, <4>1
        <4>5. UNCHANGED <<sent, inbound, queue, job>>
          BY <1>1
        <4> QED
          BY <2>1, <2>2, <3>1, <4>2, <4>3, <4>4, <4>5, TurnsAfterFrame
    <2>4. CASE f.req # 0
      <3>1. /\ Asked(c, f.req)
            /\ f.req \notin Accepted /\ f.req \notin ToSet(inbound[c])
            /\ f.seq = 0 /\ Shape(f) /\ Open(c, f.req, f.seq)
        BY <2>1, <2>4 DEF Turns, ReplyOpen, Shape, HolderInv
      <3>2. /\ FlightLegal(c)'
            /\ \A r \in Serials, k \in Nat : r # f.req /\ Open(c, r, k) => Open(c, r, k)'
        BY <1>1, <1>2, <2>1, <3>1, Emit
      <3>3. \A r \in ToSet(queue) : r # f.req
        BY <3>1 DEF Accepted
      <3>4. \A w \in Workers : wpc[w] # "recv" => job[w] # f.req
        BY <3>1 DEF Accepted, Running
      <3>5. PICK E : E = {f.req}
        OBVIOUS
      <3>6. \A r \in Serials, k \in Nat : r \notin E /\ Open(c, r, k) => Open(c, r, k)'
        BY <3>2, <3>5
      <3>7. ToSet(inbound[c]) \cap E = {} /\ ToSet(queue) \cap E = {}
        BY <3>1, <3>3, <3>5
      <3>8. \A w \in Workers :
               wpc'[w] # "recv" /\ ConnOf(w) = c /\ life'[w] # Terminal =>
                  wpc[w] # "recv" /\ life'[w] = life[w] /\ job[w] \notin E
        BY <1>1, <3>4, <3>5
      <3>9. UNCHANGED <<sent, inbound, queue, job>>
        BY <1>1
      <3> QED
        BY <2>1, <2>2, <3>2, <3>6, <3>7, <3>8, <3>9, TurnsAfterFrame
    <2> QED
      BY <2>3, <2>4
  <1>5. WorkersKnow' /\ GotLegal'
    BY <1>1, GotKept DEF RespInv, WorkersKnow
  <1> QED
    BY <1>3, <1>4, <1>5 DEF RespInv

LEMMA ReaderResp ==
    ASSUME Typed, Typed', RegistryInv, RespInv, HolderInv, NEW c \in Conns, Reader(c)
    PROVE  RespInv'
  <1>1. NoFrame.req = 0 /\ Frame(0, "transport", 0).req = 0
    BY DEF NoFrame, Frame
  <1>2. /\ control \in [Conns -> Frames] /\ inbound \in [Conns -> Seq(Serials)]
        /\ TakeLine(c) => \A d \in Conns : ToSet(inbound'[d]) \subseteq ToSet(inbound[d])
    BY TakeLineType DEF Typed, TypeOK
  <1>3. CASE ReadRefused(c)
    BY <1>1, <1>2, <1>3, QuietStep DEF ReadRefused, TakeLine, Reply, output, pool
  <1>4. CASE ReadCancel(c)
    BY <1>4, Replied DEF ReadCancel, Reply
  <1>5. CASE ReadLate(c)
    BY <1>5, Replied DEF ReadLate, Reply
  <1>6. CASE ReadQueueFull(c)
    BY <1>6, Replied DEF ReadQueueFull, Reply
  <1>7. CASE ReadQuery(c)
    BY <1>7, Queued
  <1>8. CASE ControlSent(c)
    BY <1>8, ReplySent
  <1>9. CASE ControlGivesUp(c) \/ ReaderCloses(c)
    BY <1>1, <1>2, <1>9, QuietStep
       DEF ControlGivesUp, ReaderCloses, Reply, Disconnect, client, output, pool
  <1>10. CASE ReadEnds(c) \/ ReadTimesOut(c) \/ ReaderJoins(c)
    BY <1>1, <1>2, <1>10, QuietStep
       DEF ReadEnds, ReadTimesOut, ReaderJoins, Reply, client, output, pool
  <1> QED
    BY <1>3, <1>4, <1>5, <1>6, <1>7, <1>8, <1>9, <1>10 DEF Reader

LEMMA WriterResp ==
    ASSUME Typed, Typed', RespInv, NEW c \in Conns, Writer(c)
    PROVE  RespInv'
  <1>1. /\ UNCHANGED <<sent, inbound, control, queue, wpc, job, life, pending>>
        /\ disconnected \subseteq disconnected' /\ Accepted' = Accepted
        /\ \A d \in Conns : d # c => out'[d] = out[d] /\ writing'[d] = writing[d]
        /\ Len(sent) \in Nat
    BY HoldersType
       DEF Writer, WriterTakes, WriterWrites, WriterDiscards, WriterFails, WriterEnds, Disconnect,
           client, conn, pool, Accepted, Running, Typed, TypeOK
  <1>2. ASSUME \A r \in Serials : r > Len(sent) \/ sent[r].conn # c => got'[r] = got[r],
               NEW d \in Conns, d # c
        PROVE  ConnLegal(d)'
    BY <1>1, <1>2, ConnKept DEF RespInv, ConnOf
  <1>3. WorkersKnow'
    BY <1>1 DEF RespInv, WorkersKnow
  <1>4. ASSUME Turns(c), \A r \in Serials, k \in Nat : Open(c, r, k) => Open(c, r, k)'
        PROVE  Turns(c)'
    <2>1. PICK E : E = {}
      OBVIOUS
    <2>2. \A r \in Serials, k \in Nat : r \notin E /\ Open(c, r, k) => Open(c, r, k)'
      BY <1>4
    <2>3. /\ ToSet(inbound[c]) \cap E = {} /\ ToSet(queue) \cap E = {}
          /\ control'[c] = control[c] /\ control[c].req \notin E
      BY <1>1, <2>1
    <2>4. \A w \in Workers :
             wpc'[w] # "recv" /\ ConnOf(w) = c /\ life'[w] # Terminal =>
                wpc[w] # "recv" /\ life'[w] = life[w] /\ job[w] \notin E
      BY <1>1, <2>1
    <2> QED
      BY <1>1, <1>4, <2>2, <2>3, <2>4, TurnsAfterFrame
  <1>5. CASE WriterTakes(c)
    <2>1. got' = got /\ disconnected' = disconnected
      BY <1>5 DEF WriterTakes, conn
    <2>2. ASSUME FlightLegal(c), Turns(c) PROVE FlightLegal(c)' /\ Turns(c)'
      BY <1>4, <1>5, <2>2, Taken
    <2>3. ConnLegal(c)'
      BY <2>1, <2>2 DEF RespInv, ConnLegal
    <2> QED
      BY <1>1, <1>2, <1>3, <2>1, <2>3, GotKept DEF RespInv
  <1>6. CASE WriterWrites(c)
    <2>1. FlightLegal(c) /\ Turns(c)
      BY <1>6 DEF WriterWrites, RespInv, ConnLegal
    <2>2. /\ FlightLegal(c)' /\ GotLegal'
          /\ \A r \in Serials, k \in Nat : Open(c, r, k) => Open(c, r, k)'
          /\ \A r \in Serials : r > Len(sent) \/ sent[r].conn # c => got'[r] = got[r]
      BY <1>6, <2>1, Written DEF RespInv
    <2>3. ConnLegal(c)'
      BY <1>4, <2>1, <2>2 DEF ConnLegal
    <2> QED
      BY <1>2, <1>3, <2>2, <2>3 DEF RespInv
  <1>7. CASE WriterDiscards(c) \/ WriterFails(c)
    <2>1. got' = got /\ c \in disconnected'
      BY <1>7 DEF WriterDiscards, WriterFails, Disconnect, conn
    <2>2. ConnLegal(c)'
      BY <2>1 DEF ConnLegal
    <2> QED
      BY <1>1, <1>2, <1>3, <2>1, <2>2, GotKept DEF RespInv
  <1>8. CASE WriterEnds(c)
    BY <1>1, <1>8, QuietStep DEF WriterEnds, conn
  <1> QED
    BY <1>5, <1>6, <1>7, <1>8 DEF Writer

\* A worker goes on, or releases its job, without a frame.
LEMMA WorkerQuiet ==
    ASSUME Typed, RespInv, NEW w \in Workers,
           UNCHANGED <<sent, inbound, control, out, writing, got, queue>>,
           disconnected \subseteq disconnected', WorkersKnow',
           \A v \in Workers : v # w => UNCHANGED <<wpc[v], job[v], life[v]>>,
           wpc'[w] = "recv" \/ (wpc[w] # "recv" /\ UNCHANGED <<job[w], life[w]>>)
    PROVE  RespInv'
  <1>1. \A v \in Workers :
           wpc'[v] # "recv" => wpc[v] # "recv" /\ UNCHANGED <<job[v], life[v]>>
    OBVIOUS
  <1>3. Len(sent) \in Nat
    BY HoldersType
  <1>4. ASSUME NEW c \in Conns PROVE ConnLegal(c)'
    BY <1>1, <1>3, ConnKept DEF RespInv
  <1> QED
    BY <1>3, <1>4, GotKept DEF RespInv

\* A worker adds the frame that comes next in its response.
LEMMA WorkerEmits ==
    ASSUME Typed, Typed', RegistryInv, RespInv, HolderInv,
           NEW w \in Workers, NEW c \in Conns, NEW f \in Frames,
           wpc[w] # "recv", wpc'[w] # "recv", c = ConnOf(w),
           f.req = job[w], f.seq = life[w].next_seq, Shape(f), life[w] # Terminal,
           out' = [out EXCEPT ![c] = Append(@, f)],
           UNCHANGED <<sent, inbound, control, disconnected, writing, got, queue, job>>,
           \A v \in Workers : v # w => UNCHANGED <<wpc[v], life[v]>>,
           life'[w] = Terminal \/ (~Final(f) /\ life'[w].next_seq = f.seq + 1),
           WorkersKnow'
    PROVE  RespInv'
  <1>1. /\ out'[c] = Append(out[c], f) /\ \A d \in Conns : d # c => out'[d] = out[d]
    BY DEF Typed, TypeOK
  <1>2. Len(sent) \in Nat /\ job[w] \in 1 .. Len(sent) /\ sent[job[w]].conn = c
    BY HoldersType DEF ConnOf
  <1>3. \A v \in Workers : wpc'[v] # "recv" <=> wpc[v] # "recv"
    OBVIOUS
  <1>5. ASSUME NEW d \in Conns, d # c PROVE ConnLegal(d)'
    <2>1. \A v \in Workers :
             wpc'[v] # "recv" /\ ConnOf(v)' = d /\ life'[v] # Terminal =>
                wpc[v] # "recv" /\ UNCHANGED <<job[v], life[v]>>
      BY <1>3, <1>5 DEF ConnOf
    <2> QED
      BY <1>1, <1>2, <1>5, <2>1, ConnKept DEF RespInv
  <1>6. ASSUME c \notin disconnected PROVE ConnLegal(c)'
    <2>6. FlightLegal(c) /\ Turns(c)
      BY <1>6 DEF RespInv, ConnLegal
    <2>7. Open(c, f.req, f.seq)
      BY <2>6 DEF Turns
    <2>8. /\ FlightLegal(c)'
          /\ ~Final(f) => Open(c, f.req, f.seq + 1)'
          /\ \A r \in Serials, k \in Nat : r # f.req /\ Open(c, r, k) => Open(c, r, k)'
      BY <1>1, <1>2, <2>6, <2>7, Emit DEF Asked
    <2>9. PICK E : E = {f.req}
      OBVIOUS
    <2>10. \A r \in Serials, k \in Nat : r \notin E /\ Open(c, r, k) => Open(c, r, k)'
      BY <2>8, <2>9
    <2>11. job[w] \in Running /\ job[w] \in Accepted /\ job[w] # 0
      BY <1>2 DEF Running, Accepted
    <2>12. ToSet(inbound[c]) \cap E = {} /\ ToSet(queue) \cap E = {}
      BY <2>9, <2>11 DEF RegistryInv, Unread, HeldOnce
    <2>13. control'[c] = control[c] /\ control[c].req \notin E
      BY <2>9, <2>11 DEF HolderInv
    <2>14. ASSUME NEW v \in Workers, wpc'[v] # "recv", life'[v] # Terminal
           PROVE  \/ Open(c, job[v], life[v].next_seq)'
                  \/ wpc[v] # "recv" /\ life'[v] = life[v] /\ job[v] \notin E
      <3>1. CASE v = w
        <4>1. Open(c, f.req, f.seq + 1)'
          BY <2>8, <2>14, <3>1
        <4>2. \A r, k : r = f.req /\ k = f.seq + 1 => Open(c, r, k)'
          BY <4>1
        <4> QED
          BY <2>14, <3>1, <4>2
      <3>2. CASE v # w
        BY <1>3, <2>9, <2>11, <2>14, <3>2 DEF RegistryInv, HeldOnce
      <3> QED
        BY <3>1, <3>2
    <2>15. Turns(c)'
      BY <2>6, <2>10, <2>12, <2>13, <2>14, TurnsAfterFrame
    <2> QED
      BY <2>8, <2>15 DEF ConnLegal
  <1>7. ConnLegal(c)'
    BY <1>6 DEF ConnLegal
  <1> QED
    BY <1>2, <1>5, <1>7, GotKept DEF RespInv

\* A frame that validate_frame accepts is the next one of its response.
LEMMA ValidateNext ==
    ASSUME NEW f, NEW l \in {Terminal, NotStarted} \cup {Streaming(n) : n \in 1 .. load.seq},
           Validate(l, f.kind, f.seq) # Rejected
    PROVE  /\ l # Terminal /\ f.seq = l.next_seq /\ Shape(f)
           /\ \/ Validate(l, f.kind, f.seq) = Terminal
              \/ ~Final(f) /\ Validate(l, f.kind, f.seq).next_seq = f.seq + 1
  <1>1. CASE l = Terminal
    BY <1>1 DEF Validate, Terminal, Lifecycle
  <1>2. CASE l = NotStarted
    BY <1>2 DEF Validate, Shape, Final, NotStarted, Terminal, Streaming, Lifecycle
  <1>3. ASSUME NEW n \in 1 .. load.seq, l = Streaming(n)
        PROVE  /\ l # Terminal /\ f.seq = l.next_seq /\ Shape(f)
               /\ \/ Validate(l, f.kind, f.seq) = Terminal
                  \/ ~Final(f) /\ Validate(l, f.kind, f.seq).next_seq = f.seq + 1
    BY <1>3 DEF Validate, Shape, Final, Terminal, Streaming, Lifecycle
  <1> QED
    BY <1>1, <1>2, <1>3

\* So is the frame of required_terminal.
LEMMA ErrorFrameNext ==
    ASSUME Typed, NEW w \in Workers, life[w] # Terminal
    PROVE  /\ ErrorFrame(w) \in Frames /\ ErrorFrame(w).req = job[w]
           /\ ErrorFrame(w).seq = life[w].next_seq /\ Shape(ErrorFrame(w))
           /\ ErrorFrame(w).kind \in {"error", "end_error"}
  <1>1. /\ job[w] \in 0 .. MaxRequests /\ load.seq \in Nat
        /\ life[w] \in {Terminal, NotStarted} \cup {Streaming(n) : n \in 1 .. load.seq}
    BY LoadFacts DEF Typed, TypeOK
  <1>2. CASE life[w] = NotStarted
    <2>1. ErrorFrame(w) = Frame(job[w], "error", 0) /\ life[w].next_seq = 0
      BY <1>2 DEF ErrorFrame, NotStarted, Lifecycle
    <2> QED
      BY <1>1, <2>1 DEF Frame, Frames, Shape
  <1>3. ASSUME NEW n \in 1 .. load.seq, life[w] = Streaming(n)
        PROVE  /\ ErrorFrame(w) \in Frames /\ ErrorFrame(w).req = job[w]
               /\ ErrorFrame(w).seq = life[w].next_seq /\ Shape(ErrorFrame(w))
               /\ ErrorFrame(w).kind \in {"error", "end_error"}
    <2>1. ErrorFrame(w) = Frame(job[w], "end_error", n) /\ life[w].next_seq = n
      BY <1>3 DEF ErrorFrame, Streaming, Lifecycle
    <2> QED
      BY <1>1, <2>1 DEF Frame, Frames, Shape
  <1> QED
    BY <1>1, <1>2, <1>3

LEMMA WorkerResp ==
    ASSUME Typed, Typed', RegistryInv, RespInv, HolderInv,
           NEW w \in Workers, WorkerStep(w) \/ Dispatch(w)
    PROVE  RespInv'
  <1> USE DEF WorkerAt
  <1>1. /\ wpc \in [Workers -> {"recv", "release"} \cup Sending]
        /\ job \in [Workers -> 0 .. MaxRequests] /\ pending \in [Workers -> Frames]
        /\ life \in [Workers -> {Terminal, NotStarted} \cup {Streaming(n) : n \in 1 .. load.seq}]
        /\ queue \in Seq(Serials) /\ Len(sent) \in Nat
    BY HoldersType DEF Typed, TypeOK
  <1>2. WorkersKnow
    BY DEF RespInv
  <1>3. NotStarted # Terminal /\ NotStarted.tag # "Terminal" /\ Terminal.tag = "Terminal"
    BY DEF NotStarted, Terminal, Lifecycle
  <1>4. CASE WorkerTakes(w)
    <2> DEFINE s == Head(queue)
    <2>1. /\ UNCHANGED <<sent, inbound, control, disconnected, out, writing, got, life, pending>>
          /\ queue # <<>> /\ queue' = Tail(queue) /\ wpc[w] = "recv"
          /\ wpc' = [wpc EXCEPT ![w] = "start"] /\ job' = [job EXCEPT ![w] = s]
      BY <1>4 DEF WorkerTakes, client, conn, output
    <2>2. /\ s \in ToSet(queue) /\ ToSet(queue') \subseteq ToSet(queue)
          /\ s \in 1 .. Len(sent)
      BY <1>1, <2>1, TailSet, HoldersType
    <2>4. WorkersKnow'
      BY <1>1, <1>2, <2>1 DEF WorkersKnow, Enqueuing
    <2>5. ASSUME NEW c \in Conns PROVE ConnLegal(c)'
      <3> SUFFICES ASSUME c \notin disconnected PROVE FlightLegal(c)' /\ Turns(c)'
        BY <2>1 DEF ConnLegal
      <3>1. FlightLegal(c) /\ Turns(c)
        BY DEF RespInv, ConnLegal
      <3>2. /\ FlightLegal(c)'
            /\ \A r, k :
                  r \in 1 .. Len(sent) /\ sent[r].conn = c /\ Open(c, r, k) => Open(c, r, k)'
        BY <1>1, <2>1, <3>1, FlightKept DEF RespInv
      <3>3. \A r \in ToSet(inbound[c]) : Open(c, r, 0)'
        BY <3>1, <3>2 DEF Turns, Typed, SerialsSent
      <3>4. \A r \in ToSet(queue) : sent[r].conn = c => Open(c, r, 0)'
        BY <3>1, <3>2, HoldersType DEF Turns
      <3>5. ReplyOpen(c)'
        BY <2>1, <3>1, <3>2 DEF Turns, ReplyOpen, Asked
      <3>6. ASSUME NEW v \in Workers, wpc'[v] # "recv", sent[job'[v]].conn = c, life[v] # Terminal
            PROVE  Open(c, job[v], life[v].next_seq)'
        <4>1. CASE v = w
          <5>1. job'[v] = s /\ life'[v] = NotStarted
            BY <1>1, <1>2, <2>1, <4>1 DEF WorkersKnow
          <5>2. life'[v].next_seq = 0
            BY <5>1 DEF NotStarted, Lifecycle
          <5>3. \A r, k : r = s /\ k = 0 => Open(c, r, k)'
            BY <2>2, <3>4, <3>6, <5>1
          <5> QED
            BY <5>1, <5>2, <5>3
        <4>2. CASE v # w
          <5>1. wpc[v] # "recv" /\ job'[v] = job[v] /\ life'[v] = life[v]
            BY <1>1, <2>1, <3>6, <4>2
          <5>2. \A r, k : r = job[v] /\ k = life[v].next_seq => Open(c, r, k)'
            BY <3>1, <3>2, <3>6, <5>1, HoldersType DEF Turns, ConnOf
          <5> QED
            BY <5>1, <5>2
        <4> QED
          BY <4>1, <4>2
      <3> QED
        BY <2>1, <2>2, <3>2, <3>3, <3>4, <3>5, <3>6 DEF Turns, ConnOf
    <2> QED
      BY <1>1, <2>1, <2>4, <2>5, GotKept DEF RespInv
  <1>5. CASE WorkerStarts(w)
    <2>1. WorkersKnow'
      BY <1>1, <1>2, <1>3, <1>5 DEF WorkerStarts, WorkersKnow, Enqueuing
    <2> QED
      BY <1>1, <1>5, <2>1, WorkerQuiet DEF WorkerStarts, client, conn, output
  <1>6. CASE FrameRefused(w)
    <2>1. WorkersKnow'
      BY <1>1, <1>2, <1>3, <1>6 DEF FrameRefused, Finishing, WorkersKnow, Enqueuing
    <2> QED
      BY <1>1, <1>6, <2>1, WorkerQuiet DEF FrameRefused, client, conn, output
  <1>7. CASE DispatchEnds(w)
    <2>1. WorkersKnow'
      BY <1>1, <1>2, <1>3, <1>7 DEF DispatchEnds, Finishing, WorkersKnow, Enqueuing
    <2> QED
      BY <1>1, <1>7, <2>1, WorkerQuiet DEF DispatchEnds, client, conn, output
  <1>8. CASE Looks(w)
    <2>1. WorkersKnow'
      BY <1>1, <1>2, <1>8, LooksMove DEF WorkersKnow, Enqueuing
    <2>2. wpc[w] # "recv"
      BY <1>8, LooksMove DEF Enqueuing
    <2> QED
      BY <1>1, <1>8, <2>1, <2>2, LooksMove, WorkerQuiet DEF client, conn, output
  <1>9. CASE TerminalGivesUp(w)
    <2>1. WorkersKnow'
      BY <1>1, <1>2, <1>9 DEF TerminalGivesUp, WorkersKnow, Enqueuing
    <2> QED
      BY <1>1, <1>9, <2>1, WorkerQuiet DEF TerminalGivesUp, Disconnect, client, output
  <1>10. CASE WorkerReleases(w)
    <2>1. WorkersKnow'
      BY <1>1, <1>2, <1>10 DEF WorkerReleases, WorkersKnow, Enqueuing
    <2> QED
      BY <1>1, <1>10, <2>1, WorkerQuiet DEF WorkerReleases, client, output
  <1>11. ASSUME NEW k \in {"result", "error", "begin", "chunk", "end"}, NEW n \in 0 .. load.seq,
                DispatchSends(w, k, n)
         PROVE  RespInv'
    <2>1. WorkersKnow'
      BY <1>1, <1>2, <1>11 DEF DispatchSends, WorkersKnow, Enqueuing, Frame
    <2> QED
      BY <1>1, <1>11, <2>1, WorkerQuiet DEF DispatchSends, client, conn, output
  <1>12. CASE FrameSent(w)
    <2>1. /\ wpc[w] = "push" /\ pending[w].req = job[w] /\ pending[w] \in Frames
          /\ Validate(life[w], pending[w].kind, pending[w].seq) # Rejected
          /\ ConnOf(w) \in Conns
      BY <1>1, <1>2, <1>12, JobFacts DEF FrameSent, WorkersKnow, Enqueuing, Typed, PendingLegal
    <2>2. WorkersKnow'
      BY <1>1, <1>2, <1>12 DEF FrameSent, WorkersKnow, Enqueuing
    <2>3. /\ life[w] # Terminal /\ pending[w].seq = life[w].next_seq /\ Shape(pending[w])
          /\ life'[w] = Terminal \/ (~Final(pending[w]) /\ life'[w].next_seq = pending[w].seq + 1)
      BY <1>1, <1>12, <2>1, ValidateNext DEF FrameSent
    <2>4. PICK f, c : f = pending[w] /\ c = ConnOf(w)
      OBVIOUS
    <2>5. /\ out' = [out EXCEPT ![c] = Append(@, f)]
          /\ UNCHANGED <<sent, inbound, control, disconnected, writing, got, queue, job>>
          /\ wpc'[w] # "recv" /\ \A v \in Workers : v # w => UNCHANGED <<wpc[v], life[v]>>
      BY <1>1, <1>12, <2>4 DEF FrameSent, Enqueue, client, conn
    <2> QED
      BY <2>1, <2>2, <2>3, <2>4, <2>5, WorkerEmits
  <1>13. CASE TerminalSent(w)
    <2>1. wpc[w] = "last" /\ life[w] # Terminal /\ ConnOf(w) \in Conns
      BY <1>2, <1>13, JobFacts DEF TerminalSent, WorkersKnow
    <2>2. WorkersKnow'
      BY <1>1, <1>2, <1>13 DEF TerminalSent, WorkersKnow, Enqueuing
    <2>3. PICK f, c : f = ErrorFrame(w) /\ c = ConnOf(w)
      OBVIOUS
    <2>4. /\ f \in Frames /\ f.req = job[w] /\ f.seq = life[w].next_seq /\ Shape(f)
      BY <2>1, <2>3, ErrorFrameNext
    <2>5. /\ out' = [out EXCEPT ![c] = Append(@, f)]
          /\ UNCHANGED <<sent, inbound, control, disconnected, writing, got, queue, job>>
          /\ wpc'[w] # "recv" /\ \A v \in Workers : v # w => UNCHANGED <<wpc[v], life[v]>>
          /\ life'[w] = Terminal
      BY <1>1, <1>13, <2>3 DEF TerminalSent, Enqueue, client, conn
    <2> QED
      BY <2>1, <2>2, <2>3, <2>4, <2>5, WorkerEmits
  <1> QED
    BY <1>4, <1>5, <1>6, <1>7, <1>8, <1>9, <1>10, <1>11, <1>12, <1>13
       DEF WorkerStep, Looks, Dispatch

---------------------------------------------------------------------------
(* The theorem                                                             *)

LEMMA InitResp == Init => RespInv
  <1> SUFFICES ASSUME Init PROVE RespInv
    OBVIOUS
  <1>1. ToSet(queue) = {} /\ \A c \in Conns : ToSet(inbound[c]) = {} /\ control[c].req = 0
    BY DEF Init, ToSet, NoFrame, Frame
  <1>2. ASSUME NEW c \in Conns, NEW r PROVE FramesOf(r, InFlight(c)) = <<>>
    <2>1. <<>> \o <<>> = <<>> /\ <<>> \in Seq(AnyFrame)
      OBVIOUS
    <2>2. InFlight(c) = <<>>
      BY <2>1 DEF Init, InFlight
    <2>3. \E f : f \in AnyFrame
      BY FramesAny, NoFrameType DEF Init
    <2> HIDE DEF AnyFrame
    <2> QED
      BY <2>1, <2>2, <2>3, FramesFacts
  <1>3. ASSUME NEW c \in Conns PROVE FlightLegal(c) /\ Turns(c)
    BY <1>1, <1>2 DEF Init, FlightLegal, Turns, ReplyOpen, Asked
  <1>4. WorkersKnow
    BY DEF Init, WorkersKnow, Enqueuing
  <1>5. GotLegal
    BY DEF Init, GotLegal, Proper
  <1> QED
    BY <1>3, <1>4, <1>5 DEF RespInv, ConnLegal

LEMMA NextResp == RInv /\ RespInv /\ HolderInv /\ [Next]_vars => RespInv'
  <1> SUFFICES ASSUME RInv, RespInv, HolderInv, [Next]_vars PROVE RespInv'
    OBVIOUS
  <1>1. Typed /\ Typed' /\ RegistryInv
    BY NextTyped DEF RInv
  <1>2. CASE UNCHANGED vars
    BY <1>1, <1>2, QuietStep DEF vars
  <1>3. CASE Environment
    BY <1>1, <1>3, EnvironmentResp
  <1>4. ASSUME NEW c \in Conns, Reader(c) \/ Writer(c) PROVE RespInv'
    BY <1>1, <1>4, ReaderResp, WriterResp
  <1>5. ASSUME NEW w \in Workers, WorkerStep(w) \/ Dispatch(w) PROVE RespInv'
    BY <1>1, <1>5, WorkerResp
  <1> QED
    BY <1>2, <1>3, <1>4, <1>5 DEF Next

\* A sequence whose frames are numbered and shaped like this is a response.
LEMMA ProperIsLegal ==
    ASSUME NEW s \in Seq(AnyFrame), Proper(s)
    PROVE  LegalResponse(s)
  <1>1. DOMAIN s = 1 .. Len(s) /\ Len(s) \in Nat
    OBVIOUS
  <1>2. CASE s = <<>>
    BY <1>2 DEF LegalResponse
  <1>3. CASE s # <<>>
    <2>1. Len(s) > 0 /\ 1 \in DOMAIN s
      BY <1>1, <1>3
    <2>2. s[1].seq = 0 /\ s[1].kind \in {"result", "error", "begin"}
      BY <2>1 DEF Proper, Shape
    <2>3. CASE s[1].kind \in {"result", "error"}
      <3>1. Len(s) = 1
        BY <2>1, <2>3 DEF Proper, Final
      <3> QED
        BY <2>2, <2>3, <3>1 DEF LegalResponse
    <2>4. CASE s[1].kind = "begin"
      <3>1. \A i \in 1 .. Len(s) : s[i].seq = i - 1
        BY <1>1 DEF Proper
      <3>2. ASSUME NEW i \in 2 .. Len(s)
            PROVE  s[i].kind = "chunk" \/ (i = Len(s) /\ s[i].kind \in {"end", "end_error"})
        <4>1. i \in DOMAIN s /\ s[i].seq # 0
          BY <1>1, <3>1
        <4> QED
          BY <4>1 DEF Proper, Shape, Final
      <3> QED
        BY <2>4, <3>1, <3>2 DEF LegalResponse
    <2> QED
      BY <2>2, <2>3, <2>4
  <1> QED
    BY <1>2, <1>3

---------------------------------------------------------------------------
(* Who holds a request                                                     *)

LEMMA RegisteredAccepted ==
    ASSUME Typed, Entered, NEW c \in Conns
    PROVE  /\ ActiveSerials(c) \subseteq Accepted
           /\ \A i \in Ids : active[c][i] = 0 \/ active[c][i] \in Accepted
  BY DEF Entered, ActiveSerials, ActiveIds

\* The reader's reply answers nobody, or the same request as before, which no

\* step accepted or put on the socket, or a line that was just read.
LEMMA HolderFrom ==
    ASSUME Typed, HolderInv,
           Len(sent) <= Len(sent'), Len(sent') \in Nat,
           \A r \in 1 .. Len(sent) : sent'[r] = sent[r],
           stopped' \subseteq Accepted',
           \A c \in Conns :
              \/ control'[c].req = 0
              \/ /\ control'[c] = control[c]
                 /\ control[c].req # 0 =>
                       /\ control[c].req \notin Accepted' \ Accepted
                       /\ control[c].req \notin ToSet(inbound'[c]) \ ToSet(inbound[c])
              \/ control'[c].req \in ToSet(inbound[c]) \ (Accepted' \cup ToSet(inbound'[c]))
    PROVE  HolderInv'
  <1> SUFFICES ASSUME NEW c \in Conns, control'[c].req # 0
               PROVE  /\ Asked(c, control[c].req)' /\ control'[c].req \notin Accepted'
                      /\ control'[c].req \notin ToSet(inbound'[c])
    BY DEF HolderInv
  <1>1. CASE /\ control'[c] = control[c]
             /\ control[c].req \notin Accepted' \ Accepted
             /\ control[c].req \notin ToSet(inbound'[c]) \ ToSet(inbound[c])
    <2>1. /\ Asked(c, control[c].req) /\ control[c].req \notin Accepted
          /\ control[c].req \notin ToSet(inbound[c])
      BY <1>1 DEF HolderInv
    <2> QED
      BY <1>1, <2>1, HoldersType DEF Asked
  <1>2. CASE control'[c].req \in ToSet(inbound[c]) \ (Accepted' \cup ToSet(inbound'[c]))
    <2>1. control'[c].req \in 1 .. Len(sent) /\ sent[control'[c].req].conn = c
      BY <1>2 DEF Typed, SerialsSent
    <2> QED
      BY <1>2, <2>1, HoldersType DEF Asked
  <1> QED
    BY <1>1, <1>2

\* A step that accepts nothing and puts nothing on a socket.
LEMMA HolderQuiet ==
    ASSUME Typed, HolderInv, sent' = sent, Accepted' = Accepted, stopped' \subseteq Accepted,
           \A c \in Conns : control'[c] = control[c] \/ control'[c].req = 0,
           \A c \in Conns : ToSet(inbound'[c]) \subseteq ToSet(inbound[c])
    PROVE  HolderInv'
  <1>1. /\ Len(sent) \in Nat /\ Len(sent') \in Nat /\ Len(sent) <= Len(sent')
        /\ \A r \in 1 .. Len(sent) : sent'[r] = sent[r]
    BY HoldersType
  <1>2. \A c \in Conns :
           \/ control'[c].req = 0
           \/ /\ control'[c] = control[c]
              /\ control[c].req # 0 =>
                    /\ control[c].req \notin Accepted' \ Accepted
                    /\ control[c].req \notin ToSet(inbound'[c]) \ ToSet(inbound[c])
    OBVIOUS
  <1> QED
    BY <1>1, <1>2, HolderFrom, Zenon

LEMMA EnvironmentHolder ==
    ASSUME Typed, Typed', Entered, HolderInv, Environment
    PROVE  HolderInv'
  <1>1. ASSUME NEW c \in load.conns, NEW q \in Requests, ClientSend(c, q) PROVE HolderInv'
    <2>1. /\ c \in Conns /\ Len(sent) \in Nat /\ inbound \in [Conns -> Seq(Serials)]
          /\ sent \in Seq(Requests) /\ Len(sent') <= MaxRequests
      BY LoadFacts DEF Typed, TypeOK
    <2>2. /\ sent' = Append(sent, q) /\ control' = control /\ stopped' = stopped
          /\ inbound' = [inbound EXCEPT ![c] = Append(@, Len(sent) + 1)]
          /\ Accepted' = Accepted
      BY <1>1 DEF ClientSend, conn, pool, Accepted, Running
    <2>3. /\ Len(sent') = Len(sent) + 1 /\ \A r \in 1 .. Len(sent) : sent'[r] = sent[r]
          /\ Len(sent) + 1 \in Serials
      BY <2>1, <2>2, SizesAssumption DEF Serials
    <2>4. ASSUME NEW d \in Conns
          PROVE  ToSet(inbound'[d]) \subseteq ToSet(inbound[d]) \cup {Len(sent) + 1}
      <3>1. CASE d = c
        <4>1. inbound'[d] = Append(inbound[d], Len(sent) + 1) /\ inbound[d] \in Seq(Serials)
          BY <2>1, <2>2, <3>1
        <4> QED
          BY <2>3, <4>1, AppendSet
      <3>2. CASE d # c
        BY <2>1, <2>2, <3>2
      <3> QED
        BY <3>1, <3>2
    <2>5. \A d \in Conns : control[d].req # 0 => control[d].req # Len(sent) + 1
      BY <2>1 DEF HolderInv, Asked
    <2>6. stopped' \subseteq Accepted'
      BY <2>2 DEF HolderInv
    <2> QED
      BY <2>1, <2>2, <2>3, <2>4, <2>5, <2>6, HolderFrom
  <1>2. ASSUME NEW c \in load.conns, NEW h \in {"half", "full"}, ClientClose(c, h)
        PROVE  HolderInv'
    BY <1>2, HolderQuiet DEF ClientClose, conn, pool, Accepted, Running, HolderInv
  <1>3. ASSUME NEW c \in load.conns, ClientStall(c) PROVE HolderInv'
    BY <1>3, HolderQuiet DEF ClientStall, conn, pool, Accepted, Running, HolderInv
  <1>4. CASE Shutdown
    BY <1>4, HolderQuiet DEF Shutdown, conn, pool, Accepted, Running, HolderInv
  <1>5. ASSUME NEW r \in Serials, DeadlinePasses(r) PROVE HolderInv'
    <2>1. r \in Accepted /\ stopped' = stopped \cup {r}
      BY <1>5, RegisteredAccepted DEF DeadlinePasses
    <2>2. UNCHANGED <<sent, control, inbound, queue, wpc, job>>
      BY <1>5 DEF DeadlinePasses, client, pool
    <2> QED
      BY <2>1, <2>2, HolderQuiet DEF Accepted, Running, HolderInv
  <1> QED
    BY <1>1, <1>2, <1>3, <1>4, <1>5 DEF Environment

LEMMA ReaderHolder ==
    ASSUME Typed, RegistryInv, HolderInv, NEW c \in Conns, Reader(c)
    PROVE  HolderInv'
  <1>1. /\ control \in [Conns -> Frames] /\ inbound \in [Conns -> Seq(Serials)]
        /\ stopped \subseteq Accepted /\ ActiveSerials(c) \subseteq Accepted
        /\ \A i \in Ids : active[c][i] = 0 \/ active[c][i] \in Accepted
        /\ \A d \in Conns : ToSet(inbound[d]) \cap Accepted = {} /\ IsInjective(inbound[d])
    BY RegisteredAccepted DEF Typed, TypeOK, HolderInv, RegistryInv, Unread
  <1>2. NoFrame.req = 0 /\ \A r, k : Frame(r, k, 0).req = r
    BY DEF NoFrame, Frame
  <1>3. ASSUME TakeLine(c)
        PROVE  /\ sent' = sent /\ Line(c) \in ToSet(inbound[c]) \ ToSet(inbound'[c])
               /\ Line(c) \notin Accepted /\ Line(c) \in 1 .. Len(sent) /\ sent[Line(c)].conn = c
               /\ sent[Line(c)].target \in Ids
               /\ \A d \in Conns : ToSet(inbound'[d]) \subseteq ToSet(inbound[d])
    <2>1. inbound[c] # <<>> /\ inbound'[c] = Tail(inbound[c]) /\ sent' = sent
      BY <1>1, <1>3 DEF TakeLine
    <2>2. \A d \in Conns : ToSet(inbound'[d]) \subseteq ToSet(inbound[d])
      BY <1>3, TakeLineType
    <2>3. /\ Line(c) \in ToSet(inbound[c]) /\ Line(c) \notin ToSet(inbound'[c])
      BY <1>1, <2>1, TailSet DEF Line
    <2>4. Line(c) \in 1 .. Len(sent) /\ sent[Line(c)].conn = c
      BY <2>3 DEF Typed, SerialsSent
    <2>5. sent[Line(c)].target \in Ids
      <3>1. sent[Line(c)] \in Requests
        BY <2>4 DEF Typed, TypeOK
      <3> QED
        BY <3>1 DEF Requests
    <2> QED
      BY <1>1, <2>1, <2>2, <2>3, <2>4, <2>5
  <1>4. ASSUME TakeLine(c), UNCHANGED pool, stopped' \subseteq Accepted,
               \E k \in {"result", "error"} : control' = [control EXCEPT ![c] = Frame(Line(c), k, 0)]
        PROVE  HolderInv'
    <2>1. Accepted' = Accepted /\ Len(sent) \in Nat
      BY <1>4, HoldersType DEF pool, Accepted, Running
    <2>2. control'[c].req = Line(c) /\ \A d \in Conns : d # c => control'[d] = control[d]
      BY <1>1, <1>2, <1>4
    <2>3. ASSUME NEW d \in Conns
          PROVE  \/ control'[d].req = 0
                 \/ /\ control'[d] = control[d]
                    /\ control[d].req # 0 =>
                          /\ control[d].req \notin Accepted' \ Accepted
                          /\ control[d].req \notin ToSet(inbound'[d]) \ ToSet(inbound[d])
                 \/ control'[d].req \in ToSet(inbound[d]) \ (Accepted' \cup ToSet(inbound'[d]))
      <3>1. CASE d = c
        BY <1>3, <1>4, <2>1, <2>2, <3>1
      <3>2. CASE d # c
        BY <1>3, <1>4, <2>1, <2>2, <3>2
      <3> QED
        BY <3>1, <3>2
    <2>4. Len(sent) <= Len(sent') /\ Len(sent') \in Nat /\ sent' = sent
      BY <1>3, <1>4, <2>1
    <2> QED
      BY <1>4, <2>1, <2>3, <2>4, HolderFrom
  <1>5. CASE ReadRefused(c)
    <2>1. /\ Accepted' = Accepted /\ stopped' = stopped /\ TakeLine(c)
          /\ control' = [control EXCEPT ![c] = Frame(0, "transport", 0)]
      BY <1>5 DEF ReadRefused, Reply, pool, Accepted, Running
    <2> QED
      BY <1>1, <1>2, <1>3, <2>1, HolderQuiet
  <1>6. CASE ReadCancel(c)
    <2>1. /\ TakeLine(c) /\ UNCHANGED pool
          /\ stopped' = stopped \cup ({active[c][sent[Line(c)].target]} \ {0})
          /\ control' = [control EXCEPT ![c] = Frame(Line(c), "result", 0)]
      BY <1>6 DEF ReadCancel, Reply
    <2> QED
      BY <1>1, <1>3, <1>4, <2>1
  <1>7. CASE ReadLate(c) \/ ReadQueueFull(c)
    <2>1. /\ TakeLine(c) /\ UNCHANGED pool /\ stopped' = stopped
          /\ control' = [control EXCEPT ![c] = Frame(Line(c), "error", 0)]
      BY <1>7 DEF ReadLate, ReadQueueFull, Reply
    <2> QED
      BY <1>1, <1>4, <2>1
  <1>8. CASE ReadQuery(c)
    <2>1. /\ TakeLine(c) /\ queue' = Append(queue, Line(c)) /\ UNCHANGED <<wpc, job, control, stopped>>
      BY <1>8 DEF ReadQuery
    <2>2. Accepted' = Accepted \cup {Line(c)}
      <3>1. queue \in Seq(Serials) /\ Line(c) \in Serials
        BY <1>3, <2>1, HoldersType DEF Typed, TypeOK
      <3>2. ToSet(queue') = ToSet(queue) \cup {Line(c)}
        BY <2>1, <3>1, AppendSet
      <3> QED
        BY <2>1, <3>2 DEF Accepted, Running
    <2>3. ASSUME NEW d \in Conns, control[d].req # 0 PROVE control[d].req # Line(c)
      <3>1. sent[control[d].req].conn = d /\ control[d].req \notin ToSet(inbound[d])
        BY <2>3 DEF HolderInv, Asked
      <3> QED
        BY <1>3, <2>1, <3>1
    <2> QED
      BY <1>1, <1>3, <2>1, <2>2, <2>3, HolderFrom, HoldersType
  <1>9. CASE ControlSent(c) \/ ControlGivesUp(c) \/ ReaderCloses(c)
    <2>1. /\ UNCHANGED <<sent, inbound, queue, wpc, job>>
          /\ stopped' \subseteq stopped \cup ActiveSerials(c)
          /\ control' = [control EXCEPT ![c] = NoFrame]
      BY <1>9 DEF ControlSent, ControlGivesUp, ReaderCloses, Reply, Disconnect, client, pool
    <2> QED
      BY <1>1, <1>2, <2>1, HolderQuiet DEF Accepted, Running
  <1>10. CASE ReadEnds(c) \/ ReadTimesOut(c) \/ ReaderJoins(c)
    <2>1. /\ UNCHANGED <<sent, inbound, queue, wpc, job, stopped>>
          /\ control' = [control EXCEPT ![c] = NoFrame]
      BY <1>10 DEF ReadEnds, ReadTimesOut, ReaderJoins, Reply, client, pool
    <2> QED
      BY <1>1, <1>2, <2>1, HolderQuiet DEF Accepted, Running
  <1> QED
    BY <1>5, <1>6, <1>7, <1>8, <1>9, <1>10 DEF Reader

LEMMA WriterHolder ==
    ASSUME Typed, Entered, HolderInv, NEW c \in Conns, Writer(c)
    PROVE  HolderInv'
  <1>1. /\ UNCHANGED <<sent, inbound, control, queue, wpc, job>>
        /\ stopped' \subseteq stopped \cup ActiveSerials(c)
    BY DEF Writer, WriterTakes, WriterWrites, WriterDiscards, WriterFails, WriterEnds, Disconnect,
           client, conn, pool
  <1>2. stopped \subseteq Accepted /\ ActiveSerials(c) \subseteq Accepted
    BY RegisteredAccepted DEF HolderInv
  <1> QED
    BY <1>1, <1>2, HolderQuiet DEF Accepted, Running

LEMMA WorkerHolder ==
    ASSUME Typed, RegistryInv, HolderInv, NEW w \in Workers, WorkerStep(w) \/ Dispatch(w)
    PROVE  HolderInv'
  <1> USE DEF WorkerAt
  <1>1. /\ wpc \in [Workers -> {"recv", "release"} \cup Sending]
        /\ job \in [Workers -> 0 .. MaxRequests] /\ queue \in Seq(Serials)
        /\ stopped \subseteq Accepted
    BY DEF Typed, TypeOK, HolderInv
  <1>2. CASE WorkerTakes(w)
    <2>1. /\ UNCHANGED <<sent, inbound, control, stopped>> /\ wpc[w] = "recv"
          /\ queue # <<>> /\ queue' = Tail(queue)
          /\ wpc' = [wpc EXCEPT ![w] = "start"] /\ job' = [job EXCEPT ![w] = Head(queue)]
      BY <1>2 DEF WorkerTakes, client, conn
    <2>2. ToSet(queue) = {Head(queue)} \cup ToSet(queue')
      BY <1>1, <2>1, TailSet
    <2>3. Running' = Running \cup {Head(queue)}
      <3>1. \A v \in Workers : v # w => wpc'[v] = wpc[v] /\ job'[v] = job[v]
        BY <1>1, <2>1
      <3>2. wpc'[w] # "recv" /\ job'[w] = Head(queue)
        BY <1>1, <2>1
      <3> QED
        BY <2>1, <3>1, <3>2 DEF Running
    <2>4. Accepted' = Accepted
      BY <2>2, <2>3 DEF Accepted
    <2> QED
      BY <1>1, <2>1, <2>4, HolderQuiet
  <1>3. CASE WorkerReleases(w)
    <2>1. /\ UNCHANGED <<sent, inbound, control, queue>> /\ wpc[w] = "release"
          /\ stopped' = stopped \ {job[w]}
          /\ wpc' = [wpc EXCEPT ![w] = "recv"] /\ job' = [job EXCEPT ![w] = 0]
      BY <1>3 DEF WorkerReleases, client
    <2>2. Accepted' \subseteq Accepted /\ Accepted \subseteq Accepted' \cup {job[w]}
      <3>1. \A v \in Workers : v # w => wpc'[v] = wpc[v] /\ job'[v] = job[v]
        BY <1>1, <2>1
      <3>2. wpc'[w] = "recv"
        BY <1>1, <2>1
      <3> QED
        BY <2>1, <3>1, <3>2 DEF Running, Accepted
    <2>3. stopped' \subseteq Accepted'
      BY <1>1, <2>1, <2>2
    <2> QED
      BY <2>1, <2>2, <2>3, HolderFrom, HoldersType
  <1>4. CASE ~(WorkerTakes(w) \/ WorkerReleases(w))
    <2>1. /\ UNCHANGED <<sent, inbound, control, queue, job>>
          /\ stopped' \subseteq stopped \cup ActiveSerials(ConnOf(w))
          /\ wpc[w] # "recv" /\ \E l \in Sending \cup {"release"} : wpc' = [wpc EXCEPT ![w] = l]
      <3>1. CASE Looks(w)
        BY <3>1, LooksMove DEF Enqueuing, Sending, client, conn
      <3>2. CASE ~Looks(w)
        BY <1>4, <3>2
           DEF Looks, Sending, WorkerStep, WorkerStarts, FrameSent, FrameRefused, TerminalSent,
               TerminalGivesUp, Dispatch, DispatchSends, DispatchEnds, Finishing, Disconnect,
               client, conn
      <3> QED
        BY <3>1, <3>2
    <2>2. Running' = Running
      <3>1. \A v \in Workers : wpc'[v] # "recv" <=> wpc[v] # "recv"
        BY <1>1, <2>1 DEF Sending
      <3> QED
        BY <2>1, <3>1 DEF Running
    <2>3. ConnOf(w) \in Conns
      BY <2>1, JobFacts
    <2>4. ActiveSerials(ConnOf(w)) \subseteq Accepted
      BY <2>3, RegisteredAccepted DEF RegistryInv
    <2> QED
      BY <1>1, <2>1, <2>2, <2>4, HolderQuiet DEF Accepted
  <1> QED
    BY <1>2, <1>3, <1>4

LEMMA InitHolder == Init => HolderInv
  BY DEF Init, HolderInv, NoFrame, Frame

LEMMA NextHolder == RInv /\ HolderInv /\ [Next]_vars => HolderInv'
  <1> SUFFICES ASSUME RInv, HolderInv, [Next]_vars PROVE HolderInv'
    OBVIOUS
  <1>1. Typed /\ Typed' /\ RegistryInv /\ Entered
    BY NextTyped DEF RInv, RegistryInv
  <1>2. CASE UNCHANGED vars
    BY <1>1, <1>2, HolderQuiet DEF vars, Accepted, Running, HolderInv
  <1>3. CASE Environment
    BY <1>1, <1>3, EnvironmentHolder
  <1>4. ASSUME NEW c \in Conns, Reader(c) \/ Writer(c) PROVE HolderInv'
    BY <1>1, <1>4, ReaderHolder, WriterHolder
  <1>5. ASSUME NEW w \in Workers, WorkerStep(w) \/ Dispatch(w) PROVE HolderInv'
    BY <1>1, <1>5, WorkerHolder
  <1> QED
    BY <1>2, <1>3, <1>4, <1>5 DEF Next

---------------------------------------------------------------------------
(* The theorems about responses                                            *)

\* Requests are never taken back.
LEMMA SentStays ==
    ASSUME Typed, [Next]_vars, NEW r \in 1 .. Len(sent)
    PROVE  sent'[r] = sent[r]
  <1>1. ASSUME NEW c \in load.conns, NEW q \in Requests, ClientSend(c, q) PROVE sent'[r] = sent[r]
    BY <1>1 DEF ClientSend, Typed, TypeOK
  <1>2. ASSUME Environment, \A c \in load.conns, q \in Requests : ~ClientSend(c, q)
        PROVE  sent' = sent
    BY <1>2 DEF Environment, ClientClose, ClientStall, Shutdown, DeadlinePasses, client
  <1>3. ASSUME NEW c \in Conns, Reader(c) PROVE sent' = sent
    BY <1>3
       DEF Reader, ReadRefused, ReadCancel, ReadLate, ReadQuery, ReadQueueFull, TakeLine,
           ControlSent, ControlGivesUp, ReadEnds, ReadTimesOut, ReaderCloses, ReaderJoins, client
  <1>4. ASSUME NEW c \in Conns, Writer(c) PROVE sent' = sent
    BY <1>4
       DEF Writer, WriterTakes, WriterWrites, WriterDiscards, WriterFails, WriterEnds, client
  <1>5. ASSUME NEW w \in Workers, WorkerStep(w) \/ Dispatch(w) PROVE sent' = sent
    BY <1>5
       DEF WorkerStep, WorkerTakes, WorkerStarts, ContextChecked, FlagChecked, FrameSent,
           FrameFull, FrameRefused, TerminalChecked, TerminalSkipped, TerminalSent, TerminalFull,
           TerminalGivesUp, WorkerReleases, Dispatch, DispatchSends, DispatchEnds, client
  <1>6. CASE UNCHANGED vars
    BY <1>6 DEF vars
  <1> QED
    BY <1>1, <1>2, <1>3, <1>4, <1>5, <1>6 DEF Next

\* Only these steps add to what a connection said for a request: the reader's

\* reply, a frame of the dispatcher, and the frame of required_terminal.
LEMMA SaidGrows ==
    ASSUME Typed, Typed', RespInv, HolderInv, NEW c \in Conns, NEW r \in stopped,
           Asked(c, r), [Next]_vars, Len(Said(c, r)') > Len(Said(c, r))
    PROVE  Last(Said(c, r)').kind \in {"error", "end_error"} \/ PastChecks(r)' # PastChecks(r)
  <1>1. /\ r \in Serials /\ r \in Accepted /\ r # 0
        /\ out \in [Conns -> Seq(Frames)] /\ writing \in [Conns -> Frames]
        /\ Len(Said(c, r)) \in Nat
    <2>1. r \in Serials /\ r \in Accepted
      BY DEF Typed, TypeOK, HolderInv
    <2>2. Len(Said(c, r)) \in Nat
      BY <2>1, FlightIs DEF FlightParts
    <2>3. out \in [Conns -> Seq(Frames)] /\ writing \in [Conns -> Frames]
      BY DEF Typed, TypeOK
    <2>4. r # 0
      BY <2>1, SizesAssumption DEF Serials
    <2> QED
      BY <2>1, <2>2, <2>3, <2>4
  <1>2. ~(out'[c] = out[c] /\ writing'[c] = writing[c] /\ got'[r] = got[r])
    <2> SUFFICES ASSUME out'[c] = out[c], writing'[c] = writing[c], got'[r] = got[r] PROVE FALSE
      OBVIOUS
    <2>1. Said(c, r)' = Said(c, r)
      BY DEF Said, InFlight
    <2> QED
      BY <1>1, <2>1
  <1>3. Said(c, r)' # Said(c, r)
    BY <1>1
  <1>4. ASSUME NEW f \in Frames, out'[c] = Append(out[c], f),
               writing'[c] = writing[c], got'[r] = got[r], f.req # r
        PROVE  FALSE
    BY <1>1, <1>3, <1>4, SaidAppended
  <1>5. ~(Environment \/ UNCHANGED vars)
    BY <1>2
       DEF Environment, ClientSend, ClientClose, ClientStall, Shutdown, DeadlinePasses, output, vars
  <1>6. ASSUME NEW d \in Conns, Reader(d) PROVE FALSE
    <2>1. CASE ControlSent(d)
      <3>1. /\ out' = [out EXCEPT ![d] = Append(@, control[d])] /\ UNCHANGED <<writing, got>>
            /\ control[d] \in Frames /\ control[d].req # r
        BY <1>1, <2>1 DEF ControlSent, Enqueue, HolderInv, Typed, TypeOK
      <3>2. PICK f : f = control[d]
        OBVIOUS
      <3>3. d = c => out'[c] = Append(out[c], f)
        BY <1>1, <3>1, <3>2
      <3>4. d # c => out'[c] = out[c]
        BY <1>1, <3>1
      <3> QED
        BY <1>2, <1>4, <3>1, <3>2, <3>3, <3>4
    <2>2. CASE ~ControlSent(d)
      <3>1. UNCHANGED <<out, writing, got>>
        BY <1>6, <2>2
           DEF Reader, ReadRefused, ReadCancel, ReadLate, ReadQuery, ReadQueueFull, ControlGivesUp,
               ReadEnds, ReadTimesOut, ReaderCloses, ReaderJoins, output
      <3> QED
        BY <1>2, <3>1
    <2> QED
      BY <2>1, <2>2
  <1>7. ASSUME NEW d \in Conns, Writer(d) PROVE FALSE
    <2>1. CASE d # c
      <3>1. out'[c] = out[c] /\ writing'[c] = writing[c]
        BY <1>1, <1>7, <2>1
           DEF Writer, WriterTakes, WriterWrites, WriterDiscards, WriterFails, WriterEnds
      <3>2. CASE WriterWrites(d)
        <4>1. FlightLegal(d) /\ ~Asked(d, r)
          BY <2>1, <3>2 DEF WriterWrites, RespInv, ConnLegal, Asked
        <4>2. FramesOf(r, InFlight(d)) = <<>>
          BY <1>1, <4>1 DEF FlightLegal
        <4>3. got'[r] = got[r]
          BY <1>1, <3>2, <4>2, SaidWritten
        <4> QED
          BY <1>2, <3>1, <4>3
      <3>3. CASE ~WriterWrites(d)
        BY <1>2, <1>7, <3>1, <3>3
           DEF Writer, WriterTakes, WriterDiscards, WriterFails, WriterEnds
      <3> QED
        BY <3>2, <3>3
    <2>2. CASE d = c
      <3>1. CASE WriterTakes(d)
        BY <1>1, <1>3, <2>2, <3>1, SaidTaken
      <3>2. CASE WriterWrites(d)
        BY <1>1, <1>3, <2>2, <3>2, SaidWritten
      <3>3. CASE WriterDiscards(d) \/ WriterFails(d)
        <4>1. /\ UNCHANGED <<out, got>> /\ writing'[c] = NoFrame
          BY <2>2, <3>3 DEF WriterDiscards, WriterFails, Typed, TypeOK
        <4>2. Len(Said(c, r)') <= Len(Said(c, r)) /\ Len(Said(c, r)') \in Nat
          <5>1. Len(Said(c, r)') \in Nat
            BY <1>1, FlightIsNext DEF FlightParts
          <5> QED
            BY <1>1, <4>1, <5>1, SaidDropped
        <4> QED
          BY <1>1, <4>2
      <3>4. CASE WriterEnds(d)
        BY <1>2, <3>4 DEF WriterEnds
      <3> QED
        BY <1>7, <3>1, <3>2, <3>3, <3>4 DEF Writer
    <2> QED
      BY <2>1, <2>2
  <1>8. ASSUME NEW w \in Workers, WorkerStep(w) \/ Dispatch(w)
        PROVE  \/ Last(Said(c, r)').kind \in {"error", "end_error"}
               \/ PastChecks(r)' # PastChecks(r)
    <2>1. CASE FrameSent(w)
      <3>1. /\ out' = [out EXCEPT ![ConnOf(w)] = Append(@, pending[w])] /\ UNCHANGED <<writing, got>>
            /\ pending[w] \in Frames /\ pending[w].req = job[w] /\ wpc[w] = "push"
        BY <2>1 DEF FrameSent, Enqueue, RespInv, WorkersKnow, Enqueuing, Typed, TypeOK
      <3>2. PICK f, d : f = pending[w] /\ d = ConnOf(w)
        OBVIOUS
      <3>3. d = c => out'[c] = Append(out[c], f)
        BY <1>1, <3>1, <3>2
      <3>4. d # c => out'[c] = out[c]
        BY <1>1, <3>1, <3>2
      <3>5. job[w] = r
        BY <1>2, <1>4, <3>1, <3>2, <3>3, <3>4
      <3>6. wpc'[w] = "run"
        BY <2>1 DEF FrameSent, WorkerAt, Typed, TypeOK
      <3> QED
        BY <3>1, <3>5, <3>6 DEF PastChecks
    <2>2. CASE TerminalSent(w)
      <3>1. PICK f, d : f = ErrorFrame(w) /\ d = ConnOf(w)
        OBVIOUS
      <3>2. /\ out' = [out EXCEPT ![d] = Append(@, f)] /\ UNCHANGED <<writing, got>>
        BY <2>2, <3>1 DEF TerminalSent, Enqueue
      <3>3. f \in Frames /\ f.kind \in {"error", "end_error"}
        <4>1. life[w] # Terminal
          BY <2>2 DEF TerminalSent, RespInv, WorkersKnow
        <4> QED
          BY <3>1, <4>1, ErrorFrameNext
      <3>4. d = c /\ f.req = r
        BY <1>1, <1>2, <1>4, <3>2, <3>3
      <3>5. PICK s \in Seq(AnyFrame) : s = Said(c, r)
        BY <1>1, FlightIs DEF FlightParts
      <3>6. Said(c, r)' = Append(s, f)
        <4>1. out'[c] = Append(out[c], f)
          BY <1>1, <3>2, <3>4
        <4> QED
          BY <1>1, <3>2, <3>3, <3>4, <3>5, <4>1, SaidAppended
      <3>7. Last(Append(s, f)) = f
        <4>1. f \in AnyFrame
          BY <3>3, FramesAny DEF Typed
        <4> HIDE DEF AnyFrame
        <4> QED
          BY <4>1 DEF Last
      <3>8. PICK t : t = Append(s, f) /\ Last(t) = f
        BY <3>7, Zenon
      <3> QED
        BY <3>3, <3>6, <3>8
    <2>3. CASE ~(FrameSent(w) \/ TerminalSent(w))
      <3>1. UNCHANGED <<out, writing, got>>
        BY <1>8, <2>3, LooksMove
           DEF WorkerStep, Looks, Dispatch, WorkerTakes, WorkerStarts, FrameRefused,
               TerminalGivesUp, WorkerReleases, DispatchSends, DispatchEnds, output
      <3> QED
        BY <1>2, <3>1
    <2> QED
      BY <2>1, <2>2, <2>3
  <1> QED
    BY <1>5, <1>6, <1>7, <1>8 DEF Next

\* A stopped request passes no check: only a worker passes one, and not for a
\* request it finds stopped, or on a connection it finds disconnected.
LEMMA PastShrinks ==
    ASSUME Typed, [Next]_vars, NEW r \in stopped
    PROVE  PastChecks(r)' \subseteq PastChecks(r)
  <1> SUFFICES ASSUME NEW v \in Workers, v \in PastChecks(r)' PROVE v \in PastChecks(r)
    BY DEF PastChecks
  <1>1. /\ job'[v] = r /\ wpc'[v] \in {"push", "flag"}
        /\ wpc'[v] = "flag" => ConnOf(v)' \notin disconnected'
    BY DEF PastChecks
  <1>2. ASSUME wpc[v] = wpc'[v], job[v] = job'[v], disconnected \subseteq disconnected'
        PROVE  v \in PastChecks(r)
    <2>1. job[v] \in 1 .. Len(sent)
      BY <1>1, <1>2 DEF Typed, TypeOK, SerialsSent
    <2>2. ConnOf(v)' = ConnOf(v)
      BY <1>2, <2>1, SentStays DEF ConnOf
    <2> QED
      BY <1>1, <1>2, <2>2 DEF PastChecks
  <1>3. CASE UNCHANGED vars
    BY <1>2, <1>3 DEF vars
  <1>4. CASE Environment
    BY <1>2, <1>4
       DEF Environment, ClientSend, ClientClose, ClientStall, Shutdown, DeadlinePasses, conn, pool
  <1>5. ASSUME NEW c \in Conns, Reader(c) PROVE v \in PastChecks(r)
    <2>1. UNCHANGED <<wpc, job>> /\ disconnected \subseteq disconnected'
      BY <1>5
         DEF Reader, ReadRefused, ReadCancel, ReadLate, ReadQuery, ReadQueueFull, ControlSent,
             ControlGivesUp, ReadEnds, ReadTimesOut, ReaderCloses, ReaderJoins, Disconnect, pool
    <2> QED
      BY <1>2, <2>1
  <1>6. ASSUME NEW c \in Conns, Writer(c) PROVE v \in PastChecks(r)
    <2>1. UNCHANGED <<wpc, job>> /\ disconnected \subseteq disconnected'
      BY <1>6
         DEF Writer, WriterTakes, WriterWrites, WriterDiscards, WriterFails, WriterEnds,
             Disconnect, conn, pool
    <2> QED
      BY <1>2, <2>1
  <1>7. ASSUME NEW w \in Workers, WorkerStep(w) \/ Dispatch(w) PROVE v \in PastChecks(r)
    <2>1. /\ disconnected \subseteq disconnected'
          /\ \A u \in Workers : u # w => wpc'[u] = wpc[u] /\ job'[u] = job[u]
      BY <1>7
         DEF WorkerStep, WorkerTakes, WorkerStarts, ContextChecked, FlagChecked, FrameSent,
             FrameFull, FrameRefused, TerminalChecked, TerminalSkipped, TerminalSent,
             TerminalFull, TerminalGivesUp, WorkerReleases, Dispatch, DispatchSends,
             DispatchEnds, WorkerAt, Disconnect, conn, Typed, TypeOK
    <2>2. CASE v # w
      BY <1>2, <2>1, <2>2
    <2>3. CASE v = w /\ (ContextChecked(w) \/ FlagChecked(w))
      BY <1>1, <2>3 DEF ContextChecked, FlagChecked, PastChecks
    <2>4. CASE v = w /\ ~(ContextChecked(w) \/ FlagChecked(w))
      <3>1. wpc'[w] \notin {"push", "flag"}
        BY <1>7, <2>4
           DEF WorkerStep, WorkerTakes, WorkerStarts, FrameSent, FrameFull, FrameRefused,
               TerminalChecked, TerminalSkipped, TerminalSent, TerminalFull, TerminalGivesUp,
               WorkerReleases, Dispatch, DispatchSends, DispatchEnds, Finishing, WorkerAt,
               Typed, TypeOK
      <3> QED
        BY <1>1, <2>4, <3>1
    <2> QED
      BY <2>2, <2>3, <2>4
  <1> QED
    BY <1>3, <1>4, <1>5, <1>6, <1>7 DEF Next

LEMMA RuntimeInvariant == Spec => [](RInv /\ RespInv /\ HolderInv)
  BY InitRInv, NextRInv, InitResp, NextResp, InitHolder, NextHolder, PTL DEF Spec

\* What a client receives for a request, and all that is emitted for it while
\* its connection is not disconnected, is a prefix of one legal response.
THEOREM ResponsesAreLegal == Spec => []ResponsesLegal
  <1>1. RInv /\ RespInv => ResponsesLegal
    <2> SUFFICES ASSUME RInv, RespInv PROVE ResponsesLegal
      OBVIOUS
    <2>1. Typed
      BY DEF RInv
    <2>2. ASSUME NEW r \in Serials PROVE LegalResponse(got[r])
      BY <2>1, QueuesAny, ProperIsLegal DEF RespInv, GotLegal
    <2>3. ASSUME NEW r \in 1 .. Len(sent), sent[r].conn \notin disconnected
          PROVE  LegalResponse(Emitted(r))
      <3>1. PICK c \in Conns : c = sent[r].conn
        BY <2>1, HoldersType
      <3>2. r \in Serials /\ Asked(c, r) /\ Emitted(r) = Said(c, r)
        BY <2>1, <3>1, HoldersType DEF Asked, Emitted, Said
      <3>3. Proper(Said(c, r)) /\ Said(c, r) \in Seq(AnyFrame)
        BY <2>1, <2>3, <3>1, <3>2, FlightIs DEF RespInv, ConnLegal, FlightLegal, FlightParts
      <3> QED
        BY <3>2, <3>3, ProperIsLegal
    <2> QED
      BY <2>2, <2>3 DEF ResponsesLegal, DeliveredLegal
  <1> QED
    BY <1>1, RuntimeInvariant, PTL

\* A request that is stopped emits the frame which passed its checks before, if
\* there is one, and its error terminal.
THEOREM StoppedIsSilent == Spec => StoppedStaysSilent
  <1> DEFINE Silent ==
         \A r \in stopped :
            r \in stopped' =>
               /\ PastChecks(r)' \subseteq PastChecks(r)
               /\ Len(Emitted(r)') > Len(Emitted(r)) =>
                     \/ Last(Emitted(r)').kind \in {"error", "end_error"}
                     \/ PastChecks(r)' # PastChecks(r)
  <1>1. RInv /\ RespInv /\ HolderInv /\ RInv' /\ [Next]_vars => Silent
    <2> SUFFICES ASSUME RInv, RespInv, HolderInv, RInv', [Next]_vars, NEW r \in stopped
                 PROVE  /\ PastChecks(r)' \subseteq PastChecks(r)
                        /\ Len(Emitted(r)') > Len(Emitted(r)) =>
                              \/ Last(Emitted(r)').kind \in {"error", "end_error"}
                              \/ PastChecks(r)' # PastChecks(r)
      OBVIOUS
    <2>1. Typed /\ Typed'
      BY DEF RInv
    <2>2. r \in 1 .. Len(sent) /\ r \in Serials /\ sent[r].conn \in Conns
      <3>1. r \in Accepted
        BY DEF HolderInv
      <3>2. r \in 1 .. Len(sent)
        BY <2>1, <3>1, HoldersType DEF Accepted, Running
      <3> QED
        BY <2>1, <3>2, HoldersType
    <2>3. PICK c \in Conns : c = sent[r].conn
      BY <2>2
    <2>4. sent'[r].conn = c
      BY <2>2, <2>3, <2>1, SentStays
    <2>5. Emitted(r) = Said(c, r) /\ Emitted(r)' = Said(c, r)' /\ Asked(c, r)
      BY <2>2, <2>3, <2>4 DEF Emitted, Said, Asked
    <2>6. PastChecks(r)' \subseteq PastChecks(r)
      BY <2>1, PastShrinks
    <2> QED
      BY <2>1, <2>5, <2>6, SaidGrows
  <1> QED
    BY <1>1, RuntimeInvariant, PTL DEF Spec, StoppedStaysSilent

(***************************************************************************)
(* The scan gate admits one scan at a time and is never leaked, for every  *)
(* set of workers.  GateTypeOK /\ PermitExact is inductive as it stands.   *)
(***************************************************************************)
GateInv == GateTypeOK /\ PermitExact

\* A worker that moves between two locations that agree on Holding keeps the
\* gate exact.
LEMMA MoveKeepsGate ==
    ASSUME GateInv, NEW w \in Scanners, NEW l \in Locations, At(w, l), held' = held,
           l \in Holding <=> pc[w] \in Holding
    PROVE  pc' \in [Scanners -> Locations] /\ PermitExact'
  <1>1. pc' \in [Scanners -> Locations]
    BY DEF GateInv, GateTypeOK, At
  <1>2. \A v \in Scanners : pc'[v] \in Holding <=> pc[v] \in Holding
    BY DEF GateInv, GateTypeOK, At
  <1> QED
    BY <1>1, <1>2 DEF GateInv, PermitExact

\* Dropping the guard, whatever the reason, frees the gate.
LEMMA DropKeepsGate ==
    ASSUME GateInv, NEW w \in Scanners, NEW l \in Locations \ Holding,
           pc[w] \in Holding, Drop(w, l)
    PROVE  GateInv'
  <1>1. GateTypeOK'
    BY DEF GateInv, GateTypeOK, Drop, At
  <1>2. \A v \in Scanners : pc'[v] \notin Holding
    BY DEF GateInv, GateTypeOK, PermitExact, Drop, At
  <1> QED
    BY <1>1, <1>2 DEF GateInv, PermitExact, Drop

\* Waking a waiter moves no worker into or out of the gate.
LEMMA WakeKeepsGate ==
    ASSUME GateInv, NEW w \in Scanners, NEW l \in {"output", "idle"}, held' = held,
           pc[w] \in {"scanned", "failed"}, WakeOne(w, l)
    PROVE  pc' \in [Scanners -> Locations] /\ PermitExact'
  <1> DEFINE waiting == {v \in Scanners : pc[v] = "wait"}
  <1>1. CASE waiting = {}
    <2>1. At(w, l)
      BY <1>1 DEF WakeOne
    <2> QED
      BY <2>1, MoveKeepsGate DEF Locations, Holding
  <1>2. CASE waiting # {}
    <2>1. PICK v \in waiting : pc' = [pc EXCEPT ![w] = l, ![v] = "test"]
      BY <1>2 DEF WakeOne
    <2>2. pc' \in [Scanners -> Locations]
      BY <2>1 DEF GateInv, GateTypeOK, Locations
    <2>3. \A u \in Scanners : pc'[u] \in Holding <=> pc[u] \in Holding
      BY <2>1 DEF GateInv, GateTypeOK, Holding
    <2> QED
      BY <2>2, <2>3 DEF GateInv, PermitExact
  <1> QED
    BY <1>1, <1>2

\* The invariant holds while every worker is idle, and each action keeps it.
LEMMA InitGate == GateInit => GateInv
  BY DEF GateInit, GateInv, GateTypeOK, PermitExact, Locations, Holding

\* One case per action.
LEMMA NextGate == GateInv /\ [GateNext]_gateVars => GateInv'
  <1> SUFFICES ASSUME GateInv, [GateNext]_gateVars PROVE GateInv'
    OBVIOUS
  <1>1. CASE UNCHANGED gateVars
    BY <1>1 DEF GateInv, GateTypeOK, PermitExact, gateVars
  <1>2. ASSUME NEW w \in Scanners, Begin(w) PROVE GateInv'
    <2>1. cancelled' \subseteq Scanners /\ blocked' \subseteq Scanners
      BY <1>2 DEF Begin, GateInv, GateTypeOK
    <2> QED
      BY <1>2, <2>1, MoveKeepsGate DEF Begin, GateInv, GateTypeOK, Locations, Holding
  <1>3. ASSUME NEW w \in Scanners, Stop(w) PROVE GateInv'
    BY <1>3 DEF Stop, GateInv, GateTypeOK, PermitExact
  <1>4. ASSUME NEW w \in Scanners, Acquire(w) PROVE GateInv'
    <2>1. GateTypeOK'
      BY <1>4 DEF Acquire, At, GateInv, GateTypeOK, Locations
    <2>2. \A v \in Scanners : pc'[v] \in Holding <=> v = w
      BY <1>4 DEF Acquire, At, GateInv, GateTypeOK, PermitExact, Holding
    <2> QED
      BY <1>4, <2>1, <2>2 DEF Acquire, GateInv, PermitExact
  <1>5. ASSUME NEW w \in Scanners, Sleep(w) PROVE GateInv'
    BY <1>5, MoveKeepsGate DEF Sleep, GateInv, GateTypeOK, Locations, Holding
  <1>6. ASSUME NEW w \in Scanners, Refuse(w) PROVE GateInv'
    BY <1>6, MoveKeepsGate DEF Refuse, Forget, GateInv, GateTypeOK, Locations, Holding
  <1>7. ASSUME NEW w \in Scanners, WakeUp(w) PROVE GateInv'
    BY <1>7, MoveKeepsGate DEF WakeUp, GateInv, GateTypeOK, Locations, Holding
  <1>8. ASSUME NEW w \in Scanners, NotifyOne(w) PROVE GateInv'
    BY <1>8, WakeKeepsGate DEF NotifyOne, Forget, GateInv, GateTypeOK
  <1>9. ASSUME NEW w \in Scanners, ChunkFull(w) PROVE GateInv'
    BY <1>9, MoveKeepsGate DEF ChunkFull, GateInv, GateTypeOK, Locations, Holding
  <1>10. ASSUME NEW w \in Scanners, ScanEnds(w) PROVE GateInv'
    BY <1>10, DropKeepsGate DEF ScanEnds, Locations, Holding
  <1>11. ASSUME NEW w \in Scanners, ScanFails(w) PROVE GateInv'
    BY <1>11, DropKeepsGate DEF ScanFails, Locations, Holding
  <1>12. ASSUME NEW w \in Scanners, ChunkSent(w) PROVE GateInv'
    BY <1>12, MoveKeepsGate DEF ChunkSent, GateInv, GateTypeOK, Locations, Holding
  <1>13. ASSUME NEW w \in Scanners, ChunkRefused(w) PROVE GateInv'
    BY <1>13, DropKeepsGate DEF ChunkRefused, Locations, Holding
  <1>14. ASSUME NEW w \in Scanners, Answer(w) PROVE GateInv'
    BY <1>14, MoveKeepsGate DEF Answer, Forget, GateInv, GateTypeOK, Locations, Holding
  <1> QED
    BY <1>1, <1>2, <1>3, <1>4, <1>5, <1>6, <1>7, <1>8, <1>9, <1>10, <1>11, <1>12, <1>13,
       <1>14 DEF GateNext, Gate, Scan, Output

\* Type correctness of the gate.
THEOREM GateTypeCorrect == GateSpec => []GateTypeOK
  <1>1. GateInv => GateTypeOK
    BY DEF GateInv
  <1> QED
    BY <1>1, InitGate, NextGate, PTL DEF GateSpec

\* At most one scan runs, and the permit is taken exactly while one does.
THEOREM GateExact == GateSpec => []PermitExact
  <1>1. GateInv => PermitExact
    BY DEF GateInv
  <1> QED
    BY <1>1, InitGate, NextGate, PTL DEF GateSpec
===========================================================================
