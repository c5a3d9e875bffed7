---------------------------- MODULE ServerLifecycle ----------------------------
(***************************************************************************)
(* Server processes that share one socket path: binding without replacing  *)
(* a live listener (server/listener.rs), the accept loop with its limit of *)
(* connections (server/app.rs), the scheduler's workers, and the shutdown  *)
(* that joins connections, removes the socket it owns and stops the        *)
(* workers.  A process may crash at any point and leaves its files behind. *)
(*                                                                         *)
(* A socket file is named after the server that bound it.  The directory   *)
(* is private to the user, so only these servers change it.                *)
(***************************************************************************)
EXTENDS Integers, Sequences, FiniteSets, SequencesExt

CONSTANTS
    Servers,         \* processes, each started at most once
    Clients,         \* bound: connections made, each to one server
    Workers,         \* worker threads of a scheduler
    QueueDepth,      \* capacity of the job channel
    MaxConnections,  \* limit of the connection limiter
    Stale,           \* a socket left by an earlier crash
    File,            \* something at the path that is no socket
    None

ASSUME LifecycleAssumption ==
    /\ QueueDepth \in Nat \ {0} /\ MaxConnections \in Nat \ {0}
    /\ IsFiniteSet(Servers) /\ IsFiniteSet(Clients) /\ IsFiniteSet(Workers)
    /\ Cardinality({Stale, File, None}) = 3
    /\ Servers \cap {Stale, File, None} = {}
    /\ Clients \cap {"none", "idle", "stop"} = {}

VARIABLES
    entry,     \* what the socket path holds
    temp,      \* per server, whether its temporary name exists
    pc,        \* per server, where its main thread is
    found,     \* per server, the file its check of the path saw
    shutdown,  \* per server, the shutdown flag
    client,    \* per server and client, the state of the connection
    queue,     \* per server, the channel from connections to workers
    worker,    \* per server and worker, what it does
    raced      \* a file was removed that was not the one checked before

vars == <<entry, temp, pc, found, shutdown, client, queue, worker, raced>>
files == <<entry, temp, raced>>
threads == <<client, queue, worker>>

Stop == "stop"

PreBind == {"off", "look", "connect", "recheck", "remove", "bind", "publish"}
Published ==
    {"unlink", "verify", "accept", "join", "cleanup", "remove own", "stopping", "ended", "crashed"}

Connections == {"none", "waiting", "probe", "serving", "leaving", "ended"}

TypeOK ==
    /\ entry \in Servers \cup {Stale, File, None}
    /\ temp \in [Servers -> BOOLEAN]
    /\ pc \in [Servers -> PreBind \cup Published]
    /\ found \in [Servers -> Servers \cup {Stale, File, None}]
    /\ shutdown \in [Servers -> BOOLEAN]
    /\ client \in [Servers -> [Clients -> Connections]]
    /\ queue \in [Servers -> Seq(Clients \cup {Stop})]
    /\ worker \in [Servers -> [Workers -> Clients \cup {"none", "idle", Stop}]]
    /\ raced \in BOOLEAN

\* A listener exists from the bind of the temporary name until it is dropped at
\* the end of the accept loop's function, before the scheduler is.
Listening(s) ==
    pc[s] \in {"publish", "unlink", "verify", "accept", "join", "cleanup", "remove own"}

Init ==
    /\ entry \in {None, Stale, File}
    /\ temp = [s \in Servers |-> FALSE]
    /\ pc = [s \in Servers |-> "off"]
    /\ found = [s \in Servers |-> None]
    /\ shutdown = [s \in Servers |-> FALSE]
    /\ client = [s \in Servers |-> [c \in Clients |-> "none"]]
    /\ queue = [s \in Servers |-> <<>>]
    /\ worker = [s \in Servers |-> [w \in Workers |-> "none"]]
    /\ raced = FALSE

Goto(s, there) == pc' = [pc EXCEPT ![s] = there]

--------------------------------------------------------------------------------
(***************************************************************************)
(* Binding.                                                                *)
(***************************************************************************)

\* The scheduler and its workers exist before the path is looked at.
Launch(s) ==
    /\ pc[s] = "off"
    /\ worker' = [worker EXCEPT ![s] = [w \in Workers |-> "idle"]]
    /\ Goto(s, "look")
    /\ UNCHANGED <<files, found, shutdown, client, queue>>

\* An error of bind drops the guard, which removes what this server has created,
\* and then the scheduler.
BindFails(s) ==
    /\ temp' = [temp EXCEPT ![s] = FALSE]
    /\ entry' = IF entry = s THEN None ELSE entry
    /\ Goto(s, "stopping")
    /\ UNCHANGED <<raced, found>>

Look(s) ==
    /\ pc[s] = "look"
    /\ \/ /\ entry = None
          /\ Goto(s, "bind") /\ UNCHANGED <<files, found>>
       \/ entry = File /\ BindFails(s)
       \/ /\ entry \notin {None, File}
          /\ found' = [found EXCEPT ![s] = entry]
          /\ Goto(s, "connect") /\ UNCHANGED files
    /\ UNCHANGED <<shutdown, threads>>

Unused(c) == \A s \in Servers : client[s][c] = "none"

\* Only a refused connection lets the socket count as stale.  A listener that is
\* alive gets the probe as a connection whose client leaves at once.
Connect(s) ==
    /\ pc[s] = "connect"
    /\ \/ /\ entry \in Servers /\ Listening(entry)
          /\ \/ \E c \in Clients :
                    /\ Unused(c)
                    /\ client' = [client EXCEPT ![entry][c] = "probe"]
             \/ (\A c \in Clients : ~Unused(c)) /\ UNCHANGED client
          /\ BindFails(s)
       \/ entry = None /\ BindFails(s) /\ UNCHANGED client
       \/ /\ entry # None /\ ~(entry \in Servers /\ Listening(entry))
          /\ Goto(s, "recheck") /\ UNCHANGED <<files, found, client>>
    /\ UNCHANGED <<shutdown, queue, worker>>

Recheck(s) ==
    /\ pc[s] = "recheck"
    /\ \/ entry = found[s] /\ Goto(s, "remove") /\ UNCHANGED <<files, found>>
       \/ entry # found[s] /\ BindFails(s)
    /\ UNCHANGED <<shutdown, threads>>

\* remove_file takes whatever is there by now.
RemoveStale(s) ==
    /\ pc[s] = "remove"
    /\ \/ /\ entry # None
          /\ entry' = None
          /\ raced' = (raced \/ entry # found[s])
          /\ Goto(s, "bind") /\ UNCHANGED <<temp, found>>
       \/ entry = None /\ BindFails(s)
    /\ UNCHANGED <<shutdown, threads>>

\* Bind and listen under a unique temporary name, then restrict its mode.
BindTemporary(s) ==
    /\ pc[s] = "bind"
    /\ temp' = [temp EXCEPT ![s] = TRUE]
    /\ Goto(s, "publish")
    /\ UNCHANGED <<entry, raced, found, shutdown, threads>>

\* The mode cannot be set, or the temporary name not be removed.
BindStepFails(s) ==
    /\ pc[s] \in {"publish", "unlink"}
    /\ BindFails(s)
    /\ UNCHANGED <<shutdown, threads>>

\* A bug: rename, which replaces what is at the path.
PublishRenames(s) ==
    /\ pc[s] = "publish"
    /\ entry' = s
    /\ Goto(s, "unlink") /\ UNCHANGED <<temp, raced, found>>
    /\ UNCHANGED <<shutdown, threads>>

\* hard_link gives the socket its final name unless the name is taken.
Publish(s) ==
    /\ pc[s] = "publish"
    /\ \/ /\ entry = None
          /\ entry' = s
          /\ Goto(s, "unlink") /\ UNCHANGED <<temp, raced, found>>
       \/ entry # None /\ BindFails(s)
    /\ UNCHANGED <<shutdown, threads>>

UnlinkTemporary(s) ==
    /\ pc[s] = "unlink"
    /\ temp' = [temp EXCEPT ![s] = FALSE]
    /\ Goto(s, "verify")
    /\ UNCHANGED <<entry, raced, found, shutdown, threads>>

Verify(s) ==
    /\ pc[s] = "verify"
    /\ \/ entry = s /\ Goto(s, "accept") /\ UNCHANGED <<files, found>>
       \/ entry # s /\ BindFails(s)
    /\ UNCHANGED <<shutdown, threads>>

--------------------------------------------------------------------------------
(***************************************************************************)
(* Serving.                                                                *)
(***************************************************************************)

\* A client connects: the kernel queues it until the server accepts.
ClientConnects(s, c) ==
    /\ entry = s /\ Listening(s) /\ Unused(c)
    /\ client' = [client EXCEPT ![s][c] = "waiting"]
    /\ UNCHANGED <<files, pc, found, shutdown, queue, worker>>

Served(s) == {c \in Clients : client[s][c] \in {"serving", "leaving"}}

\* accept takes a permit, or drops a connection above the limit.
Accept(s, c) ==
    /\ pc[s] = "accept" /\ ~shutdown[s]
    /\ client[s][c] \in {"waiting", "probe"}
    /\ client' = [client EXCEPT ![s][c] =
           IF Cardinality(Served(s)) < MaxConnections
           THEN IF @ = "probe" THEN "leaving" ELSE "serving"
           ELSE "ended"]
    /\ UNCHANGED <<files, pc, found, shutdown, queue, worker>>

ClientLeaves(s, c) ==
    /\ client[s][c] = "serving"
    /\ client' = [client EXCEPT ![s][c] = "leaving"]
    /\ UNCHANGED <<files, pc, found, shutdown, queue, worker>>

HasJob(s, c) == c \in Range(queue[s]) \/ \E w \in Workers : worker[s][w] = c

\* try_send: a full channel refuses the request, which changes nothing here.
Submit(s, c) ==
    /\ client[s][c] = "serving" /\ ~HasJob(s, c)
    /\ Len(queue[s]) < QueueDepth
    /\ queue' = [queue EXCEPT ![s] = Append(@, c)]
    /\ UNCHANGED <<files, pc, found, shutdown, client, worker>>

\* A connection's thread ends, with its permit, when its client left or the
\* server shuts down; it joins its writer, which waits for the jobs.
ConnectionEnds(s, c) ==
    /\ client[s][c] \in {"serving", "leaving"}
    /\ client[s][c] = "leaving" \/ shutdown[s]
    /\ ~HasJob(s, c)
    /\ client' = [client EXCEPT ![s][c] = "ended"]
    /\ UNCHANGED <<files, pc, found, shutdown, queue, worker>>

\* recv takes the next message: a job to run, or the order to stop.
WorkerTakes(s, w) ==
    /\ worker[s][w] = "idle" /\ queue[s] # <<>>
    /\ worker' = [worker EXCEPT ![s][w] = Head(queue[s])]
    /\ queue' = [queue EXCEPT ![s] = Tail(@)]
    /\ UNCHANGED <<files, pc, found, shutdown, client>>

WorkerFinishes(s, w) ==
    /\ worker[s][w] \in Clients
    /\ worker' = [worker EXCEPT ![s][w] = "idle"]
    /\ UNCHANGED <<files, pc, found, shutdown, client, queue>>

--------------------------------------------------------------------------------
(***************************************************************************)
(* Shutdown.                                                               *)
(***************************************************************************)

\* The signal handler sets the flag, as does an error of accept.
Signal(s) ==
    /\ pc[s] \notin {"off", "ended", "crashed"} /\ ~shutdown[s]
    /\ shutdown' = [shutdown EXCEPT ![s] = TRUE]
    /\ UNCHANGED <<files, pc, found, threads>>

StopAccepting(s) ==
    /\ pc[s] = "accept" /\ shutdown[s]
    /\ Goto(s, "join")
    /\ UNCHANGED <<files, found, shutdown, threads>>

AcceptFails(s) ==
    /\ pc[s] = "accept" /\ ~shutdown[s]
    /\ shutdown' = [shutdown EXCEPT ![s] = TRUE]
    /\ Goto(s, "join")
    /\ UNCHANGED <<files, found, threads>>

\* A bug: the connections are left to themselves.
JoinNobody(s) ==
    /\ pc[s] = "join"
    /\ Goto(s, "cleanup")
    /\ UNCHANGED <<files, found, shutdown, threads>>

JoinConnections(s) ==
    /\ pc[s] = "join"
    /\ Served(s) = {}
    /\ Goto(s, "cleanup")
    /\ UNCHANGED <<files, found, shutdown, threads>>

\* remove_if_owned compares device and inode before it removes the path.
CheckOwned(s) ==
    /\ pc[s] = "cleanup"
    /\ Goto(s, IF entry = s THEN "remove own" ELSE "stopping")
    /\ UNCHANGED <<files, found, shutdown, threads>>

RemoveOwned(s) ==
    /\ pc[s] = "remove own"
    /\ entry' = None
    /\ raced' = (raced \/ entry # s)
    /\ Goto(s, "stopping")
    /\ UNCHANGED <<temp, found, shutdown, threads>>

\* Dropping the scheduler sends one Stop per worker, waiting for room, and joins.
StopsSent(s) ==
    Cardinality({n \in DOMAIN queue[s] : queue[s][n] = Stop})
        + Cardinality({w \in Workers : worker[s][w] = Stop})

\* A bug: one worker is not told.
SendStopExceptLast(s) ==
    /\ pc[s] = "stopping"
    /\ StopsSent(s) < Cardinality(Workers) - 1 /\ Len(queue[s]) < QueueDepth
    /\ queue' = [queue EXCEPT ![s] = Append(@, Stop)]
    /\ UNCHANGED <<files, pc, found, shutdown, client, worker>>

SendStop(s) ==
    /\ pc[s] = "stopping"
    /\ StopsSent(s) < Cardinality(Workers) /\ Len(queue[s]) < QueueDepth
    /\ queue' = [queue EXCEPT ![s] = Append(@, Stop)]
    /\ UNCHANGED <<files, pc, found, shutdown, client, worker>>

JoinWorkers(s) ==
    /\ pc[s] = "stopping"
    /\ \A w \in Workers : worker[s][w] = Stop
    /\ Goto(s, "ended")
    /\ UNCHANGED <<files, found, shutdown, threads>>

\* The process dies: no thread and no listener survives, its files do.
Crash(s) ==
    /\ pc[s] \notin {"off", "ended", "crashed"}
    /\ Goto(s, "crashed")
    /\ client' = [client EXCEPT ![s] = [c \in Clients |-> IF @[c] = "none" THEN "none" ELSE "ended"]]
    /\ queue' = [queue EXCEPT ![s] = <<>>]
    /\ worker' = [worker EXCEPT ![s] = [w \in Workers |-> "none"]]
    /\ UNCHANGED <<files, found, shutdown>>

--------------------------------------------------------------------------------
Main(s) ==
    \/ Look(s) \/ Connect(s) \/ Recheck(s) \/ RemoveStale(s)
    \/ BindTemporary(s) \/ Publish(s) \/ UnlinkTemporary(s) \/ Verify(s)
    \/ StopAccepting(s) \/ JoinConnections(s) \/ CheckOwned(s) \/ RemoveOwned(s)
    \/ SendStop(s) \/ JoinWorkers(s)

Next ==
    \E s \in Servers :
        \/ Launch(s) \/ Main(s) \/ BindStepFails(s)
        \/ Signal(s) \/ AcceptFails(s) \/ Crash(s)
        \/ \E c \in Clients :
            \/ ClientConnects(s, c) \/ ClientLeaves(s, c)
            \/ Accept(s, c) \/ Submit(s, c) \/ ConnectionEnds(s, c)
        \/ \E w \in Workers : WorkerTakes(s, w) \/ WorkerFinishes(s, w)

Spec == Init /\ [][Next]_vars

\* Threads that can run do run, and a dispatched job ends (its deadline sees to
\* it).  A connection looks at the flag when a read times out, so its end is
\* strongly fair: a client may stay, but not send requests without a pause.
Fairness ==
    \A s \in Servers :
        /\ WF_vars(Main(s))
        /\ \A c \in Clients : SF_vars(ConnectionEnds(s, c))
        /\ \A w \in Workers : WF_vars(WorkerTakes(s, w)) /\ WF_vars(WorkerFinishes(s, w))

FairSpec == Spec /\ Fairness

--------------------------------------------------------------------------------
(***************************************************************************)
(* Properties.                                                             *)
(***************************************************************************)

\* While a server accepts, the path leads to its socket, whatever other servers
\* start, stop or crash meanwhile; only a removal that races a change after the
\* check before it (RemoveStale, RemoveOwned) can break this.
PathLeadsToServer ==
    \A s \in Servers : pc[s] = "accept" /\ ~raced => entry = s

\* What a server that ended, in whatever way short of a crash, leaves behind: no
\* connection that is still served, no job nobody will run, no temporary name,
\* and no socket at the path.
EndedLeavesNothing ==
    \A s \in Servers :
        pc[s] = "ended" =>
            /\ Served(s) = {} /\ queue[s] = <<>>
            /\ ~temp[s]
            /\ entry # s

\* Once the flag is set the process ends: no connection, queued job, full channel
\* or worker that waits for work holds it, nor a client that stays connected.
ShutdownEnds ==
    \A s \in Servers : shutdown[s] ~> pc[s] \in {"ended", "crashed"}

================================================================================
