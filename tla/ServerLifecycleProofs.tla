------------------------- MODULE ServerLifecycleProofs -------------------------
(***************************************************************************)
(* A live server keeps its path, and a server that ended leaves nothing    *)
(* behind, for every set of servers, clients and workers and every limit.  *)
(***************************************************************************)
EXTENDS ServerLifecycle, FiniteSetTheorems, TLAPS

(***************************************************************************)
(* The inductive invariant.  A socket is seen at the path, or remembered   *)
(* by a check of the path, only after its server published it, which a     *)
(* server does once (SocketsPublished).  So the socket that Recheck finds  *)
(* again is the one whose connection was refused, and no longer listens    *)
(* (StaleIsDead): this is why removing it takes no live server's path.     *)
(***************************************************************************)
SocketsPublished ==
    /\ entry \in Servers => pc[entry] \in Published
    /\ \A s \in Servers : found[s] \in Servers => pc[found[s]] \in Published

StaleIsDead ==
    \A s \in Servers :
        /\ pc[s] \in {"recheck", "remove"}
        /\ entry = found[s] /\ entry \in Servers
        => ~Listening(entry)

\* From its publication to the end of the accept loop a server has its path.
PathKept ==
    \A s \in Servers : pc[s] \in {"unlink", "verify", "accept"} /\ ~raced => entry = s

\* A server that no longer serves has given up its socket and its temporary name.
FilesGone ==
    \A s \in Servers :
        /\ pc[s] \in {"stopping", "ended"} => entry # s
        /\ temp[s] => pc[s] \in {"publish", "unlink", "crashed"}

\* Connections are served between the first accept and the join, and jobs belong
\* to served connections.
ServedWhileOpen ==
    \A s \in Servers :
        /\ Served(s) # {} => pc[s] \in {"accept", "join"}
        /\ \A c \in Clients : HasJob(s, c) => c \in Served(s)

\* Orders to stop are sent while the scheduler is dropped, at most one per worker;
\* a server has ended when every worker took one.
Stops(q) == {n \in DOMAIN q : q[n] = Stop}
QueuedStops(s) == Stops(queue[s])
StoppedWorkers(s) == {w \in Workers : worker[s][w] = Stop}
StopsCounted ==
    \A s \in Servers :
        /\ QueuedStops(s) # {} \/ StoppedWorkers(s) # {} => pc[s] \in {"stopping", "ended"}
        /\ Cardinality(QueuedStops(s)) + Cardinality(StoppedWorkers(s)) <= Cardinality(Workers)
        /\ pc[s] = "ended" => \A w \in Workers : worker[s][w] = Stop

FilesInv == SocketsPublished /\ StaleIsDead /\ PathKept /\ FilesGone
ThreadsInv == ServedWhileOpen /\ StopsCounted
LInv == TypeOK /\ FilesInv /\ ThreadsInv

--------------------------------------------------------------------------------
(***************************************************************************)
(* Types.                                                                  *)
(***************************************************************************)

LEMMA BindFailsType ==
    ASSUME TypeOK, NEW s \in Servers, BindFails(s),
           client' \in [Servers -> [Clients -> Connections]], UNCHANGED <<shutdown, queue, worker>>
    PROVE  TypeOK'
  BY DEF BindFails, Goto, TypeOK, PreBind, Published

\* One step per action.
LEMMA NextType == TypeOK /\ [Next]_vars => TypeOK'
  <1> SUFFICES ASSUME TypeOK, [Next]_vars PROVE TypeOK'
    OBVIOUS
  <1>1. CASE UNCHANGED vars
    BY <1>1 DEF vars, TypeOK, PreBind, Published, Stop
  <1>2. ASSUME NEW s \in Servers, Launch(s) PROVE TypeOK'
    BY <1>2 DEF Launch, Goto, files, threads, TypeOK, PreBind, Published, Stop
  <1>3. ASSUME NEW s \in Servers, Look(s) PROVE TypeOK'
    <2>1. CASE BindFails(s)
      BY <1>3, <2>1, BindFailsType DEF Look, threads, TypeOK
    <2>2. CASE entry = None /\ Goto(s, "bind") /\ UNCHANGED <<files, found>>
      BY <1>3, <2>2 DEF Look, Goto, files, threads, TypeOK, PreBind
    <2>3. CASE /\ found' = [found EXCEPT ![s] = entry]
               /\ Goto(s, "connect") /\ UNCHANGED files
      BY <1>3, <2>3 DEF Look, Goto, files, threads, TypeOK, PreBind
    <2> QED
      BY <1>3, <2>1, <2>2, <2>3 DEF Look
  <1>4. ASSUME NEW s \in Servers, Connect(s) PROVE TypeOK'
    <2>1. client' \in [Servers -> [Clients -> Connections]]
      <3>1. CASE UNCHANGED client
        BY <3>1 DEF TypeOK
      <3>2. CASE /\ entry \in Servers
                 /\ \E c \in Clients : client' = [client EXCEPT ![entry][c] = "probe"]
        BY <3>2 DEF TypeOK, Connections
      <3> QED
        BY <1>4, <3>1, <3>2 DEF Connect
    <2>2. ASSUME BindFails(s) PROVE TypeOK'
      BY <1>4, <2>1, <2>2, BindFailsType DEF Connect
    <2>3. ASSUME ~BindFails(s) PROVE TypeOK'
      BY <1>4, <2>1, <2>3 DEF Connect, Goto, files, TypeOK, PreBind, Published
    <2> QED
      BY <2>2, <2>3
  <1>5. ASSUME NEW s \in Servers, Recheck(s) PROVE TypeOK'
    BY <1>5 DEF Recheck, BindFails, Goto, files, threads, TypeOK, PreBind, Published, Stop
  <1>6. ASSUME NEW s \in Servers, RemoveStale(s) PROVE TypeOK'
    BY <1>6 DEF RemoveStale, BindFails, Goto, files, threads, TypeOK, PreBind, Published, Stop
  <1>7. ASSUME NEW s \in Servers, BindTemporary(s) PROVE TypeOK'
    BY <1>7 DEF BindTemporary, Goto, files, threads, TypeOK, PreBind, Published, Stop
  <1>8. ASSUME NEW s \in Servers, BindStepFails(s) PROVE TypeOK'
    BY <1>8 DEF BindStepFails, BindFails, Goto, files, threads, TypeOK, PreBind, Published, Stop
  <1>9. ASSUME NEW s \in Servers, Publish(s) PROVE TypeOK'
    BY <1>9 DEF Publish, BindFails, Goto, files, threads, TypeOK, PreBind, Published, Stop
  <1>10. ASSUME NEW s \in Servers, UnlinkTemporary(s) PROVE TypeOK'
    BY <1>10 DEF UnlinkTemporary, Goto, files, threads, TypeOK, PreBind, Published, Stop
  <1>11. ASSUME NEW s \in Servers, Verify(s) PROVE TypeOK'
    BY <1>11 DEF Verify, BindFails, Goto, files, threads, TypeOK, PreBind, Published, Stop
  <1>12. ASSUME NEW s \in Servers, StopAccepting(s) PROVE TypeOK'
    BY <1>12 DEF StopAccepting, Goto, files, threads, TypeOK, PreBind, Published, Stop
  <1>13. ASSUME NEW s \in Servers, JoinConnections(s) PROVE TypeOK'
    BY <1>13 DEF JoinConnections, Goto, files, threads, TypeOK, PreBind, Published, Stop
  <1>14. ASSUME NEW s \in Servers, CheckOwned(s) PROVE TypeOK'
    BY <1>14 DEF CheckOwned, Goto, files, threads, TypeOK, PreBind, Published, Stop
  <1>15. ASSUME NEW s \in Servers, RemoveOwned(s) PROVE TypeOK'
    BY <1>15 DEF RemoveOwned, Goto, files, threads, TypeOK, PreBind, Published, Stop
  <1>16. ASSUME NEW s \in Servers, SendStop(s) PROVE TypeOK'
    <2>1. queue'[s] \in Seq(Clients \cup {Stop})
      BY <1>16 DEF SendStop, TypeOK
    <2> QED
      BY <1>16, <2>1 DEF SendStop, files, TypeOK
  <1>17. ASSUME NEW s \in Servers, JoinWorkers(s) PROVE TypeOK'
    BY <1>17 DEF JoinWorkers, Goto, files, threads, TypeOK, PreBind, Published, Stop
  <1>18. ASSUME NEW s \in Servers, Signal(s) PROVE TypeOK'
    BY <1>18 DEF Signal, files, threads, TypeOK, PreBind, Published, Stop
  <1>19. ASSUME NEW s \in Servers, AcceptFails(s) PROVE TypeOK'
    BY <1>19 DEF AcceptFails, Goto, files, threads, TypeOK, PreBind, Published, Stop
  <1>20. ASSUME NEW s \in Servers, Crash(s) PROVE TypeOK'
    <2>1. [c \in Clients |-> IF client[s][c] = "none" THEN "none" ELSE "ended"]
              \in [Clients -> Connections]
      BY DEF Connections
    <2>2. [w \in Workers |-> "none"] \in [Workers -> Clients \cup {"none", "idle", Stop}]
      OBVIOUS
    <2>3. <<>> \in Seq(Clients \cup {Stop})
      OBVIOUS
    <2> QED
      BY <1>20, <2>1, <2>2, <2>3 DEF Crash, Goto, files, TypeOK, PreBind, Published
  <1>21. ASSUME NEW s \in Servers, NEW c \in Clients, ClientConnects(s, c) PROVE TypeOK'
    BY <1>21 DEF ClientConnects, files, threads, TypeOK, Connections
  <1>22. ASSUME NEW s \in Servers, NEW c \in Clients, ClientLeaves(s, c) PROVE TypeOK'
    BY <1>22 DEF ClientLeaves, files, threads, TypeOK, Connections
  <1>23. ASSUME NEW s \in Servers, NEW c \in Clients, Accept(s, c) PROVE TypeOK'
    BY <1>23 DEF Accept, files, threads, TypeOK, Connections
  <1>24. ASSUME NEW s \in Servers, NEW c \in Clients, Submit(s, c) PROVE TypeOK'
    <2>1. queue'[s] \in Seq(Clients \cup {Stop})
      BY <1>24 DEF Submit, TypeOK
    <2> QED
      BY <1>24, <2>1 DEF Submit, files, TypeOK
  <1>25. ASSUME NEW s \in Servers, NEW c \in Clients, ConnectionEnds(s, c) PROVE TypeOK'
    BY <1>25 DEF ConnectionEnds, files, threads, TypeOK, Connections
  <1>26. ASSUME NEW s \in Servers, NEW w \in Workers, WorkerTakes(s, w) PROVE TypeOK'
    <2>1. Head(queue[s]) \in Clients \cup {Stop} /\ Tail(queue[s]) \in Seq(Clients \cup {Stop})
      BY <1>26 DEF WorkerTakes, TypeOK
    <2> QED
      BY <1>26, <2>1 DEF WorkerTakes, files, TypeOK
  <1>27. ASSUME NEW s \in Servers, NEW w \in Workers, WorkerFinishes(s, w) PROVE TypeOK'
    BY <1>27 DEF WorkerFinishes, files, threads, TypeOK, PreBind, Published, Stop
  <1> QED
    BY <1>1, <1>2, <1>3, <1>4, <1>5, <1>6, <1>7, <1>8, <1>9, <1>10, <1>11, <1>12, <1>13,
       <1>14, <1>15, <1>16, <1>17, <1>18, <1>19, <1>20, <1>21, <1>22, <1>23, <1>24,
       <1>25, <1>26, <1>27
       DEF Next, Main

--------------------------------------------------------------------------------
(***************************************************************************)
(* Files.                                                                  *)
(***************************************************************************)

\* A server that gives up binding removes nothing but its own names.
LEMMA BindFailsFiles ==
    ASSUME TypeOK, FilesInv, NEW s \in Servers, BindFails(s)
    PROVE  FilesInv'
  <1>1. /\ pc' = [pc EXCEPT ![s] = "stopping"]
        /\ entry' \in {entry, None} /\ entry' # s
        /\ \A u \in Servers : u # s /\ entry = u => entry' = u
        /\ temp' = [temp EXCEPT ![s] = FALSE]
        /\ UNCHANGED <<found, raced>>
    BY LifecycleAssumption DEF BindFails, Goto, TypeOK
  <1>2. SocketsPublished' /\ StaleIsDead'
    BY <1>1, LifecycleAssumption
       DEF FilesInv, SocketsPublished, StaleIsDead, PathKept, FilesGone, TypeOK,
           PreBind, Published, Listening
  <1>3. PathKept' /\ FilesGone'
    BY <1>1, LifecycleAssumption
       DEF FilesInv, SocketsPublished, StaleIsDead, PathKept, FilesGone, TypeOK,
           PreBind, Published, Listening
  <1> QED
    BY <1>2, <1>3 DEF FilesInv

\* A server whose main thread moves without touching a file, from where it has no
\* duty to places where it has none either.
LEMMA MoveFiles ==
    ASSUME TypeOK, FilesInv, NEW s \in Servers, NEW l, Goto(s, l), UNCHANGED <<files, found>>,
           pc[s] \in Published => l \in Published,
           l \in {"unlink", "verify", "accept"} /\ ~raced => entry = s,
           l \in {"stopping", "ended"} => entry # s,
           temp[s] => l \in {"publish", "unlink", "crashed"},
           l \notin {"recheck", "remove"},
           Listening(s)' => Listening(s) \/ pc[s] \notin Published
    PROVE  FilesInv'
  BY
     DEF Goto, files, FilesInv, SocketsPublished, StaleIsDead, PathKept, FilesGone,
         TypeOK, PreBind, Published, Listening

\* One step per action; what threads do touches no file.
LEMMA NextFiles == TypeOK /\ FilesInv /\ [Next]_vars => FilesInv'
  <1> SUFFICES ASSUME TypeOK, FilesInv, [Next]_vars PROVE FilesInv'
    OBVIOUS
  <1>1. CASE UNCHANGED <<files, pc, found>>
    BY <1>1 DEF files, FilesInv, SocketsPublished, StaleIsDead, PathKept, FilesGone, Listening
  <1>2. ASSUME NEW s \in Servers, Launch(s) PROVE FilesInv'
    BY <1>2, MoveFiles
       DEF Launch, Published, PreBind, Listening, files, FilesInv, PathKept, FilesGone
  <1>3. ASSUME NEW s \in Servers, Look(s) PROVE FilesInv'
    <2>1. CASE entry = None /\ Goto(s, "bind") /\ UNCHANGED <<files, found>>
      BY <1>3, <2>1, MoveFiles DEF Look, Published, Listening, files, FilesInv, FilesGone
    <2>2. CASE /\ found' = [found EXCEPT ![s] = entry]
               /\ Goto(s, "connect") /\ UNCHANGED files
      BY <1>3, <2>2, LifecycleAssumption
         DEF Look, Goto, files, FilesInv, SocketsPublished, StaleIsDead, PathKept,
             FilesGone, TypeOK, PreBind, Published, Listening
    <2> QED
      BY <1>3, <2>1, <2>2, BindFailsFiles DEF Look
  <1>4. ASSUME NEW s \in Servers, Connect(s) PROVE FilesInv'
    <2>1. CASE /\ ~(entry \in Servers /\ Listening(entry))
               /\ Goto(s, "recheck") /\ UNCHANGED <<files, found>>
      BY <1>4, <2>1, LifecycleAssumption
         DEF Connect, Goto, files, FilesInv, SocketsPublished, StaleIsDead,
             PathKept, FilesGone, TypeOK, PreBind, Published, Listening
    <2> QED
      BY <1>4, <2>1, BindFailsFiles DEF Connect
  <1>5. ASSUME NEW s \in Servers, Recheck(s) PROVE FilesInv'
    <2>1. CASE Goto(s, "remove") /\ UNCHANGED <<files, found>>
      BY <1>5, <2>1, LifecycleAssumption
         DEF Recheck, Goto, files, FilesInv, SocketsPublished, StaleIsDead,
             PathKept, FilesGone, TypeOK, PreBind, Published, Listening
    <2> QED
      BY <1>5, <2>1, BindFailsFiles DEF Recheck
  <1>6. ASSUME NEW s \in Servers, RemoveStale(s) PROVE FilesInv'
    <2>1. CASE /\ entry # None /\ entry' = None
               /\ raced' = (raced \/ entry # found[s])
               /\ Goto(s, "bind") /\ UNCHANGED <<temp, found>>
      <3>1. SocketsPublished' /\ StaleIsDead' /\ FilesGone'
        BY <1>6, <2>1, LifecycleAssumption
           DEF RemoveStale, Goto, FilesInv, SocketsPublished, StaleIsDead,
               PathKept, FilesGone, TypeOK, PreBind, Published, Listening
      <3>2. ASSUME NEW u \in Servers, pc'[u] \in {"unlink", "verify", "accept"}, ~raced'
            PROVE  FALSE
        <4>1. pc[u] = pc'[u] /\ ~raced /\ entry = found[s] /\ u # s
          BY <1>6, <2>1, <3>2 DEF RemoveStale, Goto, TypeOK
        <4>2. entry = u /\ Listening(u)
          BY <3>2, <4>1 DEF FilesInv, PathKept, Listening
        <4> QED
          BY <1>6, <4>1, <4>2 DEF RemoveStale, FilesInv, StaleIsDead
      <3> QED
        BY <3>1, <3>2 DEF FilesInv, PathKept
    <2> QED
      BY <1>6, <2>1, BindFailsFiles DEF RemoveStale
  <1>7. ASSUME NEW s \in Servers, BindTemporary(s) PROVE FilesInv'
    BY <1>7, LifecycleAssumption
       DEF BindTemporary, Goto, files, FilesInv, SocketsPublished, StaleIsDead,
           PathKept, FilesGone, TypeOK, PreBind, Published, Listening
  <1>8. ASSUME NEW s \in Servers, BindStepFails(s) PROVE FilesInv'
    BY <1>8, BindFailsFiles DEF BindStepFails
  <1>9. ASSUME NEW s \in Servers, Publish(s) PROVE FilesInv'
    <2>1. CASE /\ entry = None /\ entry' = s
               /\ Goto(s, "unlink") /\ UNCHANGED <<temp, raced, found>>
      <3>1. SocketsPublished' /\ FilesGone'
        BY <1>9, <2>1, LifecycleAssumption
           DEF Publish, Goto, FilesInv, SocketsPublished, StaleIsDead, PathKept,
               FilesGone, TypeOK, PreBind, Published, Listening
      <3>2. \A u \in Servers : found'[u] # s
        BY <1>9, <2>1 DEF Publish, FilesInv, SocketsPublished, Published
      <3>3. PathKept'
        BY <1>9, <2>1, LifecycleAssumption
           DEF Publish, Goto, FilesInv, SocketsPublished, StaleIsDead, PathKept,
               FilesGone, TypeOK, PreBind, Published, Listening
      <3> QED
        BY <2>1, <3>1, <3>2, <3>3 DEF FilesInv, StaleIsDead
    <2> QED
      BY <1>9, <2>1, BindFailsFiles DEF Publish
  <1>10. ASSUME NEW s \in Servers, UnlinkTemporary(s) PROVE FilesInv'
    BY <1>10, LifecycleAssumption
       DEF UnlinkTemporary, Goto, files, FilesInv, SocketsPublished, StaleIsDead,
           PathKept, FilesGone, TypeOK, PreBind, Published, Listening
  <1>11. ASSUME NEW s \in Servers, Verify(s) PROVE FilesInv'
    <2>1. CASE entry = s /\ Goto(s, "accept") /\ UNCHANGED <<files, found>>
      BY <1>11, <2>1, MoveFiles DEF Verify, Published, Listening, files, FilesInv, FilesGone
    <2> QED
      BY <1>11, <2>1, BindFailsFiles DEF Verify
  <1>12. ASSUME NEW s \in Servers, StopAccepting(s) PROVE FilesInv'
    BY <1>12, MoveFiles
       DEF StopAccepting, Published, PreBind, Listening, files, FilesInv, PathKept, FilesGone
  <1>13. ASSUME NEW s \in Servers, JoinConnections(s) PROVE FilesInv'
    BY <1>13, MoveFiles
       DEF JoinConnections, Published, PreBind, Listening, files, FilesInv, PathKept, FilesGone
  <1>14. ASSUME NEW s \in Servers, CheckOwned(s) PROVE FilesInv'
    BY <1>14, MoveFiles
       DEF CheckOwned, Published, PreBind, Listening, files, FilesInv, PathKept, FilesGone
  <1>15. ASSUME NEW s \in Servers, RemoveOwned(s) PROVE FilesInv'
    BY <1>15, LifecycleAssumption
       DEF RemoveOwned, Goto, files, FilesInv, SocketsPublished, StaleIsDead,
           PathKept, FilesGone, TypeOK, PreBind, Published, Listening
  <1>16. ASSUME NEW s \in Servers, JoinWorkers(s) PROVE FilesInv'
    <2>1. ~Listening(s)'
      BY <1>16 DEF JoinWorkers, Goto, TypeOK, Listening
    <2>2. Goto(s, "ended") /\ UNCHANGED <<files, found>> /\ entry # s /\ ~temp[s]
      BY <1>16 DEF JoinWorkers, files, FilesInv, FilesGone
    <2> QED
      BY <2>1, <2>2, MoveFiles DEF Published
  <1>17. ASSUME NEW s \in Servers, SendStop(s) PROVE FilesInv'
    BY <1>17, <1>1 DEF SendStop
  <1>18. ASSUME NEW s \in Servers, AcceptFails(s) PROVE FilesInv'
    BY <1>18, MoveFiles
       DEF AcceptFails, Published, PreBind, Listening, files, FilesInv, PathKept, FilesGone
  <1>19. ASSUME NEW s \in Servers, Crash(s) PROVE FilesInv'
    <2>1. ~Listening(s)'
      BY <1>19 DEF Crash, Goto, TypeOK, Listening
    <2>2. Goto(s, "crashed") /\ UNCHANGED <<files, found>>
      BY <1>19 DEF Crash, files
    <2> QED
      BY <2>1, <2>2, MoveFiles DEF Published
  <1>20. ASSUME NEW s \in Servers, Signal(s) PROVE FilesInv'
    BY <1>20, <1>1 DEF Signal
  <1>21. ASSUME NEW s \in Servers, NEW c \in Clients, ClientConnects(s, c) PROVE FilesInv'
    BY <1>21, <1>1 DEF ClientConnects
  <1>22. ASSUME NEW s \in Servers, NEW c \in Clients, ClientLeaves(s, c) PROVE FilesInv'
    BY <1>22, <1>1 DEF ClientLeaves
  <1>23. ASSUME NEW s \in Servers, NEW c \in Clients, Accept(s, c) PROVE FilesInv'
    BY <1>23, <1>1 DEF Accept
  <1>24. ASSUME NEW s \in Servers, NEW c \in Clients, Submit(s, c) PROVE FilesInv'
    BY <1>24, <1>1 DEF Submit
  <1>25. ASSUME NEW s \in Servers, NEW c \in Clients, ConnectionEnds(s, c) PROVE FilesInv'
    BY <1>25, <1>1 DEF ConnectionEnds
  <1>26. ASSUME NEW s \in Servers, NEW w \in Workers, WorkerTakes(s, w) PROVE FilesInv'
    BY <1>26, <1>1 DEF WorkerTakes
  <1>27. ASSUME NEW s \in Servers, NEW w \in Workers, WorkerFinishes(s, w) PROVE FilesInv'
    BY <1>27, <1>1 DEF WorkerFinishes
  <1> QED
    BY <1>1, <1>2, <1>3, <1>4, <1>5, <1>6, <1>7, <1>8, <1>9, <1>10, <1>11, <1>12, <1>13,
       <1>14, <1>15, <1>16, <1>17, <1>18, <1>19, <1>20, <1>21, <1>22, <1>23, <1>24,
       <1>25, <1>26, <1>27
       DEF Next, Main, vars, files

--------------------------------------------------------------------------------
(***************************************************************************)
(* Jobs and connections.                                                   *)
(***************************************************************************)

LEMMA RangeOfAppend ==
    ASSUME NEW S, NEW q \in Seq(S), NEW e \in S
    PROVE  Range(Append(q, e)) = Range(q) \cup {e}
  <1>1. /\ DOMAIN q = 1 .. Len(q) /\ DOMAIN Append(q, e) = 1 .. Len(q) + 1
        /\ Append(q, e)[Len(q) + 1] = e
        /\ \A n \in DOMAIN q : Append(q, e)[n] = q[n]
        /\ Len(q) \in Nat
    OBVIOUS
  <1>2. \A n \in DOMAIN Append(q, e) : n \in DOMAIN q \/ n = Len(q) + 1
    BY <1>1
  <1>3. DOMAIN q \subseteq DOMAIN Append(q, e) /\ Len(q) + 1 \in DOMAIN Append(q, e)
    BY <1>1
  <1> QED
    BY <1>1, <1>2, <1>3 DEF Range

LEMMA RangeOfTail ==
    ASSUME NEW S, NEW q \in Seq(S), q # <<>>
    PROVE  Head(q) \in Range(q) /\ Range(Tail(q)) \subseteq Range(q)
  <1>1. /\ DOMAIN q = 1 .. Len(q) /\ Len(q) \in Nat /\ Len(q) >= 1
        /\ DOMAIN Tail(q) = 1 .. Len(q) - 1
        /\ \A n \in DOMAIN Tail(q) : Tail(q)[n] = q[n + 1]
        /\ Head(q) = q[1]
    OBVIOUS
  <1>2. 1 \in DOMAIN q /\ \A n \in DOMAIN Tail(q) : n + 1 \in DOMAIN q
    BY <1>1
  <1> QED
    BY <1>1, <1>2 DEF Range

LEMMA StopsFinite ==
    ASSUME NEW S, NEW q \in Seq(S)
    PROVE  IsFiniteSet(Stops(q)) /\ Cardinality(Stops(q)) \in Nat
  <1>1. Stops(q) \subseteq 1 .. Len(q) /\ Len(q) \in Nat
    BY DEF Stops
  <1>2. IsFiniteSet(1 .. Len(q))
    BY <1>1, FS_Interval
  <1>3. IsFiniteSet(Stops(q))
    BY <1>1, <1>2, FS_Subset
  <1> QED
    BY <1>3, FS_CardinalityType

LEMMA StopsOfAppend ==
    ASSUME NEW S, NEW q \in Seq(S), NEW e \in S
    PROVE  /\ e # Stop => Stops(Append(q, e)) = Stops(q)
           /\ Cardinality(Stops(Append(q, e))) <= Cardinality(Stops(q)) + 1
  <1>1. Stops(Append(q, e)) = Stops(q) \cup (IF e = Stop THEN {Len(q) + 1} ELSE {})
    BY DEF Stops
  <1>2. Cardinality(Stops(q) \cup {Len(q) + 1}) <= Cardinality(Stops(q)) + 1
    <2>1. IsFiniteSet(Stops(q)) /\ Cardinality(Stops(q)) \in Nat
      BY StopsFinite
    <2>2. Cardinality(Stops(q) \cup {Len(q) + 1}) =
              IF Len(q) + 1 \in Stops(q) THEN Cardinality(Stops(q)) ELSE Cardinality(Stops(q)) + 1
      BY <2>1, FS_AddElement
    <2> QED
      BY <2>1, <2>2
  <1>3. Cardinality(Stops(q)) \in Nat
    BY StopsFinite
  <1>4. CASE e = Stop
    BY <1>1, <1>2, <1>4
  <1>5. CASE e # Stop
    <2>1. Stops(Append(q, e)) = Stops(q)
      BY <1>1, <1>5
    <2> QED
      BY <1>3, <1>5, <2>1
  <1> QED
    BY <1>4, <1>5

\* Taking the head moves the places of the others down by one.
LEMMA StopsOfTail ==
    ASSUME NEW S, NEW q \in Seq(S), q # <<>>
    PROVE  /\ Cardinality(Stops(Tail(q)))
                 <= Cardinality(Stops(q)) - (IF Head(q) = Stop THEN 1 ELSE 0)
           /\ Stops(Tail(q)) # {} => Stops(q) # {}
           /\ Head(q) = Stop => Stops(q) # {}
  <1> DEFINE up == [n \in Stops(Tail(q)) |-> n + 1]
             rest == Stops(q) \ {1}
  <1>1. \A n \in Stops(Tail(q)) : n \in Nat /\ n + 1 \in rest
    BY DEF Stops
  <1>2. up \in Injection(Stops(Tail(q)), rest)
    BY <1>1 DEF Injection, IsInjective
  <1>3. IsFiniteSet(rest) /\ Cardinality(rest) = IF 1 \in Stops(q)
                                                THEN Cardinality(Stops(q)) - 1
                                                ELSE Cardinality(Stops(q))
    BY StopsFinite, FS_RemoveElement
  <1>4. Cardinality(Stops(Tail(q))) <= Cardinality(rest)
    BY <1>2, <1>3, FS_Injection
  <1>5. 1 \in Stops(q) <=> Head(q) = Stop
    BY DEF Stops
  <1> QED
    BY <1>1, <1>3, <1>4, <1>5, StopsFinite

\* A main thread that moves leaves connections as they are.
LEMMA MoveServed ==
    ASSUME ServedWhileOpen, NEW s \in Servers, UNCHANGED threads,
           \A u \in Servers \ {s} : pc'[u] = pc[u],
           pc[s] \in {"accept", "join"} /\ Served(s) # {} => pc'[s] \in {"accept", "join"}
    PROVE  ServedWhileOpen'
  BY DEF threads, ServedWhileOpen, Served, HasJob

\* One step per action.
LEMMA NextServed == TypeOK /\ ServedWhileOpen /\ [Next]_vars => ServedWhileOpen'
  <1> SUFFICES ASSUME TypeOK, ServedWhileOpen, [Next]_vars PROVE ServedWhileOpen'
    OBVIOUS
  <1>1. CASE UNCHANGED <<pc, threads>>
    BY <1>1 DEF threads, ServedWhileOpen, Served, HasJob
  <1>2. ASSUME NEW s \in Servers, Launch(s) PROVE ServedWhileOpen'
    <2>1. /\ pc' = [pc EXCEPT ![s] = "look"] /\ pc[s] = "off"
          /\ worker' = [worker EXCEPT ![s] = [w \in Workers |-> "idle"]]
          /\ UNCHANGED <<client, queue>>
      BY <1>2 DEF Launch, Goto
    <2> QED
      BY <2>1, LifecycleAssumption DEF TypeOK, ServedWhileOpen, Served, HasJob
  <1>3. ASSUME NEW s \in Servers, Look(s) PROVE ServedWhileOpen'
    BY <1>3, MoveServed DEF Look, BindFails, Goto, TypeOK
  <1>4. ASSUME NEW s \in Servers, Recheck(s) PROVE ServedWhileOpen'
    BY <1>4, MoveServed DEF Recheck, BindFails, Goto, TypeOK
  <1>5. ASSUME NEW s \in Servers, RemoveStale(s) PROVE ServedWhileOpen'
    BY <1>5, MoveServed DEF RemoveStale, BindFails, Goto, TypeOK
  <1>6. ASSUME NEW s \in Servers, BindTemporary(s) PROVE ServedWhileOpen'
    BY <1>6, MoveServed DEF BindTemporary, Goto, TypeOK
  <1>7. ASSUME NEW s \in Servers, BindStepFails(s) PROVE ServedWhileOpen'
    BY <1>7, MoveServed DEF BindStepFails, BindFails, Goto, TypeOK
  <1>8. ASSUME NEW s \in Servers, Publish(s) PROVE ServedWhileOpen'
    BY <1>8, MoveServed DEF Publish, BindFails, Goto, TypeOK
  <1>9. ASSUME NEW s \in Servers, UnlinkTemporary(s) PROVE ServedWhileOpen'
    BY <1>9, MoveServed DEF UnlinkTemporary, Goto, TypeOK
  <1>10. ASSUME NEW s \in Servers, Verify(s) PROVE ServedWhileOpen'
    BY <1>10, MoveServed DEF Verify, BindFails, Goto, TypeOK
  <1>11. ASSUME NEW s \in Servers, StopAccepting(s) PROVE ServedWhileOpen'
    BY <1>11, MoveServed DEF StopAccepting, Goto, TypeOK
  <1>12. ASSUME NEW s \in Servers, JoinConnections(s) PROVE ServedWhileOpen'
    BY <1>12, MoveServed DEF JoinConnections, Goto, TypeOK
  <1>13. ASSUME NEW s \in Servers, CheckOwned(s) PROVE ServedWhileOpen'
    BY <1>13, MoveServed DEF CheckOwned, Goto, TypeOK
  <1>14. ASSUME NEW s \in Servers, RemoveOwned(s) PROVE ServedWhileOpen'
    BY <1>14, MoveServed DEF RemoveOwned, Goto, TypeOK
  <1>15. ASSUME NEW s \in Servers, JoinWorkers(s) PROVE ServedWhileOpen'
    BY <1>15, MoveServed DEF JoinWorkers, Goto, TypeOK
  <1>16. ASSUME NEW s \in Servers, AcceptFails(s) PROVE ServedWhileOpen'
    BY <1>16, MoveServed DEF AcceptFails, Goto, TypeOK
  <1>17. ASSUME NEW s \in Servers, Connect(s) PROVE ServedWhileOpen'
    <2>1. /\ \A u \in Servers \ {s} : pc'[u] = pc[u]
          /\ pc[s] = "connect" /\ UNCHANGED <<queue, worker>>
      BY <1>17 DEF Connect, BindFails, Goto, TypeOK
    <2>2. \A u \in Servers : Served(u)' = Served(u)
      <3>1. CASE UNCHANGED client
        BY <3>1 DEF Served
      <3>2. CASE entry \in Servers /\ \E c \in Clients :
                     Unused(c) /\ client' = [client EXCEPT ![entry][c] = "probe"]
        BY <3>2 DEF Served, Unused, TypeOK
      <3> QED
        BY <1>17, <3>1, <3>2 DEF Connect
    <2> QED
      BY <2>1, <2>2 DEF ServedWhileOpen, HasJob
  <1>18. ASSUME NEW s \in Servers, SendStop(s) PROVE ServedWhileOpen'
    <2>1. \A c \in Clients : c \in Range(queue'[s]) => c \in Range(queue[s])
      <3>1. /\ queue'[s] = Append(queue[s], Stop)
            /\ queue[s] \in Seq(Clients \cup {Stop}) /\ Stop \in Clients \cup {Stop}
        BY <1>18 DEF SendStop, TypeOK
      <3>2. Range(queue'[s]) = Range(queue[s]) \cup {Stop}
        BY <3>1, RangeOfAppend
      <3> QED
        BY <3>2, LifecycleAssumption DEF Stop
    <2> QED
      BY <1>18, <2>1 DEF SendStop, TypeOK, ServedWhileOpen, Served, HasJob
  <1>19. ASSUME NEW s \in Servers, Signal(s) PROVE ServedWhileOpen'
    BY <1>19, <1>1 DEF Signal
  <1>20. ASSUME NEW s \in Servers, Crash(s) PROVE ServedWhileOpen'
    <2>1. /\ \A u \in Servers \ {s} : /\ pc'[u] = pc[u] /\ client'[u] = client[u]
                                      /\ queue'[u] = queue[u] /\ worker'[u] = worker[u]
          /\ \A c \in Clients : client'[s][c] \in {"none", "ended"}
          /\ queue'[s] = <<>> /\ \A w \in Workers : worker'[s][w] = "none"
      BY <1>20 DEF Crash, Goto, TypeOK
    <2>2. Served(s)' = {} /\ \A c \in Clients : ~HasJob(s, c)'
      BY <2>1, LifecycleAssumption DEF Served, HasJob, Range
    <2> QED
      BY <2>1, <2>2 DEF ServedWhileOpen, Served, HasJob
  <1>21. ASSUME NEW s \in Servers, NEW c \in Clients, Accept(s, c) PROVE ServedWhileOpen'
    <2>1. /\ pc' = pc /\ pc[s] = "accept" /\ UNCHANGED <<queue, worker>>
          /\ \A u \in Servers \ {s} : client'[u] = client[u]
          /\ c \notin Served(s)
          /\ \A d \in Clients \ {c} : client'[s][d] = client[s][d]
      BY <1>21 DEF Accept, TypeOK, Served
    <2> QED
      BY <2>1 DEF ServedWhileOpen, Served, HasJob
  <1>22. ASSUME NEW s \in Servers, NEW c \in Clients, ClientConnects(s, c) PROVE ServedWhileOpen'
    BY <1>22 DEF ClientConnects, Unused, TypeOK, ServedWhileOpen, Served, HasJob
  <1>23. ASSUME NEW s \in Servers, NEW c \in Clients, ClientLeaves(s, c) PROVE ServedWhileOpen'
    BY <1>23 DEF ClientLeaves, TypeOK, ServedWhileOpen, Served, HasJob
  <1>24. ASSUME NEW s \in Servers, NEW c \in Clients, ConnectionEnds(s, c) PROVE ServedWhileOpen'
    BY <1>24 DEF ConnectionEnds, TypeOK, ServedWhileOpen, Served, HasJob
  <1>25. ASSUME NEW s \in Servers, NEW c \in Clients, Submit(s, c) PROVE ServedWhileOpen'
    <2>1. \A d \in Clients : d \in Range(queue'[s]) => d = c \/ d \in Range(queue[s])
      <3>1. /\ queue'[s] = Append(queue[s], c)
            /\ queue[s] \in Seq(Clients \cup {Stop}) /\ c \in Clients \cup {Stop}
        BY <1>25 DEF Submit, TypeOK
      <3>2. Range(queue'[s]) = Range(queue[s]) \cup {c}
        BY <3>1, RangeOfAppend
      <3> QED
        BY <3>2
    <2> QED
      BY <1>25, <2>1 DEF Submit, TypeOK, ServedWhileOpen, Served, HasJob
  <1>26. ASSUME NEW s \in Servers, NEW w \in Workers, WorkerTakes(s, w) PROVE ServedWhileOpen'
    <2>1. Head(queue[s]) \in Range(queue[s]) /\ Range(queue'[s]) \subseteq Range(queue[s])
      BY <1>26, RangeOfTail DEF WorkerTakes, TypeOK
    <2> QED
      BY <1>26, <2>1 DEF WorkerTakes, TypeOK, ServedWhileOpen, Served, HasJob
  <1>27. ASSUME NEW s \in Servers, NEW w \in Workers, WorkerFinishes(s, w) PROVE ServedWhileOpen'
    BY <1>27, LifecycleAssumption DEF WorkerFinishes, TypeOK, ServedWhileOpen, Served, HasJob
  <1> QED
    BY <1>1, <1>2, <1>3, <1>4, <1>5, <1>6, <1>7, <1>8, <1>9, <1>10, <1>11, <1>12, <1>13,
       <1>14, <1>15, <1>16, <1>17, <1>18, <1>19, <1>20, <1>21, <1>22, <1>23, <1>24,
       <1>25, <1>26, <1>27
       DEF Next, Main, vars, threads

--------------------------------------------------------------------------------
(***************************************************************************)
(* Orders to stop.                                                         *)
(***************************************************************************)

LEMMA WorkersFinite ==
    ASSUME NEW s \in Servers
    PROVE  /\ IsFiniteSet(StoppedWorkers(s)) /\ Cardinality(StoppedWorkers(s)) \in Nat
           /\ Cardinality(Workers) \in Nat
  <1>1. StoppedWorkers(s) \in SUBSET Workers
    BY DEF StoppedWorkers
  <1>2. IsFiniteSet(StoppedWorkers(s))
    BY <1>1, FS_Subset, LifecycleAssumption
  <1> QED
    BY <1>2, FS_CardinalityType, LifecycleAssumption

LEMMA MoveStops ==
    ASSUME StopsCounted, NEW s \in Servers, UNCHANGED <<queue, worker>>,
           \A u \in Servers \ {s} : pc'[u] = pc[u],
           pc[s] \in {"stopping", "ended"} => pc'[s] \in {"stopping", "ended"},
           pc'[s] = "ended" => \A w \in Workers : worker[s][w] = Stop
    PROVE  StopsCounted'
  BY DEF StopsCounted, QueuedStops, StoppedWorkers

\* Only what happens at server s matters for it.
LEMMA OtherStops ==
    ASSUME StopsCounted, NEW s \in Servers,
           \A u \in Servers \ {s} :
               pc'[u] = pc[u] /\ queue'[u] = queue[u] /\ worker'[u] = worker[u],
           QueuedStops(s)' # {} \/ StoppedWorkers(s)' # {} => pc'[s] \in {"stopping", "ended"},
           Cardinality(QueuedStops(s)') + Cardinality(StoppedWorkers(s)') <= Cardinality(Workers),
           pc'[s] = "ended" => \A w \in Workers : worker'[s][w] = Stop
    PROVE  StopsCounted'
  <1>1. ASSUME NEW u \in Servers \ {s}
        PROVE  QueuedStops(u)' = QueuedStops(u) /\ StoppedWorkers(u)' = StoppedWorkers(u)
    BY DEF QueuedStops, StoppedWorkers
  <1> QED
    BY <1>1 DEF StopsCounted

\* One step per action.
LEMMA NextStops ==
    TypeOK /\ ServedWhileOpen /\ StopsCounted /\ [Next]_vars => StopsCounted'
  <1> SUFFICES ASSUME TypeOK, ServedWhileOpen, StopsCounted, [Next]_vars PROVE StopsCounted'
    OBVIOUS
  <1>1. CASE UNCHANGED <<pc, queue, worker>>
    BY <1>1 DEF StopsCounted, QueuedStops, StoppedWorkers
  <1>2. ASSUME NEW s \in Servers, Launch(s) PROVE StopsCounted'
    <2>1. /\ \A u \in Servers \ {s} :
                 pc'[u] = pc[u] /\ queue'[u] = queue[u] /\ worker'[u] = worker[u]
          /\ pc[s] = "off" /\ pc'[s] = "look" /\ queue' = queue
          /\ \A w \in Workers : worker'[s][w] = "idle"
      BY <1>2 DEF Launch, Goto, TypeOK
    <2>2. QueuedStops(s)' = {} /\ StoppedWorkers(s)' = {}
      BY <2>1 DEF StopsCounted, QueuedStops, StoppedWorkers, Stop
    <2>3. Cardinality(QueuedStops(s)') + Cardinality(StoppedWorkers(s)') <= Cardinality(Workers)
      BY <2>2, WorkersFinite, FS_EmptySet
    <2> QED
      BY <2>1, <2>2, <2>3, OtherStops
  <1>3. ASSUME NEW s \in Servers, Look(s) PROVE StopsCounted'
    BY <1>3, MoveStops DEF Look, BindFails, Goto, TypeOK, threads
  <1>4. ASSUME NEW s \in Servers, Connect(s) PROVE StopsCounted'
    BY <1>4, MoveStops DEF Connect, BindFails, Goto, TypeOK
  <1>5. ASSUME NEW s \in Servers, Recheck(s) PROVE StopsCounted'
    BY <1>5, MoveStops DEF Recheck, BindFails, Goto, TypeOK, threads
  <1>6. ASSUME NEW s \in Servers, RemoveStale(s) PROVE StopsCounted'
    BY <1>6, MoveStops DEF RemoveStale, BindFails, Goto, TypeOK, threads
  <1>7. ASSUME NEW s \in Servers, BindTemporary(s) PROVE StopsCounted'
    BY <1>7, MoveStops DEF BindTemporary, Goto, TypeOK, threads
  <1>8. ASSUME NEW s \in Servers, BindStepFails(s) PROVE StopsCounted'
    BY <1>8, MoveStops DEF BindStepFails, BindFails, Goto, TypeOK, threads
  <1>9. ASSUME NEW s \in Servers, Publish(s) PROVE StopsCounted'
    BY <1>9, MoveStops DEF Publish, BindFails, Goto, TypeOK, threads
  <1>10. ASSUME NEW s \in Servers, UnlinkTemporary(s) PROVE StopsCounted'
    BY <1>10, MoveStops DEF UnlinkTemporary, Goto, TypeOK, threads
  <1>11. ASSUME NEW s \in Servers, Verify(s) PROVE StopsCounted'
    BY <1>11, MoveStops DEF Verify, BindFails, Goto, TypeOK, threads
  <1>12. ASSUME NEW s \in Servers, StopAccepting(s) PROVE StopsCounted'
    BY <1>12, MoveStops DEF StopAccepting, Goto, TypeOK, threads
  <1>13. ASSUME NEW s \in Servers, JoinConnections(s) PROVE StopsCounted'
    BY <1>13, MoveStops DEF JoinConnections, Goto, TypeOK, threads
  <1>14. ASSUME NEW s \in Servers, CheckOwned(s) PROVE StopsCounted'
    BY <1>14, MoveStops DEF CheckOwned, Goto, TypeOK, threads
  <1>15. ASSUME NEW s \in Servers, RemoveOwned(s) PROVE StopsCounted'
    BY <1>15, MoveStops DEF RemoveOwned, Goto, TypeOK, threads
  <1>16. ASSUME NEW s \in Servers, JoinWorkers(s) PROVE StopsCounted'
    BY <1>16, MoveStops DEF JoinWorkers, Goto, TypeOK, threads
  <1>17. ASSUME NEW s \in Servers, AcceptFails(s) PROVE StopsCounted'
    BY <1>17, MoveStops DEF AcceptFails, Goto, TypeOK, threads
  <1>18. ASSUME NEW s \in Servers, SendStop(s) PROVE StopsCounted'
    <2>1. /\ \A u \in Servers \ {s} : queue'[u] = queue[u]
          /\ pc[s] = "stopping" /\ UNCHANGED <<pc, worker>>
          /\ queue'[s] = Append(queue[s], Stop)
          /\ queue[s] \in Seq(Clients \cup {Stop}) /\ Stop \in Clients \cup {Stop}
      BY <1>18 DEF SendStop, TypeOK
    <2>2. Cardinality(QueuedStops(s)) + Cardinality(StoppedWorkers(s)) < Cardinality(Workers)
      BY <1>18 DEF SendStop, StopsSent, QueuedStops, Stops, StoppedWorkers
    <2>3. Cardinality(QueuedStops(s)') <= Cardinality(QueuedStops(s)) + 1
      BY <2>1, StopsOfAppend DEF QueuedStops
    <2>4. Cardinality(QueuedStops(s)) \in Nat
      BY <2>1, StopsFinite DEF QueuedStops
    <2>5. Cardinality(QueuedStops(s)') \in Nat
      <3>1. queue'[s] \in Seq(Clients \cup {Stop})
        BY <2>1
      <3> QED
        BY <3>1, StopsFinite DEF QueuedStops
    <2>6. StoppedWorkers(s)' = StoppedWorkers(s)
      BY <2>1 DEF StoppedWorkers
    <2>7. Cardinality(QueuedStops(s)') + Cardinality(StoppedWorkers(s)') <= Cardinality(Workers)
      BY <2>2, <2>3, <2>4, <2>5, <2>6, WorkersFinite
    <2> QED
      BY <2>1, <2>7, OtherStops
  <1>19. ASSUME NEW s \in Servers, Signal(s) PROVE StopsCounted'
    BY <1>19, <1>1 DEF Signal, threads
  <1>20. ASSUME NEW s \in Servers, Crash(s) PROVE StopsCounted'
    <2>1. /\ \A u \in Servers \ {s} :
                 pc'[u] = pc[u] /\ queue'[u] = queue[u] /\ worker'[u] = worker[u]
          /\ pc'[s] = "crashed" /\ queue'[s] = <<>>
          /\ \A w \in Workers : worker'[s][w] = "none"
      BY <1>20 DEF Crash, Goto, TypeOK
    <2>2. QueuedStops(s)' = {} /\ StoppedWorkers(s)' = {}
      BY <2>1 DEF QueuedStops, StoppedWorkers, Stops, Stop
    <2>3. Cardinality(QueuedStops(s)') + Cardinality(StoppedWorkers(s)') <= Cardinality(Workers)
      BY <2>2, WorkersFinite, FS_EmptySet
    <2> QED
      BY <2>1, <2>2, <2>3, OtherStops
  <1>21. ASSUME NEW s \in Servers, NEW c \in Clients, ClientConnects(s, c) PROVE StopsCounted'
    BY <1>21, <1>1 DEF ClientConnects
  <1>22. ASSUME NEW s \in Servers, NEW c \in Clients, ClientLeaves(s, c) PROVE StopsCounted'
    BY <1>22, <1>1 DEF ClientLeaves
  <1>23. ASSUME NEW s \in Servers, NEW c \in Clients, Accept(s, c) PROVE StopsCounted'
    BY <1>23, <1>1 DEF Accept
  <1>24. ASSUME NEW s \in Servers, NEW c \in Clients, ConnectionEnds(s, c) PROVE StopsCounted'
    BY <1>24, <1>1 DEF ConnectionEnds
  <1>25. ASSUME NEW s \in Servers, NEW c \in Clients, Submit(s, c) PROVE StopsCounted'
    <2>1. /\ \A u \in Servers \ {s} : queue'[u] = queue[u]
          /\ UNCHANGED <<pc, worker>>
          /\ queue'[s] = Append(queue[s], c)
          /\ queue[s] \in Seq(Clients \cup {Stop}) /\ c \in Clients \cup {Stop}
      BY <1>25 DEF Submit, TypeOK
    <2>2. QueuedStops(s)' = QueuedStops(s) /\ StoppedWorkers(s)' = StoppedWorkers(s)
      BY <2>1, StopsOfAppend, LifecycleAssumption DEF QueuedStops, StoppedWorkers, Stop
    <2> QED
      BY <2>1, <2>2, OtherStops DEF StopsCounted
  <1>26. ASSUME NEW s \in Servers, NEW w \in Workers, WorkerTakes(s, w) PROVE StopsCounted'
    <2>1. /\ \A u \in Servers \ {s} : queue'[u] = queue[u] /\ worker'[u] = worker[u]
          /\ pc' = pc /\ worker[s][w] = "idle"
          /\ queue'[s] = Tail(queue[s]) /\ queue[s] # <<>>
          /\ queue[s] \in Seq(Clients \cup {Stop})
          /\ worker'[s][w] = Head(queue[s])
          /\ \A v \in Workers \ {w} : worker'[s][v] = worker[s][v]
      BY <1>26 DEF WorkerTakes, TypeOK
    <2>2. StoppedWorkers(s)' =
              StoppedWorkers(s) \cup (IF Head(queue[s]) = Stop THEN {w} ELSE {})
      BY <2>1 DEF StoppedWorkers, Stop
    <2>3. w \notin StoppedWorkers(s)
      BY <2>1 DEF StoppedWorkers, Stop
    <2>4. /\ Cardinality(QueuedStops(s)')
                <= Cardinality(QueuedStops(s)) - (IF Head(queue[s]) = Stop THEN 1 ELSE 0)
          /\ QueuedStops(s)' # {} => QueuedStops(s) # {}
          /\ Head(queue[s]) = Stop => QueuedStops(s) # {}
      BY <2>1, StopsOfTail DEF QueuedStops
    <2>5. Cardinality(StoppedWorkers(s)') =
              Cardinality(StoppedWorkers(s)) + (IF Head(queue[s]) = Stop THEN 1 ELSE 0)
      <3>1. CASE Head(queue[s]) = Stop
        <4>1. Cardinality(StoppedWorkers(s) \cup {w}) = Cardinality(StoppedWorkers(s)) + 1
          BY <2>3, WorkersFinite, FS_AddElement
        <4> QED
          BY <2>2, <3>1, <4>1
      <3>2. CASE Head(queue[s]) # Stop
        <4>1. StoppedWorkers(s)' = StoppedWorkers(s)
          BY <2>2, <3>2
        <4> QED
          BY <3>2, <4>1, WorkersFinite
      <3> QED
        BY <3>1, <3>2
    <2>6. Cardinality(QueuedStops(s)) \in Nat /\ Cardinality(QueuedStops(s)') \in Nat
      <3>1. queue'[s] \in Seq(Clients \cup {Stop})
        BY <2>1
      <3> QED
        BY <2>1, <3>1, StopsFinite DEF QueuedStops
    <2>7. Cardinality(QueuedStops(s)') + Cardinality(StoppedWorkers(s)') <= Cardinality(Workers)
      <3>1. Cardinality(QueuedStops(s)) + Cardinality(StoppedWorkers(s)) <= Cardinality(Workers)
        BY DEF StopsCounted
      <3>2. /\ Cardinality(StoppedWorkers(s)) \in Nat /\ Cardinality(Workers) \in Nat
        BY WorkersFinite
      <3>3. CASE Head(queue[s]) = Stop
        BY <2>4, <2>5, <2>6, <3>1, <3>2, <3>3
      <3>4. CASE Head(queue[s]) # Stop
        BY <2>4, <2>5, <2>6, <3>1, <3>2, <3>4
      <3> QED
        BY <3>3, <3>4
    <2>8. QueuedStops(s)' # {} \/ StoppedWorkers(s)' # {} => pc[s] \in {"stopping", "ended"}
      BY <2>2, <2>4 DEF StopsCounted
    <2>9. pc[s] # "ended"
      BY <2>1 DEF StopsCounted, Stop
    <2> QED
      BY <2>1, <2>7, <2>8, <2>9, OtherStops
  <1>27. ASSUME NEW s \in Servers, NEW w \in Workers, WorkerFinishes(s, w) PROVE StopsCounted'
    <2>1. /\ \A u \in Servers \ {s} : worker'[u] = worker[u]
          /\ UNCHANGED <<pc, queue>> /\ worker[s][w] # Stop /\ worker'[s][w] # Stop
          /\ \A v \in Workers \ {w} : worker'[s][v] = worker[s][v]
      BY <1>27, LifecycleAssumption DEF WorkerFinishes, TypeOK, Stop
    <2>2. StoppedWorkers(s)' = StoppedWorkers(s) /\ QueuedStops(s)' = QueuedStops(s)
      BY <2>1 DEF StoppedWorkers, QueuedStops
    <2>3. pc[s] # "ended"
      BY <2>1 DEF StopsCounted
    <2> QED
      BY <2>1, <2>2, <2>3, OtherStops DEF StopsCounted
  <1> QED
    BY <1>1, <1>2, <1>3, <1>4, <1>5, <1>6, <1>7, <1>8, <1>9, <1>10, <1>11, <1>12, <1>13,
       <1>14, <1>15, <1>16, <1>17, <1>18, <1>19, <1>20, <1>21, <1>22, <1>23, <1>24,
       <1>25, <1>26, <1>27
       DEF Next, Main, vars

--------------------------------------------------------------------------------
(***************************************************************************)
(* The theorems.                                                           *)
(***************************************************************************)

LEMMA InitLInv == Init => LInv
  <1> SUFFICES ASSUME Init PROVE LInv
    OBVIOUS
  <1>1. TypeOK
    <2>1. <<>> \in Seq(Clients \cup {Stop})
      OBVIOUS
    <2> QED
      BY <2>1, LifecycleAssumption DEF Init, TypeOK, PreBind, Connections
  <1>2. FilesInv
    BY LifecycleAssumption
       DEF Init, FilesInv, SocketsPublished, StaleIsDead, PathKept, FilesGone
  <1>3. ServedWhileOpen
    BY LifecycleAssumption DEF Init, ServedWhileOpen, Served, HasJob, Range
  <1>4. ASSUME NEW s \in Servers
        PROVE  QueuedStops(s) = {} /\ StoppedWorkers(s) = {} /\ pc[s] = "off"
    BY DEF Init, QueuedStops, Stops, StoppedWorkers, Stop
  <1>5. StopsCounted
    BY <1>4, WorkersFinite, FS_EmptySet DEF StopsCounted
  <1> QED
    BY <1>1, <1>2, <1>3, <1>5 DEF LInv, ThreadsInv

LEMMA NextLInv == LInv /\ [Next]_vars => LInv'
  BY NextType, NextFiles, NextServed, NextStops DEF LInv, ThreadsInv

\* Every variable keeps its type.
THEOREM LifecycleTypeCorrect == Spec => []TypeOK
  <1>1. LInv => TypeOK
    BY DEF LInv
  <1> QED
    BY <1>1, InitLInv, NextLInv, PTL DEF Spec

\* No server that starts, stops or crashes takes the path of one that accepts,
\* but for a removal that races a change after its check.
THEOREM PathIsKept == Spec => []PathLeadsToServer
  <1>1. LInv => PathLeadsToServer
    BY DEF LInv, FilesInv, PathKept, PathLeadsToServer
  <1> QED
    BY <1>1, InitLInv, NextLInv, PTL DEF Spec

\* A server that ended left no connection, job, order or name behind.
THEOREM EndIsClean == Spec => []EndedLeavesNothing
  <1>1. LInv => EndedLeavesNothing
    <2> SUFFICES ASSUME LInv, NEW s \in Servers, pc[s] = "ended"
                 PROVE  Served(s) = {} /\ queue[s] = <<>> /\ ~temp[s] /\ entry # s
      BY DEF EndedLeavesNothing
    <2>1. Served(s) = {} /\ ~temp[s] /\ entry # s
      BY DEF LInv, ThreadsInv, FilesInv, ServedWhileOpen, FilesGone
    <2>2. \A c \in Clients : c \notin Range(queue[s])
      BY <2>1 DEF LInv, ThreadsInv, ServedWhileOpen, HasJob
    <2>3. QueuedStops(s) = {}
      <3>1. StoppedWorkers(s) = Workers
        BY DEF LInv, ThreadsInv, StopsCounted, StoppedWorkers
      <3>2. Cardinality(QueuedStops(s)) + Cardinality(Workers) <= Cardinality(Workers)
        BY <3>1 DEF LInv, ThreadsInv, StopsCounted
      <3>3. IsFiniteSet(QueuedStops(s)) /\ Cardinality(QueuedStops(s)) \in Nat
        BY StopsFinite DEF QueuedStops, LInv, TypeOK
      <3>4. Cardinality(QueuedStops(s)) = 0
        BY <3>2, <3>3, WorkersFinite
      <3> QED
        BY <3>3, <3>4, FS_EmptySet
    <2>4. queue[s] \in Seq(Clients \cup {Stop})
      BY DEF LInv, TypeOK
    <2>5. Len(queue[s]) = 0
      <3>1. 1 \notin DOMAIN queue[s]
        BY <2>2, <2>3, <2>4 DEF QueuedStops, Stops, Range
      <3> QED
        BY <2>4, <3>1
    <2> QED
      BY <2>1, <2>4, <2>5
  <1> QED
    BY <1>1, InitLInv, NextLInv, PTL DEF Spec
================================================================================
