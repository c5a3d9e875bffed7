------------------------------ MODULE ScanGate ------------------------------
(***************************************************************************)
(* The permit for expensive scans (src/src/server/runtime.rs, ScanGate) as *)
(* the requests of src/src/server/service.rs use it: metadata, find and    *)
(* toggles answer after the scan, extract sends full chunks while it       *)
(* scans.  One request per worker, started over and over.  Its names are   *)
(* apart from those of ServerRuntime, the rest of that file.               *)
(***************************************************************************)
EXTENDS Naturals, FiniteSets

CONSTANTS Scanners  \* the worker threads
ASSUME ScannersAssumption == IsFiniteSet(Scanners)

VARIABLES
    held,       \* ScanGate.held
    pc,         \* per worker: where its request stands
    cancelled,  \* workers whose token is cancelled or deadline passed
    blocked     \* workers whose client does not read: the output queue is full

gateVars == <<held, pc, cancelled, blocked>>

\* idle: no request; test: in acquire, with the lock; wait: in wait_timeout;
\* scan: holds the guard; chunk: holds the guard and sends a chunk; scanned,
\* failed: the guard has cleared held; output: answers after the scan.
Locations == {"idle", "test", "wait", "scan", "chunk", "scanned", "failed", "output"}
Holding == {"scan", "chunk"}

At(w, l) == pc' = [pc EXCEPT ![w] = l]

GateInit ==
    /\ held = FALSE
    /\ pc = [w \in Scanners |-> "idle"]
    /\ cancelled = {} /\ blocked = {}

---------------------------------------------------------------------------
(* The environment                                                         *)

\* A request reaches with_expensive_scan.
Begin(w) ==
    /\ pc[w] = "idle"
    /\ At(w, "test")
    /\ \E s \in SUBSET {w} : blocked' = blocked \cup s
    /\ UNCHANGED <<held, cancelled>>

\* The request is over and its context is gone.
Forget(w) == cancelled' = cancelled \ {w} /\ blocked' = blocked \ {w}

\* Cancel, disconnect or the deadline.
Stop(w) ==
    /\ pc[w] # "idle"
    /\ w \notin cancelled
    /\ cancelled' = cancelled \cup {w}
    /\ UNCHANGED <<held, pc, blocked>>

---------------------------------------------------------------------------
(* acquire                                                                 *)

Acquire(w) ==
    /\ pc[w] = "test"
    /\ w \notin cancelled
    /\ ~held
    /\ held' = TRUE
    /\ At(w, "scan")
    /\ UNCHANGED <<cancelled, blocked>>

Sleep(w) ==
    /\ pc[w] = "test"
    /\ w \notin cancelled
    /\ held
    /\ At(w, "wait")
    /\ UNCHANGED <<held, cancelled, blocked>>

\* context.check(), in the loop and after it, ends the request.
Refuse(w) ==
    /\ pc[w] = "test"
    /\ w \in cancelled
    /\ At(w, "idle")
    /\ Forget(w)
    /\ UNCHANGED held

\* Mutant: only a notification ends the wait.
WakeUpNotified(w) ==
    /\ pc[w] = "wait"
    /\ ~held
    /\ At(w, "test")
    /\ UNCHANGED <<held, cancelled, blocked>>

\* wait_timeout returns after POLL_INTERVAL, or for no reason.
WakeUp(w) ==
    /\ pc[w] = "wait"
    /\ At(w, "test")
    /\ UNCHANGED <<held, cancelled, blocked>>

---------------------------------------------------------------------------
(* The scan                                                                *)

\* An extract has CHUNK_ROWS rows: send_frame, called by the visitor.
ChunkFull(w) ==
    /\ pc[w] = "scan"
    /\ At(w, "chunk")
    /\ UNCHANGED <<held, cancelled, blocked>>

ChunkSent(w) ==
    /\ pc[w] = "chunk"
    /\ w \notin cancelled
    /\ w \notin blocked
    /\ At(w, "scan")
    /\ UNCHANGED <<held, cancelled, blocked>>

\* The guard is dropped: after the work, or while its panic unwinds.
Drop(w, l) == held' = FALSE /\ At(w, l) /\ UNCHANGED <<cancelled, blocked>>

\* Mutant: an error leaves the gate taken.
ScanFailsHolding(w) ==
    pc[w] = "scan" /\ At(w, "failed") /\ UNCHANGED <<held, cancelled, blocked>>

\* Mutant: a blocked chunk is given up only when its client reads.
ChunkRefusedUnblocked(w) ==
    pc[w] = "chunk" /\ w \in cancelled /\ w \notin blocked /\ Drop(w, "failed")

\* The scan runs to its end, or one of its checks sees that it is stopped.
ScanEnds(w) == pc[w] = "scan" /\ Drop(w, IF w \in cancelled THEN "failed" ELSE "scanned")
\* An error ends it, or a panic.
ScanFails(w) == pc[w] = "scan" /\ Drop(w, "failed")
ChunkRefused(w) == pc[w] = "chunk" /\ w \in cancelled /\ Drop(w, "failed")

\* notify_one, after the mutex is released, wakes one of the waiters.
WakeOne(w, l) ==
    LET waiting == {v \in Scanners : pc[v] = "wait"} IN
    IF waiting = {} THEN At(w, l)
    ELSE \E v \in waiting : pc' = [pc EXCEPT ![w] = l, ![v] = "test"]

\* The request answers next; the runtime answers a failed one.
NotifyOne(w) ==
    /\ \/ pc[w] = "scanned" /\ WakeOne(w, "output") /\ UNCHANGED <<cancelled, blocked>>
       \/ pc[w] = "failed" /\ WakeOne(w, "idle") /\ Forget(w)
    /\ UNCHANGED held

\* The answer, or the last chunk and the end, is queued or refused.
Answer(w) ==
    /\ pc[w] = "output"
    /\ w \in cancelled \/ w \notin blocked
    /\ At(w, "idle")
    /\ Forget(w)
    /\ UNCHANGED held

---------------------------------------------------------------------------

Gate(w) == Acquire(w) \/ Sleep(w) \/ Refuse(w) \/ WakeUp(w) \/ NotifyOne(w)
Scan(w) == ChunkFull(w) \/ ScanEnds(w) \/ ScanFails(w)
Output(w) == ChunkSent(w) \/ ChunkRefused(w) \/ Answer(w)

GateNext == \E w \in Scanners : Begin(w) \/ Stop(w) \/ Gate(w) \/ Scan(w) \/ Output(w)

GateSpec == GateInit /\ [][GateNext]_gateVars

\* Threads run and deadlines pass; a scan may hang (its reads block).
GateFairSpec ==
    /\ GateSpec
    /\ \A w \in Scanners : WF_gateVars(Gate(w)) /\ WF_gateVars(Output(w)) /\ WF_gateVars(Stop(w))

\* A scan that is stopped ends: every query checks its context as it reads.
ScansEnd == \A w \in Scanners : WF_gateVars(ScanEnds(w) /\ w \in cancelled)

---------------------------------------------------------------------------

\* Type invariant.
GateTypeOK ==
    /\ held \in BOOLEAN
    /\ pc \in [Scanners -> Locations]
    /\ cancelled \subseteq Scanners /\ blocked \subseteq Scanners

\* At most one scan runs, and the permit is taken exactly while one does: no
\* failure, panic or refused chunk leaks it.
PermitExact ==
    /\ held <=> \E w \in Scanners : pc[w] \in Holding
    /\ \A v, w \in Scanners : pc[v] \in Holding /\ pc[w] \in Holding => v = w

\* A stopped request leaves the gate although the scan that holds it hangs.
StoppedWaiterLeaves ==
    \A w \in Scanners :
        pc[w] \in {"test", "wait"} /\ w \in cancelled ~> pc[w] \notin {"test", "wait"}

\* If scans end, every request ends, although clients may never read.
EveryRequestEnds == ScansEnd => \A w \in Scanners : pc[w] # "idle" ~> pc[w] = "idle"
===========================================================================
