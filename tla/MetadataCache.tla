--------------------------- MODULE MetadataCache ---------------------------
(***************************************************************************)
(* The single-flight metadata cache of an opened VCD                       *)
(* (src/src/opened/mod.rs, MetadataCache).  Caller threads share one mutex *)
(* and one condition variable.  One caller is elected to scan the file,    *)
(* the others register as waiters of that attempt.  Three entry points:    *)
(*   "ctx"    metadata_with_context, the caller may be cancelled or        *)
(*            run out of time, its waits are timed                         *)
(*   "plain"  metadata, no context, untimed waits                          *)
(*   "retry"  retry_metadata, replaces a cached failure                    *)
(*                                                                         *)
(* A critical section of the mutex is one action.  notify_all runs after   *)
(* the unlock, so it is an action of its own.  The debug assertions are    *)
(* not executed here (a release build); they are stated as properties.     *)
(***************************************************************************)
EXTENDS Naturals, FiniteSets

CONSTANTS Threads,    \* the caller threads
          EntryPoints,\* the entry points each thread calls
          MaxAttempt  \* the largest attempt identifier, u64::MAX in the code

ASSUME EntryPointsAssumption == EntryPoints \in [Threads -> SUBSET {"ctx", "plain", "retry"}]
ASSUME ThreadsAssumption == IsFiniteSet(Threads)
ASSUME MaxAttemptAssumption == MaxAttempt \in Nat \ {0}

VARIABLES
    next_attempt,  \* MetadataState.next_attempt
    phase,         \* MetadataState.phase
    pc,            \* where each thread stands
    mode,          \* the entry point a thread is in
    reg,           \* the attempt a thread is registered on, 0 for none
    elected,       \* the attempt a thread was elected to build, 0 for none
    expired,       \* the thread's context is cancelled or past its deadline
    outcome,       \* the result a thread is about to return
    floor          \* history: the oldest attempt whose failure may be returned

cache == <<next_attempt, phase>>
vars == <<next_attempt, phase, pc, mode, reg, elected, expired, outcome, floor>>

Attempts == 0 .. MaxAttempt
Modes == {"none", "ctx", "plain", "retry"}
Locations == {"idle", "enter", "retry", "retry_wait", "loop", "wait",
              "drop", "build", "notify", "settle"}
Phases == [tag : {"Absent", "Building", "Ready", "Failed"},
           attempt : Attempts,
           waiters : 0 .. Cardinality(Threads)]
Outcomes == [kind : {"none", "ready", "failed", "expired", "transient",
                     "exhausted", "panicked"},
             attempt : Attempts]

\* waiters is Building.waiters and Failed.pending_waiters.
Absent == [tag |-> "Absent", attempt |-> 0, waiters |-> 0]
Building(a, n) == [tag |-> "Building", attempt |-> a, waiters |-> n]
Ready(a) == [tag |-> "Ready", attempt |-> a, waiters |-> 0]
Failed(a, n) == [tag |-> "Failed", attempt |-> a, waiters |-> n]

Outcome(k, a) == [kind |-> k, attempt |-> a]
NoOutcome == Outcome("none", 0)

Init ==
    /\ next_attempt = 1
    /\ phase = Absent
    /\ pc = [t \in Threads |-> "idle"]
    /\ mode = [t \in Threads |-> "none"]
    /\ reg = [t \in Threads |-> 0]
    /\ elected = [t \in Threads |-> 0]
    /\ expired = [t \in Threads |-> FALSE]
    /\ outcome = [t \in Threads |-> NoOutcome]
    /\ floor = [t \in Threads |-> 0]

---------------------------------------------------------------------------
(* Calls, the caller's context and the end of a call                       *)

Goto(t, l) == pc' = [pc EXCEPT ![t] = l]

\* A caller enters metadata, metadata_with_context or retry_metadata.
Call(t, m) ==
    /\ pc[t] = "idle"
    /\ mode' = [mode EXCEPT ![t] = m]
    /\ Goto(t, CASE m = "ctx" -> "enter" [] m = "plain" -> "loop" [] m = "retry" -> "retry")
    /\ floor' = [floor EXCEPT ![t] =
                    IF m = "retry" /\ phase.tag = "Failed" THEN phase.attempt + 1 ELSE 0]
    /\ UNCHANGED <<cache, reg, elected, expired, outcome>>

\* The token of a context is cancelled or its deadline passes, at any moment.
Expire(t) ==
    /\ mode[t] = "ctx"
    /\ ~expired[t]
    /\ expired' = [expired EXCEPT ![t] = TRUE]
    /\ UNCHANGED <<cache, pc, mode, elected, reg, outcome, floor>>

\* The first context.check(), before the lock is taken.
Enter(t) ==
    /\ pc[t] = "enter"
    /\ \/ /\ expired[t]
          /\ outcome' = [outcome EXCEPT ![t] = Outcome("expired", 0)]
          /\ Goto(t, "settle")
       \/ /\ ~expired[t]
          /\ Goto(t, "loop")
          /\ UNCHANGED outcome
    /\ UNCHANGED <<cache, mode, reg, elected, expired, floor>>

\* The call returns and its locals are gone.  (The last context.check() may
\* still turn a "ready" or "failed" outcome into the caller's own expiry; no
\* shared state depends on it.)
Settle(t) ==
    /\ pc[t] = "settle"
    /\ Goto(t, "idle")
    /\ mode' = [mode EXCEPT ![t] = "none"]
    /\ expired' = [expired EXCEPT ![t] = FALSE]
    /\ outcome' = [outcome EXCEPT ![t] = NoOutcome]
    /\ floor' = [floor EXCEPT ![t] = 0]
    /\ UNCHANGED <<cache, reg, elected>>

---------------------------------------------------------------------------
(* One iteration of the loop of get_or_build and get_or_build_with_context *)

\* Ready: the shared result.  Dropping a registration has no effect here.
LoopReady(t) ==
    /\ pc[t] = "loop"
    /\ phase.tag = "Ready"
    /\ reg' = [reg EXCEPT ![t] = 0]
    /\ outcome' = [outcome EXCEPT ![t] = Outcome("ready", phase.attempt)]
    /\ Goto(t, "settle")
    /\ UNCHANGED <<cache, mode, elected, expired, floor>>

\* Mutant: the waiter acknowledges first and reads the phase again.
LoopFailedReadsAgain(t) ==
    /\ pc[t] = "loop"
    /\ mode[t] = "ctx"
    /\ phase.tag = "Failed"
    /\ \/ /\ reg[t] = phase.attempt
          /\ phase' = [phase EXCEPT !.waiters = @ - 1]
          /\ reg' = [reg EXCEPT ![t] = 0]
          /\ UNCHANGED <<pc, outcome>>
       \/ /\ reg[t] # phase.attempt
          /\ outcome' = [outcome EXCEPT ![t] = Outcome("failed", phase.attempt)]
          /\ Goto(t, IF reg[t] # 0 THEN "drop" ELSE "settle")
          /\ UNCHANGED <<phase, reg>>
    /\ UNCHANGED <<next_attempt, mode, elected, expired, floor>>

\* Failed, with a context: the registration is dropped after the unlock.
LoopFailedWithContext(t) ==
    /\ pc[t] = "loop"
    /\ mode[t] = "ctx"
    /\ phase.tag = "Failed"
    /\ outcome' = [outcome EXCEPT ![t] = Outcome("failed", phase.attempt)]
    /\ Goto(t, IF reg[t] # 0 THEN "drop" ELSE "settle")
    /\ UNCHANGED <<cache, mode, reg, elected, expired, floor>>

\* Mutant: a caller that waited for an older attempt acknowledges this one.
LoopFailedAnyAttempt(t) ==
    /\ pc[t] = "loop"
    /\ mode[t] # "ctx"
    /\ phase.tag = "Failed"
    /\ outcome' = [outcome EXCEPT ![t] = Outcome("failed", phase.attempt)]
    /\ reg' = [reg EXCEPT ![t] = 0]
    /\ phase' = IF reg[t] # 0 THEN [phase EXCEPT !.waiters = @ - 1] ELSE phase
    /\ Goto(t, IF reg[t] # 0 /\ phase.waiters = 1 THEN "notify" ELSE "settle")
    /\ UNCHANGED <<next_attempt, mode, elected, expired, floor>>

\* Mutant: the last waiter does not notify.
LoopFailedSilently(t) ==
    /\ pc[t] = "loop"
    /\ mode[t] # "ctx"
    /\ phase.tag = "Failed"
    /\ outcome' = [outcome EXCEPT ![t] = Outcome("failed", phase.attempt)]
    /\ reg' = [reg EXCEPT ![t] = 0]
    /\ phase' = IF reg[t] = phase.attempt THEN [phase EXCEPT !.waiters = @ - 1] ELSE phase
    /\ Goto(t, "settle")
    /\ UNCHANGED <<next_attempt, mode, elected, expired, floor>>

\* Failed, without a context: a registered waiter acknowledges under the lock.
LoopFailed(t) ==
    /\ pc[t] = "loop"
    /\ mode[t] # "ctx"
    /\ phase.tag = "Failed"
    /\ outcome' = [outcome EXCEPT ![t] = Outcome("failed", phase.attempt)]
    /\ reg' = [reg EXCEPT ![t] = 0]
    /\ \/ /\ reg[t] = phase.attempt
          /\ phase' = [phase EXCEPT !.waiters = @ - 1]
          /\ Goto(t, IF phase.waiters = 1 THEN "notify" ELSE "settle")
       \/ /\ reg[t] # phase.attempt
          /\ Goto(t, "settle")
          /\ UNCHANGED phase
    /\ UNCHANGED <<next_attempt, mode, elected, expired, floor>>

\* Mutant: every wake-up registers again.
LoopBuildingCountsAgain(t) ==
    /\ pc[t] = "loop"
    /\ mode[t] = "ctx"
    /\ phase.tag = "Building"
    /\ phase' = [phase EXCEPT !.waiters = @ + 1]
    /\ reg' = [reg EXCEPT ![t] = phase.attempt]
    /\ outcome' = IF expired[t] THEN [outcome EXCEPT ![t] = Outcome("expired", 0)] ELSE outcome
    /\ Goto(t, IF expired[t] THEN "drop" ELSE "wait")
    /\ UNCHANGED <<next_attempt, mode, elected, expired, floor>>

\* Building, with a context: a registration on an older attempt is replaced.
LoopBuildingWithContext(t) ==
    /\ pc[t] = "loop"
    /\ mode[t] = "ctx"
    /\ phase.tag = "Building"
    /\ phase' = IF reg[t] = phase.attempt THEN phase
                ELSE [phase EXCEPT !.waiters = @ + 1]
    /\ reg' = [reg EXCEPT ![t] = phase.attempt]
    /\ \/ /\ expired[t]
          /\ outcome' = [outcome EXCEPT ![t] = Outcome("expired", 0)]
          /\ Goto(t, "drop")
       \/ /\ ~expired[t]
          /\ Goto(t, "wait")
          /\ UNCHANGED outcome
    /\ UNCHANGED <<next_attempt, mode, elected, expired, floor>>

\* Building, without a context: waiting_for is never replaced.
LoopBuilding(t) ==
    /\ pc[t] = "loop"
    /\ mode[t] # "ctx"
    /\ phase.tag = "Building"
    /\ \/ /\ reg[t] = 0
          /\ phase' = [phase EXCEPT !.waiters = @ + 1]
          /\ reg' = [reg EXCEPT ![t] = phase.attempt]
       \/ /\ reg[t] # 0
          /\ UNCHANGED <<phase, reg>>
    /\ Goto(t, "wait")
    /\ UNCHANGED <<next_attempt, mode, elected, expired, outcome, floor>>

\* Absent: the caller is elected, unless its context expired or the
\* identifier space is exhausted.
LoopAbsent(t) ==
    /\ pc[t] = "loop"
    /\ phase.tag = "Absent"
    /\ reg' = [reg EXCEPT ![t] = 0]
    /\ \/ /\ expired[t]
          /\ outcome' = [outcome EXCEPT ![t] = Outcome("expired", 0)]
          /\ Goto(t, "settle")
          /\ UNCHANGED <<cache, elected>>
       \/ /\ ~expired[t]
          /\ next_attempt = MaxAttempt
          /\ outcome' = [outcome EXCEPT ![t] = Outcome("exhausted", 0)]
          /\ Goto(t, "settle")
          /\ UNCHANGED <<cache, elected>>
       \/ /\ ~expired[t]
          /\ next_attempt < MaxAttempt
          /\ next_attempt' = next_attempt + 1
          /\ phase' = Building(next_attempt, 0)
          /\ elected' = [elected EXCEPT ![t] = next_attempt]
          /\ Goto(t, "build")
          /\ UNCHANGED outcome
    /\ UNCHANGED <<mode, expired, floor>>

---------------------------------------------------------------------------
(* Waiting, waking and dropping a registration                             *)

\* Mutant: the wait goes on until the phase changes.
WaitForPhase(t) ==
    /\ pc[t] = "wait"
    /\ mode[t] = "ctx"
    /\ phase.tag # "Building"
    /\ Goto(t, "loop")
    /\ UNCHANGED <<cache, mode, reg, elected, expired, outcome, floor>>

\* Condvar::wait_timeout returns by itself; the waits of "ctx" are timed.
WaitTimeout(t) ==
    /\ pc[t] = "wait"
    /\ mode[t] = "ctx"
    /\ Goto(t, "loop")
    /\ UNCHANGED <<cache, mode, reg, elected, expired, outcome, floor>>

\* Condvar::wait may return without a notification; its callers loop.
SpuriousWake(t) ==
    /\ \/ pc[t] = "wait" /\ mode[t] # "ctx" /\ Goto(t, "loop")
       \/ pc[t] = "retry_wait" /\ Goto(t, "retry")
    /\ UNCHANGED <<cache, mode, reg, elected, expired, outcome, floor>>

\* The thread left the lock and calls notify_all.
NotifyAll(t) ==
    /\ pc[t] = "notify"
    /\ pc' = [u \in Threads |-> CASE u = t -> "settle"
                                  [] pc[u] = "wait" -> "loop"
                                  [] pc[u] = "retry_wait" -> "retry"
                                  [] OTHER -> pc[u]]
    /\ UNCHANGED <<cache, mode, reg, elected, expired, outcome, floor>>

\* Drop for MetadataWaiterRegistration: the waiter is no longer counted.
DropRegistration(t) ==
    /\ pc[t] = "drop"
    /\ reg' = [reg EXCEPT ![t] = 0]
    /\ \/ /\ phase.tag \in {"Building", "Failed"}
          /\ phase.attempt = reg[t]
          /\ phase' = [phase EXCEPT !.waiters = @ - 1]
          /\ Goto(t, IF phase.tag = "Failed" /\ phase.waiters = 1
                     THEN "notify" ELSE "settle")
       \/ /\ phase.tag \in {"Building", "Failed"} => phase.attempt # reg[t]
          /\ Goto(t, "settle")
          /\ UNCHANGED phase
    /\ UNCHANGED <<next_attempt, mode, elected, expired, outcome, floor>>

---------------------------------------------------------------------------
(* The elected builder: build() runs without the lock, then publishes      *)

\* The end of build(): the phase p replaces Building and o is returned.
\* The code panics when the phase is not Building its attempt: BuilderOwnsPhase
\* shows that the second conjunct never stops a builder.
Publish(t, p, o) ==
    /\ pc[t] = "build"
    /\ phase.tag = "Building" /\ phase.attempt = elected[t]
    /\ phase' = p
    /\ elected' = [elected EXCEPT ![t] = 0]
    /\ outcome' = [outcome EXCEPT ![t] = o]
    /\ Goto(t, "notify")
    /\ UNCHANGED <<next_attempt, mode, reg, expired, floor>>

BuildOk(t) == Publish(t, Ready(elected[t]), Outcome("ready", elected[t]))

\* A source or parser error is cached for every registered waiter.
BuildFails(t) ==
    Publish(t, Failed(elected[t], phase.waiters), Outcome("failed", elected[t]))

\* A cancelled, late or limited build is not cached; only a context has these.
BuildTransient(t) ==
    /\ mode[t] = "ctx"
    /\ Publish(t, Absent, Outcome("transient", 0))

\* Mutant: the unwinding builder publishes a failure owed to nobody.
BuildPanicsForgetsWaiters(t) ==
    Publish(t, Failed(elected[t], 0), Outcome("panicked", 0))

\* build() unwinds: Drop for MetadataBuildGuard publishes the failure.
BuildPanics(t) ==
    Publish(t, Failed(elected[t], phase.waiters), Outcome("panicked", 0))

---------------------------------------------------------------------------
(* The loop of retry_failed                                                *)

\* Mutant: the retry does not look at pending_waiters.
RetryResetAtOnce(t) ==
    /\ pc[t] = "retry"
    /\ phase.tag = "Failed"
    /\ phase' = Absent
    /\ Goto(t, "loop")
    /\ UNCHANGED <<next_attempt, mode, reg, elected, expired, outcome, floor>>

\* Mutant: the retry resets an attempt that is still being built.
RetryResetBuilding(t) ==
    /\ pc[t] = "retry"
    /\ phase.tag \in {"Failed", "Building"}
    /\ phase.waiters = 0
    /\ phase' = Absent
    /\ Goto(t, "loop")
    /\ UNCHANGED <<next_attempt, mode, reg, elected, expired, outcome, floor>>

\* Nobody has to see the failure any more: it is forgotten.
RetryReset(t) ==
    /\ pc[t] = "retry"
    /\ phase.tag = "Failed"
    /\ phase.waiters = 0
    /\ phase' = Absent
    /\ Goto(t, "loop")
    /\ UNCHANGED <<next_attempt, mode, reg, elected, expired, outcome, floor>>

RetryWait(t) ==
    /\ pc[t] = "retry"
    /\ phase.tag = "Failed"
    /\ phase.waiters > 0
    /\ Goto(t, "retry_wait")
    /\ UNCHANGED <<cache, mode, reg, elected, expired, outcome, floor>>

\* Mutant: a failure that others wait for is taken as this call's result.
RetryDelegateFailed(t) ==
    /\ pc[t] = "retry"
    /\ phase.tag # "Failed" \/ phase.waiters > 0
    /\ Goto(t, "loop")
    /\ UNCHANGED <<cache, mode, reg, elected, expired, outcome, floor>>

\* Not failed: the call goes on as get_or_build.
RetryDelegate(t) ==
    /\ pc[t] = "retry"
    /\ phase.tag # "Failed"
    /\ Goto(t, "loop")
    /\ UNCHANGED <<cache, mode, reg, elected, expired, outcome, floor>>

---------------------------------------------------------------------------

\* The steps a running thread takes as soon as it gets the lock.
Step(t) ==
    \/ Enter(t) \/ Settle(t)
    \/ LoopReady(t) \/ LoopFailedWithContext(t) \/ LoopFailed(t)
    \/ LoopBuildingWithContext(t) \/ LoopBuilding(t) \/ LoopAbsent(t)
    \/ NotifyAll(t) \/ DropRegistration(t)
    \/ RetryReset(t) \/ RetryWait(t) \/ RetryDelegate(t)

Build(t) == BuildOk(t) \/ BuildFails(t) \/ BuildTransient(t) \/ BuildPanics(t)

Next ==
    \E t \in Threads :
        \/ \E m \in EntryPoints[t] : Call(t, m)
        \/ Expire(t)
        \/ Step(t)
        \/ WaitTimeout(t) \/ SpuriousWake(t)
        \/ Build(t)

Spec == Init /\ [][Next]_vars

\* Threads keep running and timed waits end; a build may hang.
FairSpec ==
    Spec /\ \A t \in Threads : WF_vars(Step(t)) /\ WF_vars(WaitTimeout(t))

\* Every build ends: it scans a finite file.
BuildsEnd == \A t \in Threads : WF_vars(Build(t))

---------------------------------------------------------------------------
(* Properties                                                              *)

\* Type invariant: counters, locations and locals stay in their ranges; in
\* particular waiters never underflows its unsigned type.
TypeOK ==
    /\ next_attempt \in 1 .. MaxAttempt
    /\ phase \in Phases
    /\ pc \in [Threads -> Locations]
    /\ mode \in [Threads -> Modes]
    /\ reg \in [Threads -> Attempts]
    /\ elected \in [Threads -> Attempts]
    /\ expired \in [Threads -> BOOLEAN]
    /\ outcome \in [Threads -> Outcomes]
    /\ floor \in [Threads -> Attempts]

\* The threads registered on attempt a.
Registered(a) == {t \in Threads : reg[t] = a}

\* waiters and pending_waiters count exactly the threads registered on the
\* attempt, through timeouts, cancellations, drops and replaced attempts.  The
\* count is what lets retry_failed decide, so an excess strands every retry
\* and a deficit loses a waiter's failure (and underflows in Drop).
WaiterAccounting ==
    phase.tag \in {"Building", "Failed"} =>
        phase.waiters = Cardinality(Registered(phase.attempt))

\* A builder always finds the phase it left (the panic "metadata attempt
\* changed while its builder was active" is unreachable), there is at most one
\* builder, and Building is never left behind without one.
BuilderOwnsPhase ==
    /\ \A t \in Threads : pc[t] = "build" =>
          phase.tag = "Building" /\ phase.attempt = elected[t]
    /\ \A t, u \in Threads : pc[t] = "build" /\ pc[u] = "build" => t = u
    /\ phase.tag = "Building" => \E t \in Threads : pc[t] = "build"

\* A retry never returns the failure that was cached when it was called: what
\* it reports comes from an attempt that it, or a caller it joined, started.
RetryIsFresh ==
    \A t \in Threads :
        pc[t] = "settle" /\ outcome[t].kind = "failed" => outcome[t].attempt >= floor[t]

\* Attempt stability: a cached failure disappears only when no thread is
\* registered on its attempt, and Ready never changes.
FailureKeptForWaiters ==
    [][/\ phase.tag = "Ready" => phase' = phase
       /\ phase.tag = "Failed" /\ phase'.tag # "Failed" =>
             phase' = Absent /\ Registered(phase.attempt) = {}]_vars

\* A waiter of an attempt that failed leaves with that very failure (or with
\* its own expiry): it is not sent on to a newer attempt.
WaiterSeesItsAttempt ==
    [][\A t \in Threads :
          phase.tag = "Failed" /\ reg[t] = phase.attempt /\ reg'[t] # reg[t] =>
             \/ outcome'[t] = Outcome("failed", phase.attempt)
             \/ outcome'[t] = Outcome("expired", 0)]_vars

\* Nobody is stranded: if builds end, every call returns although waits are
\* untimed for "plain" and "retry", builders panic or are cancelled, and
\* retries compete.
EveryCallReturns == BuildsEnd => \A t \in Threads : pc[t] # "idle" ~> pc[t] = "idle"

\* A cancelled waiter leaves even when the elected builder never finishes.
ExpiredWaiterReturns ==
    \A t \in Threads :
        expired[t] /\ pc[t] \notin {"idle", "build"} ~> pc[t] = "idle"

\* debug_assert_eq!(registration.attempt, expected_attempt): a registered
\* caller that finds Failed is registered on the attempt that failed.
AssertRegistrationAttempt ==
    \A t \in Threads :
        pc[t] = "loop" /\ mode[t] = "ctx" /\ reg[t] # 0 /\ phase.tag = "Failed" =>
            reg[t] = phase.attempt

\* debug_assert!(waiting_for.is_none()): a caller of metadata() that waited
\* never finds Absent.
AssertWaitingForIsNone ==
    \A t \in Threads :
        pc[t] = "loop" /\ mode[t] # "ctx" /\ phase.tag = "Absent" => reg[t] = 0

\* The debug assertions about the attempt a waiting caller is registered on.
DebugAssertions == AssertRegistrationAttempt /\ AssertWaitingForIsNone

\* What the three invariants above rest on: identifiers are handed out in
\* order, a registration lives only while its call is in the loop, and a retry
\* that has passed its reset can only meet attempts newer than the failure it
\* was called for.
AttemptsOrdered ==
    /\ phase.attempt < next_attempt
    /\ phase.tag \in {"Building", "Failed"} => phase.attempt > 0
    /\ \A t \in Threads : reg[t] < next_attempt

RegistrationsLive ==
    \A t \in Threads : reg[t] # 0 => pc[t] \in {"loop", "wait", "drop"}

FloorRespected(t) ==
    /\ floor[t] <= next_attempt
    /\ mode[t] # "retry" => floor[t] = 0
    /\ mode[t] = "none" <=> pc[t] = "idle"
    /\ pc[t] = "enter" => mode[t] = "ctx"
    /\ pc[t] \in {"retry", "retry_wait"} /\ phase.tag = "Building" =>
          phase.attempt >= floor[t]
    /\ pc[t] \in {"loop", "wait", "build"} /\ phase.tag \in {"Building", "Failed"} =>
          phase.attempt >= floor[t]
    /\ pc[t] \in {"drop", "notify", "settle"} /\ outcome[t].kind = "failed" =>
          outcome[t].attempt >= floor[t]

FloorsRespected == \A t \in Threads : FloorRespected(t)

IInv ==
    /\ TypeOK
    /\ WaiterAccounting
    /\ BuilderOwnsPhase
    /\ AttemptsOrdered
    /\ RegistrationsLive
    /\ FloorsRespected

\* The cache implements single flight: the callers a failure is owed to are
\* the threads that pending_waiters counts, so retry_failed's test of the
\* counter forgets a failure only when it is owed to nobody.
Cell == [Absent |-> "empty", Building |-> "busy", Ready |-> "ready", Failed |-> "failed"]
Owed == IF phase.tag \in {"Building", "Failed"} THEN Registered(phase.attempt) ELSE {}
Scanners == {t \in Threads : pc[t] = "build"}
Abstract == INSTANCE SingleFlight WITH
    Callers <- Threads, cell <- Cell[phase.tag], scanner <- Scanners, owed <- Owed
ImplementsSingleFlight == Abstract!Spec
===========================================================================
