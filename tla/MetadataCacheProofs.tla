------------------------ MODULE MetadataCacheProofs ------------------------
(***************************************************************************)
(* Proofs about MetadataCache for any finite set of threads, any use of    *)
(* the entry points and any size of the attempt identifier space.          *)
(***************************************************************************)
EXTENDS MetadataCache, FiniteSetTheorems, TLAPS

\* The number of threads that the assignment r registers on attempt a.
Count(r, a) == Cardinality({t \in Threads : r[t] = a})

\* A count is a natural number bounded by the number of threads.
LEMMA CountBounds ==
    ASSUME NEW r, NEW a
    PROVE  /\ Count(r, a) \in 0 .. Cardinality(Threads)
           /\ IsFiniteSet({t \in Threads : r[t] = a})
  BY ThreadsAssumption, FS_Subset, FS_CardinalityType DEF Count

\* Registering thread t on attempt b moves it from one count to another.
LEMMA CountMove ==
    ASSUME NEW r \in [Threads -> Attempts], NEW t \in Threads, NEW b \in Attempts,
           NEW a \in Attempts
    PROVE  /\ r[t] = b => Count([r EXCEPT ![t] = b], a) = Count(r, a)
           /\ r[t] # b /\ a = b => Count([r EXCEPT ![t] = b], a) = Count(r, a) + 1
           /\ r[t] # b /\ a = r[t] => Count([r EXCEPT ![t] = b], a) = Count(r, a) - 1
           /\ a # b /\ a # r[t] => Count([r EXCEPT ![t] = b], a) = Count(r, a)
  <1> DEFINE q == [r EXCEPT ![t] = b]
             S == {u \in Threads : r[u] = a}
             T == {u \in Threads : q[u] = a}
  <1>1. IsFiniteSet(S)
    BY CountBounds
  <1>2. CASE r[t] = b
    <2>1. q = r
      BY <1>2
    <2> QED
      BY <1>2, <2>1
  <1>3. CASE r[t] # b /\ a = b
    <2>1. T = S \cup {t} /\ t \notin S
      BY <1>3
    <2> QED
      BY <1>1, <1>3, <2>1, FS_AddElement DEF Count
  <1>4. CASE r[t] # b /\ a = r[t]
    <2>1. T = S \ {t} /\ t \in S
      BY <1>4
    <2> QED
      BY <1>1, <1>4, <2>1, FS_RemoveElement DEF Count
  <1>5. CASE a # b /\ a # r[t]
    <2>1. T = S
      BY <1>5
    <2> QED
      BY <1>5, <2>1 DEF Count
  <1> QED
    BY <1>2, <1>3, <1>4, <1>5

\* Nobody is registered on an attempt that no thread's register names.
LEMMA CountZero ==
    ASSUME NEW r, NEW a, \A t \in Threads : r[t] # a
    PROVE  Count(r, a) = 0
  <1>1. {t \in Threads : r[t] = a} = {}
    OBVIOUS
  <1> QED
    BY <1>1, FS_EmptySet DEF Count

\* The inductive invariant holds before the first call.
LEMMA InitIInv == Init => IInv
  <1> SUFFICES ASSUME Init PROVE IInv
    OBVIOUS
  <1> USE DEF Init
  <1>1. Cardinality(Threads) \in Nat
    BY ThreadsAssumption, FS_CardinalityType
  <1>2. TypeOK
    BY <1>1, MaxAttemptAssumption
       DEF TypeOK, Phases, Absent, Locations, Modes, Attempts, Outcomes, NoOutcome, Outcome
  <1>3. WaiterAccounting /\ BuilderOwnsPhase
    BY DEF WaiterAccounting, BuilderOwnsPhase, Absent
  <1>4. AttemptsOrdered /\ RegistrationsLive /\ FloorsRespected
    BY DEF AttemptsOrdered, RegistrationsLive, FloorsRespected, FloorRespected, Absent, NoOutcome, Outcome
  <1> QED
    BY <1>2, <1>3, <1>4 DEF IInv

\* A call by an idle thread preserves the inductive invariant.
LEMMA CallPreserves ==
    ASSUME IInv, NEW t \in Threads, NEW m \in EntryPoints[t], Call(t, m)
    PROVE  IInv'
  <1> USE DEF Call, Goto, IInv, Attempts
  <1>0. Cardinality(Threads) \in Nat /\ m \in {"ctx", "plain", "retry"}
    BY ThreadsAssumption, FS_CardinalityType, EntryPointsAssumption
  <1>1. phase' = phase /\ reg' = reg /\ next_attempt' = next_attempt
    BY DEF cache
  <1>2. TypeOK'
    <2>1. pc' \in [Threads -> Locations] /\ mode' \in [Threads -> Modes]
      BY <1>0 DEF TypeOK, Locations, Modes
    <2>2. floor' \in [Threads -> Attempts]
      BY <1>0, MaxAttemptAssumption DEF TypeOK, Phases, AttemptsOrdered
    <2> QED
      BY <1>1, <2>1, <2>2 DEF TypeOK
  <1>3. WaiterAccounting'
    BY <1>1 DEF WaiterAccounting, Registered
  <1>4. BuilderOwnsPhase'
    <2>1. pc'[t] # "build" /\ pc[t] # "build" /\ \A u \in Threads \ {t} : pc'[u] = pc[u]
      BY <1>0 DEF TypeOK
    <2>2. elected' = elected /\ BuilderOwnsPhase
      OBVIOUS
    <2> HIDE DEF Call, IInv
    <2> QED
      BY <1>1, <2>1, <2>2 DEF BuilderOwnsPhase
  <1>5. AttemptsOrdered'
    BY <1>1 DEF AttemptsOrdered
  <1>6. RegistrationsLive'
    BY <1>1 DEF RegistrationsLive, TypeOK
  <1>7. FloorsRespected'
    <2>1. /\ pc'[t] \in {"enter", "loop", "retry"}
          /\ mode'[t] = m
          /\ pc'[t] = "retry" <=> m = "retry"
          /\ floor'[t] = IF m = "retry" /\ phase.tag = "Failed" THEN phase.attempt + 1 ELSE 0
          /\ \A u \in Threads \ {t} : /\ pc'[u] = pc[u] /\ mode'[u] = mode[u]
                                     /\ floor'[u] = floor[u]
      BY <1>0 DEF TypeOK
    <2> QED
      BY <1>0, <1>1, <2>1 DEF FloorsRespected, FloorRespected, TypeOK, Phases, AttemptsOrdered
  <1> QED
    BY <1>2, <1>3, <1>4, <1>5, <1>6, <1>7

\* The expiry of a caller's context preserves the inductive invariant.
LEMMA ExpirePreserves ==
    ASSUME IInv, NEW t \in Threads, Expire(t)
    PROVE  IInv'
  <1> USE DEF Expire, Goto, IInv, Attempts
  <1>0. Cardinality(Threads) \in Nat
    BY ThreadsAssumption, FS_CardinalityType
  <1>1. phase' = phase /\ reg' = reg /\ next_attempt' = next_attempt
    BY DEF cache
  <1>2. TypeOK'
    BY <1>0, <1>1, MaxAttemptAssumption DEF TypeOK, Phases, Locations, Modes, Outcomes, Outcome, NoOutcome, AttemptsOrdered, cache
  <1>3. WaiterAccounting'
    BY <1>1 DEF WaiterAccounting, Registered
  <1>4. BuilderOwnsPhase'
    BY <1>1 DEF BuilderOwnsPhase, TypeOK
  <1>5. AttemptsOrdered'
    BY <1>1 DEF AttemptsOrdered
  <1>6. RegistrationsLive'
    BY <1>1 DEF RegistrationsLive, TypeOK
  <1>7. FloorsRespected'
    BY <1>1 DEF FloorsRespected, FloorRespected, TypeOK, Phases, Outcomes, Outcome, NoOutcome, AttemptsOrdered
  <1> QED
    BY <1>2, <1>3, <1>4, <1>5, <1>6, <1>7

\* Entering metadata(), retry_metadata() or metadata_with_context() preserves the inductive invariant.
LEMMA EnterPreserves ==
    ASSUME IInv, NEW t \in Threads, Enter(t)
    PROVE  IInv'
  <1> USE DEF Enter, Goto, IInv, Attempts
  <1>0. Cardinality(Threads) \in Nat
    BY ThreadsAssumption, FS_CardinalityType
  <1>1. phase' = phase /\ reg' = reg /\ next_attempt' = next_attempt
    BY DEF cache
  <1>2. TypeOK'
    <2>1. pc' \in [Threads -> Locations]
      BY DEF TypeOK, Locations
    <2>2. outcome' \in [Threads -> Outcomes]
      BY MaxAttemptAssumption DEF TypeOK, Outcomes, Outcome
    <2> QED
      BY <1>1, <2>1, <2>2 DEF TypeOK
  <1>3. WaiterAccounting'
    BY <1>1 DEF WaiterAccounting, Registered
  <1>4. BuilderOwnsPhase'
    BY <1>1 DEF BuilderOwnsPhase, TypeOK
  <1>5. AttemptsOrdered'
    BY <1>1 DEF AttemptsOrdered
  <1>6. RegistrationsLive'
    BY <1>1 DEF RegistrationsLive, TypeOK
  <1>7. FloorsRespected'
    <2>1. /\ mode[t] # "none"
          /\ \A u \in Threads \ {t} : pc'[u] = pc[u] /\ outcome'[u] = outcome[u]
      BY DEF FloorsRespected, FloorRespected, TypeOK
    <2>2. CASE expired[t]
      BY <1>1, <2>1, <2>2 DEF FloorsRespected, FloorRespected, TypeOK, Phases, Outcomes, Outcome, AttemptsOrdered
    <2>3. CASE ~expired[t]
      BY <1>1, <2>1, <2>3 DEF FloorsRespected, FloorRespected, TypeOK, Phases, Outcomes, AttemptsOrdered
    <2> QED
      BY <2>2, <2>3
  <1> QED
    BY <1>2, <1>3, <1>4, <1>5, <1>6, <1>7

\* A caller's return preserves the inductive invariant.
LEMMA SettlePreserves ==
    ASSUME IInv, NEW t \in Threads, Settle(t)
    PROVE  IInv'
  <1> USE DEF Settle, Goto, IInv, Attempts
  <1>0. Cardinality(Threads) \in Nat
    BY ThreadsAssumption, FS_CardinalityType
  <1>1. phase' = phase /\ reg' = reg /\ next_attempt' = next_attempt
    BY DEF cache
  <1>2. TypeOK'
    BY <1>0, <1>1, MaxAttemptAssumption DEF TypeOK, Phases, Locations, Modes, Outcomes, Outcome, NoOutcome, AttemptsOrdered, cache
  <1>3. WaiterAccounting'
    BY <1>1 DEF WaiterAccounting, Registered
  <1>4. BuilderOwnsPhase'
    BY <1>1 DEF BuilderOwnsPhase, TypeOK
  <1>5. AttemptsOrdered'
    BY <1>1 DEF AttemptsOrdered
  <1>6. RegistrationsLive'
    BY <1>1 DEF RegistrationsLive, TypeOK
  <1>7. FloorsRespected'
    BY <1>1 DEF FloorsRespected, FloorRespected, TypeOK, Phases, Outcomes, Outcome, NoOutcome, AttemptsOrdered
  <1> QED
    BY <1>2, <1>3, <1>4, <1>5, <1>6, <1>7

\* A context caller that finds a failure preserves the inductive invariant.
LEMMA LoopFailedWithContextPreserves ==
    ASSUME IInv, NEW t \in Threads, LoopFailedWithContext(t)
    PROVE  IInv'
  <1> USE DEF LoopFailedWithContext, Goto, IInv, Attempts
  <1>0. Cardinality(Threads) \in Nat
    BY ThreadsAssumption, FS_CardinalityType
  <1>1. phase' = phase /\ reg' = reg /\ next_attempt' = next_attempt
    BY DEF cache
  <1>2. TypeOK'
    BY <1>0, <1>1, MaxAttemptAssumption DEF TypeOK, Phases, Locations, Modes, Outcomes, Outcome, NoOutcome, AttemptsOrdered, cache
  <1>3. WaiterAccounting'
    BY <1>1 DEF WaiterAccounting, Registered
  <1>4. BuilderOwnsPhase'
    BY <1>1 DEF BuilderOwnsPhase, TypeOK
  <1>5. AttemptsOrdered'
    BY <1>1 DEF AttemptsOrdered
  <1>6. RegistrationsLive'
    BY <1>1 DEF RegistrationsLive, TypeOK
  <1>7. FloorsRespected'
    BY <1>1 DEF FloorsRespected, FloorRespected, TypeOK, Phases, Outcomes, Outcome, NoOutcome, AttemptsOrdered
  <1> QED
    BY <1>2, <1>3, <1>4, <1>5, <1>6, <1>7

\* A waiter whose poll interval elapses preserves the inductive invariant.
LEMMA WaitTimeoutPreserves ==
    ASSUME IInv, NEW t \in Threads, WaitTimeout(t)
    PROVE  IInv'
  <1> USE DEF WaitTimeout, Goto, IInv, Attempts
  <1>0. Cardinality(Threads) \in Nat
    BY ThreadsAssumption, FS_CardinalityType
  <1>1. phase' = phase /\ reg' = reg /\ next_attempt' = next_attempt
    BY DEF cache
  <1>2. TypeOK'
    BY <1>0, <1>1, MaxAttemptAssumption DEF TypeOK, Phases, Locations, Modes, Outcomes, Outcome, NoOutcome, AttemptsOrdered, cache
  <1>3. WaiterAccounting'
    BY <1>1 DEF WaiterAccounting, Registered
  <1>4. BuilderOwnsPhase'
    BY <1>1 DEF BuilderOwnsPhase, TypeOK
  <1>5. AttemptsOrdered'
    BY <1>1 DEF AttemptsOrdered
  <1>6. RegistrationsLive'
    BY <1>1 DEF RegistrationsLive, TypeOK
  <1>7. FloorsRespected'
    BY <1>1 DEF FloorsRespected, FloorRespected, TypeOK, Phases, Outcomes, Outcome, NoOutcome, AttemptsOrdered
  <1> QED
    BY <1>2, <1>3, <1>4, <1>5, <1>6, <1>7

\* A spurious wake-up preserves the inductive invariant.
LEMMA SpuriousWakePreserves ==
    ASSUME IInv, NEW t \in Threads, SpuriousWake(t)
    PROVE  IInv'
  <1> USE DEF SpuriousWake, Goto, IInv, Attempts
  <1>0. Cardinality(Threads) \in Nat
    BY ThreadsAssumption, FS_CardinalityType
  <1>1. phase' = phase /\ reg' = reg /\ next_attempt' = next_attempt
    BY DEF cache
  <1>2. TypeOK'
    BY <1>0, <1>1, MaxAttemptAssumption DEF TypeOK, Phases, Locations, Modes, Outcomes, Outcome, NoOutcome, AttemptsOrdered, cache
  <1>3. WaiterAccounting'
    BY <1>1 DEF WaiterAccounting, Registered
  <1>4. BuilderOwnsPhase'
    BY <1>1 DEF BuilderOwnsPhase, TypeOK
  <1>5. AttemptsOrdered'
    BY <1>1 DEF AttemptsOrdered
  <1>6. RegistrationsLive'
    BY <1>1 DEF RegistrationsLive, TypeOK
  <1>7. FloorsRespected'
    BY <1>1 DEF FloorsRespected, FloorRespected, TypeOK, Phases, Outcomes, Outcome, NoOutcome, AttemptsOrdered
  <1> QED
    BY <1>2, <1>3, <1>4, <1>5, <1>6, <1>7

\* A notify_all preserves the inductive invariant.
LEMMA NotifyAllPreserves ==
    ASSUME IInv, NEW t \in Threads, NotifyAll(t)
    PROVE  IInv'
  <1> USE DEF NotifyAll, Goto, IInv, Attempts
  <1>0. Cardinality(Threads) \in Nat
    BY ThreadsAssumption, FS_CardinalityType
  <1>1. phase' = phase /\ reg' = reg /\ next_attempt' = next_attempt
    BY DEF cache
  <1>2. TypeOK'
    BY <1>0, <1>1, MaxAttemptAssumption DEF TypeOK, Phases, Locations, Modes, Outcomes, Outcome, NoOutcome, AttemptsOrdered, cache
  <1>3. WaiterAccounting'
    BY <1>1 DEF WaiterAccounting, Registered
  <1>4. BuilderOwnsPhase'
    BY <1>1 DEF BuilderOwnsPhase, TypeOK
  <1>5. AttemptsOrdered'
    BY <1>1 DEF AttemptsOrdered
  <1>6. RegistrationsLive'
    BY <1>1 DEF RegistrationsLive, TypeOK
  <1>7. FloorsRespected'
    BY <1>1 DEF FloorsRespected, FloorRespected, TypeOK, Phases, Outcomes, Outcome, NoOutcome, AttemptsOrdered
  <1> QED
    BY <1>2, <1>3, <1>4, <1>5, <1>6, <1>7

\* A retry that waits for the pending waiters of a failure preserves the inductive invariant.
LEMMA RetryWaitPreserves ==
    ASSUME IInv, NEW t \in Threads, RetryWait(t)
    PROVE  IInv'
  <1> USE DEF RetryWait, Goto, IInv, Attempts
  <1>0. Cardinality(Threads) \in Nat
    BY ThreadsAssumption, FS_CardinalityType
  <1>1. phase' = phase /\ reg' = reg /\ next_attempt' = next_attempt
    BY DEF cache
  <1>2. TypeOK'
    BY <1>0, <1>1, MaxAttemptAssumption DEF TypeOK, Phases, Locations, Modes, Outcomes, Outcome, NoOutcome, AttemptsOrdered, cache
  <1>3. WaiterAccounting'
    BY <1>1 DEF WaiterAccounting, Registered
  <1>4. BuilderOwnsPhase'
    BY <1>1 DEF BuilderOwnsPhase, TypeOK
  <1>5. AttemptsOrdered'
    BY <1>1 DEF AttemptsOrdered
  <1>6. RegistrationsLive'
    BY <1>1 DEF RegistrationsLive, TypeOK
  <1>7. FloorsRespected'
    BY <1>1 DEF FloorsRespected, FloorRespected, TypeOK, Phases, Outcomes, Outcome, NoOutcome, AttemptsOrdered
  <1> QED
    BY <1>2, <1>3, <1>4, <1>5, <1>6, <1>7

\* A retry that falls through to metadata() preserves the inductive invariant.
LEMMA RetryDelegatePreserves ==
    ASSUME IInv, NEW t \in Threads, RetryDelegate(t)
    PROVE  IInv'
  <1> USE DEF RetryDelegate, Goto, IInv, Attempts
  <1>0. Cardinality(Threads) \in Nat
    BY ThreadsAssumption, FS_CardinalityType
  <1>1. phase' = phase /\ reg' = reg /\ next_attempt' = next_attempt
    BY DEF cache
  <1>2. TypeOK'
    BY <1>0, <1>1, MaxAttemptAssumption DEF TypeOK, Phases, Locations, Modes, Outcomes, Outcome, NoOutcome, AttemptsOrdered, cache
  <1>3. WaiterAccounting'
    BY <1>1 DEF WaiterAccounting, Registered
  <1>4. BuilderOwnsPhase'
    BY <1>1 DEF BuilderOwnsPhase, TypeOK
  <1>5. AttemptsOrdered'
    BY <1>1 DEF AttemptsOrdered
  <1>6. RegistrationsLive'
    BY <1>1 DEF RegistrationsLive, TypeOK
  <1>7. FloorsRespected'
    BY <1>1 DEF FloorsRespected, FloorRespected, TypeOK, Phases, Outcomes, Outcome, NoOutcome, AttemptsOrdered
  <1> QED
    BY <1>2, <1>3, <1>4, <1>5, <1>6, <1>7

\* A caller that finds the metadata ready preserves the inductive invariant.
LEMMA LoopReadyPreserves ==
    ASSUME IInv, NEW t \in Threads, LoopReady(t)
    PROVE  IInv'
  <1> USE DEF LoopReady, Goto, IInv, Attempts
  <1>0. Cardinality(Threads) \in Nat
    BY ThreadsAssumption, FS_CardinalityType
  <1>1. /\ Count(reg, phase.attempt) \in 0 .. Cardinality(Threads)
        /\ Count(reg', phase'.attempt) \in 0 .. Cardinality(Threads)
    BY CountBounds
  <1>3. WaiterAccounting'
    BY <1>0, <1>1, CountMove, CountZero DEF WaiterAccounting, Registered, Count, TypeOK, Phases, AttemptsOrdered, Outcome, NoOutcome, Absent, Building, Ready, Failed, cache
  <1>2. TypeOK'
    BY <1>0, <1>1, <1>3, MaxAttemptAssumption DEF TypeOK, Phases, Locations, Modes, Outcomes, Outcome, NoOutcome, Absent, Building, Ready, Failed, AttemptsOrdered, cache, WaiterAccounting, Registered, Count
  <1>4. BuilderOwnsPhase'
    BY DEF BuilderOwnsPhase, TypeOK, Phases, Outcome, NoOutcome, Absent, Building, Ready, Failed, cache
  <1>5. AttemptsOrdered'
    BY MaxAttemptAssumption DEF AttemptsOrdered, TypeOK, Phases, Outcome, NoOutcome, Absent, Building, Ready, Failed, cache, BuilderOwnsPhase
  <1>6. RegistrationsLive'
    BY DEF RegistrationsLive, TypeOK, Outcome, NoOutcome, Absent, Building, Ready, Failed
  <1>7. FloorsRespected'
    BY DEF FloorsRespected, FloorRespected, TypeOK, Phases, Outcomes, Outcome, NoOutcome, Absent, Building, Ready, Failed, AttemptsOrdered, cache, BuilderOwnsPhase
  <1> QED
    BY <1>2, <1>3, <1>4, <1>5, <1>6, <1>7

\* A caller that takes a failure and its registration with it preserves the inductive invariant.
LEMMA LoopFailedPreserves ==
    ASSUME IInv, NEW t \in Threads, LoopFailed(t)
    PROVE  IInv'
  <1> USE DEF LoopFailed, Goto, IInv, Attempts
  <1>0. Cardinality(Threads) \in Nat
    BY ThreadsAssumption, FS_CardinalityType
  <1>1. /\ Count(reg, phase.attempt) \in 0 .. Cardinality(Threads)
        /\ Count(reg', phase'.attempt) \in 0 .. Cardinality(Threads)
    BY CountBounds
  <1>3. WaiterAccounting'
    <2>1. /\ phase.attempt \in Attempts /\ phase.attempt # 0
          /\ phase.waiters = Count(reg, phase.attempt)
          /\ reg \in [Threads -> Attempts] /\ 0 \in Attempts
      BY <1>0, MaxAttemptAssumption
         DEF WaiterAccounting, Registered, Count, TypeOK, Phases, AttemptsOrdered
    <2>2. CASE reg[t] = phase.attempt
      <3>0. reg' = [reg EXCEPT ![t] = 0] /\ phase' = [phase EXCEPT !.waiters = @ - 1]
        BY <2>2
      <3> HIDE DEF LoopFailed, IInv
      <3>1. Count(reg', phase.attempt) = Count(reg, phase.attempt) - 1
        BY <2>1, <2>2, <3>0, CountMove
      <3> QED
        BY <2>1, <3>0, <3>1 DEF WaiterAccounting, Registered, Count, TypeOK, Phases
    <2>3. CASE reg[t] # phase.attempt
      <3>1. Count(reg', phase.attempt) = Count(reg, phase.attempt)
        BY <2>1, <2>3, CountMove
      <3> QED
        BY <2>1, <2>3, <3>1 DEF WaiterAccounting, Registered, Count, TypeOK, Phases
    <2> QED
      BY <2>2, <2>3
  <1>2. TypeOK'
    BY <1>0, <1>1, <1>3, MaxAttemptAssumption DEF TypeOK, Phases, Locations, Modes, Outcomes, Outcome, NoOutcome, Absent, Building, Ready, Failed, AttemptsOrdered, cache, WaiterAccounting, Registered, Count
  <1>4. BuilderOwnsPhase'
    BY DEF BuilderOwnsPhase, TypeOK, Phases, Outcome, NoOutcome, Absent, Building, Ready, Failed, cache
  <1>5. AttemptsOrdered'
    BY MaxAttemptAssumption DEF AttemptsOrdered, TypeOK, Phases, Outcome, NoOutcome, Absent, Building, Ready, Failed, cache, BuilderOwnsPhase
  <1>6. RegistrationsLive'
    BY DEF RegistrationsLive, TypeOK, Outcome, NoOutcome, Absent, Building, Ready, Failed
  <1>7. FloorsRespected'
    <2>1. ASSUME NEW u \in Threads, u # t
          PROVE  FloorRespected(u)'
      BY <2>1 DEF FloorsRespected, FloorRespected, TypeOK, Phases, cache
    <2>2. FloorRespected(t)'
      BY DEF FloorsRespected, FloorRespected, TypeOK, Phases, Outcome, cache
    <2> QED
      BY <2>1, <2>2 DEF FloorsRespected
  <1> QED
    BY <1>2, <1>3, <1>4, <1>5, <1>6, <1>7

\* A context caller that registers on a build, or gives up preserves the inductive invariant.
LEMMA LoopBuildingWithContextPreserves ==
    ASSUME IInv, NEW t \in Threads, LoopBuildingWithContext(t)
    PROVE  IInv'
  <1> USE DEF LoopBuildingWithContext, Goto, IInv, Attempts
  <1>0. Cardinality(Threads) \in Nat
    BY ThreadsAssumption, FS_CardinalityType
  <1>1. /\ Count(reg, phase.attempt) \in 0 .. Cardinality(Threads)
        /\ Count(reg', phase'.attempt) \in 0 .. Cardinality(Threads)
    BY CountBounds
  <1>3. WaiterAccounting'
    <2>1. /\ phase.attempt \in Attempts /\ phase.attempt # 0
          /\ phase.waiters = Count(reg, phase.attempt)
          /\ reg \in [Threads -> Attempts] /\ 0 \in Attempts
      BY <1>0, MaxAttemptAssumption
         DEF WaiterAccounting, Registered, Count, TypeOK, Phases, AttemptsOrdered
    <2>2. CASE reg[t] = phase.attempt
      <3>1. Count(reg', phase.attempt) = Count(reg, phase.attempt)
        BY <2>1, <2>2, CountMove
      <3> QED
        BY <2>1, <2>2, <3>1 DEF WaiterAccounting, Registered, Count, TypeOK, Phases
    <2>3. CASE reg[t] # phase.attempt
      <3>1. Count(reg', phase.attempt) = Count(reg, phase.attempt) + 1
        BY <2>1, <2>3, CountMove
      <3> QED
        BY <2>1, <2>3, <3>1 DEF WaiterAccounting, Registered, Count, TypeOK, Phases
    <2> QED
      BY <2>2, <2>3
  <1>2. TypeOK'
    <2>1. reg' \in [Threads -> Attempts] /\ next_attempt' \in 1 .. MaxAttempt
      BY MaxAttemptAssumption DEF TypeOK, Phases, cache
    <2>2. phase' \in Phases
      BY <1>0, <1>1, <1>3, MaxAttemptAssumption
         DEF TypeOK, Phases, Building, cache, WaiterAccounting, Registered, Count
    <2>3. pc' \in [Threads -> Locations]
      BY DEF TypeOK, Locations
    <2>4. outcome' \in [Threads -> Outcomes]
      BY MaxAttemptAssumption DEF TypeOK, Outcomes, Outcome
    <2>5. elected' \in [Threads -> Attempts]
      BY DEF TypeOK
    <2> QED
      BY <2>1, <2>2, <2>3, <2>4, <2>5 DEF TypeOK
  <1>4. BuilderOwnsPhase'
    BY DEF BuilderOwnsPhase, TypeOK, Phases, Outcome, NoOutcome, Absent, Building, Ready, Failed, cache
  <1>5. AttemptsOrdered'
    BY MaxAttemptAssumption DEF AttemptsOrdered, TypeOK, Phases, Outcome, NoOutcome, Absent, Building, Ready, Failed, cache, BuilderOwnsPhase
  <1>6. RegistrationsLive'
    BY DEF RegistrationsLive, TypeOK, Outcome, NoOutcome, Absent, Building, Ready, Failed
  <1>7. FloorsRespected'
    <2>1. ASSUME NEW u \in Threads, u # t
          PROVE  FloorRespected(u)'
      BY <2>1 DEF FloorsRespected, FloorRespected, TypeOK, Phases, cache
    <2>2. FloorRespected(t)'
      BY DEF FloorsRespected, FloorRespected, TypeOK, Phases, Outcome, cache
    <2> QED
      BY <2>1, <2>2 DEF FloorsRespected
  <1> QED
    BY <1>2, <1>3, <1>4, <1>5, <1>6, <1>7

\* A caller that registers on a build preserves the inductive invariant.
LEMMA LoopBuildingPreserves ==
    ASSUME IInv, NEW t \in Threads, LoopBuilding(t)
    PROVE  IInv'
  <1> USE DEF LoopBuilding, Goto, IInv, Attempts
  <1>0. Cardinality(Threads) \in Nat
    BY ThreadsAssumption, FS_CardinalityType
  <1>1. /\ Count(reg, phase.attempt) \in 0 .. Cardinality(Threads)
        /\ Count(reg', phase'.attempt) \in 0 .. Cardinality(Threads)
    BY CountBounds
  <1>3. WaiterAccounting'
    <2>1. /\ phase.attempt \in Attempts /\ phase.attempt # 0
          /\ phase.waiters = Count(reg, phase.attempt)
          /\ reg \in [Threads -> Attempts] /\ 0 \in Attempts
      BY <1>0, MaxAttemptAssumption
         DEF WaiterAccounting, Registered, Count, TypeOK, Phases, AttemptsOrdered
    <2>2. CASE reg[t] # 0
      BY <2>2 DEF WaiterAccounting, Registered, TypeOK
    <2>3. CASE reg[t] = 0
      <3>0. /\ reg' = [reg EXCEPT ![t] = phase.attempt]
            /\ phase' = [phase EXCEPT !.waiters = @ + 1]
        BY <2>3
      <3> HIDE DEF LoopBuilding, IInv, Attempts, Goto
      <3>1. Count([reg EXCEPT ![t] = phase.attempt], phase.attempt)
              = Count(reg, phase.attempt) + 1
        BY <2>1, <2>3, CountMove
      <3> QED
        BY <2>1, <3>0, <3>1 DEF WaiterAccounting, Registered, Count, TypeOK, Phases
    <2> QED
      BY <2>2, <2>3
  <1>2. TypeOK'
    BY <1>0, <1>1, <1>3, MaxAttemptAssumption DEF TypeOK, Phases, Locations, Modes, Outcomes, Outcome, NoOutcome, Absent, Building, Ready, Failed, AttemptsOrdered, cache, WaiterAccounting, Registered, Count
  <1>4. BuilderOwnsPhase'
    BY DEF BuilderOwnsPhase, TypeOK, Phases, Outcome, NoOutcome, Absent, Building, Ready, Failed, cache
  <1>5. AttemptsOrdered'
    BY MaxAttemptAssumption DEF AttemptsOrdered, TypeOK, Phases, Outcome, NoOutcome, Absent, Building, Ready, Failed, cache, BuilderOwnsPhase
  <1>6. RegistrationsLive'
    BY DEF RegistrationsLive, TypeOK, Outcome, NoOutcome, Absent, Building, Ready, Failed
  <1>7. FloorsRespected'
    BY DEF FloorsRespected, FloorRespected, TypeOK, Phases, Outcomes, Outcome, NoOutcome, Absent, Building, Ready, Failed, AttemptsOrdered, cache, BuilderOwnsPhase
  <1> QED
    BY <1>2, <1>3, <1>4, <1>5, <1>6, <1>7

\* The election of a builder preserves the inductive invariant.
LEMMA LoopAbsentPreserves ==
    ASSUME IInv, NEW t \in Threads, LoopAbsent(t)
    PROVE  IInv'
  <1> USE DEF LoopAbsent, Goto, IInv, Attempts
  <1>0. Cardinality(Threads) \in Nat
    BY ThreadsAssumption, FS_CardinalityType
  <1>1. /\ Count(reg, phase.attempt) \in 0 .. Cardinality(Threads)
        /\ Count(reg', phase'.attempt) \in 0 .. Cardinality(Threads)
    BY CountBounds
  <1>3. WaiterAccounting'
    <2>1. CASE phase' = phase
      BY <2>1 DEF WaiterAccounting
    <2>2. CASE phase' = Building(next_attempt, 0)
      <3>1. \A u \in Threads : reg'[u] # next_attempt
        BY DEF AttemptsOrdered, TypeOK
      <3>2. Count(reg', next_attempt) = 0
        BY <3>1, CountZero
      <3> QED
        BY <2>2, <3>2 DEF WaiterAccounting, Registered, Count, Building
    <2> QED
      BY <2>1, <2>2 DEF cache
  <1>2. TypeOK'
    <2>1. reg' \in [Threads -> Attempts] /\ next_attempt' \in 1 .. MaxAttempt
      BY MaxAttemptAssumption DEF TypeOK, Phases, cache
    <2>2. phase' \in Phases
      BY <1>0, <1>1, <1>3, MaxAttemptAssumption
         DEF TypeOK, Phases, Building, cache, WaiterAccounting, Registered, Count
    <2>3. pc' \in [Threads -> Locations] /\ elected' \in [Threads -> Attempts]
      BY MaxAttemptAssumption DEF TypeOK, Locations, cache
    <2>4. outcome' \in [Threads -> Outcomes]
      <3>1. {Outcome("expired", 0), Outcome("exhausted", 0)} \subseteq Outcomes
        BY MaxAttemptAssumption DEF Outcomes, Outcome
      <3> QED
        BY <3>1 DEF TypeOK
    <2> QED
      BY <2>1, <2>2, <2>3, <2>4 DEF TypeOK
  <1>4. BuilderOwnsPhase'
    BY DEF BuilderOwnsPhase, TypeOK, Phases, Outcome, NoOutcome, Absent, Building, Ready, Failed, cache
  <1>5. AttemptsOrdered'
    BY MaxAttemptAssumption DEF AttemptsOrdered, TypeOK, Phases, Outcome, NoOutcome, Absent, Building, Ready, Failed, cache, BuilderOwnsPhase
  <1>6. RegistrationsLive'
    BY DEF RegistrationsLive, TypeOK, Outcome, NoOutcome, Absent, Building, Ready, Failed
  <1>7. FloorsRespected'
    BY DEF FloorsRespected, FloorRespected, TypeOK, Phases, Outcomes, Outcome, NoOutcome, Absent, Building, Ready, Failed, AttemptsOrdered, cache, BuilderOwnsPhase
  <1> QED
    BY <1>2, <1>3, <1>4, <1>5, <1>6, <1>7

\* Dropping the WaiterRegistration of an expired caller preserves the inductive invariant.
LEMMA DropRegistrationPreserves ==
    ASSUME IInv, NEW t \in Threads, DropRegistration(t)
    PROVE  IInv'
  <1> USE DEF DropRegistration, Goto, IInv, Attempts
  <1>0. Cardinality(Threads) \in Nat
    BY ThreadsAssumption, FS_CardinalityType
  <1>1. /\ Count(reg, phase.attempt) \in 0 .. Cardinality(Threads)
        /\ Count(reg', phase'.attempt) \in 0 .. Cardinality(Threads)
    BY CountBounds
  <1>3. WaiterAccounting'
    <2> SUFFICES ASSUME phase.tag \in {"Building", "Failed"}
                 PROVE  WaiterAccounting'
      BY DEF WaiterAccounting
    <2>1. /\ phase.attempt \in Attempts /\ phase.attempt # 0
          /\ phase.waiters = Count(reg, phase.attempt)
          /\ reg \in [Threads -> Attempts] /\ 0 \in Attempts
      BY <1>0, MaxAttemptAssumption
         DEF WaiterAccounting, Registered, Count, TypeOK, Phases, AttemptsOrdered
    <2>2. CASE reg[t] = phase.attempt
      <3>0. reg' = [reg EXCEPT ![t] = 0] /\ phase' = [phase EXCEPT !.waiters = @ - 1]
        BY <2>2
      <3> HIDE DEF DropRegistration, IInv
      <3>1. Count(reg', phase.attempt) = Count(reg, phase.attempt) - 1
        BY <2>1, <2>2, <3>0, CountMove
      <3> QED
        BY <2>1, <3>0, <3>1 DEF WaiterAccounting, Registered, Count, TypeOK, Phases
    <2>3. CASE reg[t] # phase.attempt
      <3>0. phase' = phase
        BY <2>3
      <3>1. Count(reg', phase.attempt) = Count(reg, phase.attempt)
        BY <2>1, <2>3, CountMove
      <3> HIDE DEF DropRegistration
      <3> QED
        BY <2>1, <3>0, <3>1 DEF WaiterAccounting, Registered, Count, TypeOK, Phases
    <2> QED
      BY <2>2, <2>3
  <1>2. TypeOK'
    BY <1>0, <1>1, <1>3, MaxAttemptAssumption DEF TypeOK, Phases, Locations, Modes, Outcomes, Outcome, NoOutcome, Absent, Building, Ready, Failed, AttemptsOrdered, cache, WaiterAccounting, Registered, Count
  <1>4. BuilderOwnsPhase'
    BY DEF BuilderOwnsPhase, TypeOK, Phases, Outcome, NoOutcome, Absent, Building, Ready, Failed, cache
  <1>5. AttemptsOrdered'
    BY MaxAttemptAssumption DEF AttemptsOrdered, TypeOK, Phases, Outcome, NoOutcome, Absent, Building, Ready, Failed, cache, BuilderOwnsPhase
  <1>6. RegistrationsLive'
    BY DEF RegistrationsLive, TypeOK, Outcome, NoOutcome, Absent, Building, Ready, Failed
  <1>7. FloorsRespected'
    BY DEF FloorsRespected, FloorRespected, TypeOK, Phases, Outcomes, Outcome, NoOutcome, Absent, Building, Ready, Failed, AttemptsOrdered, cache, BuilderOwnsPhase
  <1> QED
    BY <1>2, <1>3, <1>4, <1>5, <1>6, <1>7

\* Publishing the metadata preserves the inductive invariant.
LEMMA BuildOkPreserves ==
    ASSUME IInv, NEW t \in Threads, BuildOk(t)
    PROVE  IInv'
  <1> USE DEF BuildOk, Goto, Publish, IInv, Attempts
  <1>0. Cardinality(Threads) \in Nat
    BY ThreadsAssumption, FS_CardinalityType
  <1>1. /\ Count(reg, phase.attempt) \in 0 .. Cardinality(Threads)
        /\ Count(reg', phase'.attempt) \in 0 .. Cardinality(Threads)
    BY CountBounds
  <1>3. WaiterAccounting'
    BY <1>0, <1>1, CountMove, CountZero DEF WaiterAccounting, Registered, Count, TypeOK, Phases, AttemptsOrdered, Outcome, NoOutcome, Absent, Building, Ready, Failed, cache
  <1>2. TypeOK'
    BY <1>0, <1>1, <1>3, MaxAttemptAssumption DEF TypeOK, Phases, Locations, Modes, Outcomes, Outcome, NoOutcome, Absent, Building, Ready, Failed, AttemptsOrdered, cache, WaiterAccounting, Registered, Count
  <1>4. BuilderOwnsPhase'
    BY DEF BuilderOwnsPhase, TypeOK, Phases, Outcome, NoOutcome, Absent, Building, Ready, Failed, cache
  <1>5. AttemptsOrdered'
    BY MaxAttemptAssumption DEF AttemptsOrdered, TypeOK, Phases, Outcome, NoOutcome, Absent, Building, Ready, Failed, cache, BuilderOwnsPhase
  <1>6. RegistrationsLive'
    BY DEF RegistrationsLive, TypeOK, Outcome, NoOutcome, Absent, Building, Ready, Failed
  <1>7. FloorsRespected'
    BY DEF FloorsRespected, FloorRespected, TypeOK, Phases, Outcomes, Outcome, NoOutcome, Absent, Building, Ready, Failed, AttemptsOrdered, cache, BuilderOwnsPhase
  <1> QED
    BY <1>2, <1>3, <1>4, <1>5, <1>6, <1>7

\* Publishing a failure preserves the inductive invariant.
LEMMA BuildFailsPreserves ==
    ASSUME IInv, NEW t \in Threads, BuildFails(t)
    PROVE  IInv'
  <1> USE DEF BuildFails, Goto, Publish, IInv, Attempts
  <1>0. Cardinality(Threads) \in Nat
    BY ThreadsAssumption, FS_CardinalityType
  <1>1. /\ Count(reg, phase.attempt) \in 0 .. Cardinality(Threads)
        /\ Count(reg', phase'.attempt) \in 0 .. Cardinality(Threads)
    BY CountBounds
  <1>3. WaiterAccounting'
    BY <1>0, <1>1, CountMove, CountZero DEF WaiterAccounting, Registered, Count, TypeOK, Phases, AttemptsOrdered, Outcome, NoOutcome, Absent, Building, Ready, Failed, cache
  <1>2. TypeOK'
    BY <1>0, <1>1, <1>3, MaxAttemptAssumption DEF TypeOK, Phases, Locations, Modes, Outcomes, Outcome, NoOutcome, Absent, Building, Ready, Failed, AttemptsOrdered, cache, WaiterAccounting, Registered, Count
  <1>4. BuilderOwnsPhase'
    BY DEF BuilderOwnsPhase, TypeOK, Phases, Outcome, NoOutcome, Absent, Building, Ready, Failed, cache
  <1>5. AttemptsOrdered'
    BY MaxAttemptAssumption DEF AttemptsOrdered, TypeOK, Phases, Outcome, NoOutcome, Absent, Building, Ready, Failed, cache, BuilderOwnsPhase
  <1>6. RegistrationsLive'
    BY DEF RegistrationsLive, TypeOK, Outcome, NoOutcome, Absent, Building, Ready, Failed
  <1>7. FloorsRespected'
    BY DEF FloorsRespected, FloorRespected, TypeOK, Phases, Outcomes, Outcome, NoOutcome, Absent, Building, Ready, Failed, AttemptsOrdered, cache, BuilderOwnsPhase
  <1> QED
    BY <1>2, <1>3, <1>4, <1>5, <1>6, <1>7

\* A build that is interrupted, back to Absent preserves the inductive invariant.
LEMMA BuildTransientPreserves ==
    ASSUME IInv, NEW t \in Threads, BuildTransient(t)
    PROVE  IInv'
  <1> USE DEF BuildTransient, Goto, Publish, IInv, Attempts
  <1>0. Cardinality(Threads) \in Nat
    BY ThreadsAssumption, FS_CardinalityType
  <1>1. /\ Count(reg, phase.attempt) \in 0 .. Cardinality(Threads)
        /\ Count(reg', phase'.attempt) \in 0 .. Cardinality(Threads)
    BY CountBounds
  <1>3. WaiterAccounting'
    BY <1>0, <1>1, CountMove, CountZero DEF WaiterAccounting, Registered, Count, TypeOK, Phases, AttemptsOrdered, Outcome, NoOutcome, Absent, Building, Ready, Failed, cache
  <1>2. TypeOK'
    BY <1>0, <1>1, <1>3, MaxAttemptAssumption DEF TypeOK, Phases, Locations, Modes, Outcomes, Outcome, NoOutcome, Absent, Building, Ready, Failed, AttemptsOrdered, cache, WaiterAccounting, Registered, Count
  <1>4. BuilderOwnsPhase'
    BY DEF BuilderOwnsPhase, TypeOK, Phases, Outcome, NoOutcome, Absent, Building, Ready, Failed, cache
  <1>5. AttemptsOrdered'
    BY MaxAttemptAssumption DEF AttemptsOrdered, TypeOK, Phases, Outcome, NoOutcome, Absent, Building, Ready, Failed, cache, BuilderOwnsPhase
  <1>6. RegistrationsLive'
    BY DEF RegistrationsLive, TypeOK, Outcome, NoOutcome, Absent, Building, Ready, Failed
  <1>7. FloorsRespected'
    BY DEF FloorsRespected, FloorRespected, TypeOK, Phases, Outcomes, Outcome, NoOutcome, Absent, Building, Ready, Failed, AttemptsOrdered, cache, BuilderOwnsPhase
  <1> QED
    BY <1>2, <1>3, <1>4, <1>5, <1>6, <1>7

\* A build that panics preserves the inductive invariant.
LEMMA BuildPanicsPreserves ==
    ASSUME IInv, NEW t \in Threads, BuildPanics(t)
    PROVE  IInv'
  <1> USE DEF BuildPanics, Goto, Publish, IInv, Attempts
  <1>0. Cardinality(Threads) \in Nat
    BY ThreadsAssumption, FS_CardinalityType
  <1>1. /\ Count(reg, phase.attempt) \in 0 .. Cardinality(Threads)
        /\ Count(reg', phase'.attempt) \in 0 .. Cardinality(Threads)
    BY CountBounds
  <1>3. WaiterAccounting'
    BY <1>0, <1>1, CountMove, CountZero DEF WaiterAccounting, Registered, Count, TypeOK, Phases, AttemptsOrdered, Outcome, NoOutcome, Absent, Building, Ready, Failed, cache
  <1>2. TypeOK'
    BY <1>0, <1>1, <1>3, MaxAttemptAssumption DEF TypeOK, Phases, Locations, Modes, Outcomes, Outcome, NoOutcome, Absent, Building, Ready, Failed, AttemptsOrdered, cache, WaiterAccounting, Registered, Count
  <1>4. BuilderOwnsPhase'
    BY DEF BuilderOwnsPhase, TypeOK, Phases, Outcome, NoOutcome, Absent, Building, Ready, Failed, cache
  <1>5. AttemptsOrdered'
    BY MaxAttemptAssumption DEF AttemptsOrdered, TypeOK, Phases, Outcome, NoOutcome, Absent, Building, Ready, Failed, cache, BuilderOwnsPhase
  <1>6. RegistrationsLive'
    BY DEF RegistrationsLive, TypeOK, Outcome, NoOutcome, Absent, Building, Ready, Failed
  <1>7. FloorsRespected'
    BY DEF FloorsRespected, FloorRespected, TypeOK, Phases, Outcomes, Outcome, NoOutcome, Absent, Building, Ready, Failed, AttemptsOrdered, cache, BuilderOwnsPhase
  <1> QED
    BY <1>2, <1>3, <1>4, <1>5, <1>6, <1>7

\* The reset of a drained failure by retry_metadata preserves the inductive invariant.
LEMMA RetryResetPreserves ==
    ASSUME IInv, NEW t \in Threads, RetryReset(t)
    PROVE  IInv'
  <1> USE DEF RetryReset, Goto, IInv, Attempts
  <1>0. Cardinality(Threads) \in Nat
    BY ThreadsAssumption, FS_CardinalityType
  <1>1. /\ Count(reg, phase.attempt) \in 0 .. Cardinality(Threads)
        /\ Count(reg', phase'.attempt) \in 0 .. Cardinality(Threads)
    BY CountBounds
  <1>3. WaiterAccounting'
    BY <1>0, <1>1, CountMove, CountZero DEF WaiterAccounting, Registered, Count, TypeOK, Phases, AttemptsOrdered, Outcome, NoOutcome, Absent, Building, Ready, Failed, cache
  <1>2. TypeOK'
    BY <1>0, <1>1, <1>3, MaxAttemptAssumption DEF TypeOK, Phases, Locations, Modes, Outcomes, Outcome, NoOutcome, Absent, Building, Ready, Failed, AttemptsOrdered, cache, WaiterAccounting, Registered, Count
  <1>4. BuilderOwnsPhase'
    BY DEF BuilderOwnsPhase, TypeOK, Phases, Outcome, NoOutcome, Absent, Building, Ready, Failed, cache
  <1>5. AttemptsOrdered'
    BY MaxAttemptAssumption DEF AttemptsOrdered, TypeOK, Phases, Outcome, NoOutcome, Absent, Building, Ready, Failed, cache, BuilderOwnsPhase
  <1>6. RegistrationsLive'
    BY DEF RegistrationsLive, TypeOK, Outcome, NoOutcome, Absent, Building, Ready, Failed
  <1>7. FloorsRespected'
    BY DEF FloorsRespected, FloorRespected, TypeOK, Phases, Outcomes, Outcome, NoOutcome, Absent, Building, Ready, Failed, AttemptsOrdered, cache, BuilderOwnsPhase
  <1> QED
    BY <1>2, <1>3, <1>4, <1>5, <1>6, <1>7

\* The inductive invariant is preserved: one case per action.
LEMMA NextIInv == IInv /\ [Next]_vars => IInv'
  <1> SUFFICES ASSUME IInv, [Next]_vars PROVE IInv'
    OBVIOUS
  <1>1. CASE UNCHANGED vars
    BY <1>1 DEF vars, cache, IInv, TypeOK, WaiterAccounting, Registered, BuilderOwnsPhase,
                AttemptsOrdered, RegistrationsLive, FloorsRespected, FloorRespected
  <1>2. CASE Next
    <2> PICK t \in Threads : \/ \E m \in EntryPoints[t] : Call(t, m)
                             \/ Expire(t) \/ Step(t)
                             \/ WaitTimeout(t) \/ SpuriousWake(t) \/ Build(t)
      BY <1>2 DEF Next
    <2>1. CASE \E m \in EntryPoints[t] : Call(t, m)
      BY <2>1, CallPreserves
    <2>2. CASE Expire(t) \/ WaitTimeout(t) \/ SpuriousWake(t)
      BY <2>2, ExpirePreserves, WaitTimeoutPreserves, SpuriousWakePreserves
    <2>3. CASE Build(t)
      BY <2>3, BuildOkPreserves, BuildFailsPreserves, BuildTransientPreserves,
         BuildPanicsPreserves DEF Build
    <2>4. CASE Enter(t) \/ Settle(t) \/ NotifyAll(t) \/ DropRegistration(t)
      BY <2>4, EnterPreserves, SettlePreserves, NotifyAllPreserves, DropRegistrationPreserves
    <2>5. CASE LoopReady(t) \/ LoopFailedWithContext(t) \/ LoopFailed(t)
      BY <2>5, LoopReadyPreserves, LoopFailedWithContextPreserves, LoopFailedPreserves
    <2>6. CASE LoopBuildingWithContext(t) \/ LoopBuilding(t) \/ LoopAbsent(t)
      BY <2>6, LoopBuildingWithContextPreserves, LoopBuildingPreserves, LoopAbsentPreserves
    <2>7. CASE RetryReset(t) \/ RetryWait(t) \/ RetryDelegate(t)
      BY <2>7, RetryResetPreserves, RetryWaitPreserves, RetryDelegatePreserves
    <2> QED
      BY <2>1, <2>2, <2>3, <2>4, <2>5, <2>6, <2>7 DEF Step
  <1> QED
    BY <1>1, <1>2

\* The inductive invariant holds in every reachable state.
LEMMA Invariance == Spec => []IInv
  BY InitIInv, NextIInv, PTL DEF Spec

\* Every counter, location and local of the cache stays in its range; waiters
\* and pending_waiters never underflow.
THEOREM TypeCorrect == Spec => []TypeOK
  <1>1. IInv => TypeOK
    BY DEF IInv
  <1> QED
    BY <1>1, Invariance, PTL

\* waiters and pending_waiters count exactly the registered threads.
THEOREM AccountingExact == Spec => []WaiterAccounting
  <1>1. IInv => WaiterAccounting
    BY DEF IInv
  <1> QED
    BY <1>1, Invariance, PTL

\* At most one builder, which always finds the phase it left, and no orphaned
\* Building phase.
THEOREM SingleBuilder == Spec => []BuilderOwnsPhase
  <1>1. IInv => BuilderOwnsPhase
    BY DEF IInv
  <1> QED
    BY <1>1, Invariance, PTL

\* retry_metadata never returns the failure that was cached when it was called.
THEOREM RetryFreshness == Spec => []RetryIsFresh
  <1>1. IInv => RetryIsFresh
    BY DEF IInv, FloorsRespected, FloorRespected, RetryIsFresh
  <1> QED
    BY <1>1, Invariance, PTL

\* The phases a step can leave behind, by the phase it starts from.
LEMMA PhaseSteps ==
    ASSUME IInv, [Next]_vars
    PROVE  \/ phase' = phase
           \/ \E t \in Threads : Publish(t, phase', outcome'[t])
           \/ phase.tag = "Absent"
           \/ phase.tag \in {"Building", "Failed"} /\ phase'.tag = phase.tag
           \/ phase.tag = "Failed" /\ phase.waiters = 0 /\ phase' = Absent
  <1>1. CASE UNCHANGED vars
    BY <1>1 DEF vars
  <1>2. CASE Next
    <2> PICK t \in Threads : \/ \E m \in EntryPoints[t] : Call(t, m)
                             \/ Expire(t) \/ Step(t)
                             \/ WaitTimeout(t) \/ SpuriousWake(t) \/ Build(t)
      BY <1>2 DEF Next
    <2>1. CASE \E m \in EntryPoints[t] : Call(t, m)
      BY <2>1 DEF Call, cache
    <2>2. CASE Expire(t) \/ WaitTimeout(t) \/ SpuriousWake(t)
      BY <2>2 DEF Expire, WaitTimeout, SpuriousWake, cache
    <2>3. CASE Build(t)
      <3>1. Publish(t, phase', outcome'[t])
        BY <2>3 DEF Build, BuildOk, BuildFails, BuildTransient, BuildPanics, Publish,
                    IInv, TypeOK
      <3> QED
        BY <3>1
    <2>4. CASE Enter(t) \/ Settle(t) \/ NotifyAll(t) \/ LoopReady(t)
               \/ LoopFailedWithContext(t) \/ RetryWait(t) \/ RetryDelegate(t)
      BY <2>4 DEF Enter, Settle, NotifyAll, LoopReady, LoopFailedWithContext, RetryWait,
                  RetryDelegate, cache
    <2>5. CASE DropRegistration(t)
      BY <2>5 DEF DropRegistration, IInv, TypeOK, Phases
    <2>6. CASE LoopFailed(t) \/ LoopBuildingWithContext(t) \/ LoopBuilding(t) \/ LoopAbsent(t)
      BY <2>6 DEF LoopFailed, LoopBuildingWithContext, LoopBuilding, LoopAbsent,
                  IInv, TypeOK, Phases
    <2>7. CASE RetryReset(t)
      BY <2>7 DEF RetryReset
    <2> QED
      BY <2>1, <2>2, <2>3, <2>4, <2>5, <2>6, <2>7 DEF Step
  <1> QED
    BY <1>1, <1>2

\* Attempt stability: a cached failure is forgotten only when nobody is
\* registered on it any more, and Ready metadata is never replaced.
THEOREM AttemptStability == Spec => FailureKeptForWaiters
  <1>1. ASSUME IInv, [Next]_vars
        PROVE  /\ phase.tag = "Ready" => phase' = phase
               /\ phase.tag = "Failed" /\ phase'.tag # "Failed" =>
                     phase' = Absent /\ Registered(phase.attempt) = {}
    <2>1. \A t \in Threads : Publish(t, phase', outcome'[t]) => phase.tag = "Building"
      BY DEF Publish
    <2>2. phase.tag = "Failed" /\ phase.waiters = 0 => Registered(phase.attempt) = {}
      BY <1>1, FS_EmptySet, CountBounds DEF IInv, WaiterAccounting, Registered
    <2> QED
      BY <1>1, <2>1, <2>2, PhaseSteps
  <1> QED
    BY <1>1, Invariance, PTL DEF Spec, FailureKeptForWaiters

---------------------------------------------------------------------------
(***************************************************************************)
(* A waiter leaves with the failure of the attempt it waited for.  IInv    *)
(* does not say what a caller about to drop its registration returns, nor  *)
(* that the attempt of the phase is the newest one; WaiterInv adds both.   *)
(***************************************************************************)

\* Building, Ready and Failed are those of the attempt handed out last.
NewestAttempt == phase.tag # "Absent" => phase.attempt + 1 = next_attempt

\* A caller drops its registration because it expired, or because it found the
\* failure of an attempt that is not older than its registration.
DropKnows(t) ==
    pc[t] = "drop" =>
        \/ outcome[t] = Outcome("expired", 0)
        \/ /\ outcome[t] = Outcome("failed", outcome[t].attempt)
           /\ reg[t] <= outcome[t].attempt
           /\ outcome[t].attempt < next_attempt

WaiterInv == NewestAttempt /\ \A t \in Threads : DropKnows(t)

\* A step that brings no thread to "drop" and keeps the phase's attempt, or
\* hands out a new one, preserves WaiterInv.
LEMMA OthersKeepWaiterInv ==
    ASSUME IInv, WaiterInv, next_attempt' \in Nat, next_attempt' >= next_attempt, NewestAttempt',
           \A u \in Threads : pc'[u] = "drop" =>
               pc[u] = "drop" /\ outcome'[u] = outcome[u] /\ reg'[u] = reg[u]
    PROVE  WaiterInv'
  <1>1. ASSUME NEW u \in Threads PROVE DropKnows(u)'
    <2>1. CASE pc'[u] = "drop"
      <3>1. DropKnows(u) /\ pc[u] = "drop" /\ outcome'[u] = outcome[u] /\ reg'[u] = reg[u]
        BY <2>1 DEF WaiterInv
      <3>2. outcome[u].attempt \in Nat /\ next_attempt \in Nat
        BY MaxAttemptAssumption DEF IInv, TypeOK, Outcomes, Attempts
      <3> QED
        BY <3>1, <3>2 DEF DropKnows
    <2>2. CASE pc'[u] # "drop"
      BY <2>2 DEF DropKnows
    <2> QED
      BY <2>1, <2>2
  <1> QED
    BY <1>1 DEF WaiterInv

\* A caller that goes to "drop" with outcome o, from the loop.
LEMMA ToDropKeepsWaiterInv ==
    ASSUME IInv, WaiterInv, NEW t \in Threads, NewestAttempt', next_attempt' = next_attempt,
           NEW o \in Outcomes,
           outcome' = [outcome EXCEPT ![t] = o], pc' = [pc EXCEPT ![t] = "drop"],
           \A u \in Threads \ {t} : reg'[u] = reg[u],
           \/ o = Outcome("expired", 0)
           \/ /\ o = Outcome("failed", o.attempt)
              /\ reg'[t] <= o.attempt /\ o.attempt < next_attempt
    PROVE  WaiterInv'
  <1>0. pc \in [Threads -> Locations] /\ outcome \in [Threads -> Outcomes]
    BY DEF IInv, TypeOK
  <1>1. DropKnows(t)'
    BY <1>0 DEF DropKnows
  <1>2. ASSUME NEW u \in Threads \ {t} PROVE DropKnows(u)'
    <2>1. pc'[u] = pc[u] /\ outcome'[u] = outcome[u] /\ reg'[u] = reg[u]
      BY <1>0
    <2> QED
      BY <2>1 DEF WaiterInv, DropKnows
  <1> QED
    BY <1>1, <1>2 DEF WaiterInv

\* A caller with a context that finds a failure.
LEMMA LoopFailedWithContextKeeps ==
    ASSUME IInv, WaiterInv, NEW t \in Threads, LoopFailedWithContext(t)
    PROVE  WaiterInv'
  <1>0. /\ pc \in [Threads -> Locations] /\ outcome \in [Threads -> Outcomes]
        /\ next_attempt \in Nat /\ phase.attempt \in Attempts /\ reg \in [Threads -> Attempts]
    BY MaxAttemptAssumption DEF IInv, TypeOK, Phases
  <1>1. /\ outcome' = [outcome EXCEPT ![t] = Outcome("failed", phase.attempt)]
        /\ reg' = reg /\ next_attempt' = next_attempt /\ phase' = phase
        /\ phase.tag = "Failed"
    BY DEF LoopFailedWithContext, cache
  <1>2. NewestAttempt'
    BY <1>1 DEF WaiterInv, NewestAttempt
  <1>3. CASE pc' = [pc EXCEPT ![t] = "settle"]
    BY <1>0, <1>1, <1>2, <1>3, OthersKeepWaiterInv
  <1>4. CASE pc' = [pc EXCEPT ![t] = "drop"]
    <2>1. reg[t] <= phase.attempt /\ phase.attempt < next_attempt
      BY <1>0, <1>1 DEF WaiterInv, NewestAttempt, IInv, AttemptsOrdered, Attempts
    <2>2. Outcome("failed", phase.attempt) \in Outcomes
      BY <1>0 DEF Outcome, Outcomes
    <2>3. /\ Outcome("failed", phase.attempt).attempt = phase.attempt
          /\ next_attempt' = next_attempt
      BY <1>1 DEF Outcome
    <2> DEFINE o == Outcome("failed", phase.attempt)
    <2>4. o \in Outcomes /\ o = Outcome("failed", o.attempt) /\ o.attempt = phase.attempt
      BY <2>2, <2>3
    <2> HIDE DEF o
    <2>5. outcome' = [outcome EXCEPT ![t] = o]
      BY <1>1 DEF o
    <2> QED
      BY <1>1, <1>2, <1>4, <2>1, <2>4, <2>5, ToDropKeepsWaiterInv
  <1> QED
    BY <1>3, <1>4 DEF LoopFailedWithContext, Goto

\* A caller with a context that finds a build, and expires.
LEMMA LoopBuildingWithContextKeeps ==
    ASSUME IInv, WaiterInv, NEW t \in Threads, LoopBuildingWithContext(t)
    PROVE  WaiterInv'
  <1>0. /\ pc \in [Threads -> Locations] /\ outcome \in [Threads -> Outcomes]
        /\ next_attempt \in Nat /\ phase \in Phases /\ reg \in [Threads -> Attempts]
    BY MaxAttemptAssumption DEF IInv, TypeOK
  <1>1. /\ reg' = [reg EXCEPT ![t] = phase.attempt] /\ next_attempt' = next_attempt
        /\ phase'.tag = phase.tag /\ phase'.attempt = phase.attempt
    BY <1>0 DEF LoopBuildingWithContext, Phases
  <1>2. NewestAttempt'
    BY <1>1 DEF WaiterInv, NewestAttempt
  <1>3. CASE pc' = [pc EXCEPT ![t] = "wait"] /\ outcome' = outcome
    BY <1>0, <1>1, <1>2, <1>3, OthersKeepWaiterInv
  <1>4. CASE /\ outcome' = [outcome EXCEPT ![t] = Outcome("expired", 0)]
             /\ pc' = [pc EXCEPT ![t] = "drop"]
    <2>1. Outcome("expired", 0) \in Outcomes
      BY MaxAttemptAssumption DEF Outcome, Outcomes, Attempts
    <2> QED
      BY <1>0, <1>1, <1>2, <1>4, <2>1, ToDropKeepsWaiterInv
  <1> QED
    BY <1>3, <1>4 DEF LoopBuildingWithContext, Goto

\* The other actions bring nobody to "drop".
LEMMA NextWaiterInv == IInv /\ WaiterInv /\ [Next]_vars => WaiterInv'
  <1> SUFFICES ASSUME IInv, WaiterInv, [Next]_vars PROVE WaiterInv'
    OBVIOUS
  <1>0. /\ pc \in [Threads -> Locations] /\ outcome \in [Threads -> Outcomes]
        /\ next_attempt \in Nat /\ phase \in Phases /\ reg \in [Threads -> Attempts]
    BY MaxAttemptAssumption DEF IInv, TypeOK
  <1>1. CASE UNCHANGED vars
    BY <1>1 DEF vars, WaiterInv, NewestAttempt, DropKnows
  <1>2. CASE Next
    <2> PICK t \in Threads : \/ \E m \in EntryPoints[t] : Call(t, m)
                             \/ Expire(t) \/ Step(t)
                             \/ WaitTimeout(t) \/ SpuriousWake(t) \/ Build(t)
      BY <1>2 DEF Next
    <2>1. CASE \E m \in EntryPoints[t] : Call(t, m)
      <3>1. PICK m \in EntryPoints[t] : Call(t, m)
        BY <2>1
      <3>2. m \in {"ctx", "plain", "retry"}
        BY EntryPointsAssumption
      <3>3. UNCHANGED <<cache, reg, outcome>>
        BY <3>1 DEF Call
      <3>4. \A u \in Threads : pc'[u] = "drop" => pc[u] = "drop"
        BY <1>0, <3>1, <3>2 DEF Call, Goto
      <3> QED
        BY <1>0, <3>3, <3>4, OthersKeepWaiterInv DEF WaiterInv, NewestAttempt, cache
    <2>2. CASE Expire(t) \/ WaitTimeout(t) \/ SpuriousWake(t) \/ RetryWait(t)
               \/ RetryDelegate(t) \/ NotifyAll(t)
      <3>1. UNCHANGED <<cache, reg, outcome>>
        BY <2>2 DEF Expire, WaitTimeout, SpuriousWake, RetryWait, RetryDelegate, NotifyAll
      <3>2. \A u \in Threads : pc'[u] = "drop" => pc[u] = "drop"
        BY <1>0, <2>2 DEF Expire, WaitTimeout, SpuriousWake, RetryWait, RetryDelegate,
                          NotifyAll, Goto
      <3> QED
        BY <1>0, <3>1, <3>2, OthersKeepWaiterInv DEF WaiterInv, NewestAttempt, cache
    <2>3. CASE Enter(t) \/ Settle(t) \/ LoopReady(t) \/ LoopFailed(t) \/ LoopBuilding(t)
               \/ DropRegistration(t) \/ RetryReset(t)
      <3>1. next_attempt' = next_attempt /\ NewestAttempt'
        BY <1>0, <2>3 DEF Enter, Settle, LoopReady, LoopFailed, LoopBuilding, DropRegistration,
                          RetryReset, WaiterInv, NewestAttempt, Absent, Phases, cache
      <3>2. \A u \in Threads : pc'[u] = "drop" =>
                pc[u] = "drop" /\ outcome'[u] = outcome[u] /\ reg'[u] = reg[u]
        BY <1>0, <2>3 DEF Enter, Settle, LoopReady, LoopFailed, LoopBuilding, DropRegistration,
                          RetryReset, Goto
      <3> QED
        BY <1>0, <3>1, <3>2, OthersKeepWaiterInv
    <2>4. CASE Build(t)
      <3>1. /\ phase.attempt = elected[t] /\ phase.tag = "Building" /\ reg' = reg
            /\ next_attempt' = next_attempt /\ pc' = [pc EXCEPT ![t] = "notify"]
            /\ \E o : outcome' = [outcome EXCEPT ![t] = o]
        BY <2>4 DEF Build, BuildOk, BuildFails, BuildTransient, BuildPanics, Publish, Goto
      <3>2. NewestAttempt'
        BY <1>0, <2>4, <3>1
           DEF Build, BuildOk, BuildFails, BuildTransient, BuildPanics, Publish,
               WaiterInv, NewestAttempt, Ready, Failed, Absent
      <3> QED
        BY <1>0, <3>1, <3>2, OthersKeepWaiterInv
    <2>5. CASE LoopAbsent(t)
      <3>1. next_attempt' \in Nat /\ next_attempt' >= next_attempt /\ NewestAttempt'
        BY <1>0, <2>5 DEF LoopAbsent, WaiterInv, NewestAttempt, Building, cache
      <3>2. \A u \in Threads : pc'[u] = "drop" =>
                pc[u] = "drop" /\ outcome'[u] = outcome[u] /\ reg'[u] = reg[u]
        BY <1>0, <2>5 DEF LoopAbsent, Goto
      <3> QED
        BY <3>1, <3>2, OthersKeepWaiterInv
    <2>6. CASE LoopFailedWithContext(t) \/ LoopBuildingWithContext(t)
      BY <2>6, LoopFailedWithContextKeeps, LoopBuildingWithContextKeeps
    <2> QED
      BY <2>1, <2>2, <2>3, <2>4, <2>5, <2>6 DEF Step
  <1> QED
    BY <1>1, <1>2

\* Who takes a registration off a failed attempt, and with which result.
LEMMA LeaveWithOutcome ==
    ASSUME IInv, WaiterInv, [Next]_vars, NEW t \in Threads,
           phase.tag = "Failed", reg[t] = phase.attempt, reg'[t] # reg[t]
    PROVE  \/ outcome'[t] = Outcome("failed", phase.attempt)
           \/ outcome'[t] = Outcome("expired", 0)
  <1>0. /\ outcome \in [Threads -> Outcomes] /\ reg \in [Threads -> Attempts]
        /\ next_attempt \in Nat /\ phase.attempt \in Nat
    BY MaxAttemptAssumption DEF IInv, TypeOK, Phases, Attempts
  <1>1. LoopFailed(t) \/ DropRegistration(t)
    <2>1. \A u \in Threads : Build(u) => phase.tag = "Building"
      BY DEF Build, BuildOk, BuildFails, BuildTransient, BuildPanics, Publish
    <2>2. \A u \in Threads : \A m \in EntryPoints[u] : Call(u, m) => reg' = reg
      BY DEF Call
    <2>3. ASSUME NEW u \in Threads,
                 Expire(u) \/ WaitTimeout(u) \/ SpuriousWake(u) \/ Enter(u) \/ Settle(u)
                 \/ LoopFailedWithContext(u) \/ NotifyAll(u) \/ RetryReset(u)
                 \/ RetryWait(u) \/ RetryDelegate(u)
          PROVE  reg' = reg
      BY <2>3 DEF Expire, WaitTimeout, SpuriousWake, Enter, Settle, LoopFailedWithContext,
                  NotifyAll, RetryReset, RetryWait, RetryDelegate
    <2>4. ASSUME NEW u \in Threads,
                 LoopReady(u) \/ LoopBuildingWithContext(u) \/ LoopBuilding(u)
                 \/ LoopAbsent(u)
          PROVE  phase.tag # "Failed"
      BY <2>4 DEF LoopReady, LoopBuildingWithContext, LoopBuilding, LoopAbsent
    <2>5. \A u \in Threads : LoopFailed(u) \/ DropRegistration(u) => u = t
      BY <1>0 DEF LoopFailed, DropRegistration
    <2>6. ~ UNCHANGED vars
      BY DEF vars
    <2>7. PICK u \in Threads : \/ \E m \in EntryPoints[u] : Call(u, m)
                               \/ Expire(u) \/ Step(u)
                               \/ WaitTimeout(u) \/ SpuriousWake(u) \/ Build(u)
      BY <2>6 DEF Next
    <2>8. Step(u)
      BY <2>1, <2>2, <2>3, <2>7
    <2>9. LoopFailed(u) \/ DropRegistration(u)
      BY <2>3, <2>4, <2>8 DEF Step
    <2> QED
      BY <2>5, <2>9
  <1>2. CASE LoopFailed(t)
    BY <1>0, <1>2 DEF LoopFailed
  <1>3. CASE DropRegistration(t)
    <2>1. pc[t] = "drop" /\ outcome' = outcome
      BY <1>3 DEF DropRegistration
    <2>2. DropKnows(t) /\ phase.attempt + 1 = next_attempt
      BY DEF WaiterInv, NewestAttempt
    <2>3. outcome[t].attempt \in Nat
      BY <1>0, MaxAttemptAssumption DEF Outcomes, Attempts
    <2>4. CASE outcome[t] = Outcome("expired", 0)
      BY <2>1, <2>4
    <2>5. CASE /\ outcome[t] = Outcome("failed", outcome[t].attempt)
               /\ reg[t] <= outcome[t].attempt /\ outcome[t].attempt < next_attempt
      <3>1. outcome[t].attempt = phase.attempt
        BY <1>0, <2>2, <2>3, <2>5
      <3> QED
        BY <2>1, <2>5, <3>1
    <2> QED
      BY <2>1, <2>2, <2>4, <2>5 DEF DropKnows
  <1> QED
    BY <1>1, <1>2, <1>3

\* A waiter of an attempt that failed leaves with that very failure or with
\* its own expiry, never with the result of a newer attempt.
THEOREM WaiterFidelity == Spec => WaiterSeesItsAttempt
  <1>1. Init => WaiterInv
    BY DEF Init, WaiterInv, NewestAttempt, DropKnows, Absent
  <1>2. IInv /\ WaiterInv /\ [Next]_vars =>
            [\A t \in Threads :
                phase.tag = "Failed" /\ reg[t] = phase.attempt /\ reg'[t] # reg[t] =>
                   \/ outcome'[t] = Outcome("failed", phase.attempt)
                   \/ outcome'[t] = Outcome("expired", 0)]_vars
    BY LeaveWithOutcome
  <1> QED
    BY <1>1, <1>2, NextWaiterInv, Invariance, PTL DEF Spec, WaiterSeesItsAttempt

---------------------------------------------------------------------------
(***************************************************************************)
(* The metadata cache implements single flight.  The refinement mapping is *)
(* the one of MetadataCache: the cell is the phase, the scanner is the     *)
(* thread that builds, a failure is owed to the threads registered on its  *)
(* attempt.  A step of the cache leaves the abstract state alone, or is a  *)
(* step of SingleFlight; IInv says which.                                  *)
(***************************************************************************)

\* What a step changes of the abstract state when it starts or ends no build.
SamePhase == phase'.tag = phase.tag /\ phase'.attempt = phase.attempt
SameBuilders == \A u \in Threads : pc'[u] = "build" <=> pc[u] = "build"
AbstractStep == Abstract!Next \/ UNCHANGED Abstract!vars

\* Under the invariant the scanner is the one builder, or there is none.
LEMMA ScannerIsBuilder ==
    ASSUME IInv
    PROVE  /\ \A t \in Threads : pc[t] = "build" => Scanners = {t}
           /\ phase.tag # "Building" => Scanners = {}
  BY DEF IInv, BuilderOwnsPhase, Scanners

\* A step that keeps the phase, the builders and every registration on the
\* attempt of the phase is a stutter.
LEMMA StutterStep ==
    ASSUME SamePhase, SameBuilders,
           phase.tag \in {"Building", "Failed"} =>
               \A u \in Threads : reg'[u] = phase.attempt <=> reg[u] = phase.attempt
    PROVE  AbstractStep
  <1>1. Scanners' = Scanners
    BY DEF SameBuilders, Scanners
  <1>2. Owed' = Owed
    BY DEF SamePhase, Owed, Registered
  <1>3. Cell[phase.tag]' = Cell[phase.tag]
    BY DEF SamePhase, Cell
  <1> QED
    BY <1>1, <1>2, <1>3 DEF AbstractStep, Abstract!vars

\* A thread in the loop that registers on the attempt being built joins it.
LEMMA JoinStep ==
    ASSUME IInv, NEW t \in Threads, pc[t] # "build", phase.tag = "Building",
           SamePhase, SameBuilders, reg' = [reg EXCEPT ![t] = phase.attempt]
    PROVE  AbstractStep
  <1>1. Scanners' = Scanners /\ t \notin Scanners
    BY DEF SameBuilders, Scanners
  <1>2. reg \in [Threads -> Attempts]
    BY DEF IInv, TypeOK
  <1>3. Owed' = Owed \cup {t}
    BY <1>2 DEF SamePhase, Owed, Registered
  <1>4. Abstract!Join(t)
    BY <1>1, <1>3 DEF Abstract!Join, SamePhase, Cell
  <1> QED
    BY <1>4 DEF AbstractStep, Abstract!Next

\* A thread whose registration ends leaves the attempt, if it was owed it.
LEMMA LeaveStep ==
    ASSUME IInv, NEW t \in Threads, SamePhase, SameBuilders,
           reg' = [reg EXCEPT ![t] = 0]
    PROVE  AbstractStep
  <1>1. Scanners' = Scanners
    BY DEF SameBuilders, Scanners
  <1>2. reg \in [Threads -> Attempts]
    BY DEF IInv, TypeOK
  <1>3. CASE phase.tag \in {"Building", "Failed"} /\ reg[t] = phase.attempt
    <2>1. phase.attempt # 0
      BY <1>3 DEF IInv, AttemptsOrdered
    <2>2. Owed' = Owed \ {t} /\ t \in Owed
      BY <1>2, <1>3, <2>1 DEF SamePhase, Owed, Registered
    <2>3. Abstract!Leave(t)
      BY <1>1, <1>3, <2>2 DEF Abstract!Leave, SamePhase, Cell
    <2> QED
      BY <2>3 DEF AbstractStep, Abstract!Next
  <1>4. CASE phase.tag \in {"Building", "Failed"} /\ reg[t] # phase.attempt
    <2>1. phase.attempt # 0
      BY <1>4 DEF IInv, AttemptsOrdered
    <2> QED
      BY <1>2, <1>4, <2>1, StutterStep
  <1>5. CASE phase.tag \notin {"Building", "Failed"}
    BY <1>5, StutterStep
  <1> QED
    BY <1>3, <1>4, <1>5

\* The election of a builder: nobody is registered on a new attempt.
LEMMA ElectStep ==
    ASSUME IInv, NEW t \in Threads, LoopAbsent(t)
    PROVE  AbstractStep
  <1>1. phase.tag = "Absent" /\ pc[t] = "loop" /\ reg' = [reg EXCEPT ![t] = 0]
    BY DEF LoopAbsent
  <1>2. CASE UNCHANGED cache /\ pc' = [pc EXCEPT ![t] = "settle"]
    <2>1. SamePhase /\ SameBuilders
      BY <1>1, <1>2 DEF SamePhase, SameBuilders, cache, IInv, TypeOK
    <2> QED
      BY <1>1, <2>1, LeaveStep
  <1>3. CASE phase' = Building(next_attempt, 0) /\ pc' = [pc EXCEPT ![t] = "build"]
    <2>1. Scanners = {}
      BY <1>1, ScannerIsBuilder
    <2>2. Scanners' = {t}
      BY <1>3, <2>1 DEF Scanners, IInv, TypeOK
    <2>3. \A u \in Threads : reg'[u] # next_attempt
      BY <1>1, MaxAttemptAssumption DEF IInv, TypeOK, AttemptsOrdered, Attempts
    <2>4. Owed' = {}
      BY <1>3, <2>3 DEF Owed, Registered, Building
    <2>5. Abstract!Elect(t)
      BY <1>1, <1>3, <2>1, <2>2, <2>4 DEF Abstract!Elect, Cell, Building
    <2> QED
      BY <2>5 DEF AbstractStep, Abstract!Next
  <1> QED
    BY <1>2, <1>3 DEF LoopAbsent, Goto

\* The end of a build: success, failure or abandonment.
LEMMA BuildStep ==
    ASSUME IInv, NEW t \in Threads, Build(t)
    PROVE  AbstractStep
  <1>1. /\ pc[t] = "build" /\ phase.tag = "Building" /\ phase.attempt = elected[t]
        /\ pc' = [pc EXCEPT ![t] = "notify"] /\ reg' = reg
    BY DEF Build, BuildOk, BuildFails, BuildTransient, BuildPanics, Publish, Goto
  <1>2. Scanners = {t}
    BY <1>1, ScannerIsBuilder
  <1>3. Scanners' = {}
    BY <1>1, <1>2 DEF Scanners, IInv, TypeOK
  <1>4. CASE phase' = Ready(elected[t])
    <2>1. Abstract!Succeed(t)
      BY <1>2, <1>3, <1>4 DEF Abstract!Succeed, Cell, Ready, Owed
    <2> QED
      BY <2>1 DEF AbstractStep, Abstract!Next
  <1>5. CASE phase' = Failed(elected[t], phase.waiters)
    <2>1. Owed' = Owed
      BY <1>1, <1>5 DEF Owed, Registered, Failed
    <2>2. Abstract!Fail(t)
      BY <1>2, <1>3, <1>5, <2>1 DEF Abstract!Fail, Cell, Failed
    <2> QED
      BY <2>2 DEF AbstractStep, Abstract!Next
  <1>6. CASE phase' = Absent
    <2>1. Abstract!Abandon(t)
      BY <1>2, <1>3, <1>6 DEF Abstract!Abandon, Cell, Absent, Owed
    <2> QED
      BY <2>1 DEF AbstractStep, Abstract!Next
  <1> QED
    BY <1>4, <1>5, <1>6
       DEF Build, BuildOk, BuildFails, BuildTransient, BuildPanics, Publish

\* retry_failed resets a drained failure: its counter is zero, so by
\* WaiterAccounting the failure is owed to nobody.
LEMMA ForgetStep ==
    ASSUME IInv, NEW t \in Threads, RetryReset(t)
    PROVE  AbstractStep
  <1> USE DEF RetryReset
  <1>1. Registered(phase.attempt) = {}
    BY FS_EmptySet, CountBounds DEF IInv, WaiterAccounting, Registered
  <1>2. Owed = {} /\ Owed' = {}
    BY <1>1 DEF Owed, Absent
  <1>3. Scanners' = Scanners
    BY DEF Scanners, Goto, IInv, TypeOK
  <1>4. Abstract!Forget
    BY <1>2, <1>3 DEF Abstract!Forget, Cell, Absent
  <1> QED
    BY <1>4 DEF AbstractStep, Abstract!Next

\* The remaining steps of a thread, which register or leave or do neither.
LEMMA WaiterStep ==
    ASSUME IInv, NEW t \in Threads,
           LoopFailed(t) \/ LoopReady(t) \/ DropRegistration(t)
           \/ LoopBuilding(t) \/ LoopBuildingWithContext(t)
    PROVE  AbstractStep
  <1>0. phase \in Phases /\ pc \in [Threads -> Locations]
    BY DEF IInv, TypeOK
  <1>1. CASE LoopFailed(t) \/ LoopReady(t) \/ DropRegistration(t)
    <2>1. SamePhase
      BY <1>0, <1>1 DEF SamePhase, LoopFailed, LoopReady, DropRegistration, cache, Phases
    <2>2. SameBuilders
      BY <1>0, <1>1 DEF SameBuilders, LoopFailed, LoopReady, DropRegistration, Goto
    <2>3. reg' = [reg EXCEPT ![t] = 0]
      BY <1>1 DEF LoopFailed, LoopReady, DropRegistration
    <2> QED
      BY <2>1, <2>2, <2>3, LeaveStep
  <1>2. CASE LoopBuilding(t) \/ LoopBuildingWithContext(t)
    <2>1. SamePhase /\ phase.tag = "Building" /\ pc[t] # "build"
      BY <1>0, <1>2 DEF SamePhase, LoopBuilding, LoopBuildingWithContext, Phases
    <2>2. SameBuilders
      BY <1>0, <1>2 DEF SameBuilders, LoopBuilding, LoopBuildingWithContext, Goto
    <2>3. CASE reg' = [reg EXCEPT ![t] = phase.attempt]
      BY <2>1, <2>2, <2>3, JoinStep
    <2>4. CASE reg' = reg
      BY <2>1, <2>2, <2>4, StutterStep
    <2> QED
      BY <1>2, <2>3, <2>4 DEF LoopBuilding, LoopBuildingWithContext
  <1> QED
    BY <1>1, <1>2

\* Every other step touches neither the phase nor a registration.
LEMMA LocalStep ==
    ASSUME IInv, phase' = phase, reg' = reg, SameBuilders
    PROVE  AbstractStep
  BY StutterStep DEF SamePhase

\* Every step of the cache is a step of SingleFlight or a stutter.
LEMMA NextRefines == IInv /\ [Next]_vars => AbstractStep
  <1> SUFFICES ASSUME IInv, [Next]_vars PROVE AbstractStep
    OBVIOUS
  <1>0. pc \in [Threads -> Locations]
    BY DEF IInv, TypeOK
  <1>1. CASE UNCHANGED vars
    BY <1>1, LocalStep DEF vars, SameBuilders
  <1>2. CASE Next
    <2> PICK t \in Threads : \/ \E m \in EntryPoints[t] : Call(t, m)
                             \/ Expire(t) \/ Step(t)
                             \/ WaitTimeout(t) \/ SpuriousWake(t) \/ Build(t)
      BY <1>2 DEF Next
    <2>1. CASE \E m \in EntryPoints[t] : Call(t, m)
      <3>1. PICK m \in EntryPoints[t] : Call(t, m)
        BY <2>1
      <3>2. m \in {"ctx", "plain", "retry"}
        BY EntryPointsAssumption
      <3>3. SameBuilders
        BY <1>0, <3>1, <3>2 DEF Call, SameBuilders, Goto
      <3> QED
        BY <3>1, <3>3, LocalStep DEF Call, cache
    <2>2. CASE Expire(t) \/ WaitTimeout(t) \/ SpuriousWake(t)
      <3>1. SameBuilders
        BY <1>0, <2>2 DEF Expire, WaitTimeout, SpuriousWake, SameBuilders, Goto
      <3> QED
        BY <2>2, <3>1, LocalStep DEF Expire, WaitTimeout, SpuriousWake, cache
    <2>3. CASE Enter(t) \/ Settle(t) \/ NotifyAll(t) \/ LoopFailedWithContext(t)
               \/ RetryWait(t) \/ RetryDelegate(t)
      <3>1. SameBuilders
        BY <1>0, <2>3 DEF Enter, Settle, NotifyAll, LoopFailedWithContext, RetryWait,
                          RetryDelegate, SameBuilders, Goto
      <3> QED
        BY <2>3, <3>1, LocalStep DEF Enter, Settle, NotifyAll, LoopFailedWithContext,
                                     RetryWait, RetryDelegate, cache
    <2>4. CASE Build(t)
      BY <2>4, BuildStep
    <2>5. CASE LoopAbsent(t)
      BY <2>5, ElectStep
    <2>6. CASE RetryReset(t)
      BY <2>6, ForgetStep
    <2>7. CASE LoopReady(t) \/ LoopFailed(t) \/ DropRegistration(t)
               \/ LoopBuilding(t) \/ LoopBuildingWithContext(t)
      BY <2>7, WaiterStep
    <2> QED
      BY <2>1, <2>2, <2>3, <2>4, <2>5, <2>6, <2>7 DEF Step
  <1> QED
    BY <1>1, <1>2

\* The cache implements single flight: one scan at a time, and a failure is
\* forgotten only when it is owed to nobody.
THEOREM Refinement == Spec => ImplementsSingleFlight
  <1>1. Init => Abstract!Init
    BY DEF Init, Abstract!Init, Absent, Cell, Owed, Scanners
  <1>2. IInv /\ [Next]_vars => [Abstract!Next]_Abstract!vars
    BY NextRefines DEF AbstractStep
  <1> QED
    BY <1>1, <1>2, Invariance, PTL DEF Spec, ImplementsSingleFlight, Abstract!Spec

===========================================================================
