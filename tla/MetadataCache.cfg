SPECIFICATION FairSpec
CONSTANTS
    t1 = t1
    t2 = t2
    t3 = t3
    Threads = {t1, t2, t3}
    EntryPoints <- EachEntryPointTwice
    MaxAttempt = 3
INVARIANTS
    TypeOK
    WaiterAccounting
    BuilderOwnsPhase
    RetryIsFresh
PROPERTIES
    FailureKeptForWaiters
    WaiterSeesItsAttempt
    ImplementsSingleFlight
    EveryCallReturns
    ExpiredWaiterReturns
