SPECIFICATION GateFairSpec
CONSTANTS
    Scanners = {w1, w2, w3}
INVARIANTS
    PermitExact
PROPERTIES
    StoppedWaiterLeaves
    EveryRequestEnds
