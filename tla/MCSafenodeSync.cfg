SPECIFICATION FairSpec
CONSTANTS
    peerA = peerA
    Peers = {peerA}
    Timeout = 1
    Cooldown = 1
    MaxEvents = 2
INVARIANTS
    PoolNeverThrows
    AskedBeforeLeaving
PROPERTY
    FinishesAgain
CHECK_DEADLOCK FALSE
