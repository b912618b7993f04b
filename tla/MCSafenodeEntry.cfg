SPECIFICATION FairSpec
CONSTANTS
    peerA = peerA
    LastAnnouncement = 2
    Peers = {peerA}
    QuorumRequired = 1
    RecoveryWait = 1
    RecoveryRetry = 0
    MinMnb = 1
    MinMnp = 1
    Expiration = 1
    Old = 2
    MaxScore = 1
    Cycle = 1
    MaxDisturbances = 2
INVARIANTS
    RepliesOfThisRound
    NewStartIsRequired
PROPERTIES
    SpentIsRemoved
    SilentIsNotPaid
    WaitsForConfirmations
    BanServed
CHECK_DEADLOCK FALSE
