SPECIFICATION Spec
CONSTANTS
    Absent = Absent
    txA = txA
    txB = txB
    sn1 = sn1
    sn2 = sn2
    Txs = {txA, txB}
    Outpoints = {1, 2}
    Inputs <- TwoCoinInputs
    Safenodes = {sn1, sn2}
    Foreign = {}
    Self = sn1
    Score <- FlatScore
    SIGNATURES_REQUIRED = 2
    SIGNATURES_TOTAL = 2
    nInstantSendKeepLock = 1
    ORPHAN_VOTE_SECONDS = 0
    OrphanRateSeconds = 1
    SporkSettings <- AlwaysOn
    Unstable = {}
    MaxHeight = 1
    MaxTime = 1
    MaxRestarts = 1
    MaxReorgs = 0
    MaxVotes = 6
INVARIANTS
    LockHasQuorum
    NeverVotesTwice
PROPERTY
    ImplementsTxLock
CHECK_DEADLOCK FALSE
