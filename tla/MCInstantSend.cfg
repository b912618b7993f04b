SPECIFICATION Spec
CONSTANTS
    Absent = Absent
    txA = txA
    txB = txB
    sn1 = sn1
    sn2 = sn2
    Txs = {txA, txB}
    Outpoints = {1, 2}
    Inputs <- SecondCoinInputs
    Safenodes = {sn1, sn2}
    Foreign <- ForeignVote
    Self = sn1
    Score <- FlatScore
    SIGNATURES_REQUIRED = 1
    SIGNATURES_TOTAL = 2
    nInstantSendKeepLock = 1
    ORPHAN_VOTE_SECONDS = 0
    OrphanRateSeconds = 1
    SporkSettings <- SporksToggle
    Unstable = {sn2}
    MaxHeight = 3
    MaxTime = 0
    MaxRestarts = 0
    MaxReorgs = 1
    MaxVotes = 3
INVARIANTS
    ConfirmedHeightTrue
    NoDanglingVote
    PoolRespectsLocks
    OneVotePerOutpoint
PROPERTY
    LockNeverMoves
CHECK_DEADLOCK FALSE
