SPECIFICATION FairSpec
CONSTANTS
    sn1 = sn1
    trig = trig
    yes1 = yes1
    no1 = no1
    Safenodes = {sn1}
    Objects = {trig}
    Votes = {yes1, no1}
    VoteBy <- MCVoteBy
    VoteFor <- MCVoteFor
    LastTime = 2
    VoteAt <- MCVoteAt
    VoteSignal <- MCVoteSignal
    YesVotes = {yes1}
    Triggers = {trig}
    Owner <- MCOwner
    OrphanTime = 1
    DeletionDelay = 1
    MinQuorum = 1
INVARIANTS
    TypeOK
    VotePointersLive
    TallyIsNewest
    ErasedStaysErased
PROPERTY
    DeletedIsErased
CHECK_DEADLOCK FALSE
