SPECIFICATION Spec
CONSTANTS
    sn1 = sn1
    trig = trig
    yes1 = yes1
    no1 = no1
    Safenodes = {sn1, sn2}
    Objects = {trig}
    Votes = {yes1}
    VoteBy <- MCVoteBy
    VoteFor <- MCVoteFor
    LastTime = 2
    VoteAt <- MCVoteAt
    VoteSignal <- MCVoteSignal
    YesVotes = {yes1}
    Triggers = {trig}
    Owner <- MCOwner
    OrphanTime = 1
    DeletionDelay = 1
    MinQuorum = 1
INVARIANT
    RemovedVotesMarked
CHECK_DEADLOCK FALSE
