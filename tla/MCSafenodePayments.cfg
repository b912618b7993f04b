SPECIFICATION Spec
CONSTANTS
    mnSelf = mnSelf
    mnOther = mnOther
    payeeA = payeeA
    payeeB = payeeB
    Safenodes = {mnSelf, mnOther}
    Payees = {payeeA, payeeB}
    Self = mnSelf
    Votes <- MCVotes
    FirstTip = 0
    LastTip = 3
    Ahead = 1
    VoteAhead = 1
    ScheduledAhead = 0
    StorageLimit = 0
    Required = 2
    MaxReorgs = 1
    MaxRestarts = 1
CHECK_DEADLOCK FALSE
INVARIANTS
    CountedIsVerified
    VerifiedIsCounted
    AtMostTwice
PROPERTIES
    ForgottenWhenOld
