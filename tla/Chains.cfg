CONSTANTS
    SLOTS_PER_EPOCH = 1
    EPOCHS_PER_SYNC_COMMITTEE_PERIOD = 3
    SYNC_COMMITTEE_SIZE = 4
    Votes = {2, 3}
    MaxSlot = 8
    MaxGap = 1
    MaxWeak = 1
    EPOCH_LENGTH = 6
    ValidatorSize = 8
    MaxAncestry = 6
    MaxNumber = 16
    MaxMissed = 2
    UnStakingPeriod = 1
    MaxBlock = 5
    ParaIds = {A, B}
    MaxRelay = 4
    MaxHead = 2
    MaxInFlight = 2
    MaxBscInFlight = 1
    Messages = {e1, e2}
    MaxBlocks = 4
    MaxBranch = 2
    MaxPushed = 2
    StateWindow = 2
SPECIFICATION MCSpec
INVARIANTS  FreshUpdateAccepted  CanonIsFinalized NodesKept
PROPERTIES  PassesOverCanonical
CHECK_DEADLOCK FALSE
