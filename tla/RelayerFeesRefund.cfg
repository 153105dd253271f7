SPECIFICATION FeesSpec
CONSTANTS
    None = None
    ChainRequests = {m1}
    ChainResponses = {}
    ChainRequestOf <- Unanswered
    ChainGets = {}
    Relayers = {alice}
    MaxFee = 1
    MinWithdrawal = 1
    MaxBlocks = 1
    MaxNonce = 1
CHECK_DEADLOCK FALSE
INVARIANT
    RefundedOnTimeout
