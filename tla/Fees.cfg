SPECIFICATION MCSpec
CONSTANTS
    r1 = r1
    g1 = g1
    q1 = q1
    i1 = i1
    w1 = w1
    w2 = w2
    a1 = a1
    a2 = a2
    usdc = usdc
    dai = dai
    q = q
    alice = alice
    bob = bob
    None = None
    Posts = {r1}
    Gets = {g1}
    Replies = {q1}
    RequestOf <- Replied
    Incoming = {i1, w1, w2}
    Withdrawals = {w1, w2}
    Answers = {a1, a2}
    AnswerTo <- Answered
    Deadline <- Deadlines
    Charge = 1
    MaxFee = 1
    Tokens = {usdc, dai}
    Statuses = {"None", "Incoming", "Outgoing", "All"}
    MaxTime = 3
    MaxCalls = 2
    ChainRequests = {}
    ChainResponses = {p1, p2}
    ChainRequestOf <- ToOneRequest
    ChainGets = {g1}
    Relayers = {alice, bob}
    MinWithdrawal = 1
    MaxBlocks = 2
    MaxNonce = 2
    MaxSent = 2
SYMMETRY Symmetry
INVARIANTS
    
    
    RevertedNeverExecuted
    
    RespondedTracksAnswer
    
    
CHECK_DEADLOCK FALSE
