SPECIFICATION Spec
CONSTANTS
    r1 = r1
    q1 = q1
    None = None
    Posts = {r1}
    Gets = {}
    Replies = {q1}
    RequestOf <- Replied
    Incoming = {}
    Withdrawals = {}
    Answers = {}
    AnswerTo <- Answered
    Deadline <- Deadlines
    Charge = 1
    MaxFee = 1
    Tokens = {usdc}
    Statuses = {"None", "Incoming", "Outgoing", "All"}
    MaxTime = 2
    MaxCalls = 2
INVARIANT
    ResponseNotReplayed
