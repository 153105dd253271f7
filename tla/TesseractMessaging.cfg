SPECIFICATION Spec
CONSTANTS
    m1 = m1
    r1 = r1
    Never = Never
    Requests = {m1}
    Responses = {r1}
    Deadline <- MCDeadline
    MaxTime = 2
    MaxCrashes = 1
INVARIANTS
    
    NoDoubleSubmission
    BatchProvable
    FeesKept
CHECK_DEADLOCK FALSE
