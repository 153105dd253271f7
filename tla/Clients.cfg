SPECIFICATION MCSpec
CONSTANTS
    StateMachines = {m1}
    Heights = {1, 2}
    Roots = {r1, r2}
    Periods = {0, 2}
    Candidates = {a1}
    MaxTime = 3
    MaxCreations = 2
    Absent = Absent
    Timeout = 3
    EventWindow = 1
    MaxSkew = 1
    MaxLead = 5
    MaxUpdates = 2
    StatusTime = 4
SYMMETRY Symmetry
INVARIANTS
    ChallengeWindowElapsed
    LatestIsStored
    TimeoutIsFinal
    
    
PROPERTIES
    CommitmentsImmutable
    DeadClientLearnsNothing
    FrozenIsFinal
CHECK_DEADLOCK FALSE
