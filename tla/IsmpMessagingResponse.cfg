SPECIFICATION Spec
CONSTANTS
    a = a
    b = b
    h = h
    r1 = r1
    r2 = r2
    p1 = p1
    p2 = p2
    Hosts = {a, b, h}
    Router = h
    Tracks <- Hub
    Posts = {r1}
    Source <- SourceOf
    Dest <- DestOf
    Deadline <- DeadlineOf
    Responses = {p1}
    Request <- RequestOf
    ResDeadline <- ResDeadlineOf
    MaxTime = 2
INVARIANT
    ResponseTimeoutExcludesDelivery
