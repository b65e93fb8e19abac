SPECIFICATION LogicSpec
CONSTANTS
    long = long
    short = short
    p4 = p4
    p6 = p6
    q4 = q4
    Hash = {long, short}
    Peer = {p4, p6, q4}
    Is6 <- V6s
    Req = {r1, r2}
    Request <- SomeRequests
    V2 <- Long
    TruncateV1 <- Truncated
    HookResults <- SomeResults
    PostKeys <- SomeKeys
    Stored <- SomeStored
    MaxFailed = 0
CHECK_DEADLOCK FALSE
INVARIANT SwarmSkipped
