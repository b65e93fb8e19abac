SPECIFICATION Spec
CONSTANTS
    a = a
    p = p
    InfoHash = {a}
    Peer = {p}
    Is6 <- AllV4
    Thread = {t1, t2}
    Instance = {n1}
    Call <- Calls
    Stored <- Someone
    PeerLifetime = 1
    MaxTime = 1
    MaxCalls = 2
    MaxFails = 0
    Variadic = TRUE
CHECK_DEADLOCK FALSE
INVARIANT StaysListed
