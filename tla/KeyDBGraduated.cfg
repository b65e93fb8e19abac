SPECIFICATION FairSpec
CONSTANTS
    a = a
    p = p
    q = q
    InfoHash = {a}
    Peer = {p, q}
    Is6 <- AllV4
    Thread = {t1, t2}
    Call <- Calls
    PeerLifetime = 3
    DefaultPeerLifetime = 4
    Second = 2
    MaxCalls = 2
    MaxFails = 0
CHECK_DEADLOCK FALSE
PROPERTY EveryPeerExpires
