SPECIFICATION FairSpec
CONSTANTS
    a = a
    p = p
    q = q
    InfoHash = {a}
    Peer = {p, q}
    Is6 <- AllV4
    Thread = {t1, t2}
    Call <- Calls
    PeerLifetime = 3
    DefaultPeerLifetime = 4
    Second = 2
    MaxCalls = 4
    MaxFails = 1
CHECK_DEADLOCK FALSE
INVARIANT AnnounceAnswer
PROPERTY PeersExpire
