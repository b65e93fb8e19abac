SPECIFICATION FairSpec
CONSTANTS
    a = a
    p = p
    q = q
    InfoHash = {a}
    Peer = {p, q}
    AddrPort <- SameAddr
    Is6 <- AllV4
    Thread = {t1, t2}
    Call <- Calls
    PeerLifetime = 1
    MaxTime = 1
    MaxCalls = 3
    MaxFails = 1
CHECK_DEADLOCK FALSE
INVARIANTS GraduationsCounted AnnounceAnswer
PROPERTIES StaleCollected CloseEnds
