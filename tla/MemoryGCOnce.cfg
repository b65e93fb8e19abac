SPECIFICATION FairSpec
CONSTANTS
    a = a
    p = p
    q = q
    InfoHash = {a}
    Peer = {p, q}
    Thread = {t1}
    SwarmObj = {o1, o2, o3}
    NoSwarm = NoSwarm
    ShardCount = 1
    Prefix <- ZeroPrefix
    Is6 <- TwoFamilies
    Word = 6
    PeerLifeTime = 1
    GCInterval = 1
    MaxCalls = 1
    MaxTime = 2
    Call <- Writes
CHECK_DEADLOCK FALSE
PROPERTY StaleCollected
