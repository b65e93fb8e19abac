SPECIFICATION Spec
CONSTANTS
    a = a
    p = p
    q = q
    InfoHash = {a}
    Peer = {p, q}
    Thread = {t1, t2}
    SwarmObj = {o1, o2, o3}
    NoSwarm = NoSwarm
    ShardCount = 1
    Prefix <- ZeroPrefix
    Is6 <- TwoFamilies
    Word = 6
    PeerLifeTime = 1
    GCInterval = 1
    MaxCalls = 3
    MaxTime = 1
    Call <- Calls
SYMMETRY Symm
CHECK_DEADLOCK FALSE
INVARIANTS CountersExact OneSwarm GCSnapshotLive AnnounceResult
PROPERTY ImplementsSwarmStore
