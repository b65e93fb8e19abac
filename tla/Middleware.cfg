SPECIFICATION MiddlewareSpec
CONSTANTS
    Input <- Inputs
    PortWord = 4
    NumWord = 8
    DefaultMax = 4
    DefaultNum = 3
    DefaultHashes = 2
    AnnounceInterval = 5
    MinAnnounceInterval = 3
    Unit = 2
    long = long
    short = short
    p4 = p4
    p6 = p6
    q4 = q4
    Hash = {long, short}
    Peer = {p4, p6, q4}
    Is6 <- V6s
    Req = {r1, r2}
    Request <- SomeRequests
    V2 <- Long
    TruncateV1 <- Truncated
    HookResults <- SomeResults
    PostKeys <- SomeKeys
    Stored <- SomeStored
    MaxFailed = 1
    f = f
    A = A
    B = B
    StartDirs <- SomeDirs
    Wanted = {B}
    File = {f, g}
    Torrent = {A, B}
    NoFile = NoFile
    NoTorrent = NoTorrent
    Reader = {r}
    ListV1 = {A}
    ListV2 = {B}
    Invert = FALSE
    MaxOps = 2
    MaxFails = 1
CHECK_DEADLOCK FALSE
INVARIANTS AddressesSane AddressesOwn LimitsKept OptionsExact TokenHolds ChainDecides
INVARIANTS ResponseSound ResponseFull SequentialMembership DirectoryListed VerdictSound
PROPERTIES Terminates AddedListed
