SPECIFICATION FrontendsSpec
CONSTANTS
    Worker = {w1, w2}
    Req = {r1, r2}
    Gen = {g1, g2}
    Buffer = {b}
    None = None
    Packet = {"short", "connect", "badMagic", "announce", "badAnnounce", "scrape"}
    Addr = {x, y}
    Salt = {0}
    Low = 4
    Second = 100
    TTL = 2
    MaxClockSkew = 1
    MaxTime = 9
    MaxBack = 2
    MaxIDs = 2
    Conn = {c1, c2}
    HTTPReq = {r1, r2}
    Nil = Nil
    Path = {"announce", "badAnnounce", "scrape", "ping", "unknown"}
CHECK_DEADLOCK FALSE
INVARIANTS OwnConnID HandlersOutlived Answered AcceptedBound FreshAcceptedInWindow
INVARIANTS HandledWhileOpen OwnParams
PROPERTIES ShutdownEnds AnswerApplied HTTPShutdownEnds ResponseApplied
