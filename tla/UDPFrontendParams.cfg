SPECIFICATION Spec
CONSTANTS
    Worker = {w1, w2}
    Req = {r1, r2}
    Gen = {g1, g2}
    Buffer = {b1, b2}
    None = None
    Packet = {"connect", "announce", "badID", "badAnnounce"}
CHECK_DEADLOCK FALSE
INVARIANT ParamsIntact
