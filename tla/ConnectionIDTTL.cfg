SPECIFICATION IDSpec
CONSTANTS
    Addr = {x, y}
    Salt = {0, 1}
    Low = 5
    Second = 100
    TTL = 2
    MaxClockSkew = 1
    MaxTime = 11
    MaxBack = 0
    MaxIDs = 2
INVARIANT WithinTTL
