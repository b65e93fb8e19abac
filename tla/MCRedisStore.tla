---------------------------- MODULE MCRedisStore ----------------------------
EXTENDS RedisStore

CONSTANTS a, p

OnCall(op) == [op |-> op, ih |-> a, p |-> p]
AllV4 == [x \in Peer |-> FALSE]
Calls == {OnCall(op) : op \in WriteOps \cup {"ScrapeSwarm"}}
Someone == {{<<InfoHashKey(a, "leechers", FALSE), p>>}}
====
