----------------------------- MODULE MCPgStore -----------------------------
EXTENDS PgStore

CONSTANTS a, p, q

Write(op, x) == [op |-> op, ih |-> a, p |-> x]
Asked(forSeeder, n) ==
    [op |-> "AnnouncePeers", ih |-> a, forSeeder |-> forSeeder, numWant |-> n, v6 |-> FALSE]
SameAddr == [x \in Peer |-> "addr"]
AllV4 == [x \in {"addr"} |-> FALSE]
Calls ==
    {Write(op, p) : op \in WriteOps} \cup {Write("PutLeecher", q)}
        \cup {Asked(FALSE, 2), Asked(FALSE, 1), Asked(TRUE, 1)} \cup {[op |-> "ScrapeSwarm", ih |-> a]}
====
