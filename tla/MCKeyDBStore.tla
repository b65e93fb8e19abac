---------------------------- MODULE MCKeyDBStore ----------------------------
EXTENDS KeyDBStore

CONSTANTS a, p, q

Write(op, x) == [op |-> op, ih |-> a, p |-> x]
Announce(forSeeder, n) ==
    [op |-> "AnnouncePeers", ih |-> a, forSeeder |-> forSeeder, numWant |-> n, v6 |-> FALSE]
AllV4 == [x \in Peer |-> FALSE]
Calls ==
    {Write(op, p) : op \in WriteOps} \cup {Write("PutLeecher", q)}
        \cup {Announce(TRUE, 2), Announce(FALSE, 2)}
====
