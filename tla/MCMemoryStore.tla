--------------------------- MODULE MCMemoryStore ---------------------------
EXTENDS MemoryRefinement, TLC

CONSTANTS a, p, q

Write(op, peer) == [op |-> op, ih |-> a, p |-> peer, v6 |-> FALSE, forSeeder |-> FALSE,
                    numWant |-> 0]
Read(n) == [op |-> "AnnouncePeers", ih |-> a, p |-> p, v6 |-> FALSE, forSeeder |-> FALSE,
            numWant |-> n]
ZeroPrefix == [ih \in InfoHash |-> 0]
\* One info hash, p on IPv4 and q on IPv6.
TwoFamilies == [x \in Peer |-> x = q]
Calls == {Write("PutSeeder", p), Write("PutLeecher", p), Write("DeleteLeecher", p),
          Write("GraduateLeecher", p), Write("PutLeecher", q), Read(1)}
Writes == {Write(op, p) : op \in WriteOps}
Symm == Permutations(SwarmObj) \cup Permutations(Thread)
====
