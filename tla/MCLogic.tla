------------------------------ MODULE MCLogic ------------------------------
EXTENDS Logic

CONSTANTS
    long, short,    \* a 32 byte info hash and its truncated form
    p4, p6, q4      \* two addresses of one client, and another peer

Long == {long}
Truncated == [ih \in Long |-> short]
V6s == [p \in Peer |-> p = p6]

AnAnnounce(event, ih, left, n, ps) ==
    [kind |-> "announce", event |-> event, ih |-> ih, left |-> left, numWant |-> n,
     peers |-> ps]

\* Every storeFn, one and two addresses, a long and a short hash, every number
\* of peers wanted up to more than there are, and a scrape beside them.
SomeRequests ==
    {AnAnnounce("Started", long, 1, 3, <<p6, p4>>), AnAnnounce("None", long, 0, 1, <<p4>>),
     AnAnnounce("Completed", long, 0, 2, <<p4, p6>>), AnAnnounce("Stopped", long, 1, 1, <<p4>>),
     AnAnnounce("Stopped", short, 0, 0, <<q4>>), [kind |-> "scrape", hashes |-> <<short, long>>]}
SomeResults == {[keys |-> {}, peers |-> <<>>], [keys |-> ContextKey, peers |-> <<>>],
                [keys |-> {}, peers |-> <<q4, p6>>]}
SomeKeys == {{}, {"SkipSwarmInteractionKey"}}
\* Swarms earlier announces have left.
SomeStored == {[Empty EXCEPT ![short] = [seeders |-> S, leechers |-> L],
                             ![long] = [seeders |-> {}, leechers |-> L \ {q4}]] :
                  S \in {{}, {p4, q4}}, L \in {{p6, q4}}} \cup {Empty}
====
