----------------------------- MODULE MCRequests -----------------------------
EXTENDS Hooks

Addr(ips) == [ip : ips, mapped : BOOLEAN, provided : {FALSE}]
Provide(s) == [n \in DOMAIN s |-> [s[n] EXCEPT !.provided = TRUE]]
Anything == [ip |-> "other", mapped |-> FALSE, provided |-> FALSE]

Some == [via |-> "http", op |-> "announce", ok |-> TRUE, conn |-> Anything, provided |-> <<>>,
         hdr |-> FALSE, header |-> <<>>, spoof |-> FALSE, filter |-> FALSE, port |-> 1,
         numWant |-> 1, numProvided |-> TRUE, max |-> 0, def |-> 0, maxHashes |-> 0,
         hashes |-> <<"h">>, options |-> <<>>, packet |-> <<>>,
         chain |-> <<>>, p |-> 0, v |-> 0,
         token |-> [present |-> FALSE, verifies |-> FALSE, infohash |-> "bad", infohashes |-> <<>>],
         id |-> [dash |-> FALSE, first |-> "a", second |-> "b"]]

UpTo(S, n) == UNION {[1 .. k -> S] : k \in 0 .. n}

\* All addresses, of connection, header and parameters.
WithAddresses(op, s) ==
    {[Some EXCEPT !.op = op, !.conn = c, !.provided = Provide(p), !.hdr = h[1], !.header = h[2],
                  !.spoof = s, !.filter = f] :
        c \in Addr({"global", "unspecified"}),
        p \in UpTo(Addr({"global", "private", "multicast"}), 1)
              \cup {<<Anything, Anything>>,
                    <<[Anything EXCEPT !.ip = "invalid"], [Anything EXCEPT !.ip = "global"]>>},
        h \in ({TRUE} \X UpTo(Addr({"global", "private", "broadcast"}), 2))
              \cup ({FALSE} \X UpTo(Addr({"global"}), 1)),
        f \in BOOLEAN}
UDPAddresses ==
    {[Some EXCEPT !.via = "udp", !.op = op, !.conn = [Anything EXCEPT !.ip = c],
                  !.provided = Provide(<<p>>), !.spoof = s, !.filter = f] :
        op \in {"announce", "scrape"}, c \in {"global", "private", "unspecified"},
        p \in Addr({"global", "other", "private", "multicast", "broadcast"}), s \in BOOLEAN, f \in BOOLEAN}
\* All numbers around the limits and the widths, and lists of hashes.
WithNumbers ==
    {[Some EXCEPT !.port = p, !.numWant = n, !.numProvided = b, !.max = m, !.def = d] :
        p \in 0 .. 2 * PortWord, n \in 0 .. NumWord + 1, b \in BOOLEAN, m \in 0 .. 2, d \in 0 .. 3}
WithHashes ==
    {[Some EXCEPT !.op = op, !.via = v, !.ok = k, !.hashes = hs, !.maxHashes = m] :
        op \in {"announce", "scrape"}, v \in {"udp", "http"}, k \in BOOLEAN,
        hs \in UpTo({"h", "g", "bad"}, 3), m \in 0 .. 2}
\* Encoded options, cut off anywhere; data may look like options.
Chunk == {<<EndOfOptions>>, <<NOP>>, <<3>>, <<URLData, 0>>, <<URLData, 1, NOP>>,
          <<URLData, 2, URLData, 3>>, <<URLData, 1, Percent>>}
WithOptions ==
    UNION {LET bytes == FlattenSeq(os)
           IN  {[Some EXCEPT !.via = "udp", !.options = os, !.packet = SubSeq(bytes, 1, n)] :
                   n \in 0 .. Len(bytes)} : os \in UpTo(Chunk, 3)}
\* Chains of hooks, and what they look at.
JWT == [name : {"jwt"}, set : {TRUE}, announce : BOOLEAN, scrape : BOOLEAN]
Clients == [name : {"client approval"}, ids : {{}, {"a"}}, invert : BOOLEAN]
Variation == {[name |-> "interval variation", probability |-> x[1], delta |-> x[2], min |-> x[3]] :
                 x \in {<<1, 2, TRUE>>, <<2, 3, FALSE>>, <<2, 1, TRUE>>, <<0, 1, TRUE>>, <<2, 0, TRUE>>}}
Refused == {[name |-> "jwt", set |-> FALSE, announce |-> TRUE, scrape |-> TRUE],
            [name |-> "client approval", ids |-> {"short"}, invert |-> FALSE], [name |-> "none such"]}
Chains == {<<h>> : h \in JWT \cup Refused}
          \cup LET several == Clients \cup Variation \cup {h \in JWT : h.announce # h.scrape}
               IN  {<<h, g>> : h \in several, g \in several}
Token == [present : BOOLEAN, verifies : BOOLEAN, infohash : {"h", "g", "bad"}, infohashes : {<<>>}]
WithTokens ==
    {[Some EXCEPT !.via = o[1], !.packet = o[2], !.options = <<o[2]>>, !.chain = <<h>>, !.token = t] :
        o \in {<<"http", <<>>>>, <<"udp", <<NOP>>>>, <<"udp", <<URLData, 1, NOP>>>>}, h \in JWT, t \in Token}
    \cup {[Some EXCEPT !.op = "scrape", !.via = v, !.hashes = hs, !.chain = <<h>>, !.maxHashes = m,
                       !.token = [Some.token EXCEPT !.present = TRUE, !.verifies = k, !.infohashes = ihs]] :
             v \in {"udp", "http"}, h \in JWT, m \in {0, 1}, k \in BOOLEAN,
             hs \in {<<"h">>, <<"h", "g">>, <<"h", "h">>, <<"g", "bad">>},
             ihs \in UpTo({"h", "g", "bad"}, 2)}
WithHooks ==
    {[Some EXCEPT !.op = op, !.chain = c, !.p = p, !.v = n,
                  !.id = [dash |-> d, first |-> f, second |-> IF f = "a" THEN "b" ELSE "a"]] :
        op \in {"announce", "scrape"}, c \in Chains, d \in BOOLEAN, f \in {"a", "b"},
        p \in 0 .. 2, n \in 0 .. 2}
Inputs ==
    <<WithTokens, WithHooks, UDPAddresses, WithNumbers, WithHashes, WithOptions>>
    \o [n \in 1 .. 4 |-> WithAddresses(IF n > 2 THEN "announce" ELSE "scrape", n % 2 = 0)]
====
