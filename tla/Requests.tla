------------------------------ MODULE Requests ------------------------------
(***************************************************************************)
(* How a frontend makes an announce or scrape request out of what it has   *)
(* received: the parsers of both frontends and the sanitising they share   *)
(* (bittorrent/sanitize.go, bittorrent/request.go).  One request; its      *)
(* input is chosen by Init.  Of an IP address only the class matters, and  *)
(* whether it is written as an IPv4-mapped IPv6 address; texts are read    *)
(* already, with "invalid" for what is no address.  The optional           *)
(* parameters of the UDP protocol are bytes, because their parser's bounds *)
(* are the point.                                                          *)
(***************************************************************************)
EXTENDS Naturals, SequencesExt

CONSTANTS
    Input,                  \* the requests that may come in, a set of each sort
    PortWord, NumWord,      \* 2^16 and 2^32: the widths of port and numwant
    DefaultMax, DefaultNum, DefaultHashes   \* the defaults of the limits

EndOfOptions == 0
NOP == 1
URLData == 2
Percent == 4    \* in URL data: a percent sign that begins no escape

ASSUME RequestsAssumption ==
    /\ PortWord \in Nat \ {0} /\ NumWord \in Nat \ {0}
    /\ DefaultMax \in Nat \ {0} /\ DefaultNum \in Nat \ {0} /\ DefaultHashes \in Nat \ {0}

VARIABLES
    req,    \* what was received, and the options in force
    stage,     \* "fields", "addresses", "options", "sanitize" or "done"
    refusal,    \* the error, or "none"
    i, buf, \* handleOptionalParameters: bytes consumed, URL data found
    aa,     \* RequestAddresses
    port, numWant, hashes

parseVars == <<req, stage, refusal, i, buf, aa, port, numWant, hashes>>

----------------------------------------------------------------------------
(* Addresses and limits.                                                   *)

Invalid == {"unspecified", "multicast", "broadcast"}
Global == {"global", "other"}

\* RequestAddress.IsValid: the mapped form of an address is another value, of a
\* multicast address for releases of Go before 1.22.4 only.
IsValid(a) == a.ip # "invalid" /\ (a.ip \in Invalid => a.mapped)
Unmap(a) == [a EXCEPT !.mapped = FALSE]

\* Add, for each address in turn.
Added(as) == LET ok == SelectSeq(as, IsValid) IN [n \in DOMAIN ok |-> Unmap(ok[n])]

\* Mutant: addresses are added already checked.
keptChecked(a, filter) == filter => a.ip \in Global

kept(a, filter) == IsValid(a) /\ (filter => a.ip \in Global)

\* The map of Sanitize: one entry for an address, provided if any of them was.
uniqueAddresses(as, filter) ==
    {[as[n] EXCEPT !.provided = \E m \in DOMAIN as :
                       as[m].ip = as[n].ip /\ as[m].mapped = as[n].mapped /\ as[m].provided] :
        n \in {m \in DOMAIN as : kept(as[m], filter)}}

\* The map is read in any order, then sorted by Less.
Sorted(S) == {s \in SetToSeqs(S) : \A n, m \in DOMAIN s : n < m => (s[m].provided => s[n].provided)}

\* ParseOptions.Validate
Limit(n, default) == IF n = 0 THEN default ELSE n

Uint16(n) == n % PortWord
Uint32(n) == n % NumWord

\* Mutant: spoofing is always on.
candidatesAll(r) == [n \in DOMAIN r.provided |-> [r.provided[n] EXCEPT !.provided = TRUE]] \o <<r.conn>>

\* Where addresses come from: the connection first, then the packet's (UDP);
\* the parameters first, then the headers if there are any, else the
\* connection (HTTP requestedIPs).
candidates(r) ==
    LET provided == IF r.spoof THEN r.provided ELSE <<>>
        real == IF r.hdr /\ r.header # <<>> THEN r.header ELSE <<r.conn>>
    IN  IF r.via = "udp" THEN <<r.conn>> \o provided ELSE provided \o real

----------------------------------------------------------------------------
ParseInit ==
    /\ \E sort \in DOMAIN Input : req \in Input[sort]
    /\ stage = "fields" /\ refusal = "none"
    /\ i = 0 /\ buf = <<>> /\ aa = <<>>
    /\ port = 0 /\ numWant = 0 /\ hashes = <<>>

Done(e) == stage' = "done" /\ refusal' = e

\* Hashes that are none are skipped by HTTP; the UDP parser wants whole ones.
infoHashes(r) == SelectSeq(r.hashes, LAMBDA h : h # "bad")

\* The fields in front of the addresses.  A missing numwant is no error.
Fields ==
    /\ stage = "fields"
    /\ LET n == Len(infoHashes(req))
           e == CASE ~req.ok -> "malformed"
                  [] n = 0 \/ (req.via = "udp" /\ n # Len(req.hashes)) -> "no info hash"
                  [] req.op = "announce" /\ n > 1 -> "many info hashes"
                  [] OTHER -> "none"
       IN  IF e # "none" THEN Done(e) ELSE stage' = "addresses" /\ UNCHANGED refusal
    /\ hashes' = infoHashes(req)
    /\ port' = Uint16(req.port)
    /\ numWant' = Uint32(req.numWant)
    /\ UNCHANGED <<req, i, buf, aa>>

\* A UDP scrape takes the connection's address alone.
Addresses ==
    /\ stage = "addresses"
    /\ aa' = IF req.via = "udp" /\ req.op = "scrape" THEN <<req.conn>> ELSE Added(candidates(req))
    /\ stage' = IF req.via = "udp" /\ req.op = "announce" THEN "options" ELSE "sanitize"
    /\ UNCHANGED <<req, refusal, i, buf, port, numWant, hashes>>

\* Mutant: a NOP is not consumed.
OptionStays(b, n) == IF b = NOP THEN n ELSE n + 1

OptionNOP(b, n) == n + 1

\* Mutant: the last byte of a packet is never part of an option.
ShortBy(n, length) == n + 2 + length >= Len(req.packet)

Short(n, length) == n + 2 + length > Len(req.packet)

\* url.QueryUnescape refuses the key or the value it is in.  (The data has no
\* question mark; what is in front of the first one is not looked at.)
badEscape(query) == Percent \in ToSet(query)

parseQuery(query) ==
    IF badEscape(query) THEN Done("invalid query escape")
    ELSE stage' = "sanitize" /\ UNCHANGED refusal

\* One turn of the loop of handleOptionalParameters.
Options ==
    LET packet == req.packet
        option == IF i < Len(packet) THEN packet[i + 1] ELSE EndOfOptions
    IN  /\ stage = "options"
        /\ \/ /\ option = EndOfOptions
              /\ parseQuery(buf)
              /\ UNCHANGED <<i, buf>>
           \/ /\ option = NOP
              /\ i' = OptionNOP(option, i)
              /\ UNCHANGED <<stage, refusal, buf>>
           \/ /\ option = URLData
              /\ IF i + 1 >= Len(packet) THEN Done("malformed") /\ UNCHANGED <<i, buf>>
                 ELSE LET length == packet[i + 2]
                      IN  IF Short(i, length) THEN Done("malformed") /\ UNCHANGED <<i, buf>>
                          ELSE /\ buf' = buf \o SubSeq(packet, i + 3, i + 2 + length)
                               /\ i' = i + 2 + length
                               /\ UNCHANGED <<stage, refusal>>
           \/ /\ option \notin {EndOfOptions, NOP, URLData}
              /\ Done("unknown option")
              /\ UNCHANGED <<i, buf>>
        /\ UNCHANGED <<req, aa, port, numWant, hashes>>

\* Mutant: more peers than the limit are allowed.
cappedNot(n, max) == n

capped(n, max) == IF n > max THEN max ELSE n

SanitizeAnnounce ==
    /\ stage = "sanitize" /\ req.op = "announce"
    /\ \/ port = 0 /\ Done("invalid port") /\ UNCHANGED <<aa, numWant>>
       \/ /\ port # 0
          /\ aa' \in Sorted(uniqueAddresses(aa, req.filter))
          /\ IF aa' = <<>> THEN Done("invalid IP") /\ UNCHANGED numWant
             ELSE /\ Done("none")
                  /\ numWant' = IF req.numProvided
                                THEN capped(numWant, Limit(req.max, DefaultMax))
                                ELSE Limit(req.def, DefaultNum)
    /\ UNCHANGED <<req, i, buf, port, hashes>>

SanitizeScrape ==
    /\ stage = "sanitize" /\ req.op = "scrape"
    /\ hashes' = SubSeq(hashes, 1, capped(Len(hashes), Limit(req.maxHashes, DefaultHashes)))
    /\ aa' \in Sorted(uniqueAddresses(aa, req.filter))
    /\ Done(IF aa' = <<>> THEN "invalid IP" ELSE "none")
    /\ UNCHANGED <<req, i, buf, port, numWant>>

ParseNext == Fields \/ Addresses \/ Options \/ SanitizeAnnounce \/ SanitizeScrape

ParseSpec == ParseInit /\ [][ParseNext]_parseVars

----------------------------------------------------------------------------
(* Properties.                                                             *)

Accepted == stage = "done" /\ refusal = "none"

\* The variables have their types: numbers fit their fields, and the parser of
\* the optional parameters never gets past the end of the packet.
ParseTypeOK ==
    /\ stage \in {"fields", "addresses", "options", "sanitize", "done"}
    /\ refusal \in {"none", "malformed", "no info hash", "many info hashes", "unknown option", "invalid query escape",
                "invalid port", "invalid IP"}
    /\ i \in 0 .. Len(req.packet) /\ Len(buf) <= i
    /\ \A n \in DOMAIN aa : aa[n].mapped \in BOOLEAN /\ aa[n].provided \in BOOLEAN
    /\ port \in 0 .. PortWord - 1
    /\ numWant \in 0 .. NumWord - 1
    /\ Len(hashes) <= Len(req.hashes)

\* What Sanitize lets through can be listed and connected to: at least one
\* address, none twice, none unspecified, multicast, broadcast or IPv4-mapped
\* although the check before the unmapping cannot tell, none private when these
\* are filtered, and provided addresses first.
AddressesSane ==
    Accepted =>
        /\ aa # <<>>
        /\ \A n, m \in DOMAIN aa : n < m => aa[n].ip # aa[m].ip /\ (aa[m].provided => aa[n].provided)
        /\ \A n \in DOMAIN aa : /\ aa[n].ip \notin Invalid \cup {"invalid"} /\ ~aa[n].mapped
                                /\ req.filter => aa[n].ip \in Global

\* Unless spoofing is allowed a request counts for the address it came from, or
\* for the addresses the proxy's header names, and then for none of its own
\* choice; and with spoofing an acceptable address it provides comes first.
AddressesOwn ==
    Accepted =>
        LET own == IF req.via = "http" /\ req.hdr /\ req.header # <<>>
                   THEN {req.header[n].ip : n \in DOMAIN req.header} ELSE {req.conn.ip}
            given == {req.provided[n].ip : n \in DOMAIN req.provided} \ (Invalid \cup {"invalid"})
        IN  /\ ~req.spoof => \A n \in DOMAIN aa : aa[n].ip \in own /\ ~aa[n].provided
            /\ (req.spoof /\ req.op = "announce" /\ (req.filter => given \subseteq Global)
                  /\ given # {}) => aa[1].ip \in given

\* The limits hold for what is accepted: a port that is not zero and the low
\* bits of the one sent, no more peers than the larger of limit and default,
\* exactly what was asked for when that is within the limit, and the first
\* info hashes up to the limit.
LimitsKept ==
    Accepted =>
        /\ req.op = "announce" => /\ port # 0 /\ (req.port - port) % PortWord = 0
                                  /\ req.numProvided => numWant <= Limit(req.max, DefaultMax)
                                  /\ (req.numProvided /\ req.numWant <= Limit(req.max, DefaultMax)
                                        /\ req.numWant < NumWord) => numWant = req.numWant
                                  /\ ~req.numProvided => numWant = Limit(req.def, DefaultNum)
        /\ req.op = "scrape" => /\ Len(hashes) <= Limit(req.maxHashes, DefaultHashes)
                                /\ IsPrefix(hashes, infoHashes(req))

\* The optional parameters against their definition: the packet is the encoding
\* of options, cut off somewhere.  Options before the cut and before an end or
\* unknown option are read, their data joined in order; a cut inside URL data
\* is found out, and a cut anywhere else is not an error; an escape is refused
\* when it is in what was read.
ends(n) == FoldLeft(LAMBDA s, o : s + Len(o), 0, SubSeq(req.options, 1, n))
OptionsExact ==
    (stage = "done" /\ req.ok /\ req.via = "udp" /\ req.op = "announce"
       /\ refusal \in {"none", "malformed", "invalid query escape"})
    => LET stop == {n \in DOMAIN req.options : req.options[n][1] \notin {NOP, URLData}}
           whole == {n \in 0 .. Len(req.options) :
                        /\ ends(n) <= Len(req.packet) /\ \A s \in stop : n < s}
           last == CHOOSE n \in whole : \A m \in whole : m <= n
           data == FoldLeft(LAMBDA s, o : IF o[1] = URLData THEN s \o SubSeq(o, 3, Len(o)) ELSE s,
                            <<>>, SubSeq(req.options, 1, last))
           cut == /\ last < Len(req.options) /\ last + 1 \notin stop
                  /\ ends(last) < Len(req.packet)
       IN  IF refusal = "malformed" THEN cut
           ELSE /\ buf = data /\ ~cut
                /\ badEscape(data) <=> refusal = "invalid query escape"
====
