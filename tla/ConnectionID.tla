---------------------------- MODULE ConnectionID ----------------------------
(***************************************************************************)
(* The connection IDs of the UDP frontend (frontend/udp/connection_id.go). *)
(* An ID holds a salt, the low 16 bits of the second it was made in and a  *)
(* MAC of the salt, the whole second and the client's address.  Validate   *)
(* rebuilds the second from its own clock.  The MAC is ideal: it is the    *)
(* tuple it was computed from.  The clock is the wall clock, cached; it    *)
(* may be set back.  A datagram may arrive late, more than once, or from   *)
(* another address than the ID was given to.                               *)
(***************************************************************************)
EXTENDS Integers, FiniteSets

CONSTANTS
    Addr,           \* client addresses
    Salt,           \* values of the salt byte
    Low,            \* the timestamp in an ID is modulo this: 2^16 seconds
    Second,         \* a second, in the unit of time.Duration: 10^9
    TTL,            \* seconds an ID should live: 120
    MaxClockSkew,   \* seconds of leeway
    MaxTime,        \* bound on the clock
    MaxBack,        \* bound on how far the clock is set back at once
    MaxIDs          \* bound on the IDs handed out

ASSUME ConnectionAssumption ==
    /\ Low \in Nat \ {0} /\ Second \in Nat \ {0}
    /\ TTL \in Nat /\ MaxClockSkew \in Nat \ {0} /\ MaxTime \in Nat /\ MaxBack \in Nat
    /\ MaxIDs \in Nat

VARIABLES
    now,      \* timecache.Now().Unix()
    ids,      \* the IDs that were handed out
    last      \* the last verdict: the ID, where it came from, when, and the answer

idVars == <<now, ids, last>>

\* ttl and maxClockSkew are durations.
ttl == TTL * Second
maxClockSkew == MaxClockSkew * Second

ID == [salt : Salt, low : 0 .. Low - 1, mac : Salt \X Nat \X Addr]

\* nowTS &^ 0xffff
High(t) == t - (t % Low)

\* Mutant: the wrong bytes of the timestamp.
GenerateShifted(salt, ip, t) ==
    [salt |-> salt, low |-> (t \div 2) % Low, mac |-> <<salt, t, ip>>]

Generate(salt, ip, t) == [salt |-> salt, low |-> t % Low, mac |-> <<salt, t, ip>>]

\* Mutant: the MAC is compared without the address.
ValidateAnyAddr(id, ip, t) ==
    LET ts == High(t) + id.low
    IN  /\ id.mac[1] = id.salt /\ id.mac[2] = ts
        /\ ts - maxClockSkew < t
        /\ t < ts + ttl + maxClockSkew

\* The high bits of the clock, the low bits of the ID.
Validate(id, ip, t) ==
    LET ts == High(t) + id.low
    IN  /\ id.mac = <<id.salt, ts, ip>>
        /\ ts - maxClockSkew < t
        /\ t < ts + ttl + maxClockSkew

----------------------------------------------------------------------------
IDInit ==
    /\ now = 0
    /\ ids = {}
    /\ last = [seen |-> FALSE]

Tick ==
    /\ now < MaxTime
    /\ now' = now + 1
    /\ UNCHANGED <<ids, last>>

SetBack ==
    /\ \E d \in 1 .. MaxBack : d <= now /\ now' = now - d
    /\ UNCHANGED <<ids, last>>

\* A connect request.
Connect(ip) ==
    /\ Cardinality(ids) < MaxIDs
    /\ \E salt \in Salt : ids' = ids \cup {Generate(salt, ip, now)}
    /\ UNCHANGED <<now, last>>

\* Any other request: handleRequest goes on when the ID is valid.
Request(ip) ==
    /\ \E id \in ids :
          last' = [seen |-> TRUE, id |-> id, ip |-> ip, at |-> now,
                   ok |-> Validate(id, ip, now)]
    /\ UNCHANGED <<now, ids>>

IDNext ==
    \/ Tick \/ SetBack
    \/ \E ip \in Addr : Connect(ip) \/ Request(ip)

IDSpec == IDInit /\ [][IDNext]_idVars

----------------------------------------------------------------------------
(* Properties.  The second an ID was made in is the one its MAC covers.    *)

MadeAt(id) == id.mac[2]
MadeFor(id) == id.mac[3]

\* The variables have their types: what Generate makes is an eight byte ID.
IDTypeOK ==
    /\ now \in Nat
    /\ ids \subseteq ID
    /\ last.seen \in BOOLEAN
    /\ last.seen => /\ last.id \in ids /\ last.ip \in Addr /\ last.at \in Nat
                    /\ last.ok \in BOOLEAN

\* Whatever the clock does between the two, an ID is accepted only from the
\* address it was made for, and only less than 2^16 seconds from the second it
\* was made in: once the clock has wrapped, the MAC of the rebuilt timestamp
\* no longer matches.  This is all that limits its life: ttl is added in the
\* wrong unit, and what it should limit it to is WithinTTL below.
AcceptedBound ==
    (last.seen /\ last.ok) =>
        /\ last.ip = MadeFor(last.id)
        /\ MadeAt(last.id) - Low < last.at
        /\ last.at < MadeAt(last.id) + Low

\* Two bytes of timestamp are enough while the clock's high bits are those of
\* the second the ID was made in: an ID that is not yet ttl old is then
\* accepted from its address.
FreshAcceptedInWindow ==
    (last.seen /\ last.ip = MadeFor(last.id)
       /\ High(MadeAt(last.id)) = High(last.at)
       /\ MadeAt(last.id) <= last.at /\ last.at < MadeAt(last.id) + TTL) => last.ok

----------------------------------------------------------------------------
(* What the repository says and the code does not do.                      *)

\* An ID is valid for ttl, give or take the clock skew, as the comments on ttl
\* and in Validate have it.
WithinTTL ==
    (last.seen /\ last.ok) =>
        /\ MadeAt(last.id) - MaxClockSkew < last.at
        /\ last.at < MadeAt(last.id) + TTL + MaxClockSkew
====
