-------------------------- MODULE RedisConnection --------------------------
(***************************************************************************)
(* What the Redis and the KeyDB store share (storage/redis/storage.go):    *)
(* the names of the keys and the keys the read calls go through.           *)
(***************************************************************************)
EXTENDS Integers, FiniteSets, Sequences

CONSTANTS InfoHash, Peer

Kind == {"seeders", "leechers"}

\* InfoHashKey: one key for every info hash, kind and family.
Key == [ih : InfoHash, kind : Kind, v6 : BOOLEAN]
InfoHashKey(ih, kind, v6) == [ih |-> ih, kind |-> kind, v6 |-> v6]

\* Mutant: the seeders are counted first.
ScrapeKeysSwapped(ih) ==
    <<InfoHashKey(ih, "seeders", FALSE), InfoHashKey(ih, "seeders", TRUE),
      InfoHashKey(ih, "leechers", FALSE), InfoHashKey(ih, "leechers", TRUE)>>

\* The keys ScrapeIH counts, in this order.
ScrapeKeys(ih) ==
    <<InfoHashKey(ih, "leechers", FALSE), InfoHashKey(ih, "leechers", TRUE),
      InfoHashKey(ih, "seeders", FALSE), InfoHashKey(ih, "seeders", TRUE)>>

\* The keys GetPeers asks for peers, in this order.
PeerKeys(ih, forSeeder, v6) ==
    IF forSeeder THEN <<InfoHashKey(ih, "leechers", v6)>>
    ELSE <<InfoHashKey(ih, "seeders", v6), InfoHashKey(ih, "leechers", v6)>>
====
