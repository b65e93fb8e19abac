-------------------------- MODULE MCTorrentApproval --------------------------
EXTENDS TorrentApproval

CONSTANTS f, A, B

\* One file, next to which others come.
SomeDirs == {[x \in File |-> IF x = f THEN A ELSE NoTorrent]}
====
