---------------------------- MODULE MCCacheFile ----------------------------
(* Instances of CacheFile for TLC. *)
EXTENDS CacheFile, TLC

CONSTANTS c1, c2, c3, a1, a2, i1, i2, i3, i4

TwoClients == {c1, c2}
ThreeClients == {c1, c2, c3}
FourInodes == {i1, i2, i3, i4}

\* Clients, answers and inodes are interchangeable, and no property names one.
Sym == Permutations(Client) \union Permutations(Answer)
         \union Permutations(Inode)
=============================================================================
