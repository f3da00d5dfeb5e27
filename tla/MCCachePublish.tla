---------------------------- MODULE MCCachePublish ----------------------------
(***************************************************************************)
(* Instances of CachePublish for TLC.                                      *)
(***************************************************************************)
EXTENDS CachePublish, TLC

CONSTANTS c1, c2, k1, k2, ns1, t1, t2

MCClients == {c1, c2}
MCKeys == {k1, k2}
OneKey == {k1}
MCTokens == {t1, t2}
MCNamespaces == {ns1}
MCNsOf == [k \in Keys |-> ns1]
MCSize == [k \in Keys |-> 1]

Symmetry == Permutations(MCClients) \cup Permutations(Keys) \cup Permutations(Tokens)
================================================================================
