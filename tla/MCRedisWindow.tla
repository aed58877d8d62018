---------------------------- MODULE MCRedisWindow ----------------------------
(***************************************************************************)
(* Replicas that share two keys, each asked with a limit of two or nought. *)
(***************************************************************************)
EXTENDS RedisWindow, TLC

CONSTANTS k1, k2

TwoKeys == {k1, k2}
Alike == Permutations(Clients) \cup Permutations(TwoKeys)
LimitsOfKeys == [k \in TwoKeys |-> {0, 2}]
=============================================================================
