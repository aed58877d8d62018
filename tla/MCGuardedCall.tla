---------------------------- MODULE MCGuardedCall ----------------------------
(***************************************************************************)
(* Two threads and two calls, each context used again once at most.  A     *)
(* tool that returns takes the path of one that raises, and what cannot be *)
(* written down raises alike whether json or str() refuses it, so errors   *)
(* stand for results; GuardedCall_evidence has all four outcomes.          *)
(***************************************************************************)
EXTENDS GuardedCall, TLC

BothErrors == {"ERROR", "UNWRITABLE_ERROR"}

Alike == Permutations(Threads) \cup Permutations(Auths)
=============================================================================
