--------------------------- MODULE MCSlidingWindow ---------------------------
(***************************************************************************)
(* Two threads; a key asked with two limits, so that a permission replaced *)
(* in flight is among the behaviours, and another with one or nought.      *)
(***************************************************************************)
EXTENDS SlidingWindow, TLC

CONSTANTS t1, t2, k1, k2

TwoThreads == {t1, t2}
TwoKeys == {k1, k2}
LimitsOfKeys == k1 :> {1, 2} @@ k2 :> {0, 1}
Alike == Permutations(TwoThreads)
=============================================================================
