----------------------------- MODULE WindowLimit -----------------------------
(***************************************************************************)
(* What a rate limiter promises, whatever it is made of                    *)
(* (_rate_limiter.py 32-35): a call is admitted only if fewer than its own *)
(* limit were admitted on its key within Gap before it, so never at a      *)
(* limit of nought.  The calls of a key need not come with one limit: that *)
(* of a permission may be replaced.  A reset forgives what was admitted    *)
(* before it.                                                              *)
(***************************************************************************)
EXTENDS Integers, Sequences

CONSTANTS Keys, Limits, Gap

VARIABLES
    now,
    admitted    \* per key, when each call since the last reset was admitted
                \* and the limit it was asked with

limiter == <<now, admitted>>

Init ==
    /\ now = 0
    /\ admitted = [k \in Keys |-> <<>>]

HasRoom(k, limit) ==
    LET n == Len(admitted[k])
    IN  /\ limit > 0
        /\ n >= limit => now - admitted[k][n + 1 - limit].at > Gap

Admit(k, limit) ==
    /\ HasRoom(k, limit)
    /\ admitted' = [admitted EXCEPT ![k] = Append(@, [at |-> now, limit |-> limit])]
    /\ UNCHANGED now

Forgive(ks) ==
    /\ UNCHANGED now
    /\ admitted' = [k \in Keys |-> IF k \in ks THEN <<>> ELSE admitted[k]]

Tick == now' = now + 1 /\ UNCHANGED admitted

Next ==
    \/ Tick
    \/ \E ks \in SUBSET Keys : Forgive(ks)
    \/ \E k \in Keys : \E limit \in Limits[k] : Admit(k, limit)

Spec == Init /\ [][Next]_limiter
=============================================================================
