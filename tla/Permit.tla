-------------------------------- MODULE Permit --------------------------------
(***************************************************************************)
(* What a store of single-use tokens promises, whatever it is made of      *)
(* (tokens.py 63-64, redis_backend.py 227-230): until a token is released, *)
(* by its expiry or by an operator who chose to fail open, it is spent at  *)
(* most once, and one that was burned - marked, with nobody told so - is   *)
(* not spent at all.                                                       *)
(***************************************************************************)
EXTENDS Naturals

CONSTANT Tokens

VARIABLES
    phase,    \* "unissued", "live", "spent", "burned" or "released"
    spends    \* times each token let its bearer through

permit == <<phase, spends>>

Init ==
    /\ phase = [k \in Tokens |-> "unissued"]
    /\ spends = [k \in Tokens |-> 0]

Become(k, next) == phase' = [phase EXCEPT ![k] = next]
Spent(k) == spends' = [spends EXCEPT ![k] = @ + 1]

Issue(k) == phase[k] = "unissued" /\ Become(k, "live") /\ UNCHANGED spends

Spend(k) == phase[k] = "live" /\ Become(k, "spent") /\ Spent(k)

Burn(k) == phase[k] = "live" /\ Become(k, "burned") /\ UNCHANGED spends

\* A token let through unseen is released with it.
Waive(k) == phase[k] # "unissued" /\ Become(k, "released") /\ Spent(k)

SpendReleased(k) == phase[k] = "released" /\ Spent(k) /\ UNCHANGED phase

\* Time passes for all of them.
Release(ks) ==
    /\ \A k \in ks : phase[k] # "unissued"
    /\ phase' = [k \in Tokens |-> IF k \in ks THEN "released" ELSE phase[k]]
    /\ UNCHANGED spends

Next ==
    \/ \E k \in Tokens :
          Issue(k) \/ Spend(k) \/ Burn(k) \/ Waive(k) \/ SpendReleased(k)
    \/ \E ks \in SUBSET Tokens : Release(ks)

Spec == Init /\ [][Next]_permit
=============================================================================
