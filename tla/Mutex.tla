------------------------------- MODULE Mutex -------------------------------
(***************************************************************************)
(* What a lock promises: it is held by one context at most, from Acquire to*)
(* Release.                                                                *)
(***************************************************************************)
CONSTANT Contexts

VARIABLE holders

Init == holders = {}

Acquire(p) == holders = {} /\ holders' = {p}
Release(p) == holders = {p} /\ holders' = {}

Next == \E p \in Contexts : Acquire(p) \/ Release(p)

Spec == Init /\ [][Next]_holders
=============================================================================
