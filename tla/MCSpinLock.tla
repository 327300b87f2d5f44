----------------------------- MODULE MCSpinLock -----------------------------
(* Four contexts: one holds the lock while three compete for it.            *)
EXTENDS SpinLock
=============================================================================
