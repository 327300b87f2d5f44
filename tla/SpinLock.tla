------------------------------ MODULE SpinLock ------------------------------
(***************************************************************************)
(* The spinlock of include/lock.h: lock_t and the macros LOCK,             *)
(* LOCK_ACQUIRE and UNLOCK, one action per locked instruction.  All other  *)
(* modules use the result: LOCK is a step that waits for bit 0 to be clear *)
(* and sets it, LOCK_ACQUIRE one that sets it and tells what it was, UNLOCK*)
(* one that clears it.                                                     *)
(***************************************************************************)
EXTENDS Integers, FiniteSets

CONSTANT Contexts      \* whatever executes code: threads, interrupt handlers

ASSUME FiniteAssumption == IsFiniteSet(Contexts)

VARIABLES
  bits,               \* the bits of lock.bits that are set
  waiting_refcount,
  pc                  \* where each context is

vars == <<bits, waiting_refcount, pc>>

TypeOK ==
  /\ bits \in SUBSET {0, 1}
  /\ waiting_refcount \in Int
  /\ pc \in [Contexts -> {"out", "bts", "bt", "got", "gave_up", "cs"}]

Init ==
  /\ bits = {}
  /\ waiting_refcount = 0
  /\ pc = [p \in Contexts |-> "out"]

Move(p, from, to) == pc[p] = from /\ pc' = [pc EXCEPT ![p] = to]

(* LOCK: lock incl.                                                        *)
LockInc(p) ==
  /\ Move(p, "out", "bts")
  /\ waiting_refcount' = waiting_refcount + 1
  /\ UNCHANGED bits

(* Mutant: the carry flag is not looked at.                                *)
LockBtsNoTest(p) ==
  /\ Move(p, "bts", "got")
  /\ bits' = bits \cup {0}
  /\ UNCHANGED waiting_refcount

(* lock btsl $0: set bit 0, and leave the loop if it was clear.            *)
LockBts(p) ==
  /\ Move(p, "bts", IF 0 \in bits THEN "bt" ELSE "got")
  /\ bits' = bits \cup {0}
  /\ UNCHANGED waiting_refcount

(* Mutant: the loop goes back to the test of bit 1 only.                   *)
LockBtForEver(p) ==
  /\ Move(p, "bt", IF 1 \in bits THEN "gave_up" ELSE "bt")
  /\ UNCHANGED <<bits, waiting_refcount>>

(* btl $1: bit 1 would make a waiter leave without the lock; no code of    *)
(* the kernel sets it.                                                     *)
LockBt(p) ==
  /\ Move(p, "bt", IF 1 \in bits THEN "gave_up" ELSE "bts")
  /\ UNCHANGED <<bits, waiting_refcount>>

(* lock decl, with the lock or without.                                    *)
LockDec(p) ==
  /\ pc[p] \in {"got", "gave_up"}
  /\ pc' = [pc EXCEPT ![p] = IF @ = "got" THEN "cs" ELSE "out"]
  /\ waiting_refcount' = waiting_refcount - 1
  /\ UNCHANGED bits

(* Mutant: the result of the attempt is ignored.                           *)
LockAcquireBlind(p) ==
  /\ Move(p, "out", "cs")
  /\ bits' = bits \cup {0}
  /\ UNCHANGED waiting_refcount

(* LOCK_ACQUIRE: a single lock btsl.                                       *)
LOCK_ACQUIRE(p) ==
  /\ Move(p, "out", IF 0 \in bits THEN "out" ELSE "cs")
  /\ bits' = bits \cup {0}
  /\ UNCHANGED waiting_refcount

(* UNLOCK, by the context that holds the lock.                             *)
UNLOCK(p) ==
  /\ Move(p, "cs", "out")
  /\ bits' = bits \ {0}
  /\ UNCHANGED waiting_refcount

LOCK(p) == LockInc(p) \/ LockBts(p) \/ LockBt(p) \/ LockDec(p)

Next == \E p \in Contexts : LOCK(p) \/ LOCK_ACQUIRE(p) \/ UNLOCK(p)

Spec == Init /\ [][Next]_vars

(* A context keeps executing while it is inside a macro, and critical      *)
(* sections end.                                                           *)
FairSpec ==
  /\ Spec
  /\ \A p \in Contexts :
       WF_vars(LockBts(p) \/ LockBt(p) \/ LockDec(p)) /\ WF_vars(UNLOCK(p))

---------------------------------------------------------------------------
(* Properties.                                                             *)

Holds(p) == pc[p] \in {"got", "cs"}
Waits(p) == pc[p] \in {"bts", "bt", "got", "gave_up"}

(* Bit 0 is set exactly while a context is between its successful btsl and *)
(* its btrl, and there is never more than one such context, whichever mix  *)
(* of LOCK and LOCK_ACQUIRE they used; LOCK never comes back without it.   *)
Exclusive ==
  /\ 0 \in bits <=> \E p \in Contexts : Holds(p)
  /\ \A p, q \in Contexts : Holds(p) /\ Holds(q) => p = q
  /\ \A p \in Contexts : pc[p] # "gave_up"

(* waiting_refcount is the number of contexts inside LOCK.                 *)
CountsWaiters == waiting_refcount = Cardinality({p \in Contexts : Waits(p)})

Abstract == INSTANCE Mutex WITH holders <- {p \in Contexts : Holds(p)}

(* The macros implement a lock.                                            *)
ImplementsMutex == Abstract!Spec

(* The lock does not stay free while somebody waits for it (which of the   *)
(* waiters gets it, and how soon, the code leaves to chance).              *)
Progress ==
  (\E p \in Contexts : pc[p] \in {"bts", "bt"}) ~> (\E p \in Contexts : Holds(p))
=============================================================================
