--------------------------- MODULE SpinLockProofs ---------------------------
(***************************************************************************)
(* The spinlock is a lock, for any finite number of contexts.              *)
(***************************************************************************)
EXTENDS SpinLock, FiniteSetTheorems, TLAPS

(* The inductive invariant: Exclusive needs to know that bit 1 is never    *)
(* set, since a context that found it set would leave without the lock.    *)
IInv == TypeOK /\ Exclusive /\ 1 \notin bits

LEMMA InitIInv == Init => IInv
  BY DEF Init, IInv, TypeOK, Exclusive, Holds

(* Every instruction of the macros preserves the invariant.                *)
LEMMA NextIInv == IInv /\ [Next]_vars => IInv'
<1> SUFFICES ASSUME IInv, [Next]_vars PROVE IInv'
  OBVIOUS
<1> USE DEF IInv, TypeOK, Exclusive, Holds
<1>1. CASE UNCHANGED vars
  BY <1>1 DEF vars
<1>2. ASSUME NEW p \in Contexts, LockInc(p) PROVE IInv'
  BY <1>2 DEF LockInc, Move
<1>3. ASSUME NEW p \in Contexts, LockBts(p) PROVE IInv'
  <2>1. CASE 0 \in bits
    BY <1>3, <2>1 DEF LockBts, Move
  <2>2. CASE 0 \notin bits
    BY <1>3, <2>2 DEF LockBts, Move
  <2> QED BY <2>1, <2>2
<1>4. ASSUME NEW p \in Contexts, LockBt(p) PROVE IInv'
  BY <1>4 DEF LockBt, Move
<1>5. ASSUME NEW p \in Contexts, LockDec(p) PROVE IInv'
  BY <1>5 DEF LockDec, Move
<1>6. ASSUME NEW p \in Contexts, LOCK_ACQUIRE(p) PROVE IInv'
  <2>1. CASE 0 \in bits
    BY <1>6, <2>1 DEF LOCK_ACQUIRE, Move
  <2>2. CASE 0 \notin bits
    BY <1>6, <2>2 DEF LOCK_ACQUIRE, Move
  <2> QED BY <2>1, <2>2
<1>7. ASSUME NEW p \in Contexts, UNLOCK(p) PROVE IInv'
  BY <1>7 DEF UNLOCK, Move
<1> QED
  BY <1>1, <1>2, <1>3, <1>4, <1>5, <1>6, <1>7 DEF Next, LOCK

THEOREM Invariance == Spec => []IInv
  BY InitIInv, NextIInv, PTL DEF Spec

(* LOCK, LOCK_ACQUIRE and UNLOCK give mutual exclusion, and bit 0 says     *)
(* whether the lock is held.                                               *)
THEOREM SpinLockExclusive == Spec => []Exclusive
<1>1. IInv => Exclusive
  BY DEF IInv
<1> QED BY <1>1, Invariance, PTL

---------------------------------------------------------------------------
(* One context entering or leaving LOCK changes the number of those inside *)
(* by one.                                                                 *)
Waiters == {p \in Contexts : Waits(p)}

LEMMA WaitersFinite == IsFiniteSet(Waiters)
  BY FiniteAssumption, FS_Subset DEF Waiters

LEMMA NextCounts ==
  ASSUME TypeOK, CountsWaiters, [Next]_vars
  PROVE  CountsWaiters'
<1> USE DEF TypeOK
<1>0. /\ waiting_refcount = Cardinality(Waiters)
      /\ CountsWaiters' <=> waiting_refcount' = Cardinality(Waiters')
      /\ IsFiniteSet(Waiters)
      /\ Cardinality(Waiters) \in Nat
  BY WaitersFinite, FS_CardinalityType DEF CountsWaiters, Waiters
<1>1. ASSUME Waiters' = Waiters, waiting_refcount' = waiting_refcount
      PROVE  CountsWaiters'
  BY <1>0, <1>1
<1>2. CASE UNCHANGED vars
  BY <1>1, <1>2 DEF vars, Waiters, Waits
<1>3. ASSUME NEW p \in Contexts, LockInc(p) PROVE CountsWaiters'
  <2>1. p \notin Waiters /\ Waiters' = Waiters \cup {p}
    BY <1>3 DEF LockInc, Move, Waiters, Waits
  <2>2. Cardinality(Waiters') = Cardinality(Waiters) + 1
    BY <1>0, <2>1, FS_AddElement
  <2> QED BY <1>0, <1>3, <2>2 DEF LockInc
<1>4. ASSUME NEW p \in Contexts, LockDec(p) PROVE CountsWaiters'
  <2>1. p \in Waiters /\ Waiters' = Waiters \ {p}
    BY <1>4 DEF LockDec, Waiters, Waits
  <2>2. Cardinality(Waiters') = Cardinality(Waiters) - 1
    BY <1>0, <2>1, FS_RemoveElement
  <2> QED BY <1>0, <1>4, <2>2 DEF LockDec
<1>5. ASSUME NEW p \in Contexts, LockBts(p) \/ LockBt(p) \/ LOCK_ACQUIRE(p) \/ UNLOCK(p)
      PROVE  CountsWaiters'
  <2>1. Waiters' = Waiters
    BY <1>5 DEF LockBts, LockBt, LOCK_ACQUIRE, UNLOCK, Move, Waiters, Waits
  <2>2. waiting_refcount' = waiting_refcount
    BY <1>5 DEF LockBts, LockBt, LOCK_ACQUIRE, UNLOCK
  <2> QED BY <1>1, <2>1, <2>2
<1> QED
  BY <1>2, <1>3, <1>4, <1>5 DEF Next, LOCK

(* waiting_refcount counts the contexts inside LOCK.                       *)
THEOREM SpinLockCounts == Spec => []CountsWaiters
<1>1. Init => CountsWaiters
  <2> SUFFICES ASSUME Init PROVE CountsWaiters
    OBVIOUS
  <2>1. {p \in Contexts : Waits(p)} = {}
    BY DEF Init, Waits
  <2> QED BY <2>1, FS_EmptySet DEF Init, CountsWaiters
<1>2. IInv => TypeOK
  BY DEF IInv
<1>3. TypeOK /\ CountsWaiters /\ [Next]_vars => CountsWaiters'
  BY NextCounts
<1> QED BY <1>1, <1>2, <1>3, Invariance, PTL DEF Spec

---------------------------------------------------------------------------
(* The macros implement the abstract lock of Mutex: the successful btsl    *)
(* acquires, the btrl releases, everything else leaves the holders alone.  *)
THEOREM SpinLockImplementsMutex == Spec => ImplementsMutex
<1> DEFINE H == {p \in Contexts : Holds(p)}
<1>1. Init => Abstract!Init
  BY DEF Init, Abstract!Init, Holds
<1>2. ASSUME IInv, [Next]_vars PROVE [Abstract!Next]_H
  <2> USE DEF IInv, TypeOK, Exclusive, Holds
  <2>1. CASE UNCHANGED vars
    BY <2>1 DEF vars
  <2>2. ASSUME NEW p \in Contexts, LockInc(p) \/ LockBt(p) \/ LockDec(p)
        PROVE  H' = H
    BY <1>2, <2>2 DEF LockInc, LockBt, LockDec, Move
  <2>3. ASSUME NEW p \in Contexts, LockBts(p) \/ LOCK_ACQUIRE(p), 0 \in bits
        PROVE  H' = H
    BY <1>2, <2>3 DEF LockBts, LOCK_ACQUIRE, Move
  <2>4. ASSUME NEW p \in Contexts, LockBts(p) \/ LOCK_ACQUIRE(p), 0 \notin bits
        PROVE  Abstract!Acquire(p)
    <3>1. H = {}
      BY <1>2, <2>4
    <3>2. H' = {p}
      BY <1>2, <2>4 DEF LockBts, LOCK_ACQUIRE, Move
    <3> QED BY <3>1, <3>2 DEF Abstract!Acquire
  <2>5. ASSUME NEW p \in Contexts, UNLOCK(p) PROVE Abstract!Release(p)
    <3>1. H = {p}
      BY <1>2, <2>5 DEF UNLOCK, Move
    <3>2. H' = {}
      BY <1>2, <2>5 DEF UNLOCK, Move
    <3> QED BY <3>1, <3>2 DEF Abstract!Release
  <2> QED
    BY <1>2, <2>1, <2>2, <2>3, <2>4, <2>5 DEF Next, LOCK, Abstract!Next
<1> QED
  BY <1>1, <1>2, Invariance, PTL DEF Spec, ImplementsMutex, Abstract!Spec
=============================================================================
