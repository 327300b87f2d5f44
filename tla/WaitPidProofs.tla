--------------------------- MODULE WaitPidProofs ---------------------------
(***************************************************************************)
(* Exits are accounted for with any number of children and whatever calls  *)
(* their parent makes: event->pending loses no exit although waitpid counts*)
(* it down without the lock.                                               *)
(***************************************************************************)
EXTENDS WaitPid, TLAPS

(* Points of a child in event_trigger at which it holds its event's lock,  *)
(* and of a parent inside sched_waitpid.                                   *)
Critical == {"load", "store", "unlock"}
InCall == {"lock", "check", "unlock", "poll", "load", "store"}

(* A process is forked once, so it is in the list of children once.        *)
Once(s) == \A k, m \in DOMAIN s : s[k] = s[m] => k = m
ListInv ==
  /\ Once(children)
  /\ \A k \in DOMAIN children : cpc[children[k]] # "none"
  /\ Once(events)

(* A call with no particular child looks at the events of all of them, in  *)
(* the order of the list, which does not change meanwhile; the index is one*)
(* of theirs when it is used without a test.                               *)
CallInv ==
  /\ i >= 1
  /\ ppc \in InCall /\ child = Nobody => events = children
  /\ ppc = "poll" /\ Len(events) > 0 => i <= Len(events)
  /\ ppc \in {"load", "store"} => i <= Len(events)

(* The load and the store that count pending up, and those that count it   *)
(* down, never overlap for one child, although only the former hold the    *)
(* lock: the parent starts when the child has stored.                      *)
CountInv ==
  /\ ExitsAccounted
  /\ \A c \in Children : cpc[c] = "store" => cval[c] = 0
  /\ ppc \in {"load", "store"} => pending[events[i]] = 1
  /\ ppc = "store" => val = 1

(* The locks the parent has in the first pass of event_await.              *)
Taken(k) == \/ ppc = "lock" /\ k < i
            \/ ppc = "check"
            \/ ppc = "unlock" /\ k >= i
LockInv ==
  /\ \A c \in Children : cpc[c] \in Critical => elock[c]
  /\ \A k \in DOMAIN events :
       Taken(k) => elock[events[k]] /\ cpc[events[k]] \notin Critical

(* A parent that waits by pid waits for one child.                         *)
PidInv ==
  WaitsByPid /\ ppc \in InCall => child \in Children /\ events = <<child>>

IInv == TypeOK /\ ListInv /\ CallInv /\ CountInv /\ LockInv /\ PidInv /\ ReturnsExitedChild

---------------------------------------------------------------------------
(* TypeOK in two parts: what the prover needs to know of the two sequences,*)
(* and the types of everything else.                                       *)
CPcs == {"none", "run", "lock", "load", "store", "unlock", "exited"}
PPcs == InCall \cup {"run", "lost"}
Types ==
  /\ pending \in [Children -> Nat]
  /\ elock \in [Children -> BOOLEAN]
  /\ cpc \in [Children -> CPcs]
  /\ cval \in [Children -> Nat]
  /\ ppc \in PPcs
  /\ i \in Nat
  /\ block \in BOOLEAN
  /\ child \in Children \cup {Nobody, Wild}
  /\ val \in Nat
  /\ result \in Children \cup {Nobody, Wild}
  /\ reaped \in [Children -> Nat]
SeqTypes == calls \in Programs /\ children \in Seq(Children) /\ events \in Seq(Children)
SeqFacts ==
  /\ Len(events) \in Nat /\ DOMAIN events = 1 .. Len(events)
  /\ \A k \in 1 .. Len(events) : events[k] \in Children
  /\ Len(children) \in Nat /\ DOMAIN children = 1 .. Len(children)
  /\ \A k \in 1 .. Len(children) : children[k] \in Children

LEMMA TypeParts == (TypeOK <=> Types /\ SeqTypes) /\ (TypeOK <=> Types /\ SeqTypes)'
  BY DEF TypeOK, Types, SeqTypes, CPcs, PPcs, InCall

LEMMA SeqFactsHold == SeqTypes => SeqFacts
  BY DEF SeqTypes, SeqFacts

(* The call's index into the list of children is one when it is used.      *)
LEMMA ReturnedType ==
  ASSUME Types, SeqFacts, CallInv, ppc \in InCall, i <= Len(events)
  PROVE  i \in DOMAIN events /\ Returned(i) \in Children \cup {Nobody, Wild}
  BY DEF Types, SeqFacts, CallInv, Returned

LEMMA CountFacts ==
  ASSUME Types, ExitsAccounted, NEW c \in Children
  PROVE  /\ ~Triggered(c) => pending[c] = 0 /\ reaped[c] = 0
         /\ pending[c] > 0 => pending[c] = 1 /\ reaped[c] = 0 /\ Triggered(c)
<1>1. pending[c] \in Nat /\ reaped[c] \in Nat
  BY DEF Types
<1>2. pending[c] + reaped[c] = IF Triggered(c) THEN 1 ELSE 0
  BY DEF ExitsAccounted
<1> QED BY <1>1, <1>2

(* Arithmetic the steps below need, apart from the state it is about.      *)
LEMMA Counting ==
  /\ 1 - 1 \in Nat
  /\ \A m \in Nat : m + 1 \in Nat
  /\ \A m, n \in Nat : m >= n + 1 => m >= n /\ m # n
  OBVIOUS

(* Types.                                                                  *)
LEMMA TypesNext ==
  ASSUME Types, SeqTypes, CallInv, CountInv, Next
  PROVE  Types'
<1>0. SeqFacts
  BY SeqFactsHold
<1> USE <1>0 DEF Types, SeqFacts, CPcs, PPcs, InCall, CMove, PMove, ParentUnchanged,
        ChildrenUnchanged, event_t, locals
<1>1. CASE WaitAny
  BY <1>1 DEF WaitAny, Blocking
<1>2. CASE WaitForStranger
  BY <1>2 DEF WaitForStranger
<1>3. CASE AwaitLock
  <2>1. CASE i > Len(events)
    BY <1>3, <2>1 DEF AwaitLock
  <2>2. CASE ~(i > Len(events))
    <3>1. events[i] \in Children
      BY <2>2 DEF CallInv
    <3>2. elock' = [elock EXCEPT ![events[i]] = TRUE] /\ i' = i + 1
      BY <1>3, <2>2 DEF AwaitLock
    <3>3. elock' \in [Children -> BOOLEAN]
      BY <3>1, <3>2
    <3>4. i' \in Nat
      BY <3>2
    <3> QED BY <1>3, <2>2, <3>3, <3>4 DEF AwaitLock
  <2> QED BY <2>1, <2>2
<1>4. CASE AwaitFound
  <2>1. events[i] \in Children /\ result' \in Children \cup {Nobody, Wild}
    BY <1>4, ReturnedType DEF AwaitFound
  <2>2. /\ pending' = [pending EXCEPT ![events[i]] = @ - 1] /\ pending[events[i]] > 0
        /\ reaped' = [reaped EXCEPT ![events[i]] = @ + 1]
    BY <1>4 DEF AwaitFound
  <2>3. pending[events[i]] - 1 \in Nat /\ reaped[events[i]] + 1 \in Nat
    <3>1. pending[events[i]] \in Nat /\ reaped[events[i]] \in Nat
      BY <2>1
    <3> HIDE DEF Types, SeqFacts
    <3> QED BY <2>2, <3>1
  <2>4. pending' \in [Children -> Nat] /\ reaped' \in [Children -> Nat]
    BY <2>1, <2>2, <2>3
  <2> QED BY <1>4, <2>1, <2>4 DEF AwaitFound
<1>5. CASE AwaitNext
  BY <1>5 DEF AwaitNext
<1>6. CASE AwaitUnlock
  <2>1. CASE i > Len(events)
    BY <1>6, <2>1 DEF AwaitUnlock
  <2>2. CASE ~(i > Len(events))
    <3>1. events[i] \in Children
      BY <2>2 DEF CallInv
    <3>2. elock' = [elock EXCEPT ![events[i]] = FALSE] /\ i' = i + 1
      BY <1>6, <2>2 DEF AwaitUnlock
    <3>3. elock' \in [Children -> BOOLEAN]
      BY <3>1, <3>2
    <3>4. i' \in Nat
      BY <3>2
    <3> QED BY <1>6, <2>2, <3>3, <3>4 DEF AwaitUnlock
  <2> QED BY <2>1, <2>2
<1>7. CASE AwaitPoll
  <2>1. i' \in Nat /\ ppc' \in {"poll", "load"}
    BY <1>7 DEF AwaitPoll
  <2> QED BY <1>7, <2>1 DEF AwaitPoll
<1>8. CASE AwaitLoad
  <2>1. events[i] \in Children
    BY <1>8 DEF AwaitLoad, CallInv
  <2>2. val' \in Nat
    BY <1>8, <2>1 DEF AwaitLoad
  <2> QED BY <1>8, <2>2 DEF AwaitLoad
<1>9. CASE AwaitStore
  <2>1. events[i] \in Children /\ result' \in Children \cup {Nobody, Wild} /\ val = 1
    BY <1>9, ReturnedType DEF AwaitStore, CallInv, CountInv
  <2>2. /\ pending' = [pending EXCEPT ![events[i]] = val - 1]
        /\ reaped' = [reaped EXCEPT ![events[i]] = @ + 1]
    BY <1>9 DEF AwaitStore
  <2>3. reaped[events[i]] \in Nat
    BY <2>1
  <2>4. val - 1 \in Nat /\ reaped[events[i]] + 1 \in Nat
    BY <2>1, <2>3, Counting
  <2>5. pending' \in [Children -> Nat] /\ reaped' \in [Children -> Nat]
    BY <2>1, <2>2, <2>4
  <2> QED BY <1>9, <2>1, <2>5 DEF AwaitStore
<1>10. ASSUME NEW c \in Children, WaitFor(c) PROVE Types'
  BY <1>10 DEF WaitFor, Blocking
<1>11. ASSUME NEW c \in Children, sched_fork(c) PROVE Types'
  BY <1>11 DEF sched_fork
<1>12. ASSUME NEW c \in Children, sched_exit(c) PROVE Types'
  BY <1>12 DEF sched_exit
<1>13. ASSUME NEW c \in Children, TriggerLock(c) PROVE Types'
  BY <1>13 DEF TriggerLock
<1>14. ASSUME NEW c \in Children, TriggerLoad(c) PROVE Types'
  BY <1>14 DEF TriggerLoad
<1>15. ASSUME NEW c \in Children, TriggerStore(c) PROVE Types'
  <2>1. pending' \in [Children -> Nat]
    BY <1>15 DEF TriggerStore
  <2>2. cpc' \in [Children -> {"none", "run", "lock", "load", "store", "unlock", "exited"}]
    BY <1>15 DEF TriggerStore
  <2> QED BY <1>15, <2>1, <2>2 DEF TriggerStore
<1>16. ASSUME NEW c \in Children, TriggerUnlock(c) PROVE Types'
  BY <1>16 DEF TriggerUnlock
<1> HIDE DEF Types, SeqFacts, CPcs, PPcs, InCall, CMove, PMove, ParentUnchanged,
         ChildrenUnchanged, event_t, locals
<1> QED
  BY <1>1, <1>2, <1>3, <1>4, <1>5, <1>6, <1>7, <1>8, <1>9, <1>10, <1>11, <1>12, <1>13,
     <1>14, <1>15, <1>16 DEF Next, sched_waitpid, event_await, event_trigger

(* The two sequences hold children.                                       *)
LEMMA SeqTypesNext ==
  ASSUME SeqTypes, Next
  PROVE  SeqTypes'
<1>0. SeqFacts
  BY SeqFactsHold
<1> USE <1>0 DEF SeqTypes, SeqFacts, CMove, PMove, ParentUnchanged, ChildrenUnchanged,
        event_t, locals
<1>1. CASE WaitAny
  BY <1>1 DEF WaitAny
<1>2. CASE WaitForStranger
  BY <1>2 DEF WaitForStranger
<1>3. CASE AwaitLock
  BY <1>3 DEF AwaitLock
<1>4. CASE AwaitFound
  BY <1>4 DEF AwaitFound
<1>5. CASE AwaitNext
  BY <1>5 DEF AwaitNext
<1>6. CASE AwaitUnlock
  BY <1>6 DEF AwaitUnlock
<1>7. CASE AwaitPoll
  BY <1>7 DEF AwaitPoll
<1>8. CASE AwaitLoad
  BY <1>8 DEF AwaitLoad
<1>9. CASE AwaitStore
  BY <1>9 DEF AwaitStore
<1>10. ASSUME NEW c \in Children, WaitFor(c) PROVE SeqTypes'
  <2>1. <<c>> \in Seq(Children)
    OBVIOUS
  <2> QED BY <1>10, <2>1 DEF WaitFor
<1>11. ASSUME NEW c \in Children, sched_fork(c) PROVE SeqTypes'
  <2>1. Append(children, c) \in Seq(Children)
    OBVIOUS
  <2> QED BY <1>11, <2>1 DEF sched_fork
<1>12. ASSUME NEW c \in Children, sched_exit(c) PROVE SeqTypes'
  BY <1>12 DEF sched_exit
<1>13. ASSUME NEW c \in Children, TriggerLock(c) PROVE SeqTypes'
  BY <1>13 DEF TriggerLock
<1>14. ASSUME NEW c \in Children, TriggerLoad(c) PROVE SeqTypes'
  BY <1>14 DEF TriggerLoad
<1>15. ASSUME NEW c \in Children, TriggerStore(c) PROVE SeqTypes'
  BY <1>15 DEF TriggerStore
<1>16. ASSUME NEW c \in Children, TriggerUnlock(c) PROVE SeqTypes'
  BY <1>16 DEF TriggerUnlock
<1> HIDE DEF SeqTypes, SeqFacts, CMove, PMove, ParentUnchanged, ChildrenUnchanged, event_t,
         locals
<1> QED
  BY <1>1, <1>2, <1>3, <1>4, <1>5, <1>6, <1>7, <1>8, <1>9, <1>10, <1>11, <1>12, <1>13,
     <1>14, <1>15, <1>16 DEF Next, sched_waitpid, event_await, event_trigger

(* A fork adds a process that was in no list.                              *)
LEMMA ListNext ==
  ASSUME Types, SeqTypes, ListInv, Next
  PROVE  ListInv'
<1>0. SeqFacts
  BY SeqFactsHold
<1> USE <1>0 DEF Types, SeqFacts, ListInv, Once, CMove, PMove, ParentUnchanged,
        ChildrenUnchanged, event_t, locals
<1>1. CASE WaitAny
  BY <1>1 DEF WaitAny
<1>2. CASE WaitForStranger
  BY <1>2 DEF WaitForStranger
<1>3. CASE AwaitLock
  BY <1>3 DEF AwaitLock
<1>4. CASE AwaitFound
  BY <1>4 DEF AwaitFound
<1>5. CASE AwaitNext
  BY <1>5 DEF AwaitNext
<1>6. CASE AwaitUnlock
  BY <1>6 DEF AwaitUnlock
<1>7. CASE AwaitPoll
  BY <1>7 DEF AwaitPoll
<1>8. CASE AwaitLoad
  BY <1>8 DEF AwaitLoad
<1>9. CASE AwaitStore
  BY <1>9 DEF AwaitStore
<1>10. ASSUME NEW c \in Children, WaitFor(c) PROVE ListInv'
  BY <1>10 DEF WaitFor
<1>11. ASSUME NEW c \in Children, sched_fork(c) PROVE ListInv'
  <2>1. /\ children' = Append(children, c) /\ events' = events
        /\ cpc[c] = "none" /\ cpc' = [cpc EXCEPT ![c] = "run"]
    BY <1>11 DEF sched_fork
  <2>2. children \in Seq(Children)
    BY DEF SeqTypes
  <2>3. DOMAIN children' = 1 .. Len(children) + 1 /\ children'[Len(children) + 1] = c
    BY <2>1, <2>2
  <2>4. \A k \in 1 .. Len(children) : children'[k] = children[k]
    BY <2>1, <2>2
  <2>5. \A k \in 1 .. Len(children) : children[k] # c
    BY <2>1
  <2>6. \A k \in DOMAIN children' : k \in 1 .. Len(children) \/ k = Len(children) + 1
    BY <2>3
  <2>7. \A k, m \in DOMAIN children' : children'[k] = children'[m] => k = m
    BY <2>3, <2>4, <2>5, <2>6
  <2>8. \A k \in DOMAIN children' : cpc'[children'[k]] # "none"
    BY <2>1, <2>3, <2>4, <2>6
  <2> QED BY <2>1, <2>7, <2>8
<1>12. ASSUME NEW c \in Children, sched_exit(c) PROVE ListInv'
  BY <1>12 DEF sched_exit
<1>13. ASSUME NEW c \in Children, TriggerLock(c) PROVE ListInv'
  BY <1>13 DEF TriggerLock
<1>14. ASSUME NEW c \in Children, TriggerLoad(c) PROVE ListInv'
  BY <1>14 DEF TriggerLoad
<1>15. ASSUME NEW c \in Children, TriggerStore(c) PROVE ListInv'
  BY <1>15 DEF TriggerStore
<1>16. ASSUME NEW c \in Children, TriggerUnlock(c) PROVE ListInv'
  BY <1>16 DEF TriggerUnlock
<1> HIDE DEF Types, SeqFacts, ListInv, Once, CMove, PMove, ParentUnchanged,
         ChildrenUnchanged, event_t, locals
<1> QED
  BY <1>1, <1>2, <1>3, <1>4, <1>5, <1>6, <1>7, <1>8, <1>9, <1>10, <1>11, <1>12, <1>13,
     <1>14, <1>15, <1>16 DEF Next, sched_waitpid, event_await, event_trigger

(* The list of events and the index into it.                               *)
LEMMA CallNext ==
  ASSUME Types, SeqTypes, CallInv, Next
  PROVE  CallInv'
<1>0. SeqFacts
  BY SeqFactsHold
<1> USE <1>0 DEF Types, SeqFacts, CallInv, InCall, CMove, PMove, ParentUnchanged,
        ChildrenUnchanged, event_t, locals
<1>1. CASE WaitAny
  BY <1>1 DEF WaitAny
<1>2. CASE WaitForStranger
  BY <1>2 DEF WaitForStranger
<1>3. CASE AwaitLock
  BY <1>3 DEF AwaitLock
<1>4. CASE AwaitFound
  BY <1>4 DEF AwaitFound
<1>5. CASE AwaitNext
  BY <1>5 DEF AwaitNext
<1>6. CASE AwaitUnlock
  BY <1>6 DEF AwaitUnlock
<1>7. CASE AwaitPoll
  <2>1. i' >= 1 /\ i' <= Len(events)
    BY <1>7 DEF AwaitPoll
  <2> QED BY <1>7, <2>1 DEF AwaitPoll
<1>8. CASE AwaitLoad
  BY <1>8 DEF AwaitLoad
<1>9. CASE AwaitStore
  BY <1>9 DEF AwaitStore
<1>10. ASSUME NEW c \in Children, WaitFor(c) PROVE CallInv'
  BY <1>10, ResultsAssumption DEF WaitFor
<1>11. ASSUME NEW c \in Children, sched_fork(c) PROVE CallInv'
  BY <1>11 DEF sched_fork
<1>12. ASSUME NEW c \in Children, sched_exit(c) PROVE CallInv'
  BY <1>12 DEF sched_exit
<1>13. ASSUME NEW c \in Children, TriggerLock(c) PROVE CallInv'
  BY <1>13 DEF TriggerLock
<1>14. ASSUME NEW c \in Children, TriggerLoad(c) PROVE CallInv'
  BY <1>14 DEF TriggerLoad
<1>15. ASSUME NEW c \in Children, TriggerStore(c) PROVE CallInv'
  BY <1>15 DEF TriggerStore
<1>16. ASSUME NEW c \in Children, TriggerUnlock(c) PROVE CallInv'
  BY <1>16 DEF TriggerUnlock
<1> HIDE DEF Types, SeqFacts, CallInv, InCall, CMove, PMove, ParentUnchanged,
         ChildrenUnchanged, event_t, locals
<1> QED
  BY <1>1, <1>2, <1>3, <1>4, <1>5, <1>6, <1>7, <1>8, <1>9, <1>10, <1>11, <1>12, <1>13,
     <1>14, <1>15, <1>16 DEF Next, sched_waitpid, event_await, event_trigger

(* The book-keeping: a step of either side finds the other one elsewhere.  *)
LEMMA CountNext ==
  ASSUME Types, SeqTypes, CallInv, CountInv, Next
  PROVE  CountInv'
<1>0. SeqFacts
  BY SeqFactsHold
<1> USE <1>0 DEF Types, SeqFacts, CallInv, CountInv, ExitsAccounted, Triggered, CMove,
        PMove, ParentUnchanged, ChildrenUnchanged, event_t, locals
<1>1. CASE WaitAny
  BY <1>1 DEF WaitAny
<1>2. CASE WaitForStranger
  BY <1>2 DEF WaitForStranger
<1>3. CASE AwaitLock
  BY <1>3 DEF AwaitLock
<1>4. CASE AwaitFound
  BY <1>4 DEF AwaitFound
<1>5. CASE AwaitNext
  BY <1>5 DEF AwaitNext
<1>6. CASE AwaitUnlock
  BY <1>6 DEF AwaitUnlock
<1>7. CASE AwaitPoll
  <2>1. events[i] \in Children
    BY <1>7 DEF AwaitPoll
  <2>2. pending[events[i]] > 0 => pending[events[i]] = 1
    BY <2>1, CountFacts
  <2>3. UNCHANGED <<events, pending, reaped, cpc, cval>>
    BY <1>7 DEF AwaitPoll
  <2>4. CASE pending[events[i]] > 0
    BY <1>7, <2>2, <2>3, <2>4 DEF AwaitPoll
  <2>5. CASE ~(pending[events[i]] > 0)
    BY <1>7, <2>3, <2>5 DEF AwaitPoll
  <2> QED BY <2>4, <2>5
<1>8. CASE AwaitLoad
  BY <1>8 DEF AwaitLoad
<1>9. CASE AwaitStore
  BY <1>9 DEF AwaitStore
<1>10. ASSUME NEW c \in Children, WaitFor(c) PROVE CountInv'
  BY <1>10 DEF WaitFor
<1>11. ASSUME NEW c \in Children, sched_fork(c) PROVE CountInv'
  BY <1>11 DEF sched_fork
<1>12. ASSUME NEW c \in Children, sched_exit(c) PROVE CountInv'
  BY <1>12 DEF sched_exit
<1>13. ASSUME NEW c \in Children, TriggerLock(c) PROVE CountInv'
  BY <1>13 DEF TriggerLock
<1>14. ASSUME NEW c \in Children, TriggerLoad(c) PROVE CountInv'
  <2>1. pending[c] = 0
    BY <1>14, CountFacts DEF TriggerLoad
  <2>2. \A d \in Children : cpc'[d] = "store" => cval'[d] = 0
    BY <1>14, <2>1 DEF TriggerLoad
  <2>3. \A d \in Children : Triggered(d)' <=> Triggered(d)
    BY <1>14 DEF TriggerLoad
  <2> QED BY <1>14, <2>2, <2>3 DEF TriggerLoad
<1>15. ASSUME NEW c \in Children, TriggerStore(c) PROVE CountInv'
  BY <1>15 DEF TriggerStore
<1>16. ASSUME NEW c \in Children, TriggerUnlock(c) PROVE CountInv'
  BY <1>16 DEF TriggerUnlock
<1> HIDE DEF Types, SeqFacts, CallInv, CountInv, ExitsAccounted, Triggered, CMove, PMove,
         ParentUnchanged, ChildrenUnchanged, event_t, locals
<1> QED
  BY <1>1, <1>2, <1>3, <1>4, <1>5, <1>6, <1>7, <1>8, <1>9, <1>10, <1>11, <1>12, <1>13,
     <1>14, <1>15, <1>16 DEF Next, sched_waitpid, event_await, event_trigger

(* The lock of an event has one holder.                                    *)
LEMMA LockNext ==
  ASSUME Types, SeqTypes, ListInv, CallInv, LockInv, Next
  PROVE  LockInv'
<1>0. SeqFacts
  BY SeqFactsHold
<1> USE <1>0 DEF Types, SeqFacts, ListInv, CallInv, LockInv, Taken, Critical, Once, CMove,
        PMove, ParentUnchanged, ChildrenUnchanged, event_t, locals
<1>1. CASE WaitAny
  BY <1>1 DEF WaitAny
<1>2. CASE WaitForStranger
  BY <1>2 DEF WaitForStranger
<1>3. CASE AwaitLock
  <2>1. CASE i > Len(events)
    BY <1>3, <2>1 DEF AwaitLock
  <2>2. CASE ~(i > Len(events))
    <3>1. /\ events[i] \in Children /\ ~elock[events[i]] /\ ppc = "lock" /\ ppc' = "lock"
          /\ elock' = [elock EXCEPT ![events[i]] = TRUE] /\ i' = i + 1
          /\ UNCHANGED <<events, cpc>>
      BY <1>3, <2>2 DEF AwaitLock
    <3>2. \A c \in Children : elock'[c] <=> elock[c] \/ c = events[i]
      BY <3>1
    <3>3. cpc[events[i]] \notin Critical
      BY <3>1
    <3>4. \A k \in DOMAIN events : k < i + 1 => k < i \/ k = i
      OBVIOUS
    <3>5. ASSUME NEW k \in DOMAIN events, Taken(k)'
          PROVE  elock'[events[k]] /\ cpc[events[k]] \notin Critical
      BY <3>1, <3>2, <3>3, <3>4, <3>5
    <3> QED BY <3>1, <3>2, <3>5
  <2> QED BY <2>1, <2>2
<1>4. CASE AwaitFound
  BY <1>4 DEF AwaitFound
<1>5. CASE AwaitNext
  BY <1>5 DEF AwaitNext
<1>6. CASE AwaitUnlock
  <2>1. CASE i > Len(events)
    BY <1>6, <2>1 DEF AwaitUnlock
  <2>2. CASE ~(i > Len(events))
    <3>1. /\ events[i] \in Children /\ i \in DOMAIN events /\ ppc = "unlock" /\ ppc' = "unlock"
          /\ elock' = [elock EXCEPT ![events[i]] = FALSE] /\ i' = i + 1
          /\ UNCHANGED <<events, cpc>>
      BY <1>6, <2>2 DEF AwaitUnlock
    <3>2. \A c \in Children : c # events[i] => elock'[c] = elock[c]
      BY <3>1
    <3>3. cpc[events[i]] \notin Critical
      <4>1. Taken(i)
        BY <3>1
      <4> HIDE DEF Taken, Critical
      <4> QED BY <3>1, <4>1
    <3>4. ASSUME NEW k \in DOMAIN events, k >= i + 1
          PROVE  k >= i /\ events[k] # events[i]
      <4>1. k \in Nat /\ i \in Nat
        BY <3>1
      <4>2. k >= i /\ k # i
        BY <3>4, <4>1, Counting
      <4> QED BY <3>1, <4>2
    <3>5. ASSUME NEW k \in DOMAIN events, Taken(k)'
          PROVE  elock'[events[k]] /\ cpc[events[k]] \notin Critical
      BY <3>1, <3>2, <3>4, <3>5
    <3>6. \A c \in Children : cpc[c] \in Critical => elock'[c]
      BY <3>2, <3>3
    <3> QED BY <3>1, <3>5, <3>6
  <2> QED BY <2>1, <2>2
<1>7. CASE AwaitPoll
  BY <1>7 DEF AwaitPoll
<1>8. CASE AwaitLoad
  BY <1>8 DEF AwaitLoad
<1>9. CASE AwaitStore
  BY <1>9 DEF AwaitStore
<1>10. ASSUME NEW c \in Children, WaitFor(c) PROVE LockInv'
  BY <1>10 DEF WaitFor
<1>11. ASSUME NEW c \in Children, sched_fork(c) PROVE LockInv'
  BY <1>11 DEF sched_fork
<1>12. ASSUME NEW c \in Children, sched_exit(c) PROVE LockInv'
  BY <1>12 DEF sched_exit
<1>13. ASSUME NEW c \in Children, TriggerLock(c) PROVE LockInv'
  BY <1>13 DEF TriggerLock
<1>14. ASSUME NEW c \in Children, TriggerLoad(c) PROVE LockInv'
  BY <1>14 DEF TriggerLoad
<1>15. ASSUME NEW c \in Children, TriggerStore(c) PROVE LockInv'
  BY <1>15 DEF TriggerStore
<1>16. ASSUME NEW c \in Children, TriggerUnlock(c) PROVE LockInv'
  BY <1>16 DEF TriggerUnlock
<1> HIDE DEF Types, SeqFacts, ListInv, CallInv, LockInv, Taken, Critical, Once, CMove,
         PMove, ParentUnchanged, ChildrenUnchanged, event_t, locals
<1> QED
  BY <1>1, <1>2, <1>3, <1>4, <1>5, <1>6, <1>7, <1>8, <1>9, <1>10, <1>11, <1>12, <1>13,
     <1>14, <1>15, <1>16 DEF Next, sched_waitpid, event_await, event_trigger

(* A call by pid looks at one event.                                       *)
LEMMA PidNext ==
  ASSUME Types, SeqTypes, PidInv, Next
  PROVE  PidInv'
<1>0. SeqFacts
  BY SeqFactsHold
<1> USE <1>0 DEF Types, SeqFacts, PidInv, WaitsByPid, InCall, CMove, PMove, ParentUnchanged,
        ChildrenUnchanged, event_t, locals
<1>1. CASE WaitAny
  BY <1>1 DEF WaitAny
<1>2. CASE WaitForStranger
  BY <1>2 DEF WaitForStranger
<1>3. CASE AwaitLock
  BY <1>3 DEF AwaitLock
<1>4. CASE AwaitFound
  BY <1>4 DEF AwaitFound
<1>5. CASE AwaitNext
  BY <1>5 DEF AwaitNext
<1>6. CASE AwaitUnlock
  BY <1>6 DEF AwaitUnlock
<1>7. CASE AwaitPoll
  BY <1>7 DEF AwaitPoll
<1>8. CASE AwaitLoad
  BY <1>8 DEF AwaitLoad
<1>9. CASE AwaitStore
  BY <1>9 DEF AwaitStore
<1>10. ASSUME NEW c \in Children, WaitFor(c) PROVE PidInv'
  BY <1>10 DEF WaitFor
<1>11. ASSUME NEW c \in Children, sched_fork(c) PROVE PidInv'
  BY <1>11 DEF sched_fork
<1>12. ASSUME NEW c \in Children, sched_exit(c) PROVE PidInv'
  BY <1>12 DEF sched_exit
<1>13. ASSUME NEW c \in Children, TriggerLock(c) PROVE PidInv'
  BY <1>13 DEF TriggerLock
<1>14. ASSUME NEW c \in Children, TriggerLoad(c) PROVE PidInv'
  BY <1>14 DEF TriggerLoad
<1>15. ASSUME NEW c \in Children, TriggerStore(c) PROVE PidInv'
  BY <1>15 DEF TriggerStore
<1>16. ASSUME NEW c \in Children, TriggerUnlock(c) PROVE PidInv'
  BY <1>16 DEF TriggerUnlock
<1> HIDE DEF Types, SeqFacts, PidInv, WaitsByPid, InCall, CMove, PMove, ParentUnchanged,
         ChildrenUnchanged, event_t, locals
<1> QED
  BY <1>1, <1>2, <1>3, <1>4, <1>5, <1>6, <1>7, <1>8, <1>9, <1>10, <1>11, <1>12, <1>13,
     <1>14, <1>15, <1>16 DEF Next, sched_waitpid, event_await, event_trigger

(* What such a call returns.                                               *)
LEMMA ReturnsNext ==
  ASSUME Types, SeqTypes, CallInv, CountInv, PidInv, ReturnsExitedChild, Next
  PROVE  ReturnsExitedChild'
<1>0. SeqFacts
  BY SeqFactsHold
<1> USE <1>0, ResultsAssumption DEF Types, SeqFacts, CallInv, CountInv, PidInv,
        ReturnsExitedChild, ExitsAccounted, WaitsByPid, Triggered, Returned, InCall, CMove,
        PMove, ParentUnchanged, ChildrenUnchanged, event_t, locals
<1>1. CASE WaitAny
  BY <1>1 DEF WaitAny
<1>2. CASE WaitForStranger
  BY <1>2 DEF WaitForStranger
<1>3. CASE AwaitLock
  BY <1>3 DEF AwaitLock
<1>4. CASE AwaitFound
  <2> SUFFICES ASSUME WaitsByPid PROVE ReturnsExitedChild'
    BY <1>4 DEF AwaitFound
  <2>1. child \in Children /\ i = 1 /\ events[i] = child /\ result' = child
    <3>1. child \in Children /\ events = <<child>>
      BY <1>4 DEF AwaitFound
    <3>2. Len(events) = 1 /\ events[1] = child
      BY <3>1
    <3>3. i = 1
      BY <1>4, <3>2 DEF AwaitFound
    <3> QED BY <1>4, <3>1, <3>2, <3>3 DEF AwaitFound
  <2>2. pending[child] = 1 /\ reaped[child] = 0 /\ Triggered(child)
    BY <1>4, <2>1, CountFacts DEF AwaitFound
  <2>3. reaped'[child] = 1 /\ cpc' = cpc
    BY <1>4, <2>1, <2>2 DEF AwaitFound
  <2> QED BY <2>1, <2>2, <2>3
<1>5. CASE AwaitNext
  BY <1>5 DEF AwaitNext
<1>6. CASE AwaitUnlock
  BY <1>6 DEF AwaitUnlock
<1>7. CASE AwaitPoll
  BY <1>7 DEF AwaitPoll
<1>8. CASE AwaitLoad
  BY <1>8 DEF AwaitLoad
<1>9. CASE AwaitStore
  <2> SUFFICES ASSUME WaitsByPid PROVE ReturnsExitedChild'
    BY <1>9 DEF AwaitStore
  <2>1. child \in Children /\ i = 1 /\ events[i] = child /\ result' = child
    <3>1. child \in Children /\ events = <<child>>
      BY <1>9 DEF AwaitStore
    <3>2. Len(events) = 1 /\ events[1] = child
      BY <3>1
    <3>3. i = 1
      BY <1>9, <3>2 DEF AwaitStore
    <3> QED BY <1>9, <3>1, <3>2, <3>3 DEF AwaitStore
  <2>2. pending[child] = 1 /\ reaped[child] = 0 /\ Triggered(child)
    BY <1>9, <2>1, CountFacts DEF AwaitStore
  <2>3. reaped'[child] = 1 /\ cpc' = cpc
    BY <1>9, <2>1, <2>2 DEF AwaitStore
  <2> QED BY <2>1, <2>2, <2>3
<1>10. ASSUME NEW c \in Children, WaitFor(c) PROVE ReturnsExitedChild'
  BY <1>10 DEF WaitFor
<1>11. ASSUME NEW c \in Children, sched_fork(c) PROVE ReturnsExitedChild'
  BY <1>11 DEF sched_fork
<1>12. ASSUME NEW c \in Children, sched_exit(c) PROVE ReturnsExitedChild'
  BY <1>12 DEF sched_exit
<1>13. ASSUME NEW c \in Children, TriggerLock(c) PROVE ReturnsExitedChild'
  BY <1>13 DEF TriggerLock
<1>14. ASSUME NEW c \in Children, TriggerLoad(c) PROVE ReturnsExitedChild'
  BY <1>14 DEF TriggerLoad
<1>15. ASSUME NEW c \in Children, TriggerStore(c) PROVE ReturnsExitedChild'
  BY <1>15 DEF TriggerStore
<1>16. ASSUME NEW c \in Children, TriggerUnlock(c) PROVE ReturnsExitedChild'
  BY <1>16 DEF TriggerUnlock
<1> HIDE DEF Types, SeqFacts, CallInv, CountInv, PidInv, ReturnsExitedChild, ExitsAccounted,
         WaitsByPid, Triggered, Returned, InCall, CMove, PMove, ParentUnchanged,
         ChildrenUnchanged, event_t, locals
<1> QED
  BY <1>1, <1>2, <1>3, <1>4, <1>5, <1>6, <1>7, <1>8, <1>9, <1>10, <1>11, <1>12, <1>13,
     <1>14, <1>15, <1>16 DEF Next, sched_waitpid, event_await, event_trigger

---------------------------------------------------------------------------
LEMMA InitIInv == Init => IInv
<1> SUFFICES ASSUME Init PROVE IInv
  OBVIOUS
<1>1. TypeOK
  <2>1. SeqTypes
    BY DEF Init, SeqTypes
  <2>2. Types
    BY DEF Init, Types, CPcs, PPcs
  <2> QED BY <2>1, <2>2, TypeParts
<1>2. \A c \in Children : cpc[c] = "none" /\ pending[c] = 0 /\ reaped[c] = 0
  BY DEF Init
<1>3. ListInv /\ CallInv
  BY DEF Init, ListInv, CallInv, Once, InCall
<1>4. CountInv
  BY <1>2 DEF Init, CountInv, ExitsAccounted, Triggered
<1>5. LockInv
  BY <1>2 DEF Init, LockInv, Taken, Critical
<1>6. PidInv /\ ReturnsExitedChild
  BY DEF Init, PidInv, ReturnsExitedChild, InCall
<1> QED BY <1>1, <1>3, <1>4, <1>5, <1>6 DEF IInv

LEMMA NextIInv == IInv /\ [Next]_vars => IInv'
<1> SUFFICES ASSUME IInv, [Next]_vars PROVE IInv'
  OBVIOUS
<1>1. Types /\ SeqTypes
  BY TypeParts DEF IInv
<1>2. CASE Next
  <2>1. Types' /\ SeqTypes'
    BY <1>1, <1>2, TypesNext, SeqTypesNext DEF IInv
  <2>2. TypeOK'
    BY <2>1, TypeParts
  <2>3. ListInv' /\ CallInv' /\ CountInv' /\ LockInv' /\ PidInv' /\ ReturnsExitedChild'
    BY <1>1, <1>2, ListNext, CallNext, CountNext, LockNext, PidNext, ReturnsNext DEF IInv
  <2> QED BY <2>2, <2>3 DEF IInv
<1>3. CASE UNCHANGED vars
  <2> USE <1>3 DEF vars, event_t, locals, IInv
  <2>1. TypeOK' /\ ListInv' /\ CallInv'
    BY DEF TypeOK, ListInv, CallInv, Once
  <2>2. \A c \in Children : Triggered(c)' <=> Triggered(c)
    BY DEF Triggered
  <2>3. CountInv'
    BY <2>2 DEF CountInv, ExitsAccounted
  <2>4. LockInv'
    BY DEF LockInv, Taken
  <2>5. PidInv' /\ ReturnsExitedChild'
    BY DEF PidInv, ReturnsExitedChild, WaitsByPid, Triggered
  <2> QED BY <2>1, <2>3, <2>4, <2>5
<1> QED BY <1>2, <1>3

LEMMA IInvHolds == Spec => []IInv
  BY InitIInv, NextIInv, PTL DEF Spec

(* With any number of children and any program of the parent: an exit is   *)
(* pending or reaped, once, from the store in event_trigger on; and no     *)
(* child is counting its event up while event_await makes its first pass   *)
(* (event.c:5-33).                                                         *)
THEOREM AccountingHolds == Spec => []Accounting
<1>1. IInv => Accounting
  <2> SUFFICES ASSUME IInv PROVE Accounting
    OBVIOUS
  <2>1. ScanExclusive
    BY DEF IInv, LockInv, Taken, Critical, ScanExclusive
  <2> QED BY <2>1 DEF IInv, CountInv, Accounting
<1> QED BY <1>1, IInvHolds, PTL

(* What waitpid(pid) returns to a parent that waits by pid is a child that *)
(* has exited, and that it has reaped once, however many children there    *)
(* are and in whatever order they exit (scheduler.c:268-312).              *)
THEOREM ReturnsExitedChildHolds == Spec => []ReturnsExitedChild
<1>1. IInv => ReturnsExitedChild
  BY DEF IInv
<1> QED BY <1>1, IInvHolds, PTL
=============================================================================
