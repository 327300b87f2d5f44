-------------------------- MODULE SchedulerProofs --------------------------
(***************************************************************************)
(* Type correctness of the scheduler and mutual exclusion on sched_lock,   *)
(* for any number of CPUs, threads and priority levels.                    *)
(***************************************************************************)
EXTENDS Scheduler, TLAPS

(* Points of sched_enqueue, where the context has a thread in hand.        *)
EnqueuePcs == {"enq", "enq_lock", "push", "grow_lock", "grow", "enq_unlock"}
HasArg(x) == x.pc \in EnqueuePcs => x.arg \in Threads

(* Typing is not inductive by itself: what sched_enqueue pushes must be a  *)
(* thread, the level sched_get_next_thread searches must not be empty, and *)
(* the thread schedule() jumps to must be one.                             *)
TypeInv ==
  /\ TypeOK
  /\ \A c \in Cpus : HasArg(ctx[c])
  /\ \A t \in Threads : HasArg(regs[t])
  /\ \A c \in Cpus : hpc[c] = "pick" => Len(queue[prio[c]]) > 0
  /\ \A c \in Cpus : hpc[c] \in {"release", "jump"} => current[c] \in Threads

LEMMA InitTypeInv == Init => TypeInv
<1> SUFFICES ASSUME Init PROVE TypeInv
  OBVIOUS
<1>1. 0 \in Levels
  BY LevelsAssumption DEF Levels
<1>2. /\ At("idle") \in Context /\ At("entry") \in Context /\ Absent \in Context
      /\ HasArg(At("idle")) /\ HasArg(At("entry")) /\ HasArg(Absent)
  BY DEF At, Absent, Context, Pcs, HoldingPcs, HasArg, EnqueuePcs
<1>3. TypeOK
  BY <1>1, <1>2, InitQueueAssumption, InitCapacityAssumption
     DEF Init, TypeOK, Queued, HandlerPcs, HandlerHolding
<1> QED
  BY <1>2, <1>3 DEF Init, TypeInv

---------------------------------------------------------------------------
(* Moving a context to another point, and replacing it.                    *)
CtxInv == ctx \in [Cpus -> Context] /\ \A c \in Cpus : HasArg(ctx[c])

LEMMA GotoCtx ==
  ASSUME CtxInv, NEW c \in Cpus, NEW q \in Pcs, Goto(c, q),
         q \in EnqueuePcs => ctx[c].arg \in Threads
  PROVE  CtxInv'
  BY DEF CtxInv, Context, HasArg, Goto

LEMMA LoadCtx ==
  ASSUME CtxInv, NEW c \in Cpus, NEW x \in Context, HasArg(x), ctx' = [ctx EXCEPT ![c] = x]
  PROVE  CtxInv'
  BY DEF CtxInv

LEMMA AtType == \A q \in Pcs \ EnqueuePcs : At(q) \in Context /\ HasArg(At(q))
  BY DEF At, Context, HasArg

(* A push adds one entry at the end of one queue.                          *)
LEMMA PushQueue ==
  ASSUME queue \in [Levels -> Seq(Threads)], NEW l \in Levels, NEW t \in Threads,
         queue' = [queue EXCEPT ![l] = Append(@, t)]
  PROVE  /\ queue' \in [Levels -> Seq(Threads)]
         /\ \A k \in Levels : Len(queue'[k]) >= Len(queue[k])
<1>1. Append(queue[l], t) \in Seq(Threads) /\ Len(Append(queue[l], t)) = Len(queue[l]) + 1
  OBVIOUS
<1>2. \A k \in Levels : queue'[k] = IF k = l THEN Append(queue[l], t) ELSE queue[k]
  OBVIOUS
<1>3. \A k \in Levels : Len(queue[k]) \in Nat
  OBVIOUS
<1> QED BY <1>1, <1>2, <1>3

---------------------------------------------------------------------------
(* Steps of a context: apart from Create, vec_push and vec_expand they     *)
(* only move the context and change flags.                                 *)
LEMMA ThreadTypeInv ==
  ASSUME TypeInv, NEW c \in Cpus, ThreadStep(c)
  PROVE  TypeInv'
<1> USE DEF TypeInv, TypeOK, Context, Pcs, HoldingPcs, HasArg, EnqueuePcs, At, Executes,
            Goto, thread_t, runqueue, cpu_locals
<1>1. CASE Start(c)
  BY <1>1 DEF Start
<1>2. CASE liballoc_lock(c)
  BY <1>2 DEF liballoc_lock
<1>3. CASE liballoc_unlock(c)
  BY <1>3 DEF liballoc_unlock
<1>4. CASE sched_enqueue(c)
  <2>1. CtxInv'
    <3>1. ctx' = [ctx EXCEPT ![c] = At("run")] \/ Goto(c, "enq_lock")
      BY <1>4 DEF sched_enqueue
    <3>2. ctx[c].arg \in Threads /\ CtxInv
      BY <1>4 DEF sched_enqueue, CtxInv
    <3>3. At("run") \in Context /\ HasArg(At("run")) /\ "enq_lock" \in Pcs
      BY AtType
    <3> HIDE DEF At, Context, Pcs, HasArg, Goto, TypeInv, TypeOK
    <3> QED BY <3>1, <3>2, <3>3, GotoCtx, LoadCtx
  <2>2. queued' \in [Threads -> BOOLEAN]
    BY <1>4 DEF sched_enqueue
  <2> QED
    BY <1>4, <2>1, <2>2 DEF sched_enqueue, CtxInv
<1>5. CASE EnqueueLock(c)
  BY <1>5 DEF EnqueueLock
<1>6. CASE vec_push(c)
  <2> DEFINE t == ctx[c].arg
             l == Priority[t]
  <2>1. t \in Threads /\ l \in Levels
    BY <1>6, PriorityAssumption DEF vec_push
  <2>2. CtxInv'
    <3>1. \E q \in {"grow_lock", "enq_unlock"} : Goto(c, q)
      BY <1>6 DEF vec_push
    <3>2. CtxInv
      BY DEF CtxInv
    <3> HIDE DEF Context, HasArg, Goto, TypeInv, TypeOK
    <3> QED BY <2>1, <3>1, <3>2, GotoCtx
  <2>3. /\ queue' \in [Levels -> Seq(Threads)]
        /\ \A k \in Levels : Len(queue'[k]) >= Len(queue[k])
    <3>1. queue' = queue \/ queue' = [queue EXCEPT ![l] = Append(@, t)]
      BY <1>6 DEF vec_push
    <3>2. queue \in [Levels -> Seq(Threads)]
      OBVIOUS
    <3>3. CASE queue' = queue
      BY <3>2, <3>3
    <3>4. CASE queue' = [queue EXCEPT ![l] = Append(@, t)]
      <4> HIDE DEF TypeInv, TypeOK, t, l
      <4> QED BY <2>1, <3>2, <3>4, PushQueue
    <3> QED BY <3>1, <3>3, <3>4
  <2>4. \A d \in Cpus : hpc[d] = "pick" => Len(queue'[prio[d]]) > 0
    BY <2>3
  <2> QED
    BY <1>6, <2>2, <2>3, <2>4 DEF vec_push, CtxInv
<1>7. CASE GrowLock(c)
  BY <1>7 DEF GrowLock
<1>8. CASE vec_expand(c)
  <2>1. ctx[c].arg \in Threads /\ Priority[ctx[c].arg] \in Levels
    BY <1>8, PriorityAssumption DEF vec_expand
  <2>2. capacity' \in [Levels -> Nat]
    <3>1. capacity \in [Levels -> Nat]
      OBVIOUS
    <3>2. capacity' = [capacity EXCEPT ![Priority[ctx[c].arg]] = Grown(@)]
      BY <1>8 DEF vec_expand
    <3> HIDE DEF TypeInv, TypeOK
    <3>3. Grown(capacity[Priority[ctx[c].arg]]) \in Nat
      BY <2>1, <3>1 DEF Grown
    <3> QED BY <3>1, <3>2, <3>3
  <2>3. CtxInv'
    <3>1. Goto(c, "push") /\ CtxInv /\ "push" \in Pcs
      BY <1>8 DEF vec_expand, CtxInv
    <3> HIDE DEF Context, Pcs, HasArg, Goto, TypeInv, TypeOK
    <3> QED BY <2>1, <3>1, GotoCtx
  <2>4. heap_lock' = FALSE /\ UNCHANGED <<queue, sched_lock, thread_t, cpu_locals, timer, hpc>>
    BY <1>8 DEF vec_expand
  <2> HIDE DEF Context, HasArg
  <2> QED
    BY <2>2, <2>3, <2>4 DEF CtxInv
<1>9. CASE EnqueueUnlock(c)
  BY <1>9 DEF EnqueueUnlock
<1> QED
  BY <1>1, <1>2, <1>3, <1>4, <1>5, <1>6, <1>7, <1>8, <1>9 DEF ThreadStep

LEMMA ChoiceTypeInv ==
  ASSUME TypeInv, NEW c \in Cpus, ProgramChoice(c)
  PROVE  TypeInv'
<1> USE DEF TypeInv, TypeOK, Context, Pcs, HoldingPcs, HasArg, EnqueuePcs, At, Executes,
            Goto, thread_t, runqueue, cpu_locals
<1>1. CASE HeapCall(c)
  BY <1>1 DEF HeapCall
<1>2. CASE sched_exit(c)
  BY <1>2 DEF sched_exit
<1>3. ASSUME NEW t \in Threads, NEW q \in {"run", "entry"}, Create(c, t, q)
      PROVE  TypeInv'
  BY <1>3 DEF Create
<1> QED
  BY <1>1, <1>2, <1>3 DEF ProgramChoice, sched_fork, sched_run_program

---------------------------------------------------------------------------
(* schedule().                                                             *)

(* The search of sched_get_next_thread stays inside the queue.             *)
LEMMA ProbeType ==
  ASSUME TypeInv, NEW c \in Cpus, hpc[c] = "pick", NEW k \in Probes(c)
  PROVE  /\ Probe(c, k) \in Nat
         /\ Probe(c, k) + 1 \in DOMAIN queue[prio[c]]
         /\ Probed(c, k) \in Threads
<1> DEFINE q == queue[prio[c]]
<1>1. q \in Seq(Threads) /\ Len(q) \in Nat /\ Len(q) > 0
  BY DEF TypeInv, TypeOK
<1>2. last_run[c][prio[c]] + k \in Nat
  BY <1>1 DEF TypeInv, TypeOK, Probes
<1>3. Probe(c, k) \in 0 .. Len(q) - 1
  <2> HIDE DEF q
  <2> QED BY <1>1, <1>2 DEF Probe, q
<1>4. DOMAIN q = 1 .. Len(q)
  BY <1>1
<1> QED
  BY <1>1, <1>3, <1>4 DEF Probed

LEMMA HandlerTypeInv ==
  ASSUME TypeInv, NEW c \in Cpus, Tick(c) \/ HandlerStep(c) \/ Overwrite(c)
  PROVE  TypeInv'
<1> USE DEF TypeInv, TypeOK, HandlerPcs, HandlerHolding, thread_t, runqueue, cpu_locals
<1>1. CASE Tick(c)
  BY <1>1 DEF Tick
<1>2. CASE Rearm(c)
  BY <1>2 DEF Rearm
<1>3. CASE NextLevel(c)
  <2>1. /\ prio' = [prio EXCEPT ![c] = IF prio[c] + 1 > peg[c] THEN 0 ELSE prio[c] + 1]
        /\ \/ peg' = peg
           \/ peg' = [peg EXCEPT ![c] = (peg[c] + 1) % PRIORITY_LEVELS]
        /\ hpc' = [hpc EXCEPT ![c] = IF Len(queue[prio'[c]]) = 0 THEN "level" ELSE "pick"]
    BY <1>3 DEF NextLevel
  <2>2. /\ (IF prio[c] + 1 > peg[c] THEN 0 ELSE prio[c] + 1) \in Levels
        /\ (peg[c] + 1) % PRIORITY_LEVELS \in Levels
    <3>1. prio[c] \in 0 .. PRIORITY_LEVELS - 1 /\ peg[c] \in 0 .. PRIORITY_LEVELS - 1
      BY DEF Levels
    <3> HIDE DEF TypeInv, TypeOK
    <3> QED BY <3>1, LevelsAssumption DEF Levels
  <2>3. prio' \in [Cpus -> Levels] /\ peg' \in [Cpus -> Levels]
    BY <2>1, <2>2
  <2>4. Len(queue[prio'[c]]) \in Nat
    BY <2>3
  <2>5. ASSUME NEW d \in Cpus, hpc'[d] = "pick" PROVE Len(queue[prio'[d]]) > 0
    <3>1. CASE d = c
      BY <2>1, <2>4, <2>5, <3>1
    <3>2. CASE d # c
      <4>1. hpc[d] = "pick" /\ prio'[d] = prio[d]
        BY <2>1, <2>5, <3>2
      <4> QED BY <4>1
    <3> QED BY <3>1, <3>2
  <2>6. /\ hpc' \in [Cpus -> HandlerPcs]
        /\ \A d \in Cpus : hpc'[d] \in {"release", "jump"} => hpc'[d] = hpc[d]
    BY <2>1
  <2>7. UNCHANGED <<runqueue, sched_lock, heap_lock, thread_t, current, last_run, old_prio,
                    stack, astray, timer, ctx>>
    BY <1>3 DEF NextLevel
  <2> QED
    BY <2>3, <2>5, <2>6, <2>7
<1>4. CASE NoneTaken(c)
  BY <1>4 DEF NoneTaken
<1>5. CASE SameTaken(c)
  BY <1>5, ProbeType DEF SameTaken
<1>6. CASE SwitchTo(c)
  <2>1. PICK k \in Probes(c) :
          /\ lock' = [t \in Threads |->
                        IF t = current[c] THEN FALSE ELSE t = Probed(c, k) \/ lock[t]]
          /\ regs' = [t \in Threads |-> IF t = current[c] THEN ctx[c] ELSE regs[t]]
          /\ current' = [current EXCEPT ![c] = Probed(c, k)]
          /\ last_run' = [last_run EXCEPT ![c][prio[c]] = Probe(c, k)]
    BY <1>6 DEF SwitchTo
  <2>2. Probe(c, k) \in Nat /\ Probed(c, k) \in Threads
    BY <1>6, ProbeType DEF SwitchTo
  <2>3. lock' \in [Threads -> BOOLEAN]
    BY <2>1
  <2>4. regs' \in [Threads -> Context] /\ \A t \in Threads : HasArg(regs'[t])
    BY <2>1
  <2>5. current' \in [Cpus -> Threads \cup {NoThread}] /\ current'[c] \in Threads
    BY <2>1, <2>2
  <2>6. last_run' \in [Cpus -> [Levels -> Nat]]
    BY <2>1, <2>2
  <2>7. /\ timer' = [timer EXCEPT ![c] = TRUE]
        /\ hpc' = [hpc EXCEPT ![c] = "release"]
        /\ UNCHANGED <<queue, capacity, sched_lock, heap_lock, queued, prio, peg, old_prio,
                       astray, ctx>>
        /\ stack' = [stack EXCEPT ![c] = current[c]]
    BY <1>6 DEF SwitchTo
  <2>8. \A d \in Cpus : hpc'[d] \in {"release", "jump"} => current'[d] \in Threads
    BY <2>1, <2>5, <2>7
  <2>9. \A d \in Cpus : hpc'[d] = "pick" => Len(queue'[prio'[d]]) > 0
    BY <2>7
  <2>10. TypeOK'
    BY <2>3, <2>4, <2>5, <2>6, <2>7
  <2> HIDE DEF TypeOK
  <2> QED
    BY <2>4, <2>7, <2>8, <2>9, <2>10
<1>7. CASE Keep(c)
  BY <1>7 DEF Keep
<1>8. CASE Release(c)
  BY <1>8 DEF Release
<1>9. CASE switch_and_run_stack(c)
  BY <1>9 DEF switch_and_run_stack
<1>10. CASE Overwrite(c)
  BY <1>10 DEF Overwrite
<1> QED
  BY <1>1, <1>2, <1>3, <1>4, <1>5, <1>6, <1>7, <1>8, <1>9, <1>10 DEF HandlerStep

(* Every step of the scheduler and of the threads preserves the types.     *)
THEOREM TypeCorrect == Spec => []TypeInv
<1>1. ASSUME TypeInv, [Next]_vars PROVE TypeInv'
  <2>1. CASE UNCHANGED vars
    BY <1>1, <2>1 DEF vars, thread_t, runqueue, cpu_locals, TypeInv, TypeOK
  <2> QED
    BY <1>1, <2>1, ThreadTypeInv, ChoiceTypeInv, HandlerTypeInv DEF Next, CpuStep, Unfollowed
<1> QED
  BY <1>1, InitTypeInv, PTL DEF Spec

(* The theorem about the type invariant that the runs check.               *)
THEOREM TypesHold == Spec => []TypeOK
<1>1. TypeInv => TypeOK
  BY DEF TypeInv
<1> QED BY <1>1, TypeCorrect, PTL

---------------------------------------------------------------------------
(* Mutual exclusion.  A context is only ever saved by a CPU that holds     *)
(* sched_lock in schedule(), and there it cannot be inside sched_enqueue's *)
(* section.  The invariant has to remember this of the context that is     *)
(* given up in the moment between Release and switch_and_run_stack.        *)
LockInv ==
  /\ SchedLockExclusive
  /\ \A c \in Cpus : hpc[c] = "jump" => ctx[c].pc \notin HoldingPcs

LEMMA InitLock == Init => LockInv
  BY DEF Init, LockInv, SchedLockExclusive, HandlerHolds, ContextHolds, HandlerHolding, HoldingPcs,
         At, Absent

LEMMA ThreadLock ==
  ASSUME TypeInv, LockInv, NEW c \in Cpus, ThreadStep(c) \/ ProgramChoice(c)
  PROVE  LockInv'
<1> USE DEF LockInv, SchedLockExclusive, HandlerHolds, ContextHolds
<1>0. /\ ctx \in [Cpus -> Context] /\ hpc \in [Cpus -> HandlerPcs]
      /\ regs \in [Threads -> Context] /\ sched_lock \in BOOLEAN
  BY DEF TypeInv, TypeOK
(* Steps that neither enter nor leave the critical section.                *)
<1>1. ASSUME \/ Start(c) \/ liballoc_lock(c) \/ liballoc_unlock(c) \/ sched_enqueue(c)
             \/ HeapCall(c) \/ sched_exit(c) \/ vec_push(c) \/ GrowLock(c) \/ vec_expand(c)
      PROVE  /\ UNCHANGED <<sched_lock, hpc, regs>>
             /\ \A d \in Cpus : ContextHolds(d)' <=> ContextHolds(d)
  <2>1. UNCHANGED <<sched_lock, hpc, regs>>
    BY <1>1 DEF Start, liballoc_lock, liballoc_unlock, sched_enqueue, HeapCall, sched_exit,
         vec_push, GrowLock, vec_expand, thread_t
  <2>2. \/ \E q \in Pcs : Goto(c, q) /\ (q \in HoldingPcs <=> ctx[c].pc \in HoldingPcs)
        \/ ctx' = [ctx EXCEPT ![c] = At("run")] /\ ctx[c].pc \notin HoldingPcs
    <3> USE DEF Executes, Pcs, HoldingPcs
    <3>1. CASE Start(c) \/ liballoc_lock(c) \/ sched_exit(c) \/ HeapCall(c)
      BY <3>1 DEF Start, liballoc_lock, sched_exit, HeapCall
    <3>2. CASE liballoc_unlock(c) \/ sched_enqueue(c)
      BY <3>2 DEF liballoc_unlock, sched_enqueue
    <3>3. CASE vec_push(c) \/ GrowLock(c) \/ vec_expand(c)
      BY <3>3 DEF vec_push, GrowLock, vec_expand
    <3> QED BY <1>1, <3>1, <3>2, <3>3
  <2>3. CASE ctx' = [ctx EXCEPT ![c] = At("run")] /\ ctx[c].pc \notin HoldingPcs
    BY <1>0, <2>1, <2>3 DEF At, HoldingPcs
  <2>4. ASSUME NEW q \in Pcs, Goto(c, q), q \in HoldingPcs <=> ctx[c].pc \in HoldingPcs
        PROVE  \A d \in Cpus : ContextHolds(d)' <=> ContextHolds(d)
    BY <1>0, <2>4 DEF Goto, Context
  <2> QED BY <2>1, <2>2, <2>3, <2>4
<1>2. ASSUME UNCHANGED <<sched_lock, hpc, regs>>,
             \A d \in Cpus : ContextHolds(d)' <=> ContextHolds(d)
      PROVE  LockInv'
  BY <1>2
<1>3. ASSUME NEW t \in Threads, NEW q \in {"run", "entry"}, Create(c, t, q)
      PROVE  LockInv'
  BY <1>0, <1>3 DEF Create, Executes, At, Context, HoldingPcs
<1>4. CASE EnqueueLock(c)
  BY <1>0, <1>4 DEF EnqueueLock, Executes, Goto, Context, HoldingPcs, HandlerHolding, thread_t
<1>5. CASE EnqueueUnlock(c)
  BY <1>0, <1>5 DEF EnqueueUnlock, Executes, At, Context, HoldingPcs, HandlerHolding, thread_t
<1> QED
  BY <1>1, <1>2, <1>3, <1>4, <1>5
     DEF ThreadStep, ProgramChoice, sched_fork, sched_run_program

LEMMA HandlerLock ==
  ASSUME TypeInv, LockInv, NEW c \in Cpus, Tick(c) \/ HandlerStep(c) \/ Overwrite(c)
  PROVE  LockInv'
<1> USE DEF LockInv, SchedLockExclusive, HandlerHolds, ContextHolds, HandlerHolding, thread_t
<1>0. /\ ctx \in [Cpus -> Context] /\ hpc \in [Cpus -> HandlerPcs]
      /\ regs \in [Threads -> Context] /\ sched_lock \in BOOLEAN
      /\ \A d \in Cpus : hpc[d] = "jump" => current[d] \in Threads
  BY DEF TypeInv, TypeOK
<1>1. CASE Tick(c)
  <2>1. CASE sched_lock
    BY <1>0, <1>1, <2>1 DEF Tick
  <2>2. CASE ~sched_lock
    BY <1>0, <1>1, <2>2 DEF Tick
  <2> QED BY <2>1, <2>2
<1>2. CASE Rearm(c)
  BY <1>0, <1>2 DEF Rearm
<1>3. CASE NextLevel(c) \/ NoneTaken(c) \/ SameTaken(c)
  BY <1>0, <1>3 DEF NextLevel, NoneTaken, SameTaken
<1>4. CASE SwitchTo(c)
  <2>1. regs' = [t \in Threads |-> IF t = current[c] THEN ctx[c] ELSE regs[t]]
    BY <1>4 DEF SwitchTo
  <2>2. \A t \in Threads : regs'[t].pc \notin HoldingPcs
    BY <1>4, <2>1 DEF SwitchTo
  <2> QED
    BY <1>0, <1>4, <2>2 DEF SwitchTo
<1>5. CASE Keep(c)
  BY <1>0, <1>5 DEF Keep
<1>6. CASE Release(c)
  BY <1>0, <1>6 DEF Release
<1>7. CASE switch_and_run_stack(c)
  BY <1>0, <1>7 DEF switch_and_run_stack
<1>8. CASE Overwrite(c)
  BY <1>8 DEF Overwrite
<1> QED
  BY <1>1, <1>2, <1>3, <1>4, <1>5, <1>6, <1>7, <1>8 DEF HandlerStep

(* schedule() and sched_enqueue exclude each other on all CPUs, and no     *)
(* thread is switched out while it holds sched_lock.                       *)
THEOREM SchedLockMutex == Spec => []SchedLockExclusive
<1>1. ASSUME TypeInv, LockInv, [Next]_vars PROVE LockInv'
  <2>1. CASE UNCHANGED vars
    BY <1>1, <2>1 DEF vars, thread_t, LockInv, SchedLockExclusive, HandlerHolds, ContextHolds
  <2> QED
    BY <1>1, <2>1, ThreadLock, HandlerLock DEF Next, CpuStep, Unfollowed
<1>2. LockInv => SchedLockExclusive
  BY DEF LockInv
<1> QED
  BY <1>1, <1>2, InitLock, TypeCorrect, PTL DEF Spec

=============================================================================
