----------------------------- MODULE Scheduler -----------------------------
(***************************************************************************)
(* The preemptive multi-CPU scheduler of MandelbrotOS (tasking/scheduler.c)*)
(* together with what its critical sections touch: the run queues (vec.h), *)
(* the kernel-heap spinlock that growing a queue takes (mm/kheap.c) and    *)
(* the one-shot local APIC timer that drives schedule() (drivers/apic.c).  *)
(*                                                                         *)
(* A CPU is either executing a register context (hpc[c] = "out") or is     *)
(* inside schedule(), which schedule_irq enters with interrupts disabled.  *)
(* Ordinary code runs with interrupts enabled, in system calls too (the    *)
(* system-call gate is a trap gate), so a timer tick may fall between any  *)
(* two steps of a context.  All locks are the bits of include/lock.h; who  *)
(* holds one can only be told from the program points.                     *)
(*                                                                         *)
(* The timer's gate has no stack of its own (sys/irq.c:51 sets no IST), so *)
(* schedule() runs on the kernel stack of the thread it interrupted, also  *)
(* after that thread has been unlocked, until switch_and_run_stack loads   *)
(* another stack pointer.                                                  *)
(***************************************************************************)
EXTENDS Integers, Sequences, FiniteSets

CONSTANTS
  Cpus,             \* processors brought up by init_smp
  Threads,          \* thread_t objects that may come to exist
  NoThread,         \* the NULL thread pointer
  PRIORITY_LEVELS,  \* number of run queues
  Priority,         \* thread->priority, set at creation and never changed
  InitQueue,        \* run queues when the model starts (threads pushed earlier)
  InitCapacity      \* and their capacities

Levels == 0 .. PRIORITY_LEVELS - 1

ASSUME CpusAssumption == Cpus # {}
ASSUME LevelsAssumption == PRIORITY_LEVELS \in Nat \ {0}
ASSUME NoThreadAssumption == NoThread \notin Threads
ASSUME PriorityAssumption == Priority \in [Threads -> Levels]

\* Threads are queued at their own level, each of them once.
ASSUME InitQueueAssumption ==
  /\ InitQueue \in [Levels -> Seq(Threads)]
  /\ \A l \in Levels : \A i \in DOMAIN InitQueue[l] :
       /\ Priority[InitQueue[l][i]] = l
       /\ \A j \in DOMAIN InitQueue[l] :
            InitQueue[l][i] = InitQueue[l][j] => i = j

VARIABLES
  queue,       \* threads[level]: the run queues, entries are never removed
  capacity,    \* threads[level].capacity
  sched_lock,  \* bit 0 of sched_lock
  heap_lock,   \* bit 0 of liballoc_slock
  lock,        \* bit 0 of thread->lock
  queued,      \* thread->queued
  regs,        \* thread->regs: the context saved when last switched out
  current,     \* locals->current_thread
  prio,        \* locals->current_priority
  peg,         \* locals->current_priority_peg
  last_run,    \* locals->last_run_thread_index
  old_prio,    \* old_priority, the local variable of schedule()
  stack,       \* the thread switched from, whose kernel stack schedule() is still on
  astray,      \* has a CPU found its kernel stack written over by another?
  timer,       \* is the CPU's one-shot timer armed?
  hpc,         \* where in schedule() the CPU is; "out" when not in it
  ctx          \* the register context on the CPU (the interrupted one in schedule())

runqueue == <<queue, capacity>>
thread_t == <<lock, queued, regs>>
cpu_locals == <<current, prio, peg, last_run, old_prio, stack, astray>>
vars == <<runqueue, sched_lock, heap_lock, thread_t, cpu_locals, timer, hpc, ctx>>

---------------------------------------------------------------------------
(* Register contexts: a program point and the thread being enqueued there. *)

\* Points at which sched_lock is held.  The exec points belong to the
\* replacing path of sched_run_program, which SchedulerExec adds.
HoldingPcs == {"push", "grow_lock", "grow", "enq_unlock", "exec"}
Pcs == {"none", "idle", "entry", "run", "heap_lock", "heap", "enq", "enq_lock",
        "exec_lock", "exec_jump", "exit"} \cup HoldingPcs
Context == [pc : Pcs, arg : Threads \cup {NoThread}]

At(pc) == [pc |-> pc, arg |-> NoThread]
Absent == At("none")          \* a thread_t that does not exist yet

HandlerHolding == {"level", "pick", "keep", "release"}     \* sched_lock held
HandlerPcs == {"out", "busy", "jump"} \cup HandlerHolding

TypeOK ==
  /\ queue \in [Levels -> Seq(Threads)]
  /\ capacity \in [Levels -> Nat]
  /\ sched_lock \in BOOLEAN
  /\ heap_lock \in BOOLEAN
  /\ lock \in [Threads -> BOOLEAN]
  /\ queued \in [Threads -> BOOLEAN]
  /\ regs \in [Threads -> Context]
  /\ current \in [Cpus -> Threads \cup {NoThread}]
  /\ prio \in [Cpus -> Levels]
  /\ peg \in [Cpus -> Levels]
  /\ last_run \in [Cpus -> [Levels -> Nat]]
  /\ old_prio \in [Cpus -> Levels]
  /\ stack \in [Cpus -> Threads \cup {NoThread}]
  /\ astray \in BOOLEAN
  /\ timer \in [Cpus -> BOOLEAN]
  /\ hpc \in [Cpus -> HandlerPcs]
  /\ ctx \in [Cpus -> Context]

---------------------------------------------------------------------------
(* What vec_expand_ makes of a vector's capacity when it is full.          *)
Grown(cap) == IF cap = 0 THEN 1 ELSE 2 * cap

(* The capacity after n calls of vec_push on an empty vector.              *)
PushedCapacity[n \in Nat] ==
  IF n = 0 THEN 0
  ELSE IF n > PushedCapacity[n - 1] THEN Grown(PushedCapacity[n - 1])
       ELSE PushedCapacity[n - 1]

ASSUME InitCapacityAssumption ==
  /\ InitCapacity \in [Levels -> Nat]
  /\ \A l \in Levels : InitCapacity[l] = PushedCapacity[Len(InitQueue[l])]

Queued(t) == \E i \in DOMAIN InitQueue[Priority[t]] : InitQueue[Priority[t]][i] = t

(* init_sched has queued the first kernel thread, and every CPU sits in    *)
(* sched_await with its timer armed.                                       *)
Init ==
  /\ queue = InitQueue
  /\ capacity = InitCapacity
  /\ sched_lock = FALSE
  /\ heap_lock = FALSE
  /\ lock = [t \in Threads |-> FALSE]
  /\ queued = [t \in Threads |-> Queued(t)]
  /\ regs = [t \in Threads |-> IF Queued(t) THEN At("entry") ELSE Absent]
  /\ current = [c \in Cpus |-> NoThread]
  /\ prio = [c \in Cpus |-> 0]
  /\ peg = [c \in Cpus |-> 0]
  /\ last_run = [c \in Cpus |-> [l \in Levels |-> 0]]
  /\ old_prio = [c \in Cpus |-> 0]
  /\ stack = [c \in Cpus |-> NoThread]
  /\ astray = FALSE
  /\ timer = [c \in Cpus |-> TRUE]
  /\ hpc = [c \in Cpus |-> "out"]
  /\ ctx = [c \in Cpus |-> At("idle")]

---------------------------------------------------------------------------
(* Steps of the code a CPU executes outside schedule().                    *)

Executes(c, pc) == hpc[c] = "out" /\ ctx[c].pc = pc
Goto(c, pc) == ctx' = [ctx EXCEPT ![c].pc = pc]

(* A new thread starts at its entry point.                                 *)
Start(c) ==
  /\ Executes(c, "entry")
  /\ Goto(c, "run")
  /\ UNCHANGED <<runqueue, sched_lock, heap_lock, thread_t, cpu_locals, timer, hpc>>

(* A thread calls kmalloc, krealloc or kfree.                              *)
HeapCall(c) ==
  /\ Executes(c, "run")
  /\ Goto(c, "heap_lock")
  /\ UNCHANGED <<runqueue, sched_lock, heap_lock, thread_t, cpu_locals, timer, hpc>>

(* sched_fork and the spawning path of sched_run_program: allocate and fill *)
(* a thread_t of the caller's priority, to be enqueued last.  Their kcalloc *)
(* and vec_push calls take the heap lock on the way.                        *)
Create(c, t, pc) ==
  /\ Executes(c, "run")
  /\ regs[t] = Absent
  /\ Priority[t] = Priority[current[c]]
  /\ regs' = [regs EXCEPT ![t] = At(pc)]
  /\ ctx' = [ctx EXCEPT ![c] = [pc |-> "heap_lock", arg |-> t]]
  /\ UNCHANGED <<runqueue, sched_lock, heap_lock, lock, queued, cpu_locals, timer, hpc>>

sched_fork(c, t) == Create(c, t, "run")           \* the child returns from fork
sched_run_program(c, t) == Create(c, t, "entry")  \* replace = 0

liballoc_lock(c) ==
  /\ Executes(c, "heap_lock")
  /\ ~heap_lock
  /\ heap_lock' = TRUE
  /\ Goto(c, "heap")
  /\ UNCHANGED <<runqueue, sched_lock, thread_t, cpu_locals, timer, hpc>>

liballoc_unlock(c) ==
  /\ Executes(c, "heap")
  /\ heap_lock' = FALSE
  /\ Goto(c, IF ctx[c].arg = NoThread THEN "run" ELSE "enq")
  /\ UNCHANGED <<runqueue, sched_lock, thread_t, cpu_locals, timer, hpc>>

(* sched_enqueue: the queued flag is tested and set before the lock.       *)
sched_enqueue(c) ==
  /\ Executes(c, "enq")
  /\ IF queued[ctx[c].arg]
     THEN ctx' = [ctx EXCEPT ![c] = At("run")] /\ UNCHANGED queued
     ELSE Goto(c, "enq_lock") /\ queued' = [queued EXCEPT ![ctx[c].arg] = TRUE]
  /\ UNCHANGED <<runqueue, sched_lock, heap_lock, lock, regs, cpu_locals, timer, hpc>>

EnqueueLock(c) ==
  /\ Executes(c, "enq_lock")
  /\ ~sched_lock
  /\ sched_lock' = TRUE
  /\ Goto(c, "push")
  /\ UNCHANGED <<runqueue, heap_lock, thread_t, cpu_locals, timer, hpc>>

(* vec_push: a full vector is reallocated first, which takes the heap lock *)
(* while sched_lock is held.                                               *)
vec_push(c) ==
  /\ Executes(c, "push")
  /\ LET t == ctx[c].arg
         l == Priority[t]
     IN IF Len(queue[l]) + 1 > capacity[l]
        THEN Goto(c, "grow_lock") /\ UNCHANGED queue
        ELSE Goto(c, "enq_unlock") /\ queue' = [queue EXCEPT ![l] = Append(@, t)]
  /\ UNCHANGED <<capacity, sched_lock, heap_lock, thread_t, cpu_locals, timer, hpc>>

(* Mutant: the reallocation enters the heap without waiting for its lock.  *)
GrowLockMissing(c) ==
  /\ Executes(c, "grow_lock")
  /\ heap_lock' = TRUE
  /\ Goto(c, "grow")
  /\ UNCHANGED <<runqueue, sched_lock, thread_t, cpu_locals, timer, hpc>>

GrowLock(c) ==
  /\ Executes(c, "grow_lock")
  /\ ~heap_lock
  /\ heap_lock' = TRUE
  /\ Goto(c, "grow")
  /\ UNCHANGED <<runqueue, sched_lock, thread_t, cpu_locals, timer, hpc>>

vec_expand(c) ==
  /\ Executes(c, "grow")
  /\ heap_lock' = FALSE
  /\ capacity' = [capacity EXCEPT ![Priority[ctx[c].arg]] = Grown(@)]
  /\ Goto(c, "push")
  /\ UNCHANGED <<queue, sched_lock, thread_t, cpu_locals, timer, hpc>>

EnqueueUnlock(c) ==
  /\ Executes(c, "enq_unlock")
  /\ sched_lock' = FALSE
  /\ ctx' = [ctx EXCEPT ![c] = At("run")]
  /\ UNCHANGED <<runqueue, heap_lock, thread_t, cpu_locals, timer, hpc>>

(* sched_exit spins forever after raising its event; the thread stays      *)
(* queued and is still given time slices.                                  *)
sched_exit(c) ==
  /\ Executes(c, "run")
  /\ Goto(c, "exit")
  /\ UNCHANGED <<runqueue, sched_lock, heap_lock, thread_t, cpu_locals, timer, hpc>>

ThreadStep(c) ==
  \/ Start(c)
  \/ liballoc_lock(c)
  \/ liballoc_unlock(c)
  \/ sched_enqueue(c)
  \/ EnqueueLock(c)
  \/ vec_push(c)
  \/ GrowLock(c)
  \/ vec_expand(c)
  \/ EnqueueUnlock(c)

(* What a running program chooses to do next; nothing obliges it to.       *)
ProgramChoice(c) ==
  \/ HeapCall(c)
  \/ sched_exit(c)
  \/ \E t \in Threads : sched_fork(c, t) \/ sched_run_program(c, t)

---------------------------------------------------------------------------
(* schedule(), entered when the timer fires.                               *)

(* Stop the timer and try to take sched_lock.                              *)
Tick(c) ==
  /\ hpc[c] = "out"
  /\ timer[c]
  /\ timer' = [timer EXCEPT ![c] = FALSE]
  /\ sched_lock' = TRUE
  /\ hpc' = [hpc EXCEPT ![c] = IF sched_lock THEN "busy" ELSE "level"]
  /\ old_prio' = [old_prio EXCEPT ![c] = IF sched_lock THEN @ ELSE prio[c]]
  /\ UNCHANGED <<runqueue, heap_lock, thread_t, current, prio, peg, last_run, stack,
                 astray, ctx>>

(* Mutant: the path that did not get sched_lock unlocks it all the same.   *)
RearmUnlocks(c) ==
  /\ hpc[c] = "busy"
  /\ timer' = [timer EXCEPT ![c] = TRUE]
  /\ hpc' = [hpc EXCEPT ![c] = "out"]
  /\ sched_lock' = FALSE
  /\ UNCHANGED <<runqueue, heap_lock, thread_t, cpu_locals, ctx>>

(* Mutant: it returns without starting the timer.                          *)
RearmForgotten(c) ==
  /\ hpc[c] = "busy"
  /\ hpc' = [hpc EXCEPT ![c] = "out"]
  /\ UNCHANGED <<runqueue, sched_lock, heap_lock, thread_t, cpu_locals, timer, ctx>>

(* The lock was taken: acknowledge, re-arm and resume what was interrupted.*)
Rearm(c) ==
  /\ hpc[c] = "busy"
  /\ timer' = [timer EXCEPT ![c] = TRUE]
  /\ hpc' = [hpc EXCEPT ![c] = "out"]
  /\ UNCHANGED <<runqueue, sched_lock, heap_lock, thread_t, cpu_locals, ctx>>

(* One turn of the loop that looks for a level with threads: up to the peg,*)
(* then back to level 0 with the peg one higher.                           *)
NextLevel(c) ==
  /\ hpc[c] = "level"
  /\ IF prio[c] + 1 > peg[c]
     THEN /\ prio' = [prio EXCEPT ![c] = 0]
          /\ peg' = [peg EXCEPT ![c] = (@ + 1) % PRIORITY_LEVELS]
     ELSE prio' = [prio EXCEPT ![c] = @ + 1] /\ UNCHANGED peg
  /\ hpc' = [hpc EXCEPT ![c] = IF Len(queue[prio'[c]]) = 0 THEN "level" ELSE "pick"]
  /\ UNCHANGED <<runqueue, sched_lock, heap_lock, thread_t, current, last_run,
                 old_prio, stack, astray, timer, ctx>>

(* Mutant: the search starts at the front of the queue, not after the last *)
(* index.                                                                  *)
ProbeFromStart(c, k) == k - 1

(* sched_get_next_thread probes the queue after the index run last, wraps  *)
(* around and ends with that index itself: the k-th index it looks at.     *)
Probe(c, k) == (last_run[c][prio[c]] + k) % Len(queue[prio[c]])
Probed(c, k) == queue[prio[c]][Probe(c, k) + 1]
Probes(c) == 1 .. Len(queue[prio[c]])

(* Its own thread, or one whose lock it gets.                              *)
Takes(c, k) == Probed(c, k) = current[c] \/ ~lock[Probed(c, k)]
FirstTaken(c, k) == Takes(c, k) /\ \A j \in 1 .. k - 1 : ~Takes(c, j)

(* Mutant: the indices are compared and the levels are not.                *)
SameSlotAnyLevel(c, k) ==
  current[c] # NoThread /\ Probe(c, k) = last_run[c][old_prio[c]]

SameSlot(c, k) ==
  /\ current[c] # NoThread
  /\ prio[c] = old_prio[c]
  /\ Probe(c, k) = last_run[c][old_prio[c]]

(* Every thread of the level is running elsewhere.                         *)
NoneTaken(c) ==
  /\ hpc[c] = "pick"
  /\ \A k \in Probes(c) : ~Takes(c, k)
  /\ hpc' = [hpc EXCEPT ![c] = "keep"]
  /\ UNCHANGED <<runqueue, sched_lock, heap_lock, thread_t, cpu_locals, timer, ctx>>

(* The slot it already runs: return without switching.                     *)
SameTaken(c) ==
  /\ hpc[c] = "pick"
  /\ \E k \in Probes(c) :
       /\ FirstTaken(c, k)
       /\ SameSlot(c, k)
       /\ lock' = [lock EXCEPT ![Probed(c, k)] = @ \/ Probed(c, k) # current[c]]
  /\ hpc' = [hpc EXCEPT ![c] = "keep"]
  /\ UNCHANGED <<runqueue, sched_lock, heap_lock, queued, regs, cpu_locals, timer, ctx>>

(* Mutant: the interrupted thread is saved and not unlocked.               *)
SwitchNoUnlock(c) ==
  /\ hpc[c] = "pick"
  /\ \E k \in Probes(c) :
       /\ FirstTaken(c, k)
       /\ ~SameSlot(c, k)
       /\ lock' = [lock EXCEPT ![Probed(c, k)] = TRUE]
       /\ regs' = [t \in Threads |-> IF t = current[c] THEN ctx[c] ELSE regs[t]]
       /\ current' = [current EXCEPT ![c] = Probed(c, k)]
       /\ last_run' = [last_run EXCEPT ![c][prio[c]] = Probe(c, k)]
  /\ stack' = [stack EXCEPT ![c] = current[c]]
  /\ timer' = [timer EXCEPT ![c] = TRUE]
  /\ hpc' = [hpc EXCEPT ![c] = "release"]
  /\ UNCHANGED <<runqueue, sched_lock, heap_lock, queued, prio, peg, old_prio, astray, ctx>>

(* Mutant: the index of the chosen thread is not remembered.               *)
SwitchForgetsIndex(c) ==
  /\ hpc[c] = "pick"
  /\ \E k \in Probes(c) :
       LET new == Probed(c, k)
           old == current[c]
       IN /\ FirstTaken(c, k)
          /\ ~SameSlot(c, k)
          /\ lock' = [t \in Threads |->
                        IF t = old THEN FALSE ELSE t = new \/ lock[t]]
          /\ regs' = [t \in Threads |-> IF t = old THEN ctx[c] ELSE regs[t]]
          /\ current' = [current EXCEPT ![c] = new]
  /\ stack' = [stack EXCEPT ![c] = current[c]]
  /\ timer' = [timer EXCEPT ![c] = TRUE]
  /\ hpc' = [hpc EXCEPT ![c] = "release"]
  /\ UNCHANGED <<runqueue, sched_lock, heap_lock, queued, prio, peg, last_run, old_prio,
                 astray, ctx>>

(* Mutant: the registers of the interrupted thread are not saved.          *)
SwitchNoSave(c) ==
  /\ hpc[c] = "pick"
  /\ \E k \in Probes(c) :
       LET new == Probed(c, k)
           old == current[c]
       IN /\ FirstTaken(c, k)
          /\ ~SameSlot(c, k)
          /\ lock' = [t \in Threads |->
                        IF t = old THEN FALSE ELSE t = new \/ lock[t]]
          /\ current' = [current EXCEPT ![c] = new]
          /\ last_run' = [last_run EXCEPT ![c][prio[c]] = Probe(c, k)]
  /\ stack' = [stack EXCEPT ![c] = current[c]]
  /\ timer' = [timer EXCEPT ![c] = TRUE]
  /\ hpc' = [hpc EXCEPT ![c] = "release"]
  /\ UNCHANGED <<runqueue, sched_lock, heap_lock, queued, regs, prio, peg, old_prio,
                 astray, ctx>>

(* Mutant: sched_lock is released with the interrupted thread's lock.      *)
SwitchUnlocks(c) ==
  /\ hpc[c] = "pick"
  /\ \E k \in Probes(c) :
       LET new == Probed(c, k)
           old == current[c]
       IN /\ FirstTaken(c, k)
          /\ ~SameSlot(c, k)
          /\ lock' = [t \in Threads |->
                        IF t = old THEN FALSE ELSE t = new \/ lock[t]]
          /\ regs' = [t \in Threads |-> IF t = old THEN ctx[c] ELSE regs[t]]
          /\ current' = [current EXCEPT ![c] = new]
          /\ last_run' = [last_run EXCEPT ![c][prio[c]] = Probe(c, k)]
  /\ stack' = [stack EXCEPT ![c] = current[c]]
  /\ sched_lock' = FALSE
  /\ timer' = [timer EXCEPT ![c] = TRUE]
  /\ hpc' = [hpc EXCEPT ![c] = "release"]
  /\ UNCHANGED <<runqueue, heap_lock, queued, prio, peg, old_prio, astray, ctx>>

(* Save and unlock the interrupted thread, make the chosen one current and *)
(* re-arm the timer; the stack stays that of the interrupted thread.       *)
SwitchTo(c) ==
  /\ hpc[c] = "pick"
  /\ \E k \in Probes(c) :
       LET new == Probed(c, k)
           old == current[c]
       IN /\ FirstTaken(c, k)
          /\ ~SameSlot(c, k)
          /\ lock' = [t \in Threads |->
                        IF t = old THEN FALSE ELSE t = new \/ lock[t]]
          /\ regs' = [t \in Threads |-> IF t = old THEN ctx[c] ELSE regs[t]]
          /\ current' = [current EXCEPT ![c] = new]
          /\ last_run' = [last_run EXCEPT ![c][prio[c]] = Probe(c, k)]
  /\ stack' = [stack EXCEPT ![c] = current[c]]
  /\ timer' = [timer EXCEPT ![c] = TRUE]
  /\ hpc' = [hpc EXCEPT ![c] = "release"]
  /\ UNCHANGED <<runqueue, sched_lock, heap_lock, queued, prio, peg, old_prio, astray, ctx>>

(* Return to the interrupted context.                                      *)
Keep(c) ==
  /\ hpc[c] = "keep"
  /\ timer' = [timer EXCEPT ![c] = TRUE]
  /\ sched_lock' = FALSE
  /\ hpc' = [hpc EXCEPT ![c] = "out"]
  /\ UNCHANGED <<runqueue, heap_lock, thread_t, cpu_locals, ctx>>

(* sched_lock is released before the new thread's registers are loaded.    *)
Release(c) ==
  /\ hpc[c] = "release"
  /\ sched_lock' = FALSE
  /\ hpc' = [hpc EXCEPT ![c] = "jump"]
  /\ UNCHANGED <<runqueue, heap_lock, thread_t, cpu_locals, timer, ctx>>

(* The stack pointer is loaded first, then the registers.                  *)
switch_and_run_stack(c) ==
  /\ hpc[c] = "jump"
  /\ ctx' = [ctx EXCEPT ![c] = regs[current[c]]]
  /\ stack' = [stack EXCEPT ![c] = NoThread]
  /\ hpc' = [hpc EXCEPT ![c] = "out"]
  /\ UNCHANGED <<runqueue, sched_lock, heap_lock, thread_t, current, prio, peg, last_run,
                 old_prio, astray, timer>>

(* The thread whose kernel stack a CPU is on.                              *)
OnStack(c) == IF hpc[c] \in {"release", "jump"} THEN stack[c] ELSE current[c]

(* After UNLOCK(sched_lock) schedule() reads current_thread from the old   *)
(* thread's stack and pushes a return address there.  Another CPU may have *)
(* loaded that thread by then and be on the same stack: either may find    *)
(* its words written over.                                                 *)
Overwrite(c) ==
  /\ hpc[c] = "jump"
  /\ stack[c] # NoThread
  /\ \E d \in Cpus \ {c} : OnStack(d) = stack[c]
  /\ astray' = TRUE
  /\ UNCHANGED <<runqueue, sched_lock, heap_lock, thread_t, current, prio, peg, last_run,
                 old_prio, stack, timer, hpc, ctx>>

HandlerStep(c) ==
  \/ Rearm(c)
  \/ NextLevel(c)
  \/ NoneTaken(c)
  \/ SameTaken(c)
  \/ SwitchTo(c)
  \/ Keep(c)
  \/ Release(c)
  \/ switch_and_run_stack(c)

CpuStep(c) == ThreadStep(c) \/ ProgramChoice(c) \/ Tick(c) \/ HandlerStep(c) \/ Overwrite(c)

(* A CPU that goes on with words written over may do anything: what happens*)
(* after that is not followed.                                             *)
Unfollowed == astray /\ UNCHANGED vars

Next == (~astray /\ \E c \in Cpus : CpuStep(c)) \/ Unfollowed

Spec == Init /\ [][Next]_vars

(* A CPU keeps executing instructions, and an armed timer fires.           *)
Fairness == \A c \in Cpus :
              /\ WF_vars(~astray /\ ThreadStep(c))
              /\ WF_vars(~astray /\ HandlerStep(c))
              /\ WF_vars(~astray /\ Tick(c))

FairSpec == Spec /\ Fairness

(* A time slice is long enough for a thread to take a step that it finds   *)
(* possible slice after slice.                                             *)
SliceFairness ==
  \A c \in Cpus, t \in Threads :
    SF_vars(~astray /\ current[c] = t /\ ThreadStep(c))

SliceSpec == FairSpec /\ SliceFairness

---------------------------------------------------------------------------
(* Properties.                                                             *)

HandlerHolds(c) == hpc[c] \in HandlerHolding
ContextHolds(c) == ctx[c].pc \in HoldingPcs

(* Every thread has the priority of the first kernel thread: the system    *)
(* as it is, in which priorities are only ever inherited (scheduler.c:207, *)
(* 477) from the thread init_sched creates (scheduler.c:526).              *)
SingleLevel == \A s, t \in Threads : Priority[s] = Priority[t]

(* sched_lock is held by one CPU at most, in schedule() or in              *)
(* sched_enqueue, and its bit is set exactly while it is held; a thread    *)
(* that holds it is never switched out, because schedule() only ever tries *)
(* the lock: no saved context is inside the critical section.              *)
SchedLockExclusive ==
  /\ sched_lock <=> \E c \in Cpus : HandlerHolds(c) \/ ContextHolds(c)
  /\ \A c \in Cpus : ~(HandlerHolds(c) /\ ContextHolds(c))
  /\ \A c, d \in Cpus :
       /\ HandlerHolds(c) \/ ContextHolds(c)
       /\ HandlerHolds(d) \/ ContextHolds(d)
       => c = d
  /\ \A t \in Threads : regs[t].pc \notin HoldingPcs

(* A thread is the current thread of one CPU at most, and its lock is held *)
(* exactly while it is somebody's current thread.                          *)
OneCpuPerThread ==
  /\ \A c, d \in Cpus : current[c] = current[d] /\ current[c] # NoThread => c = d
  /\ \A t \in Threads : lock[t] <=> \E c \in Cpus : current[c] = t

(* The context a thread is in: on its CPU, or saved, which includes the    *)
(* moment in which its CPU has made it current and not loaded it yet.      *)
Loaded(c, t) == current[c] = t /\ hpc[c] \notin {"release", "jump"}
ContextOf(t) == IF \E c \in Cpus : Loaded(c, t)
                THEN ctx[CHOOSE c \in Cpus : Loaded(c, t)]
                ELSE regs[t]

HeapHolders == {t \in Threads : ContextOf(t).pc \in {"heap", "grow"}}

(* The heap lock is held by one thread at most, running or preempted, and  *)
(* its bit is set exactly while some thread is in the critical section: a  *)
(* context switch neither loses nor duplicates a context that holds it.    *)
HeapLockExclusive ==
  /\ heap_lock <=> HeapHolders # {}
  /\ Cardinality(HeapHolders) <= 1

(* A thread has one slot in its run queue, and the slot a CPU remembers    *)
(* for the next round is the one its current thread occupies.              *)
QueueConsistent ==
  /\ \A l \in Levels : \A i, j \in DOMAIN queue[l] :
       queue[l][i] = queue[l][j] => i = j
  /\ \A c \in Cpus : current[c] # NoThread =>
       LET l == Priority[current[c]]
       IN /\ last_run[c][l] + 1 \in DOMAIN queue[l]
          /\ queue[l][last_run[c][l] + 1] = current[c]

(* Two CPUs are on one kernel stack at most while one of them is between  *)
(* UNLOCK(sched_lock) and switch_and_run_stack (scheduler.c:375-377).      *)
(* Before that sched_lock keeps the thread whose lock schedule() has just  *)
(* given up (359) from being chosen, although its stack is still in use.   *)
StacksApart ==
  \A c, d \in Cpus :
    OnStack(c) = OnStack(d) /\ OnStack(c) # NoThread /\ c # d =>
      hpc[c] = "jump" \/ hpc[d] = "jump"

InQueue(t) == \E i \in DOMAIN queue[Priority[t]] : queue[Priority[t]][i] = t

(* A call of fork gets through: the child is queued and the parent returns *)
(* (prog/fork_test prints a line from each of them).                       *)
ForkCompletes ==
  \A s, t \in Threads :
    ContextOf(s) = [pc |-> "enq", arg |-> t] ~> InQueue(t) /\ ContextOf(s) = At("run")

=============================================================================
