--------------------------- MODULE ThreadMachine ---------------------------
(***************************************************************************)
(* What the scheduler promises to the code that runs on it: every thread   *)
(* that has been enqueued is a sequential process with a register context  *)
(* of its own.  There are no CPUs, timers or lock bits here.  A context    *)
(* changes by a step of its own thread only, a thread takes no step before *)
(* it is enqueued, and what the heap lock and sched_lock protect is done   *)
(* by one thread at a time.                                                *)
(***************************************************************************)
CONSTANTS Threads, NoThread

VARIABLES
  prog,      \* the register context of each thread
  runnable   \* the threads that have been enqueued

vars == <<prog, runnable>>

At(pc) == [pc |-> pc, arg |-> NoThread]
Absent == At("none")

InHeap == {"heap", "grow"}
InQueue == {"push", "grow_lock", "grow", "enq_unlock"}
Nobody(pcs) == \A t \in Threads : prog[t].pc \notin pcs

Init ==
  /\ runnable \in SUBSET Threads
  /\ prog = [t \in Threads |-> IF t \in runnable THEN At("entry") ELSE Absent]

(* Thread t goes from one program point to the next.                       *)
Step(t, from, to) ==
  /\ t \in runnable
  /\ prog[t].pc = from
  /\ prog' = [prog EXCEPT ![t].pc = to]

Compute(t) ==
  /\ \/ Step(t, "entry", "run")
     \/ Step(t, "run", "heap_lock")
     \/ Step(t, "run", "exit")
  /\ UNCHANGED runnable

(* The new thread exists from here on; it does not run yet.                *)
Create(t, u) ==
  /\ t \in runnable
  /\ prog[t].pc = "run"
  /\ prog[u] = Absent
  /\ \E pc \in {"run", "entry"} :
       prog' = [prog EXCEPT ![t] = [pc |-> "heap_lock", arg |-> u], ![u] = At(pc)]
  /\ UNCHANGED runnable

UseHeap(t) ==
  /\ \/ Nobody(InHeap) /\ Step(t, "heap_lock", "heap")
     \/ prog[t].arg = NoThread /\ Step(t, "heap", "run")
     \/ prog[t].arg # NoThread /\ Step(t, "heap", "enq")
     \/ Step(t, "enq", "enq_lock")
  /\ UNCHANGED runnable

UseQueue(t) ==
  /\ \/ Nobody(InQueue) /\ Step(t, "enq_lock", "push")
     \/ Step(t, "push", "grow_lock")
     \/ Nobody(InHeap) /\ Step(t, "grow_lock", "grow")
     \/ Step(t, "grow", "push")
  /\ UNCHANGED runnable

(* The thread being enqueued becomes runnable, once.                       *)
Publish(t) ==
  /\ Step(t, "push", "enq_unlock")
  /\ prog[t].arg \in Threads \ runnable
  /\ runnable' = runnable \cup {prog[t].arg}

Return(t) ==
  /\ t \in runnable
  /\ prog[t].pc = "enq_unlock"
  /\ prog' = [prog EXCEPT ![t] = At("run")]
  /\ UNCHANGED runnable

Next == \E t \in Threads :
          \/ Compute(t)
          \/ UseHeap(t)
          \/ UseQueue(t)
          \/ Publish(t)
          \/ Return(t)
          \/ \E u \in Threads : Create(t, u)

Spec == Init /\ [][Next]_vars

=============================================================================
