------------------------ MODULE SchedulerRefinement ------------------------
(***************************************************************************)
(* The scheduler implements ThreadMachine: the context of a thread is the  *)
(* one on the CPU that has loaded it, or else the saved one.               *)
(***************************************************************************)
EXTENDS Scheduler

Abstract == INSTANCE ThreadMachine WITH
              prog <- [t \in Threads |-> ContextOf(t)],
              runnable <- {t \in Threads : InQueue(t)}

(* Preemption is invisible until a CPU has its stack written over at       *)
(* scheduler.c:375-377, where the behaviours end: timer ticks, failed      *)
(* attempts at sched_lock and switches between CPUs change no thread's     *)
(* context, and every other step is a step of the thread that runs it.     *)
ImplementsThreadMachine == Abstract!Spec
=============================================================================
