---------------------------- MODULE MCScheduler ----------------------------
(***************************************************************************)
(* Instances of Scheduler: one or two CPUs, and run queues as they are     *)
(* after one, two or three pushes (capacities 1, 2 and 4).                 *)
(***************************************************************************)
EXTENDS SchedulerRefinement, TLC

CONSTANTS c1, c2, t1, t2, t3

OneCpu == {c1}
TwoCpus == {c1, c2}
CpuSymmetry == Permutations(TwoCpus)

ThreeThreads == {t1, t2, t3}

(* Everybody has the priority of the first kernel thread.                  *)
AllAtZero == [t \in Threads |-> 0]

AtZero(q) == [l \in 0 .. PRIORITY_LEVELS - 1 |-> IF l = 0 THEN q ELSE <<>>]
FirstQueued == AtZero(<<t1>>)
TwoQueued == AtZero(<<t1, t2>>)

(* vec_push has grown the queues as they were filled.                      *)
Grows == [l \in Levels |-> PushedCapacity[Len(InitQueue[l])]]
=============================================================================
