-------------------------- MODULE MCSchedulerExec --------------------------
(* Instances of SchedulerExec: threads are queued and may call execve.      *)
EXTENDS SchedulerExec, TLC

CONSTANTS c1, c2, t1, t2, t3

OneCpu == {c1}
TwoCpus == {c1, c2}
CpuSymmetry == Permutations(TwoCpus)
TwoThreads == {t1, t2}
ThreeThreads == {t1, t2, t3}
AllAtZero == [t \in Threads |-> 0]
TwoQueued == [l \in 0 .. PRIORITY_LEVELS - 1 |-> IF l = 0 THEN <<t1, t2>> ELSE <<>>]

(* vec_push has grown the queues as they were filled.                      *)
Grows == [l \in Levels |-> PushedCapacity[Len(InitQueue[l])]]
=============================================================================
