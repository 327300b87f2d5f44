--------------------------- MODULE MCSchedulerLive ---------------------------
(***************************************************************************)
(* The fair scheduler in two scenes, chosen at the start: two CPUs and one *)
(* level with three threads, and one CPU and three levels with a thread    *)
(* each, as sched_new_thread allows.                                       *)
(***************************************************************************)
EXTENDS Integers, Sequences, TLC

CONSTANTS c1, c2, t1, t2, t3, NoThread

VARIABLES
  scene,
  queue, capacity, sched_lock, heap_lock, lock, queued, regs, current, prio, peg,
  last_run, old_prio, stack, astray, timer, hpc, ctx

ThreeThreads == {t1, t2, t3}

TwoCpus == {c1, c2}
OneLevel == [t \in ThreeThreads |-> 0]
OneQueue == 0 :> <<t1, t2, t3>>
OneCapacity == 0 :> 4

A == INSTANCE Scheduler WITH
  Cpus <- TwoCpus, Threads <- ThreeThreads, PRIORITY_LEVELS <- 1, Priority <- OneLevel,
  InitQueue <- OneQueue, InitCapacity <- OneCapacity

OneCpu == {c1}
ThreeLevels == t1 :> 0 @@ t2 :> 1 @@ t3 :> 2
ThreeQueues == 0 :> <<t1>> @@ 1 :> <<t2>> @@ 2 :> <<t3>>
ThreeCapacities == [l \in 0 .. 2 |-> 1]

L == INSTANCE Scheduler WITH
  Cpus <- OneCpu, Threads <- ThreeThreads, PRIORITY_LEVELS <- 3, Priority <- ThreeLevels,
  InitQueue <- ThreeQueues, InitCapacity <- ThreeCapacities

vars == <<scene, queue, capacity, sched_lock, heap_lock, lock, queued, regs, current, prio,
          peg, last_run, old_prio, stack, astray, timer, hpc, ctx>>

Init ==
  \/ scene = "cpus" /\ A!Init
  \/ scene = "levels" /\ L!Init

Next ==
  /\ UNCHANGED scene
  /\ \/ scene = "cpus" /\ A!Next
     \/ scene = "levels" /\ L!Next

ThreadStep(c) ==
  \/ scene = "cpus" /\ A!ThreadStep(c)
  \/ scene = "levels" /\ c = c1 /\ L!ThreadStep(c)
HandlerStep(c) ==
  \/ scene = "cpus" /\ A!HandlerStep(c)
  \/ scene = "levels" /\ c = c1 /\ L!HandlerStep(c)
Tick(c) ==
  \/ scene = "cpus" /\ A!Tick(c)
  \/ scene = "levels" /\ c = c1 /\ L!Tick(c)

(* The fairness of Scheduler, in each scene.                               *)
Fairness == \A c \in TwoCpus :
              /\ WF_vars(UNCHANGED scene /\ ~astray /\ ThreadStep(c))
              /\ WF_vars(UNCHANGED scene /\ ~astray /\ HandlerStep(c))
              /\ WF_vars(UNCHANGED scene /\ ~astray /\ Tick(c))

Spec == Init /\ [][Next]_vars /\ Fairness

---------------------------------------------------------------------------
Loaded(t) == L!Loaded(c1, t) \/ (scene = "cpus" /\ A!Loaded(c2, t))

(* Every thread, all of them queued from the start, gets a CPU again and   *)
(* again, whatever the other CPU holds when schedule() looks at it, and    *)
(* whichever level its search over the levels, with the peg, has to come   *)
(* to: until a CPU has its stack written over at scheduler.c:375-377.      *)
NoStarvation == \A t \in ThreeThreads : []<>(Loaded(t) \/ astray)

(* Whatever way schedule() takes, it leaves its CPU with an armed timer,   *)
(* again until a stack is written over.                                    *)
TimerRearmed ==
  \A c \in TwoCpus :
    []<>(scene = "cpus" => (timer[c] /\ hpc[c] = "out") \/ astray)

(* A thread is locked as long as a CPU runs it, also when schedule() moves *)
(* between levels.                                                         *)
OneCpuAcrossLevels == scene = "levels" => L!OneCpuPerThread
=============================================================================
