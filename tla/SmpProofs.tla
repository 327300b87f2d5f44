----------------------------- MODULE SmpProofs -----------------------------
(***************************************************************************)
(* Start-up on any number of CPUs, whichever entry of smp_info is the boot *)
(* CPU's: every CPU ends up with its own TSS and cpu_locals, and the       *)
(* hand-over to the scheduler waits for all of them.                       *)
(***************************************************************************)
EXTENDS Smp, FiniteSetTheorems, TLAPS

(* The entries of smp_info: one that lets a CPU go is complete, and the    *)
(* boot CPU is busy with the entry its loop index says.                    *)
EntryInv ==
  /\ pc[Bsp] # "parked"
  /\ \A c \in Cpu \ {Bsp} : pc[c] \notin BootPcs
  /\ \A c \in Cpu \ {Bsp} : pc[c] # "parked" => goto_address[c]
  /\ \A c \in Cpu : goto_address[c] => extra_argument[c] = c /\ target_stack[c]
  /\ pc[Bsp] \in {"stack", "goto"} => i < N /\ i # Bsp /\ extra_argument[i] = i
  /\ pc[Bsp] = "goto" => target_stack[i]
  /\ pc[Bsp] \in InitPcs => i = Bsp /\ extra_argument[Bsp] = Bsp

(* The shared descriptor: gdt_lock is held by one CPU at most, and between *)
(* writing the descriptor and loading it that CPU finds its own TSS there. *)
Holding == {"tss_write", "tss_load", "tss_unlock"}
TssInv ==
  /\ \A c \in Cpu : pc[c] \in InitPcs \ {"arg"} => locals[c] = c
  /\ gdt_lock <=> \E c \in Cpu : pc[c] \in Holding
  /\ \A c, d \in Cpu : pc[c] \in Holding /\ pc[d] \in Holding => c = d
  /\ \A c \in Cpu : pc[c] = "tss_load" => tss.base = c /\ ~tss.busy
  /\ \A c \in Cpu : pc[c] # "fault"

(* CPUs that have passed the increment of inited_cpus; the boot CPU is back*)
(* in the loop of init_smp by then, behind its own entry.                  *)
Counted(c) ==
  \/ pc[c] \in {"barrier", "sched", "start", "await", "arm", "idle"}
  \/ c = Bsp /\ pc[c] \in {"loop", "stack", "goto"} /\ i > Bsp
CountedCpus == {c \in Cpu : Counted(c)}

(* What a CPU has set up at each point, and that it counts itself last.    *)
SetUpInv ==
  /\ \A c \in Cpu : pc[c] \in {"tss_unlock", "fields", "count"} => tr[c] = c
  /\ \A c \in Cpu : pc[c] = "count" => gs[c] = c /\ c \in zeroed
  /\ \A c \in Cpu : Counted(c) => tr[c] = c /\ gs[c] = c /\ c \in zeroed

(* The barrier and the scheduler's start.                                  *)
StartInv ==
  /\ inited_cpus = Cardinality(CountedCpus)
  /\ pc[Bsp] \in {"sched", "start", "await", "arm", "idle"} => \A c \in Cpu : Counted(c)
  /\ pc[Bsp] = "start" => thread_queued
  /\ sched_has_started => thread_queued /\ pc[Bsp] \in {"await", "arm", "idle"}
  /\ \A c \in Cpu : pc[c] \in {"arm", "idle"} => sched_has_started
  /\ \A c \in Cpu : timer[c] => pc[c] = "idle"

IInv == TypeOK /\ EntryInv /\ TssInv /\ SetUpInv /\ StartInv

---------------------------------------------------------------------------
(* One step of any CPU.                                                    *)

(* An entry is filled in before its CPU is let go, and not touched again.  *)
LEMMA EntryNext ==
  ASSUME TypeOK, EntryInv, Next
  PROVE  EntryInv'
<1> USE CountAssumption, BspAssumption DEF Cpu, None, TypeOK, EntryInv, BootPcs, InitPcs,
        Move, entries, registers, sched
<1>1. CASE Argument
  BY <1>1 DEF Argument
<1>2. CASE Stack
  BY <1>2 DEF Stack
<1>3. CASE GotoAddress
  BY <1>3 DEF GotoAddress
<1>4. CASE EndLoop
  BY <1>4 DEF EndLoop
<1>5. CASE Barrier
  BY <1>5 DEF Barrier
<1>6. CASE QueueFirstThread
  BY <1>6 DEF QueueFirstThread
<1>7. CASE StartScheduler
  BY <1>7 DEF StartScheduler
<1>8. ASSUME NEW c \in Cpu, Unpark(c) PROVE EntryInv'
  BY <1>8 DEF Unpark
<1>9. ASSUME NEW c \in Cpu, ReadArgument(c) PROVE EntryInv'
  BY <1>9 DEF ReadArgument
<1>10. ASSUME NEW c \in Cpu, TssLock(c) PROVE EntryInv'
  BY <1>10 DEF TssLock
<1>11. ASSUME NEW c \in Cpu, TssWrite(c) PROVE EntryInv'
  BY <1>11 DEF TssWrite
<1>12. ASSUME NEW c \in Cpu, TssLoad(c) PROVE EntryInv'
  BY <1>12 DEF TssLoad
<1>13. ASSUME NEW c \in Cpu, TssUnlock(c) PROVE EntryInv'
  BY <1>13 DEF TssUnlock
<1>14. ASSUME NEW c \in Cpu, Fields(c) PROVE EntryInv'
  BY <1>14 DEF Fields
<1>15. ASSUME NEW c \in Cpu, Count(c) PROVE EntryInv'
  BY <1>15 DEF Count
<1>16. ASSUME NEW c \in Cpu, Await(c) PROVE EntryInv'
  BY <1>16 DEF Await
<1>17. ASSUME NEW c \in Cpu, Arm(c) PROVE EntryInv'
  BY <1>17 DEF Arm
<1>18. CASE Finished
  BY <1>18 DEF Finished, vars
<1> HIDE DEF Cpu, None, TypeOK, EntryInv, BootPcs, InitPcs, Move, entries, registers, sched
<1> QED
  BY <1>1, <1>2, <1>3, <1>4, <1>5, <1>6, <1>7, <1>8, <1>9, <1>10, <1>11, <1>12, <1>13,
     <1>14, <1>15, <1>16, <1>17, <1>18 DEF Next, BootCpu, InitCpu, SchedAwait

(* The descriptor belongs to the holder of gdt_lock.                       *)
LEMMA TssNext ==
  ASSUME TypeOK, EntryInv, TssInv, Next
  PROVE  TssInv'
<1> USE CountAssumption, BspAssumption DEF TypeOK, EntryInv, BootPcs, InitPcs, TssInv,
        Holding, Move, entries, registers, sched
<1>1. CASE Argument
  BY <1>1 DEF Argument
<1>2. CASE Stack
  BY <1>2 DEF Stack
<1>3. CASE GotoAddress
  BY <1>3 DEF GotoAddress
<1>4. CASE EndLoop
  BY <1>4 DEF EndLoop
<1>5. CASE Barrier
  BY <1>5 DEF Barrier
<1>6. CASE QueueFirstThread
  BY <1>6 DEF QueueFirstThread
<1>7. CASE StartScheduler
  BY <1>7 DEF StartScheduler
<1>8. ASSUME NEW c \in Cpu, Unpark(c) PROVE TssInv'
  BY <1>8 DEF Unpark
<1>9. ASSUME NEW c \in Cpu, ReadArgument(c) PROVE TssInv'
  BY <1>9 DEF ReadArgument
<1>10. ASSUME NEW c \in Cpu, TssLock(c) PROVE TssInv'
  BY <1>10 DEF TssLock
<1>11. ASSUME NEW c \in Cpu, TssWrite(c) PROVE TssInv'
  BY <1>11 DEF TssWrite
<1>12. ASSUME NEW c \in Cpu, TssLoad(c) PROVE TssInv'
  BY <1>12 DEF TssLoad
<1>13. ASSUME NEW c \in Cpu, TssUnlock(c) PROVE TssInv'
  BY <1>13 DEF TssUnlock
<1>14. ASSUME NEW c \in Cpu, Fields(c) PROVE TssInv'
  BY <1>14 DEF Fields
<1>15. ASSUME NEW c \in Cpu, Count(c) PROVE TssInv'
  BY <1>15 DEF Count
<1>16. ASSUME NEW c \in Cpu, Await(c) PROVE TssInv'
  BY <1>16 DEF Await
<1>17. ASSUME NEW c \in Cpu, Arm(c) PROVE TssInv'
  BY <1>17 DEF Arm
<1>18. CASE Finished
  BY <1>18 DEF Finished, vars
<1> HIDE DEF TypeOK, EntryInv, BootPcs, InitPcs, TssInv, Holding, Move, entries, registers,
         sched
<1> QED
  BY <1>1, <1>2, <1>3, <1>4, <1>5, <1>6, <1>7, <1>8, <1>9, <1>10, <1>11, <1>12, <1>13,
     <1>14, <1>15, <1>16, <1>17, <1>18 DEF Next, BootCpu, InitCpu, SchedAwait

(* A CPU counts itself when it is set up, and what it has set up stays.    *)
LEMMA SetUpNext ==
  ASSUME TypeOK, EntryInv, TssInv, SetUpInv, Next
  PROVE  SetUpInv'
<1> USE CountAssumption, BspAssumption DEF Cpu, TypeOK, EntryInv, BootPcs, InitPcs, TssInv,
        SetUpInv, Counted, Move, entries, registers, sched
<1>1. CASE Argument
  BY <1>1 DEF Argument
<1>2. CASE Stack
  BY <1>2 DEF Stack
<1>3. CASE GotoAddress
  BY <1>3 DEF GotoAddress
<1>4. CASE EndLoop
  BY <1>4 DEF EndLoop
<1>5. CASE Barrier
  BY <1>5 DEF Barrier
<1>6. CASE QueueFirstThread
  BY <1>6 DEF QueueFirstThread
<1>7. CASE StartScheduler
  BY <1>7 DEF StartScheduler
<1>8. ASSUME NEW c \in Cpu, Unpark(c) PROVE SetUpInv'
  BY <1>8 DEF Unpark
<1>9. ASSUME NEW c \in Cpu, ReadArgument(c) PROVE SetUpInv'
  BY <1>9 DEF ReadArgument
<1>10. ASSUME NEW c \in Cpu, TssLock(c) PROVE SetUpInv'
  BY <1>10 DEF TssLock
<1>11. ASSUME NEW c \in Cpu, TssWrite(c) PROVE SetUpInv'
  BY <1>11 DEF TssWrite
<1>12. ASSUME NEW c \in Cpu, TssLoad(c) PROVE SetUpInv'
  BY <1>12 DEF TssLoad
<1>13. ASSUME NEW c \in Cpu, TssUnlock(c) PROVE SetUpInv'
  BY <1>13 DEF TssUnlock
<1>14. ASSUME NEW c \in Cpu, Fields(c) PROVE SetUpInv'
  BY <1>14 DEF Fields
<1>15. ASSUME NEW c \in Cpu, Count(c) PROVE SetUpInv'
  BY <1>15 DEF Count
<1>16. ASSUME NEW c \in Cpu, Await(c) PROVE SetUpInv'
  BY <1>16 DEF Await
<1>17. ASSUME NEW c \in Cpu, Arm(c) PROVE SetUpInv'
  BY <1>17 DEF Arm
<1>18. CASE Finished
  BY <1>18 DEF Finished, vars
<1> HIDE DEF Cpu, TypeOK, EntryInv, BootPcs, InitPcs, TssInv, SetUpInv, Counted, Move,
         entries, registers, sched
<1> QED
  BY <1>1, <1>2, <1>3, <1>4, <1>5, <1>6, <1>7, <1>8, <1>9, <1>10, <1>11, <1>12, <1>13,
     <1>14, <1>15, <1>16, <1>17, <1>18 DEF Next, BootCpu, InitCpu, SchedAwait

(* Only Count adds a CPU to those that have counted themselves, and it adds*)
(* one that had not.                                                       *)
LEMMA CountedNext ==
  ASSUME TypeOK, EntryInv, \A c \in Cpu : ~Count(c), Next
  PROVE  CountedCpus' = CountedCpus /\ inited_cpus' = inited_cpus
<1> DEFINE Same == CountedCpus' = CountedCpus /\ inited_cpus' = inited_cpus
<1> USE CountAssumption, BspAssumption DEF Cpu, TypeOK, EntryInv, BootPcs, InitPcs, Counted,
        CountedCpus, Move, entries, registers, sched
<1>1. CASE Argument
  BY <1>1 DEF Argument
<1>2. CASE Stack
  BY <1>2 DEF Stack
<1>3. CASE GotoAddress
  BY <1>3 DEF GotoAddress
<1>4. CASE EndLoop
  BY <1>4 DEF EndLoop
<1>5. CASE Barrier
  BY <1>5 DEF Barrier
<1>6. CASE QueueFirstThread
  BY <1>6 DEF QueueFirstThread
<1>7. CASE StartScheduler
  BY <1>7 DEF StartScheduler
<1>8. ASSUME NEW c \in Cpu, Unpark(c) PROVE Same
  BY <1>8 DEF Unpark
<1>9. ASSUME NEW c \in Cpu, ReadArgument(c) PROVE Same
  BY <1>9 DEF ReadArgument
<1>10. ASSUME NEW c \in Cpu, TssLock(c) PROVE Same
  BY <1>10 DEF TssLock
<1>11. ASSUME NEW c \in Cpu, TssWrite(c) PROVE Same
  BY <1>11 DEF TssWrite
<1>12. ASSUME NEW c \in Cpu, TssLoad(c) PROVE Same
  BY <1>12 DEF TssLoad
<1>13. ASSUME NEW c \in Cpu, TssUnlock(c) PROVE Same
  BY <1>13 DEF TssUnlock
<1>14. ASSUME NEW c \in Cpu, Fields(c) PROVE Same
  BY <1>14 DEF Fields
<1>15. ASSUME NEW c \in Cpu, Count(c) PROVE Same
  BY <1>15 DEF Count
<1>16. ASSUME NEW c \in Cpu, Await(c) PROVE Same
  BY <1>16 DEF Await
<1>17. ASSUME NEW c \in Cpu, Arm(c) PROVE Same
  BY <1>17 DEF Arm
<1>18. CASE Finished
  BY <1>18 DEF Finished, vars
<1> HIDE DEF Cpu, TypeOK, EntryInv, BootPcs, InitPcs, Counted, CountedCpus, Move, entries,
         registers, sched
<1> QED
  BY <1>1, <1>2, <1>3, <1>4, <1>5, <1>6, <1>7, <1>8, <1>9, <1>10, <1>11, <1>12, <1>13,
     <1>14, <1>15, <1>16, <1>17, <1>18 DEF Next, BootCpu, InitCpu, SchedAwait

LEMMA CountStep ==
  ASSUME TypeOK, EntryInv, NEW c \in Cpu, Count(c)
  PROVE  /\ CountedCpus' = CountedCpus \cup {c} /\ c \notin CountedCpus
         /\ inited_cpus' = inited_cpus + 1
  BY BspAssumption
     DEF Cpu, TypeOK, EntryInv, InitPcs, BootPcs, Counted, CountedCpus, Count, Move

(* There are N CPUs to count.                                              *)
LEMMA CpuCount ==
  ASSUME NEW S \in SUBSET Cpu
  PROVE  /\ IsFiniteSet(S) /\ Cardinality(S) \in 0 .. N
         /\ Cardinality(S) = N => S = Cpu
<1>1. IsFiniteSet(Cpu) /\ Cardinality(Cpu) = N
  BY CountAssumption, FS_Interval DEF Cpu
<1>2. IsFiniteSet(S) /\ Cardinality(S) \in Nat
  BY <1>1, FS_Subset, FS_CardinalityType
<1> QED
  BY <1>1, <1>2, FS_Subset, CountAssumption

LEMMA CountedSubset == CountedCpus \subseteq Cpu /\ CountedCpus' \subseteq Cpu
  BY DEF CountedCpus

LEMMA CountNext ==
  ASSUME TypeOK, EntryInv, inited_cpus = Cardinality(CountedCpus), Next
  PROVE  inited_cpus' = Cardinality(CountedCpus')
<1>1. ASSUME NEW c \in Cpu, Count(c) PROVE inited_cpus' = Cardinality(CountedCpus')
  BY <1>1, CountStep, CountedSubset, CpuCount, FS_AddElement
<1>2. CASE \A c \in Cpu : ~Count(c)
  BY <1>2, CountedNext
<1> QED BY <1>1, <1>2

(* The barrier lets the boot CPU pass when all CPUs are counted, and a CPU *)
(* leaves sched_await when there is a thread to run.                       *)
LEMMA StartNext ==
  ASSUME TypeOK, EntryInv, StartInv, Next
  PROVE  StartInv'
<1> USE CountAssumption, BspAssumption DEF Cpu, TypeOK, EntryInv, BootPcs, InitPcs,
        StartInv, Counted, Move, entries, registers, sched
<1>0. inited_cpus' = Cardinality(CountedCpus')
  BY CountNext
<1>1. CASE Argument
  BY <1>0, <1>1 DEF Argument
<1>2. CASE Stack
  BY <1>0, <1>2 DEF Stack
<1>3. CASE GotoAddress
  BY <1>0, <1>3 DEF GotoAddress
<1>4. CASE EndLoop
  BY <1>0, <1>4 DEF EndLoop
<1>5. CASE Barrier
  <2>0. CountedCpus = Cpu
    BY <1>5, CountedSubset, CpuCount DEF Barrier
  <2>1. \A c \in Cpu : Counted(c)
    BY <2>0 DEF CountedCpus
  <2> QED BY <1>0, <1>5, <2>1 DEF Barrier
<1>6. CASE QueueFirstThread
  BY <1>0, <1>6 DEF QueueFirstThread
<1>7. CASE StartScheduler
  BY <1>0, <1>7 DEF StartScheduler
<1>8. ASSUME NEW c \in Cpu, Unpark(c) PROVE StartInv'
  BY <1>0, <1>8 DEF Unpark
<1>9. ASSUME NEW c \in Cpu, ReadArgument(c) PROVE StartInv'
  BY <1>0, <1>9 DEF ReadArgument
<1>10. ASSUME NEW c \in Cpu, TssLock(c) PROVE StartInv'
  BY <1>0, <1>10 DEF TssLock
<1>11. ASSUME NEW c \in Cpu, TssWrite(c) PROVE StartInv'
  BY <1>0, <1>11 DEF TssWrite
<1>12. ASSUME NEW c \in Cpu, TssLoad(c) PROVE StartInv'
  BY <1>0, <1>12 DEF TssLoad
<1>13. ASSUME NEW c \in Cpu, TssUnlock(c) PROVE StartInv'
  BY <1>0, <1>13 DEF TssUnlock
<1>14. ASSUME NEW c \in Cpu, Fields(c) PROVE StartInv'
  BY <1>0, <1>14 DEF Fields
<1>15. ASSUME NEW c \in Cpu, Count(c) PROVE StartInv'
  BY <1>0, <1>15 DEF Count
<1>16. ASSUME NEW c \in Cpu, Await(c) PROVE StartInv'
  BY <1>0, <1>16 DEF Await
<1>17. ASSUME NEW c \in Cpu, Arm(c) PROVE StartInv'
  BY <1>0, <1>17 DEF Arm
<1>18. CASE Finished
  BY <1>0, <1>18 DEF Finished, vars
<1> HIDE DEF Cpu, TypeOK, EntryInv, BootPcs, InitPcs, StartInv, Counted, Move, entries,
         registers, sched
<1> QED
  BY <1>1, <1>2, <1>3, <1>4, <1>5, <1>6, <1>7, <1>8, <1>9, <1>10, <1>11, <1>12, <1>13,
     <1>14, <1>15, <1>16, <1>17, <1>18 DEF Next, BootCpu, InitCpu, SchedAwait

(* Types.  The count stays within bounds because it counts CPUs.           *)
LEMMA TypeNext ==
  ASSUME TypeOK, EntryInv, TssInv, StartInv, Next
  PROVE  TypeOK'
<1> USE CountAssumption, BspAssumption DEF Cpu, None, Pcs, TypeOK, EntryInv, BootPcs,
        InitPcs, TssInv, Move, entries, registers, sched
<1>0. inited_cpus' \in 0 .. N
  BY CountNext, CountedSubset, CpuCount DEF StartInv
<1>1. CASE Argument
  BY <1>0, <1>1 DEF Argument
<1>2. CASE Stack
  BY <1>0, <1>2 DEF Stack
<1>3. CASE GotoAddress
  BY <1>0, <1>3 DEF GotoAddress
<1>4. CASE EndLoop
  BY <1>0, <1>4 DEF EndLoop
<1>5. CASE Barrier
  BY <1>0, <1>5 DEF Barrier
<1>6. CASE QueueFirstThread
  BY <1>0, <1>6 DEF QueueFirstThread
<1>7. CASE StartScheduler
  BY <1>0, <1>7 DEF StartScheduler
<1>8. ASSUME NEW c \in Cpu, Unpark(c) PROVE TypeOK'
  BY <1>0, <1>8 DEF Unpark
<1>9. ASSUME NEW c \in Cpu, ReadArgument(c) PROVE TypeOK'
  BY <1>0, <1>9 DEF ReadArgument
<1>10. ASSUME NEW c \in Cpu, TssLock(c) PROVE TypeOK'
  BY <1>0, <1>10 DEF TssLock
<1>11. ASSUME NEW c \in Cpu, TssWrite(c) PROVE TypeOK'
  BY <1>0, <1>11 DEF TssWrite
<1>12. ASSUME NEW c \in Cpu, TssLoad(c) PROVE TypeOK'
  <2>1. tss' = [base |-> tss.base, busy |-> TRUE]
    BY <1>12 DEF TssLoad
  <2> QED BY <1>0, <1>12, <2>1 DEF TssLoad
<1>13. ASSUME NEW c \in Cpu, TssUnlock(c) PROVE TypeOK'
  BY <1>0, <1>13 DEF TssUnlock
<1>14. ASSUME NEW c \in Cpu, Fields(c) PROVE TypeOK'
  <2>1. zeroed' \subseteq Cpu \cup {None}
    <3>1. zeroed' = zeroed \cup {locals[c]} /\ locals[c] \in Cpu \cup {None}
      BY <1>14 DEF Fields
    <3> HIDE DEF Cpu, None
    <3> QED BY <3>1
  <2>2. gs' \in [Cpu -> Cpu \cup {None}] /\ pc' \in [Cpu -> Pcs]
    BY <1>14 DEF Fields
  <2> QED BY <1>0, <1>14, <2>1, <2>2 DEF Fields
<1>15. ASSUME NEW c \in Cpu, Count(c) PROVE TypeOK'
  BY <1>0, <1>15 DEF Count
<1>16. ASSUME NEW c \in Cpu, Await(c) PROVE TypeOK'
  BY <1>0, <1>16 DEF Await
<1>17. ASSUME NEW c \in Cpu, Arm(c) PROVE TypeOK'
  BY <1>0, <1>17 DEF Arm
<1>18. CASE Finished
  BY <1>0, <1>18 DEF Finished, vars
<1> HIDE DEF Cpu, None, Pcs, TypeOK, EntryInv, BootPcs, InitPcs, TssInv, Move, entries,
         registers, sched
<1> QED
  BY <1>1, <1>2, <1>3, <1>4, <1>5, <1>6, <1>7, <1>8, <1>9, <1>10, <1>11, <1>12, <1>13,
     <1>14, <1>15, <1>16, <1>17, <1>18 DEF Next, BootCpu, InitCpu, SchedAwait

---------------------------------------------------------------------------
LEMMA InitIInv == Init => IInv
<1> SUFFICES ASSUME Init PROVE IInv
  OBVIOUS
<1> USE CountAssumption, BspAssumption
<1>1. \A c \in Cpu : pc[c] = IF c = Bsp THEN "loop" ELSE "parked"
  BY DEF Init
<1>2. TypeOK
  <2>1. 0 \in 0 .. N /\ "loop" \in Pcs /\ "parked" \in Pcs
    BY DEF Pcs, BootPcs
  <2>2. tss \in [base : Cpu \cup {None}, busy : BOOLEAN]
    BY DEF Init
  <2>3. pc \in [Cpu -> Pcs]
    BY <2>1 DEF Init
  <2> QED BY <2>1, <2>2, <2>3 DEF Init, TypeOK
<1>3. EntryInv /\ TssInv
  BY <1>1 DEF Init, EntryInv, TssInv, Holding, BootPcs, InitPcs
<1>4. \A c \in Cpu : ~Counted(c)
  BY <1>1 DEF Init, Counted, Cpu
<1>5. CountedCpus = {}
  BY <1>4 DEF CountedCpus
<1>6. SetUpInv /\ StartInv
  BY <1>1, <1>4, <1>5, FS_EmptySet DEF Init, SetUpInv, StartInv
<1> QED BY <1>2, <1>3, <1>6 DEF IInv

LEMMA NextIInv == IInv /\ [Next]_vars => IInv'
<1> SUFFICES ASSUME IInv, [Next]_vars PROVE IInv'
  OBVIOUS
<1>1. CASE Next
  BY <1>1, EntryNext, TssNext, SetUpNext, StartNext, TypeNext DEF IInv
<1>2. CASE UNCHANGED vars
  <2> USE <1>2 DEF vars, entries, registers, sched, IInv
  <2>1. TypeOK' /\ EntryInv'
    BY DEF TypeOK, EntryInv
  <2>2. TssInv'
    BY DEF TssInv
  <2>3. (\A c \in Cpu : Counted(c)' <=> Counted(c)) /\ CountedCpus' = CountedCpus
    BY DEF Counted, CountedCpus
  <2>4. SetUpInv'
    BY <2>3 DEF SetUpInv
  <2>5. StartInv'
    BY <2>3 DEF StartInv
  <2> QED BY <2>1, <2>2, <2>4, <2>5
<1> QED BY <1>1, <1>2

LEMMA IInvHolds == Spec => []IInv
  BY InitIInv, NextIInv, PTL DEF Spec

(* On any number of CPUs, every one that is past set_and_load_tss has its  *)
(* own TSS in its task register, and none has loaded a busy descriptor,    *)
(* although all of them write and load the one descriptor (gdt.c:83-100).  *)
THEOREM OwnTssHolds == Spec => []OwnTss
<1>1. IInv => OwnTss
  <2> SUFFICES ASSUME IInv, NEW c \in Cpu
               PROVE  pc[c] # "fault" /\ (pc[c] \in PastTss => tr[c] = c)
    BY DEF OwnTss
  <2>1. pc[c] # "fault"
    BY DEF IInv, TssInv
  <2>2. ASSUME pc[c] \in PastTss PROVE tr[c] = c
    BY <2>2 DEF IInv, SetUpInv, Counted, PastTss
  <2> QED BY <2>1, <2>2
<1> QED BY <1>1, IInvHolds, PTL

(* A CPU that executes smp_init_cpu finds its argument, and its stack, in  *)
(* its entry of smp_info, wherever in its loop the boot CPU is.            *)
THEOREM EntryCompleteHolds == Spec => []EntryComplete
<1>1. IInv => EntryComplete
  BY DEF IInv, EntryInv, EntryComplete, InitPcs
<1> QED BY <1>1, IInvHolds, PTL

(* The hand-over: the boot CPU is past the barrier of init_smp only when   *)
(* all N CPUs are set up, and a CPU has its timer armed only when there is *)
(* a thread in the run queue and its cpu_locals are ready for schedule().  *)
THEOREM HandOverHolds == Spec => []HandOver
<1>1. IInv => HandOver
  <2> SUFFICES ASSUME IInv PROVE HandOver
    OBVIOUS
  <2>1. BarrierHolds
    <3> SUFFICES ASSUME pc[Bsp] \in {"sched", "start"}, NEW c \in Cpu
                 PROVE  gs[c] = c /\ tr[c] = c /\ (c # Bsp => pc[c] \in {"await", "arm"})
      BY DEF BarrierHolds
    <3>1. Counted(c)
      BY DEF IInv, StartInv
    <3>2. gs[c] = c /\ tr[c] = c
      BY <3>1 DEF IInv, SetUpInv
    <3>3. ~sched_has_started
      BY DEF IInv, StartInv
    <3>4. ASSUME c # Bsp PROVE pc[c] = "await"
      BY <3>1, <3>3, <3>4 DEF IInv, StartInv, EntryInv, BootPcs, Counted
    <3> QED BY <3>2, <3>4
  <2>2. ReadyForTicks
    <3> SUFFICES ASSUME NEW c \in Cpu, timer[c]
                 PROVE  gs[c] = c /\ c \in zeroed /\ thread_queued
      BY DEF ReadyForTicks
    <3>1. pc[c] = "idle" /\ thread_queued
      BY DEF IInv, StartInv
    <3> QED BY <3>1 DEF IInv, SetUpInv, Counted
  <2> QED BY <2>1, <2>2 DEF HandOver, IInv
<1> QED BY <1>1, IInvHolds, PTL
=============================================================================
