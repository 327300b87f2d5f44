-------------------------------- MODULE Smp --------------------------------
(***************************************************************************)
(* Multiprocessor start-up: init_smp and smp_init_cpu (tasking/smp.c), the *)
(* TSS descriptor all CPUs share (set_and_load_tss, sys/gdt.c) and the     *)
(* hand-over to the scheduler (init_sched and sched_await,                 *)
(* tasking/scheduler.c).                                                   *)
(*                                                                         *)
(* CPUs are the indices of the boot loader's smp_info table.  The boot CPU *)
(* walks the table, initialises itself when it meets its own entry and     *)
(* starts the others by filling in their entries; a parked CPU jumps to    *)
(* smp_init_cpu when it finds its goto_address set.                        *)
(***************************************************************************)
EXTENDS Integers, FiniteSets

CONSTANTS
  N,     \* smp_info->cpu_count
  Bsp    \* index of the boot CPU's entry

Cpu == 0 .. N - 1
None == N      \* no CPU's structure: an unset pointer

ASSUME CountAssumption == N \in Nat \ {0}
ASSUME BspAssumption == Bsp \in Cpu

VARIABLES
  pc,                 \* where each CPU is
  i,                  \* the loop index of init_smp
  extra_argument,     \* smp_info[k].extra_argument: whose cpu_locals
  target_stack,       \* smp_info[k].target_stack: has one been allocated?
  goto_address,       \* smp_info[k].goto_address: is it set?
  gdt_lock,           \* bit 0 of gdt_lock
  tss,                \* gdt.tss: whose TSS it describes, and its busy flag
  locals,             \* the local variable of smp_init_cpu: extra_argument as read
  tr,                 \* whose TSS each CPU's task register refers to
  gs,                 \* whose cpu_locals get_locals() gives on each CPU
  zeroed,             \* cpu_locals whose scheduling fields have been reset
  inited_cpus,
  thread_queued,      \* the first kernel thread is in its run queue
  sched_has_started,
  timer               \* one-shot timer armed

entries == <<extra_argument, target_stack, goto_address>>
registers == <<locals, tr, gs>>
sched == <<thread_queued, sched_has_started>>
vars == <<pc, i, entries, gdt_lock, tss, registers, zeroed, inited_cpus, sched, timer>>

BootPcs == {"loop", "stack", "goto", "barrier", "sched", "start"}
InitPcs == {"arg", "tss_lock", "tss_write", "tss_load", "tss_unlock", "fields", "count"}
Pcs == {"parked", "await", "arm", "idle", "fault"} \cup BootPcs \cup InitPcs

TypeOK ==
  /\ pc \in [Cpu -> Pcs]
  /\ i \in 0 .. N
  /\ extra_argument \in [Cpu -> Cpu \cup {None}]
  /\ target_stack \in [Cpu -> BOOLEAN]
  /\ goto_address \in [Cpu -> BOOLEAN]
  /\ gdt_lock \in BOOLEAN
  /\ tss \in [base : Cpu \cup {None}, busy : BOOLEAN]
  /\ locals \in [Cpu -> Cpu \cup {None}]
  /\ tr \in [Cpu -> Cpu \cup {None}]
  /\ gs \in [Cpu -> Cpu \cup {None}]
  /\ zeroed \in SUBSET (Cpu \cup {None})
  /\ inited_cpus \in 0 .. N
  /\ thread_queued \in BOOLEAN
  /\ sched_has_started \in BOOLEAN
  /\ timer \in [Cpu -> BOOLEAN]

Init ==
  /\ pc = [c \in Cpu |-> IF c = Bsp THEN "loop" ELSE "parked"]
  /\ i = 0
  /\ extra_argument = [c \in Cpu |-> None]
  /\ target_stack = [c \in Cpu |-> FALSE]
  /\ goto_address = [c \in Cpu |-> FALSE]
  /\ gdt_lock = FALSE
  /\ tss = [base |-> None, busy |-> FALSE]
  /\ locals = [c \in Cpu |-> None]
  /\ tr = [c \in Cpu |-> None]
  /\ gs = [c \in Cpu |-> None]
  /\ zeroed = {}
  /\ inited_cpus = 0
  /\ thread_queued = FALSE
  /\ sched_has_started = FALSE
  /\ timer = [c \in Cpu |-> FALSE]

Move(c, from, to) == pc[c] = from /\ pc' = [pc EXCEPT ![c] = to]

---------------------------------------------------------------------------
(* init_smp, on the boot CPU.                                              *)

(* Mutant: the entry point is written before the stack.                    *)
ArgumentStarts ==
  /\ i < N
  /\ Move(Bsp, "loop", IF i = Bsp THEN "arg" ELSE "stack")
  /\ extra_argument' = [extra_argument EXCEPT ![i] = i]
  /\ goto_address' = [goto_address EXCEPT ![i] = i # Bsp]
  /\ UNCHANGED <<i, target_stack, gdt_lock, tss, registers, zeroed, inited_cpus, sched,
                 timer>>

(* The entry's argument is written first; its own entry makes the boot CPU *)
(* initialise itself, any other gets a stack next.                         *)
Argument ==
  /\ i < N
  /\ Move(Bsp, "loop", IF i = Bsp THEN "arg" ELSE "stack")
  /\ extra_argument' = [extra_argument EXCEPT ![i] = i]
  /\ UNCHANGED <<i, target_stack, goto_address, gdt_lock, tss, registers, zeroed,
                 inited_cpus, sched, timer>>

Stack ==
  /\ Move(Bsp, "stack", "goto")
  /\ target_stack' = [target_stack EXCEPT ![i] = TRUE]
  /\ UNCHANGED <<i, extra_argument, goto_address, gdt_lock, tss, registers, zeroed,
                 inited_cpus, sched, timer>>

GotoAddress ==
  /\ Move(Bsp, "goto", "loop")
  /\ goto_address' = [goto_address EXCEPT ![i] = TRUE]
  /\ i' = i + 1
  /\ UNCHANGED <<extra_argument, target_stack, gdt_lock, tss, registers, zeroed,
                 inited_cpus, sched, timer>>

EndLoop ==
  /\ i = N
  /\ Move(Bsp, "loop", "barrier")
  /\ UNCHANGED <<i, entries, gdt_lock, tss, registers, zeroed, inited_cpus, sched, timer>>

(* Wait until every CPU has counted itself.                                *)
Barrier ==
  /\ inited_cpus = N
  /\ Move(Bsp, "barrier", "sched")
  /\ UNCHANGED <<i, entries, gdt_lock, tss, registers, zeroed, inited_cpus, sched, timer>>

---------------------------------------------------------------------------
(* smp_init_cpu, on every CPU.                                             *)

(* The boot loader's loop on a parked CPU: external to the kernel.         *)
Unpark(c) ==
  /\ goto_address[c]
  /\ Move(c, "parked", "arg")
  /\ UNCHANGED <<i, entries, gdt_lock, tss, registers, zeroed, inited_cpus, sched, timer>>

ReadArgument(c) ==
  /\ Move(c, "arg", "tss_lock")
  /\ locals' = [locals EXCEPT ![c] = extra_argument[c]]
  /\ UNCHANGED <<i, entries, gdt_lock, tss, tr, gs, zeroed, inited_cpus, sched, timer>>

(* Mutant: the descriptor is used without gdt_lock.                        *)
TssLockMissing(c) ==
  /\ Move(c, "tss_lock", "tss_write")
  /\ UNCHANGED <<i, entries, gdt_lock, tss, registers, zeroed, inited_cpus, sched, timer>>

(* set_and_load_tss: there is one TSS descriptor in the one GDT.  LTR marks *)
(* it busy and faults on a descriptor that is busy already.                 *)
TssLock(c) ==
  /\ ~gdt_lock
  /\ Move(c, "tss_lock", "tss_write")
  /\ gdt_lock' = TRUE
  /\ UNCHANGED <<i, entries, tss, registers, zeroed, inited_cpus, sched, timer>>

TssWrite(c) ==
  /\ Move(c, "tss_write", "tss_load")
  /\ tss' = [base |-> locals[c], busy |-> FALSE]
  /\ UNCHANGED <<i, entries, gdt_lock, registers, zeroed, inited_cpus, sched, timer>>

TssLoad(c) ==
  /\ Move(c, "tss_load", IF tss.busy THEN "fault" ELSE "tss_unlock")
  /\ tss' = [tss EXCEPT !.busy = TRUE]
  /\ tr' = [tr EXCEPT ![c] = IF tss.busy THEN @ ELSE tss.base]
  /\ UNCHANGED <<i, entries, gdt_lock, locals, gs, zeroed, inited_cpus, sched, timer>>

TssUnlock(c) ==
  /\ Move(c, "tss_unlock", "fields")
  /\ gdt_lock' = FALSE
  /\ UNCHANGED <<i, entries, tss, registers, zeroed, inited_cpus, sched, timer>>

(* Reset the scheduling fields, publish the structure in the GS base and   *)
(* set up the local APIC.                                                  *)
Fields(c) ==
  /\ Move(c, "fields", "count")
  /\ zeroed' = zeroed \cup {locals[c]}
  /\ gs' = [gs EXCEPT ![c] = locals[c]]
  /\ UNCHANGED <<i, entries, gdt_lock, tss, locals, tr, inited_cpus, sched, timer>>

(* An application CPU goes on to wait for the scheduler; the boot CPU      *)
(* returns to the loop of init_smp.                                        *)
Count(c) ==
  /\ Move(c, "count", IF c = Bsp THEN "loop" ELSE "await")
  /\ inited_cpus' = inited_cpus + 1
  /\ i' = IF c = Bsp THEN i + 1 ELSE i
  /\ UNCHANGED <<entries, gdt_lock, tss, registers, zeroed, sched, timer>>

InitCpu(c) ==
  \/ Unpark(c)
  \/ ReadArgument(c)
  \/ TssLock(c)
  \/ TssWrite(c)
  \/ TssLoad(c)
  \/ TssUnlock(c)
  \/ Fields(c)
  \/ Count(c)

---------------------------------------------------------------------------
(* The scheduler's start.                                                  *)

(* init_sched creates and enqueues the first kernel thread, then lets      *)
(* everybody go.                                                           *)
QueueFirstThread ==
  /\ Move(Bsp, "sched", "start")
  /\ thread_queued' = TRUE
  /\ UNCHANGED <<i, entries, gdt_lock, tss, registers, zeroed, inited_cpus,
                 sched_has_started, timer>>

StartScheduler ==
  /\ Move(Bsp, "start", "await")
  /\ sched_has_started' = TRUE
  /\ UNCHANGED <<i, entries, gdt_lock, tss, registers, zeroed, inited_cpus,
                 thread_queued, timer>>

(* Mutant: sched_await does not wait for the scheduler to start.           *)
AwaitAtOnce(c) ==
  /\ Move(c, "await", "arm")
  /\ UNCHANGED <<i, entries, gdt_lock, tss, registers, zeroed, inited_cpus, sched, timer>>

(* sched_await: spin, arm the timer with interrupts off, then halt.        *)
Await(c) ==
  /\ sched_has_started
  /\ Move(c, "await", "arm")
  /\ UNCHANGED <<i, entries, gdt_lock, tss, registers, zeroed, inited_cpus, sched, timer>>

(* Mutant: only the application CPUs start their timers.                   *)
ArmNotBsp(c) ==
  /\ Move(c, "arm", "idle")
  /\ timer' = [timer EXCEPT ![c] = c # Bsp]
  /\ UNCHANGED <<i, entries, gdt_lock, tss, registers, zeroed, inited_cpus, sched>>

Arm(c) ==
  /\ Move(c, "arm", "idle")
  /\ timer' = [timer EXCEPT ![c] = TRUE]
  /\ UNCHANGED <<i, entries, gdt_lock, tss, registers, zeroed, inited_cpus, sched>>

BootCpu ==
  \/ Argument
  \/ Stack
  \/ GotoAddress
  \/ EndLoop
  \/ Barrier
  \/ QueueFirstThread
  \/ StartScheduler

SchedAwait(c) == Await(c) \/ Arm(c)

(* Start-up ends with every CPU halted, waiting for its first tick.        *)
Finished == (\A c \in Cpu : pc[c] = "idle") /\ UNCHANGED vars

Next == BootCpu \/ (\E c \in Cpu : InitCpu(c) \/ SchedAwait(c)) \/ Finished

Spec == Init /\ [][Next]_vars

(* No CPU stops executing instructions.                                    *)
FairSpec ==
  /\ Spec
  /\ WF_vars(BootCpu)
  /\ \A c \in Cpu : WF_vars(InitCpu(c)) /\ WF_vars(SchedAwait(c))

---------------------------------------------------------------------------
(* Properties.                                                             *)

(* Once past set_and_load_tss every CPU's task register refers to its own  *)
(* TSS, although all of them pass through one descriptor, and no CPU loads *)
(* a descriptor that another one has already made busy.                    *)
PastTss == {"tss_unlock", "fields", "count", "await", "arm", "idle", "barrier", "sched",
            "start"}
OwnTss ==
  \A c \in Cpu : /\ pc[c] # "fault"
                 /\ pc[c] \in PastTss => tr[c] = c

(* A CPU that may take a timer tick finds what schedule() needs: its own,  *)
(* reset cpu_locals and a run queue that is not empty (with all queues     *)
(* empty the search for a level would never end).                          *)
ReadyForTicks ==
  \A c \in Cpu : timer[c] => gs[c] = c /\ c \in zeroed /\ thread_queued

(* The boot CPU leaves init_smp only when every CPU is initialised, so     *)
(* nothing it does afterwards meets a CPU that is not.                     *)
BarrierHolds ==
  pc[Bsp] \in {"sched", "start"} =>
    \A c \in Cpu : gs[c] = c /\ tr[c] = c /\ (c # Bsp => pc[c] \in {"await", "arm"})

(* A CPU is started only when its argument and its stack are in place.     *)
EntryComplete ==
  \A c \in Cpu : pc[c] \in InitPcs =>
    extra_argument[c] = c /\ (c # Bsp => target_stack[c])

(* Start-up ends: every CPU comes to wait for its first tick.              *)
AllCpusUp == <>[](\A c \in Cpu : pc[c] = "idle" /\ timer[c])

(* The hand-over from init_smp to the scheduler, in both directions: the   *)
(* boot CPU waits for the others' set-up and they wait for its thread.     *)
HandOver == TypeOK /\ BarrierHolds /\ ReadyForTicks
=============================================================================
