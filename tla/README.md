# A TLA+ verification of the MandelbrotOS kernel

MandelbrotOS is a small multiprocessor operating system for x86-64, written in
C. This directory models the parts of its kernel whose correctness depends on
interleavings, bounds and order, checks them with TLC on small instances, and
proves the most important invariants with TLAPS for instances of any size.

Source paths below are relative to `src/kernel/` unless they start with
`prog/` or `libc/`.

## 1. The system and its parts

| Part | Source | State | Operations | Hard because |
|---|---|---|---|---|
| Spinlocks | `include/lock.h` | a bit and a waiter count | `LOCK`, `LOCK_ACQUIRE`, `UNLOCK` | several CPUs, and interrupts on each |
| Scheduler | `tasking/scheduler.c` | run queues, per-CPU locals, `thread_t` | `schedule`, `sched_enqueue`, fork, spawn, exec, exit | preemption at any step, several CPUs, lock order |
| Vectors | `include/vec.h` | data, length, capacity | push, remove, splice | growth allocates, callers keep indices |
| SMP start-up | `tasking/smp.c`, `sys/gdt.c` | boot table, GDT, counters | `init_smp`, `smp_init_cpu`, `set_and_load_tss` | order of publication, one shared descriptor |
| Events and `waitpid` | `event.c`, `tasking/scheduler.c` | `pending` and a lock per process | `event_await`, `event_trigger`, exit, wait | polling without the lock, early return |
| Physical memory | `mm/pmm.c` | page bitmap | `pmalloc`, `pcalloc`, free | test and mark are separate critical sections |
| Kernel heap | `mm/liballoc.c`, `mm/kheap.c` | majors, minors, best bet | malloc, free, realloc | list surgery, best-fit cache, sizes |
| Virtual memory | `mm/vmm.c` | page tables, ranges | map, unmap, fork, destroy, mmap | two descriptions of one address space |
| System calls | `sys/syscall.c` | descriptor tables, offsets | open, close, read, write, seek, pipe, dup, mmap... | reference counts, partial failure |
| Pipes | `pipe/pipe.c` | buffer, head, tail | read, write | reader against writer, bounds |
| VFS, devfs | `fs/vfs.c`, `fs/devfs.c` | mounts, file systems | open, create, mount, close, permissions | path dispatch, reference counts |
| tmpfs | `fs/tmpfs.c` | tree of nodes | find, create, delete, read, write | tree surgery |
| FAT32 | `fs/fat32.c` | FAT, directory entries | chains, truncate, write, create, mkdir, delete | entry widths, chain ends, read-modify-write |
| AHCI, MBR, devices | `drivers/ahci.c`, `drivers/mbr.c`, `dev/device.c` | command slots, partitions | read, write | slots, sector arithmetic, timeouts |
| Keyboard, mouse, tty | `drivers/ps2.c`, `dev/tty.c`, `dev/mousedev.c` | last key, mouse bytes | handlers, `getchar`, `tty_read` | handler against reader |
| Interrupts | `sys/irq.c`, `sys/isr.c`, `sys/idt.c` | handler table | install, dispatch | table read without its lock |
| Timers | `drivers/apic.c`, `drivers/pit.c`, `drivers/rtc.c` | one-shot timer, calibration | arm, stop, calibrate | calibration is concurrent at boot |
| ELF loader | `elf.c` | none of its own | load | partial loads |
| PCI, ACPI, console, boot | `pci/`, `acpi/`, `fb/`, `main.c` | tables | enumeration, printing | little: no later state changes |
| C library, programs | `libc/`, `prog/` | user space | wrappers, conversions, drawing | clients of the above |

How they interact: every system call runs with interrupts enabled (the gate is a
trap gate), so a timer tick may preempt a thread inside the kernel, with the
heap lock held, for instance. `schedule()` runs with interrupts disabled.
Enqueueing a thread pushes it on a vector, which may call the heap; the heap
calls the page allocator. Exit and wait meet in a process's event. Fork copies a
descriptor table and an address space; from then on two processes share open
files, pipes and shared mappings, and nothing but their reference counts and the
page bitmap keeps them apart. A file is reached through the mount its path begins
with; below it are the FAT driver, the partition's byte ranges and the disk.

The hazards this structure has are listed in `PROJECT.json`, each at the line
where it bites, with the properties that would catch it or the reason why none
does.

## 2. Modules

### SpinLock, Mutex
`SpinLock` models `LOCK`, `LOCK_ACQUIRE` and `UNLOCK` one locked instruction at
a time: the increment of `waiting_refcount`, `btsl $0`, `btl $1`, the
decrement. Bit 1, which would let a waiter give up, is never set by the kernel;
that exit is therefore in the model and shown unreachable. `Mutex` is the
abstract lock the macros implement. Every other module uses this result: a
`LOCK` is one step that waits for the bit to be clear and sets it.

### Scheduler
One CPU executes either a register context `ctx[c]` (a program point, and the
thread being enqueued there) or `schedule()` (`hpc[c]`). A context is saved in
`regs[t]` when its thread is switched out. The steps of a thread are those of
the code that touches shared scheduling state: creating a thread (`sched_fork`,
the spawning path of `sched_run_program`), the heap lock around allocations
(`liballoc_lock`, `liballoc_unlock`), `sched_enqueue` (flag test, `EnqueueLock`,
`vec_push`, `GrowLock`, `vec_expand`, `EnqueueUnlock`) and `sched_exit`, which
ends in an endless loop. What a program does between them, and when, is left
open (`ProgramChoice`).

`schedule()` is split where another CPU can come in between:

| Action | `tasking/scheduler.c` |
|---|---|
| `Tick` | 315-326: stop the timer, try `sched_lock`, note the old level |
| `Rearm` | 317-321: the lock was taken |
| `NextLevel` | 328-336: one turn of the search for a level with threads |
| `NoneTaken`, `SameTaken`, `SwitchTo` | 338-371: `sched_get_next_thread` and its three outcomes |
| `Keep` | 343-356: re-arm, unlock, return |
| `Release` | 375: unlock |
| `switch_and_run_stack` | 377: load the registers |

While `sched_lock` is held nothing else changes run queues, `thread->lock` or
`current_thread`, so each of the middle actions is one step. Page maps and FPU
state follow the registers and are not separate variables. Kernel stacks do not:
from line 359, where `schedule()` gives up the old thread's lock, to line 377 it
still runs on that thread's stack (`stack`, `OnStack`). While `sched_lock` is held
nobody can choose the thread; between the unlock at 375 and the switch at 377
another CPU can, and be on the same stack. Either may then find its words written
over (`Overwrite`). A CPU that goes on with such words may do anything, so a
behaviour is followed up to there (`astray`).

### ThreadMachine, SchedulerRefinement
`ThreadMachine` says what a thread may rely on: it is a sequential process with
registers of its own, runs only after it was enqueued, and is alone in the
heap's and the run queue's critical sections. `SchedulerRefinement` maps
`Scheduler` to it: a thread's context is the one on the CPU that has loaded it,
or else the saved one. The mapping is stated as long as no stack was written over:
in the window of lines 375-377 nothing keeps a thread's context from that.

### SchedulerExec
`Scheduler` with the replacing path of `sched_run_program` (execve): the running
thread's structure is overwritten (`Replace`), the address spaces are exchanged
under `sched_lock` and the new registers are loaded (`ReplaceJump`), all with
interrupts enabled. The allocations on the way are those `HeapCall` stands for.

### Smp
`init_smp` on the boot CPU, `smp_init_cpu` on all, `set_and_load_tss` with its
single descriptor (loading it sets its busy flag and faults if it is set), and
the start of the scheduler. `Unpark`, a parked CPU jumping to its
`goto_address`, is the boot loader's and external.

### WaitPid
One parent, which forks children and calls `waitpid`, and its children, which
exit. `pending` is counted by a load and a store, as the unoptimised build does.
The uninitialised variables of `sched_waitpid` (`child`, and `*events` for a pid
that is no child's) are choices over what may be found there. The calls a
parent makes are a parameter of its program (`calls`).

### Liballoc, Allocator
The heap over the page allocator. `majors` is the list at `l_memRoot`, each with
its list of minors; the header structures' links are the order of the two
sequences. `malloc` and `free` hold the heap lock throughout and are one step
each (`liballoc_malloc`, `liballoc_free`); `realloc` is three (`Realloc`,
`ReallocMalloc`, `ReallocFree`), between which other threads come in. The search
of `malloc` (lines 276-517) is `Search`: the majors it visits, from the best bet
to the end and then from the root, up to the first with a gap that has room. The
five cases differ in the gap taken (`GapUsed`) and in whether an added major is
compared with the best bet (`NewBet`). `ALIGN` and `UNALIGN` are arithmetic on
addresses (`Padding`, `Found`). The contents of blocks are left out. Pages come
from `pmalloc` as it is written: the first free page and those behind it. The
heap is its only caller here, always with the heap lock held, so its two
critical sections are one step. When no page is free it never returns
(`OutOfMemory`). `Allocator` is what callers rely on: disjoint blocks that only
the call made for them changes.

### Memory
Page bitmap, page tables, ranges and page contents of two processes that call
mmap (private, shared, framebuffer), munmap, fork and execve, and store to their
pages. Each `pmalloc` is two steps (`Find`, `Take`), since `mm/pmm.c:52` unlocks
before line 53 marks, so calls of two processes interleave piece by piece.
`view` is what each process last saw at each page, the reference for
`Isolation`. `Destroyed` is what `vmm_destroy_pagemap` frees at execve. Exit
frees nothing in the code and is no action. `munmap` takes any range of the list
(also of the program itself) and any length. Where pages in use are handed out or
freed a behaviour ends (`spoiled`), and `MayFreeUsed` says in which cases that can
be (`"known"`): the race of two `pmalloc`, a run whose later pages were not tested,
`munmap` of a range that is not the last (line 257 of `sys/syscall.c` reads the
one moved into its place), `munmap` of fewer pages than the range has (all are
freed, the rest stay mapped: `partial`), and a shared mapping freed by one of two
processes.

### Files
Descriptor tables and `fs_file_t` objects of two processes: open, close, read,
write, seek, `F_DUPFD`, pipe, remove, stat and fork, with reference counts and
offsets loaded and stored in separate steps. `F_DUPFD` searches from its argument.
A behaviour ends where freed memory is read or written (`undefined`, as
`StoreFreed` does) or two updates of one object overlap (`raced`), of which the
code loses one; what holds up to there is what a single user of a file may rely
on.

### Pipe, Channel
One writer and one reader in the loops of `vfs_write` and `vfs_read`. The bytes
written are their own places in the stream. `Channel` is the abstract queue.
Since `pipe_write` refuses what would reach the end of the buffer, a pipe
transports less than its capacity once, and its wrap is never taken. `pipe_read`
compares its count with nothing: a read of more than is stored returns bytes
nobody wrote (`Unwritten`) and moves the tail past the head, and to the start of
the buffer from its end, from where everything is read a second time. `overread`
notes the first such read; the channel is implemented up to there.

### Vfs
The mount table as `k_thread` fills it, `vfs_find_mount` and the rest of a path
on all short paths, the names in the DEVFS (a tmpfs), and open with `O_CREAT`.

### Fat32
The driver on a partition of ten clusters. FAT entries are numbers, of which
`fat_change_fat_value` writes the low byte (`@ - (@ % 256) + (v % 256)`); end
marks are the three values the code compares with; cells are directory entries
or units of file data. `Scan` allows for the comparison with a freed name.
Directory 0 is the root, and an index equal to the number of entries, which
`fat_set_dir_entry` lets through (line 232), writes past its buffer and ends a
behaviour (`WithinBuffer`).
Cluster numbers confused with entry numbers (`fat_get_free_dir_entry_chain`) and
files with directories (`fat_delete`) are as in the code. `spoiled` notes
clusters whose link was overwritten while they were in use; the properties are
stated for files and directories that have none of these (`Clean`, `Kept`).

### Disk, BlockDevice
`Disk`: a port's start (`ahci_port_init`), probing of the partition table, and
requests through command slots, with a controller (external) that is busy,
completes or fails, after which it stays stopped. `ahci.c:159` counts `count32`
down for every entry of the command table but the last, so that the drive is
asked for the sectors of the last entry only and the request still reports
success (`LastEntry`, `Filled`). Buffer addresses are cut to 32 bits (`Dba`), which
changes none of those `init_vmm` maps (`BufferAssumption`). `BlockDevice`: how
`device_read` and `device_write` cut a byte range into blocks, against the bytes
of the range, for every range on four blocks.

### Input
The keyboard and mouse handlers against `getchar` in `tty_read` (two readers)
and `getmouse`, byte by byte. `Returned` has the place at which `tty_read` puts its
terminating 0 (`dev/tty.c:38`), one further than the end of what it read.

### Format, Printf, Stdio
`Format` is the parsing of a directive and the printing of an integer that the
two `vprintf`s have in common, on sequences of characters. `Printf` is the
kernel's, with `printf_lock` and the screen: cursor, newline, backspace,
carriage return, and scrolling (`knewline` scrolls the text by two rows and
moves the pen up by one). `tty_write`, and the echo of `tty_read`, put characters
on the same screen without the lock (`ttyPut`): between two characters of a
`printf`, which is followed, or while another CPU is in `putc`, where a behaviour
ends (`garbled`). `Stdio` is libc's. `PrintsNumber` compares what is printed, read
back, with the value passed, and its length with the width. Padding zeros precede
the sign (`%05d` of -5 is `000-5`), which `Shows` allows for. It leaves out numbers
with the flags `-` and `0`, which zeros follow, the least `intmax_t`, and unsigned
values above the largest `intmax_t` in libc, which prints them as negative. The
types have two to five bits.

### Args
Where `sched_load_args_to_stack` puts strings and arrays on the stack of a
program, and what its pointers name, for up to two strings in each array.

### UserHeap
libc's copy of liballoc (an instance of `Liballoc`) over mmap: addresses that
only grow, a limit of the process that is never given back, one thread.

## 3. What is checked

| Run | Instance | Result |
|---|---|---|
| `scheduler_safety` | 2 CPUs, 3 threads, 1 queued, 1 level | lock exclusion, one CPU per thread, heap lock across preemption, queue slots, kernel stacks apart but for lines 375-377, refinement of `ThreadMachine` |
| `scheduler_liveness` | 2 CPUs with 3 queued threads; 1 CPU with 3 levels and a thread each | no starvation, timers re-armed, one CPU per thread across levels |
| `scheduler_fork_grow` | 1 CPU, a full run queue | violated: fork may hang (finding) |
| `exec_entry` | 1 CPU, 2 threads | violated: execve may miss its program (finding) |
| `smp` | 4 CPUs, boot CPU second in the table | own TSS, entries complete, hand-over to the scheduler, all CPUs up |
| `waitpid` | 3 children; any calls, or calls by pid | exits accounted, results right, waits return |
| `waitpid_shell` | 2 children, `wait()` only | violated: the second wait may hang (finding) |
| `spinlock` | 4 contexts | exclusion, refinement of `Mutex`, progress |
| `heap` | 2 threads, 4 blocks of 2 sizes, 3 majors of 2 pages | blocks disjoint and found again, lists and counters, copies fit, pages returned, refinement of `Allocator` |
| `heap_large` | the same with blocks that need 3 pages | violated: a major gets pages of another (finding) |
| `devices` | `Pipe`, `Disk`, `Input`, `BlockDevice` | refinement of `Channel`, delivery, requests exact and ending, input in order, ranges exact |
| `services` | `Files`, `Fat32`, `Memory`, `Printf`, `Stdio`, `Vfs`, `Args`, `UserHeap` | what programs rely on, see below |

`devices` (module `Devices`) and `services` hold several modules that share no
state: a behaviour chooses one of them (`scene`) at the start and moves only it, so the states add
up instead of multiplying. Their properties join the invariants the component
modules define:

- `PipeIsChannel`: until a read asks for more than is stored, `ImplementsChannel`
  and `InOrder`; always, the ends stay in the buffer (`EndsInside`).
  `PipeDelivers`: a reader in a loop is given as many bytes as were written.
- `DiskExact`: a request that reports success moved the first sectors asked for,
  as many as the last entry of its command table takes, which are all if there is
  one entry (`DoneRight`); none changed others (`OthersKept`), devices are the
  partitions
  (`DevicesMatch`), the command list moves only under stopped engines
  (`BaseMoved`); `DiskReturns`.
- `InputInOrder`: `KeysInOrder`, `LineComplete`, `PacketsFramed`, `MovesOnce`.
  Keys may be lost, and two readers may both get one; no reader gets a key twice
  or out of order.
- `RangesExact`: `ReadsRange`, `WritesRange`.
- `DescriptorsOwn`, until two updates of one file overlap: a regular file lives
  exactly as long as its descriptors (`RegularAlive`, `LastCloseFrees`), a pipe
  exactly as long as two of them (`PipeAlive`), reads and writes leave an offset
  that is inside the file there (`OffsetInside`); `syscall_seek` bounds nothing.
- `FatContents`: files read back as written and cached entries are current, for
  what was not removed and lost no link to a create or a remove elsewhere.
  `FatStructure`: chains end and are long enough; those that lost no link are
  disjoint but for cluster 248, which one-byte writes (line 84) put into all new
  ones; names are unique in a directory up to its first long name.
- `SpacesApart`: until pages in use are handed out or freed, `Isolation`,
  `FramesExclusive`, `RangesMapped`; and `MayFreeUsed`, the ways they can be freed.
- `PrintedWhole`: `printf`s are not mixed with one another, though with what the
  terminal puts, and the screen shows the last lines; `PrintsNumber` for both
  `vprintf`s.
- `PathsLead`: `PathSplit`, `NodesReached`. `ArgsReadable`. `UserHeapOwned`.

Where the code breaks the plain sentence (a pipe is a channel, a request moves what
was asked for, chains are disjoint), the property says what the code does keep,
and the comment of the property, the hazard and the list above name the line that
breaks the rest.

In the same way `HandOver` (smp), `Accounting` (waitpid) and `ListsSound` (heap)
join the type invariants with the invariants that belong together.

**Bounds.** Two CPUs are what two-party races of `schedule()` need, and what the
repository's QEMU command line gives the system; three threads on two CPUs leave
one waiting. Starting from one queued thread, two creations take the queue
through both of its first growths (capacities 1, 2, 4). In `scheduler_liveness`
all threads are queued, so that growth does not occur: what growth does to
liveness is the finding of `scheduler_fork_grow`. Four CPUs with the boot CPU in
the second place let some start before and some after it. Three children let a
scan meet one that has exited, one that is exiting and one that runs.
In `heap` a major holds two or three blocks, so that gaps in front of, between
and behind blocks are found and reused, majors are added after both CASE 1 and
CASE 5 and leave the list at every place, and memory does run out; the sizes are
odd and even so that `ALIGN` pads differently. Header sizes (3) and alignment (2)
keep the proportion of the real ones in that a header is no multiple of the
alignment.

In `services` two processes share what fork gives them; the descriptor tables
have room for a terminal, a pipe or a file, and run full. The FAT images end
their chains in either of two marks, have a file of two clusters, a long name
and a subdirectory that a new entry fills, with cluster 248 in use or free; in one
the root has two clusters. Three calls of mmap, munmap, fork and execve, in any
order and by two processes, reach every way in which pages in use are freed;
twelve frames are enough for a fork and an execve, and run out in other orders.
In `devices` the pipe fills and is read past its end, the disk
has two tables with a used and an unused entry and requests of one to three
sectors with two to an entry of the command table, and ranges start and end at
every byte of four blocks.

**Priorities.** All threads of the system inherit priority 0 from the first
kernel thread. With threads at several levels on several CPUs the exclusion
properties do not hold (a search that finds nothing changes the CPU's current
level, and the comparison at line 351 is then made against the wrong level), so
they are checked and proved for one level in use (`SingleLevel`), and several
levels are checked on one CPU.

**Fairness.** Weak fairness of each CPU's own instructions and of its armed
timer: a CPU does not stop. `scheduler_fork_grow` and `exec_entry` add that a
step a thread finds possible slice after slice is taken eventually (a slice is
5 ms), so that their counterexamples are not cases of a thread without time.
`SpinLock` assumes that critical sections end. `WaitPid` assumes time slices for
all processes, which is what `NoStarvation` shows of the scheduler. The spinlock
is not fair to its waiters and no run assumes it is; a parent that polls with
`WNOHANG` in a loop can therefore delay a child's exit without bound, and
`ExitCompletes` is stated for parents that do not.

The reader of a pipe is in a loop and both threads are given the CPU; nobody has
to write. A controller whose engine runs ends what it was given, well or not,
unless an earlier failure stopped it, and engines follow their switches, which
is what the AHCI driver's unbounded waits rely on.

**Deadlock** is checked except in `WaitPid`, where processes may stop making
calls and `sched_exit` ends in a loop that changes nothing, in `Liballoc`, where
`pmalloc` halts when memory runs out, and in `devices` and `services`, where
programs may stop making calls and behaviours end at undefined steps.

## 4. Findings

1. `scheduler_fork_grow` — `sched_enqueue` grows the run queue, and so waits for
   the heap lock, with `sched_lock` held (`tasking/scheduler.c:60`). If the owner
   of the heap lock has been preempted, no CPU can schedule it any more.
2. `exec_entry` — a tick between lines 499 and 515 of `tasking/scheduler.c` saves
   the interrupted context over the registers execve has prepared.
3. `waitpid_shell` — `event_await` returns at `event.c:12` without releasing the
   locks it took at lines 6-7.
4. `heap_large` — `pmalloc` tests one bit for a run of pages (`mm/pmm.c:49`), so a
   run may reach into pages in use. As long as all majors have the same size and
   nobody else allocates, this cannot happen, which is the case `heap` checks.

## 5. What is proved

`SpinLockProofs`, for any finite set of contexts: exclusion, the waiter count and
the refinement of `Mutex`. The inductive invariant joins the three: the bit is
set exactly while somebody is between `btsl` and `btrl`, that context is unique,
and bit 1 is never set.

`SchedulerProofs`, for any CPUs, threads and number of levels: type correctness,
and exclusion of `sched_lock`. Type correctness
needs two additions: a context at an enqueueing point carries a thread, and a
CPU in the second half of `schedule()` has a current thread. Exclusion is
inductive once it also says that the context a CPU gives up between unlocking
and loading (`Release` to `switch_and_run_stack`) is outside the critical
section.

`SchedulerThreadProofs`, under `SingleLevel`: one CPU per thread, queue
consistency, exclusion of the heap lock, kernel stacks apart outside lines
375-377, and the refinement of `ThreadMachine`. The invariant says where a thread is
(`PlaceInv`: locked exactly when current, current threads are queued, in the slot
the CPU remembers) and what is still to be enqueued (`PendingInv`: a thread being
enqueued exists, is in no queue and is being enqueued by one thread only, which
makes each push the first for its thread). Three lemmas carry it: `schedule()`
changes no thread's context (`SwitchContexts`), a step outside it changes only
the context of the thread that takes it and of one it creates (`OwnStep`), and
each such step has one of three effects on the queues (`StepShape`). The same
lemmas give the refinement of `ThreadMachine`: the steps of `schedule()` are
stutters and every other step is one of its thread, as long as no stack was
written over. It needs one more fact, that
`sched_enqueue` finds the flag of the thread it is given clear (`FlagInv`), since
the abstract enqueueing has no such test. That stacks are apart rests on
`sched_lock`: the thread whose stack a CPU is leaving is current nowhere until
that CPU has given the lock up, since only its holder makes a thread current.

`SmpProofs`, for any number of CPUs and any place of the boot CPU in the table:
`OwnTss`, `EntryComplete`, `HandOver`. The invariant follows the boot CPU's loop
(`EntryInv`: an entry that lets its CPU go is complete and is not touched again),
the shared descriptor (`TssInv`: `gdt_lock` is held by one CPU, which between
writing and loading finds its own TSS there), each CPU's set-up (`SetUpInv`) and
the counter (`StartInv`: `inited_cpus` is the number of CPUs past their
increment, so a boot CPU that reads N has seen all of them). The last one rests
on the cardinality theorems for finite sets.

`WaitPidProofs`, for any number of children and any calls: `Accounting` and
`ReturnsExitedChild`. `pending` is counted up under the lock and down without it.
That nothing is lost is inductive only together with the reason: the parent
starts to count down when the child has stored its 1, and no child exits twice
(`CountInv`). It also needs that a child is in the list once (`ListInv`) and that
the list a call scans is the one it locked (`CallInv`, `LockInv`).

`DevicesProofs`, for the composition `Devices` with any constants:
- `PipeIsChannel`, for any capacity and counts, long reads included. Below the
  head every place holds the byte of its number, also while more are being copied
  in, and as long as no read asked for too much, as many bytes have been read as
  the tail says (`WriterInv`, `ReaderInv`); each `pipe_write` is the abstract send
  at the step that moves the head and each `pipe_read` the receive at the step
  that moves the tail.
- `InputInOrder`, for any number of readers, keys and bytes. What a reader has is
  older than the key it holds, and both are older than a key that waits
  (`OrderInv`); a byte's place in the packet is its number modulo 3 and what
  `getmouse` has copied, like what is left in `mouse_keys`, is newer than every
  packet given (`MouseInv`).
- `DiskExact`, from `DiskProofs`: what the command in a request's slot says and
  how far it has been carried out at each point (`ListInv`, `MoveInv`), and that
  the devices found so far are the used entries passed so far (`MatchInv`,
  counted with `Cardinality`).
- `RangesExact`, from `BlockDeviceProofs`, for any block size: the three pieces of
  a range (the rest of the first block, whole blocks, the start of the last one)
  are joined by lemmas on cutting and joining sequences (`CutsJoin`, `CutOfCut`,
  `Splice`) and on multiples of the block size (`Euclid`, `MultipleBelow`).

`DiskProofs` and `BlockDeviceProofs` hold lemmas only; `DevicesProofs` takes them
through `INSTANCE` into the composition.

Assumptions: the named `ASSUME`s. In `Scheduler` and `SpinLock`: some CPU, a
positive number of levels, a NULL distinct from threads, initial queues without
duplicates whose capacities are those `vec_push` gives, finitely many contexts.
In `Smp`: some CPU, the boot CPU among them. In `WaitPid`: the uninitialised
values and NULL are no children. In `Devices`: sizes, counts and slots are
natural numbers, capacities, block sizes and requested counts are not zero, and
buffers of the disk driver lie below 4 GiB, as everything `init_vmm` maps does.
`SingleLevel` is a hypothesis of the theorems that need it (see Priorities).

Only model-checked:
- everything temporal other than invariants and steps (`NoStarvation`,
  `TimerRearmed`, `AllCpusUp`, `ExitCompletes`, `WaitByPidReturns`, `Progress`,
  `PipeDelivers`, `DiskReturns`), because the prover handles neither fairness nor
  ENABLED;
- `FatContents`, `FatStructure`, `PrintedWhole`, `PrintsNumber`: chains, directives
  and digits are followed by recursion over data, whose results the prover cannot
  establish by induction, and `Format`, `Printf` and `Stdio` use recursive
  operators, which keeps the whole composition `MCServices`, with `DescriptorsOwn`,
  `SpacesApart`, `PathsLead`, `ArgsReadable` and `UserHeapOwned`, from the prover;
- the heap (`PagesExclusive`, `BlocksOwned`, `ListsSound`, `CopyFits`): its
  counters are sums over lists (`FoldSeq`, again induction), and `PagesExclusive`
  does not hold for all constants (finding 4);
- `OneCpuAcrossLevels`, several levels on one CPU.

## 6. Not modelled

Left out of the modules that exist, with what the code does there:

- **Processes.** Ids (unlocked counters, execve's new pid) are not state here;
  processes are model values. `sched_destroy_thread` is never called. Exit
  frees neither descriptors nor pages.
- **Memory.** `MAP_FIXED`; private mappings of the framebuffer, which
  `vmm_fork_pagemap` maps with flags and protection exchanged and lists twice
  (`mm/vmm.c:189-196`); page-table pages below the top level, programs with several
  loadable segments, `init_pmm` and `init_vmm`. The old kernel stack is never
  freed at execve, which `Memory` shows but states nothing of.
- **Files.** Permission checks (all threads have uid 0), getpid, gettimeofday and
  fsync. tmpfs directories and FIFOs, which no system call makes. What a lost
  update of a count or an offset leads to (`raced`).
- **FAT32.** `fat_truncate` and `fat_readdir`, which no system call reaches, and
  growth by writing, since `syscall_write` cuts a write at the end of the file;
  names with a dot, for which `path -= pos` goes too far back (line 354); the
  second free of a name (406, 438), which the heap ignores unless another thread
  has been given the block since; the numbering of short aliases; the buffer of `fat_read`, which is as long as
  the entry's size; calls of two processes that interleave.
- **Disk.** Several threads in the driver at once: they may choose the same
  slot, and no lock keeps them from it.
- **Paths.** A path below a node of `/dev` follows a null pointer (`fault`).
- **Output.** Floating-point directives, what `%n` stores, the length `hh`, what two
  CPUs in `putc` at once leave on the screen, `klog`, glyphs.
- **Scheduler.** What a CPU does whose stack was written over, and a thread that
  execve unlocked (`tasking/scheduler.c:499`) taken by a second CPU: `exec_entry`
  has one.
- **Timers.** Calibration against the PIT: it is about real time.

Not modelled at all: interrupt dispatch (a table filled at boot), PCI and ACPI
enumeration (walks over tables without later state), string functions (operators
on sequences where needed), the serial port and the speaker, floating-point code
(`libc/src/math.c`, the drawing programs), which is out of TLC's reach, and the
programs, which serve as clients.

Proofs that could follow: the lists of the heap for majors of one size; the
exclusion properties of one CPU with several levels.
