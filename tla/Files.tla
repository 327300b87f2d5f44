------------------------------- MODULE Files -------------------------------
(***************************************************************************)
(* Descriptor tables and open files: the system calls of sys/syscall.c,    *)
(* fork and spawn of tasking/scheduler.c, and the objects they share in    *)
(* fs/vfs.c and fs/tmpfs.c.  System calls run with interrupts enabled and  *)
(* on several CPUs, so that a reference count is loaded in one step and    *)
(* stored in another, and so is the offset of a file.  Reading or writing  *)
(* freed memory ends a behaviour (undefined).  All threads have uid 0, for *)
(* which the permission checks never fail.                                 *)
(***************************************************************************)
EXTENDS Integers, FiniteSets, FiniteSetsExt, Sequences

CONSTANTS
  Procs, First,   \* processes; First is the one the kernel starts
  FDS_COUNT,
  Objects,        \* memory for fs_file_t other than device nodes
  Nodes,          \* the nodes made in /dev at boot, in order
  Std,            \* descriptors sched_run_program opens on Nodes[1]
  Length,         \* length of a regular file
  MaxRefs,        \* bound: references counted for an object
  Sizes, Seeks,   \* arguments of read and write, and of seek
  DupFrom         \* arguments of F_DUPFD: where the search starts

VARIABLES
  fds,        \* proc_t.fds: the object behind each descriptor, or NULL
  objs,       \* fs_file_t
  at,         \* what each process is doing
  undefined,
  raced,      \* history: objects of which an update was lost
  leaked      \* history: objects whose count was raised for no descriptor

NULL == "null"
Slots == 0 .. FDS_COUNT - 1
Idle == [op |-> "idle"]
Off == [op |-> "off"]       \* not there yet

Node(n) == [kind |-> "dev", live |-> TRUE, name |-> n]
Blank == [kind |-> "none", live |-> FALSE]
Regular == [kind |-> "reg", live |-> TRUE, ref_count |-> 1, offset |-> 0, past |-> FALSE]
Fifo == [kind |-> "fifo", live |-> TRUE, ref_count |-> 1]

NodeObjects == {Nodes[i] : i \in DOMAIN Nodes}
All == Objects \cup NodeObjects
Counted(o) == objs[o].kind \in {"reg", "fifo"}
Regulars == {o \in Objects : objs[o].kind = "reg"}

Holders(o) == {x \in Procs \X Slots : fds[x[1]][x[2]] = o}

(* Memory that nothing points to may be handed out again.                  *)
Fresh == {o \in Objects : ~objs[o].live /\ Holders(o) = {}
                          /\ \A p \in Procs : "obj" \in DOMAIN at[p] => at[p].obj # o}

(* The first process as sched_run_program leaves it, /dev as tmpfs_mknod   *)
(* does.                                                                   *)
Init ==
  /\ fds = [p \in Procs |-> [i \in Slots |-> IF p = First /\ i \in Std THEN Nodes[1] ELSE NULL]]
  /\ objs = [o \in All |-> IF o \in NodeObjects THEN Node(o) ELSE Blank]
  /\ at = [p \in Procs |-> IF p = First THEN Idle ELSE Off]
  /\ undefined = FALSE
  /\ raced = {} /\ leaked = {}

(* What the state is after reading freed memory does not matter.           *)
Undefined ==
  /\ undefined' = TRUE
  /\ fds' = [p \in Procs |-> [i \in Slots |-> NULL]]
  /\ objs' = [o \in All |-> Blank]
  /\ at' = [p \in Procs |-> Off]
  /\ raced' = {} /\ leaked' = {}

FreeSlotFrom(p, arg) == LET free == {i \in Slots : i >= arg /\ fds[p][i] = NULL}
                        IN  IF free = {} THEN FDS_COUNT ELSE Min(free)
FreeSlot(p) == FreeSlotFrom(p, 0)

(* CURRENT_PROC->fds[i] = o, for the slot found, if there is one           *)
Install(p, i, o) == IF i = FDS_COUNT THEN fds ELSE [fds EXCEPT ![p][i] = o]

---------------------------------------------------------------------------
(* Opening.                                                                *)

(* tmpfs_finddir compares with the nodes in order; one that was removed    *)
(* was freed and is still in the list.                                     *)
Reaches(n) == \A i \in DOMAIN Nodes :
                (\A j \in 1 .. i - 1 : Nodes[j] # n) => objs[Nodes[i]].live

OpenNode(p, n) ==
  /\ at[p] = Idle
  /\ \/ ~Reaches(n) /\ Undefined
     \/ Reaches(n) /\ fds' = Install(p, FreeSlot(p), n) /\ UNCHANGED <<objs, at, undefined, raced, leaked>>

(* A file on the FAT partition, found or created, is a new object.  With   *)
(* no descriptor left it is closed again.                                  *)
OpenRegular(p) ==
  /\ at[p] = Idle
  /\ \E o \in Fresh :
       /\ FreeSlot(p) < FDS_COUNT
       /\ objs' = [objs EXCEPT ![o] = Regular]
       /\ fds' = Install(p, FreeSlot(p), o)
  /\ UNCHANGED <<at, undefined, raced, leaked>>

(* syscall_pipe: one object with one reference for two descriptors.  With  *)
(* one slot left the first descriptor stays and the object is freed.       *)
syscall_pipe(p) ==
  /\ at[p] = Idle
  /\ FreeSlot(p) < FDS_COUNT
  /\ \E o \in Fresh :
       LET two == {i \in Slots : fds[p][i] = NULL} \ {FreeSlot(p)}
       IN  /\ objs' = [objs EXCEPT ![o] = [Fifo EXCEPT !.live = two # {}]]
           /\ fds' = [fds EXCEPT ![p] = [i \in Slots |->
                IF i = FreeSlot(p) \/ (two # {} /\ i = Min(two)) THEN o ELSE fds[p][i]]]
  /\ UNCHANGED <<at, undefined, raced, leaked>>

(* remove("/dev/..."): tmpfs_delete frees the node, whoever has it open.   *)
RemoveNode(p, n) ==
  /\ at[p] = Idle
  /\ \/ ~Reaches(n) /\ Undefined
     \/ /\ Reaches(n)
        /\ objs' = [objs EXCEPT ![n].live = FALSE]
        /\ UNCHANGED <<fds, at, undefined, raced, leaked>>

---------------------------------------------------------------------------
(* Reference counts: ref_count is loaded ...                               *)

Load(p, o, step) ==
  \/ ~objs[o].live /\ Undefined
  \/ /\ objs[o].live /\ Counted(o)
     /\ at' = [at EXCEPT ![p] = [step EXCEPT !.seen = objs[o].ref_count]]
     /\ UNCHANGED <<fds, objs, undefined, raced, leaked>>

(* The count of a node of /dev decides nothing: tmpfs_close does nothing.  *)
Uncounted(o) == objs[o].live /\ ~Counted(o)

(* ... and stored, over whatever was stored since.                         *)
Store(o, seen, n) ==
  /\ objs' = [objs EXCEPT ![o].ref_count = n, ![o].live = n # 0]
  /\ raced' = raced \cup {x \in {o} : objs[o].ref_count # seen}

(* The object was freed, by another process, since its count was loaded.   *)
StoreFreed(p) ==
  /\ at[p].op \in {"dup", "close", "copy"} /\ ~objs[at[p].obj].live
  /\ Undefined

DupLoad(p, i, arg) ==
  /\ at[p] = Idle /\ fds[p][i] # NULL
  /\ Counted(fds[p][i]) => objs[fds[p][i]].ref_count < MaxRefs
  /\ Load(p, fds[p][i], [op |-> "dup", obj |-> fds[p][i], arg |-> arg, seen |-> 0])

(* syscall_fcntl(F_DUPFD) looks for a free descriptor from arg on; with    *)
(* none the count stays raised.                                            *)
DupStore(p) ==
  /\ at[p].op = "dup" /\ objs[at[p].obj].live
  /\ Store(at[p].obj, at[p].seen, at[p].seen + 1)
  /\ LET i == FreeSlotFrom(p, at[p].arg)
     IN  /\ fds' = Install(p, i, at[p].obj)
         /\ leaked' = leaked \cup {x \in {at[p].obj} : i = FDS_COUNT}
  /\ at' = [at EXCEPT ![p] = Idle]
  /\ UNCHANGED undefined

DupNode(p, i, arg) ==
  /\ at[p] = Idle /\ fds[p][i] # NULL
  /\ Uncounted(fds[p][i])
  /\ fds' = Install(p, FreeSlotFrom(p, arg), fds[p][i])
  /\ UNCHANGED <<objs, at, undefined, raced, leaked>>

CloseLoad(p, i) ==
  /\ at[p] = Idle /\ fds[p][i] # NULL
  /\ Load(p, fds[p][i], [op |-> "close", obj |-> fds[p][i], fd |-> i, seen |-> 0])

CloseNode(p, i) ==
  /\ at[p] = Idle /\ fds[p][i] # NULL
  /\ Uncounted(fds[p][i])
  /\ fds' = [fds EXCEPT ![p][i] = NULL]
  /\ UNCHANGED <<objs, at, undefined, raced, leaked>>

(* syscall_close, vfs_close                                                *)
CloseStore(p) ==
  /\ at[p].op = "close" /\ objs[at[p].obj].live
  /\ Store(at[p].obj, at[p].seen, at[p].seen - 1)
  /\ fds' = [fds EXCEPT ![p][at[p].fd] = NULL]
  /\ at' = [at EXCEPT ![p] = Idle]
  /\ UNCHANGED <<undefined, leaked>>

(* fork: sched_new_proc copies the table, descriptor by descriptor.        *)
Fork(p, q) ==
  /\ at[p] = Idle /\ at[q] = Off
  /\ at' = [at EXCEPT ![p] = [op |-> "fork", child |-> q, next |-> 0]]
  /\ UNCHANGED <<fds, objs, undefined, raced, leaked>>

ToCopy(p) == {i \in Slots : i >= at[p].next /\ fds[p][i] # NULL}

ForkLoad(p) ==
  /\ at[p].op = "fork" /\ ToCopy(p) # {}
  /\ LET i == Min(ToCopy(p))
     IN  Load(p, fds[p][i], [op |-> "copy", child |-> at[p].child, fd |-> i,
                             obj |-> fds[p][i], seen |-> 0])

ForkNode(p) ==
  /\ at[p].op = "fork" /\ ToCopy(p) # {}
  /\ LET i == Min(ToCopy(p))
     IN  /\ Uncounted(fds[p][i])
         /\ fds' = [fds EXCEPT ![at[p].child][i] = fds[p][i]]
         /\ at' = [at EXCEPT ![p].next = i + 1]
  /\ UNCHANGED <<objs, undefined, raced, leaked>>

(* Mutant: the copy is not counted.                                        *)
ForkStoreUncounted(p) ==
  /\ at[p].op = "copy" /\ objs[at[p].obj].live
  /\ fds' = [fds EXCEPT ![at[p].child][at[p].fd] = at[p].obj]
  /\ at' = [at EXCEPT ![p] = [op |-> "fork", child |-> at[p].child, next |-> at[p].fd + 1]]
  /\ UNCHANGED <<objs, undefined, raced, leaked>>

ForkStore(p) ==
  /\ at[p].op = "copy" /\ objs[at[p].obj].live
  /\ Store(at[p].obj, at[p].seen, at[p].seen + 1)
  /\ fds' = [fds EXCEPT ![at[p].child][at[p].fd] = at[p].obj]
  /\ at' = [at EXCEPT ![p] = [op |-> "fork", child |-> at[p].child, next |-> at[p].fd + 1]]
  /\ UNCHANGED <<undefined, leaked>>

ForkDone(p) ==
  /\ at[p].op = "fork" /\ ToCopy(p) = {}
  /\ at' = [at EXCEPT ![p] = Idle, ![at[p].child] = Idle]
  /\ UNCHANGED <<fds, objs, undefined, raced, leaked>>

---------------------------------------------------------------------------
(* Reading, writing and seeking.                                           *)

Clamp(o, n) == IF n + objs[o].offset > Length THEN Length - objs[o].offset ELSE n

(* The descriptor is looked up and the size made to fit the file; an       *)
(* offset past the end makes it wrap round.                                *)
Transfer(p, i, n) ==
  /\ at[p] = Idle /\ fds[p][i] # NULL
  /\ LET o == fds[p][i]
     IN  \/ ~objs[o].live /\ Undefined
         \/ /\ objs[o].live /\ objs[o].kind = "reg" /\ objs[o].offset > Length
            /\ Undefined
         \/ /\ objs[o].live /\ objs[o].kind = "reg" /\ objs[o].offset <= Length
            /\ at' = [at EXCEPT ![p] = [op |-> "io", obj |-> o, size |-> Clamp(o, n),
                                        offset |-> objs[o].offset]]
            /\ UNCHANGED <<fds, objs, undefined, raced, leaked>>
         \/ /\ objs[o].live /\ objs[o].kind # "reg"
            /\ at' = [at EXCEPT ![p] = [op |-> "wait", obj |-> o]]
            /\ UNCHANGED <<fds, objs, undefined, raced, leaked>>

(* The driver has done its part and the offset is advanced.                *)
Advance(p) ==
  /\ at[p].op = "io"
  /\ objs' = [objs EXCEPT ![at[p].obj].offset = @ + at[p].size]
  /\ raced' = raced \cup {x \in {at[p].obj} : objs[x].offset # at[p].offset}
  /\ at' = [at EXCEPT ![p] = Idle]
  /\ UNCHANGED <<fds, undefined, leaked>>

(* A device or a pipe has answered; the object is looked at again.         *)
Answered(p) ==
  /\ at[p].op = "wait"
  /\ \/ ~objs[at[p].obj].live /\ Undefined
     \/ /\ objs[at[p].obj].live
        /\ at' = [at EXCEPT ![p] = Idle]
        /\ UNCHANGED <<fds, objs, undefined, raced, leaked>>

(* syscall_seek to any place reached by SEEK_SET, SEEK_CUR or SEEK_END,    *)
(* which may be past the end.                                              *)
Seek(p, i, to) ==
  /\ at[p] = Idle /\ fds[p][i] # NULL
  /\ LET o == fds[p][i]
     IN  \/ ~objs[o].live /\ Undefined
         \/ /\ objs[o].live /\ objs[o].kind = "reg"
            /\ objs' = [objs EXCEPT ![o].offset = to, ![o].past = to > Length]
            /\ UNCHANGED <<fds, at, undefined, raced, leaked>>

(* fstat and ioctl go through the file system of the object; a pipe has    *)
(* none.                                                                   *)
Inspect(p, i) ==
  /\ at[p] = Idle /\ fds[p][i] # NULL
  /\ IF objs[fds[p][i]].live /\ objs[fds[p][i]].kind # "fifo"
     THEN UNCHANGED <<fds, objs, at, undefined, raced, leaked>> ELSE Undefined

(* stat and access open a node of /dev, look at it and close it.           *)
InspectNode(p, n) ==
  /\ at[p] = Idle
  /\ IF Reaches(n) THEN UNCHANGED <<fds, objs, at, undefined, raced, leaked>> ELSE Undefined

(* What follows a lost update is not followed, since nothing holds of it:  *)
(* with a count too low the file is freed under a descriptor.              *)
Next ==
  /\ ~undefined /\ raced = {}
  /\ \E p \in Procs :
       \/ OpenRegular(p) \/ syscall_pipe(p) \/ DupStore(p) \/ CloseStore(p)
       \/ ForkLoad(p) \/ ForkNode(p) \/ ForkStore(p) \/ ForkDone(p)
       \/ StoreFreed(p) \/ Advance(p) \/ Answered(p)
       \/ \E n \in NodeObjects : OpenNode(p, n) \/ RemoveNode(p, n) \/ InspectNode(p, n)
       \/ \E q \in Procs : Fork(p, q)
       \/ \E i \in Slots : CloseLoad(p, i) \/ CloseNode(p, i) \/ Inspect(p, i)
       \/ \E i \in Slots, arg \in DupFrom : DupLoad(p, i, arg) \/ DupNode(p, i, arg)
       \/ \E i \in Slots, n \in Sizes : Transfer(p, i, n)
       \/ \E i \in Slots, to \in Seeks : Seek(p, i, to)

vars == <<fds, objs, at, undefined, raced, leaked>>
Spec == Init /\ [][Next]_vars

---------------------------------------------------------------------------
(* Up to the first lost update (raced: two processes loaded the count of   *)
(* an object, or its offset, before either stored it):                     *)

(* a descriptor of a regular file never outlives the file, through any     *)
(* sequence of open, dup, fork and close, failed ones included;            *)
RegularAlive ==
  \A o \in Regulars \ raced : ~objs[o].live => Holders(o) = {}

Busy(o) == \E p \in Procs : "obj" \in DOMAIN at[p] /\ at[p].obj = o

(* the last close of a regular file frees it, since its count is the       *)
(* number of its descriptors, unless a dup found no descriptor free;       *)
LastCloseFrees ==
  \A o \in Regulars \ (raced \cup leaked) :
    ~Busy(o) => IF objs[o].live THEN Cardinality(Holders(o)) = objs[o].ref_count
                                ELSE Holders(o) = {}

(* a pipe lives as long as two descriptors name it, and with one left it   *)
(* is gone;                                                                *)
PipeAlive ==
  \A o \in Objects \ (raced \cup leaked) :
    objs[o].kind = "fifo" /\ ~Busy(o) => (objs[o].live <=> Cardinality(Holders(o)) >= 2)

(* reads and writes, of all processes that share the file by dup or fork,  *)
(* leave the offset within the file.  A seek may put it anywhere.          *)
OffsetInside ==
  \A o \in Regulars \ raced : objs[o].live /\ ~objs[o].past => objs[o].offset <= Length
=============================================================================
