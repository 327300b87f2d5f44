----------------------------- MODULE MCServices -----------------------------
(***************************************************************************)
(* What the kernel does for programs, one scene each, since the modules    *)
(* share no state: a behaviour chooses its scene at the start, and the     *)
(* variables of the other scenes are left at Off.                          *)
(***************************************************************************)
EXTENDS Integers, Sequences, SequencesExt

CONSTANTS Procs, First, Objects, Callers

VARIABLES
  scene,
  fds, objs, fileAt, fileUndefined, raced, leaked,
  disk, files, fatUndefined, removed, contents, fatSpoiled,
  bitmap, mem, proc, memAt, calls, stores, view, partial, memSpoiled,
  printf_lock, call, output, paper, rows, curr_x, curr_y, garbled, sample,
  step, mounts, children, fault,
  argv, env,
  addresses, majors, l_bestBet, l_inuse, l_allocated, l_errorCount, halted, live, pc, heapCall,
  mmaped_len, crashed

Off == 0

---------------------------------------------------------------------------
(* Two processes with three descriptors each, one terminal, and one object *)
(* for the file or the pipe they open.                                     *)
F == INSTANCE Files WITH
  FDS_COUNT <- 3, Nodes <- <<"tty0">>, Std <- {0}, Length <- 1, MaxRefs <- 2,
  Sizes <- {2}, Seeks <- {0, 2}, DupFrom <- {1}, at <- fileAt, undefined <- fileUndefined

(* A FAT partition of ten clusters.                                        *)
FatClusters == (0 .. 8) \cup {248}
FatNames == {"a", "c", "d", "l", "m"}
FatShort == [n \in FatNames |-> n]
FatPaths == {<<"a">>, <<"m">>, <<"d">>, <<"d", "l">>, <<"d", "c">>}
EPC == 5

Blank == INSTANCE Fat32 WITH
  Clusters <- FatClusters, Root <- 2, MaxRemoves <- 1, MaxEntries <- 5, Names <- FatNames,
  Long <- {"l", "m"}, Short <- FatShort, Paths <- FatPaths, Writes <- {}, Images <- {}, Handles <- {1, 2},
  undefined <- fatUndefined, spoiled <- fatSpoiled

Cells(s) == [i \in 0 .. EPC - 1 |-> IF i < Len(s) THEN s[i + 1] ELSE Blank!Zero]

(* /a of two clusters, /d with one file of a long name.  Chains end in one *)
(* of two ways; with big, the high cluster is in use.  With wide, the root *)
(* has two clusters and /a, in the second, has one.                        *)
FatImage(end, big, wide) == [
  fat |-> [c \in FatClusters |->
     CASE c = 4 -> IF wide THEN end ELSE 5
       [] c = 2 -> IF wide THEN 5 ELSE end
       [] c \in {1, 3, 5, 6} -> end
       [] c = 0 -> Blank!END
       [] c = 248 -> IF big THEN end ELSE 0
       [] OTHER -> 0],
  data |-> [c \in FatClusters |->
     CASE c = 2 -> Cells(<<Blank!Entry("dir", "d", 3, 0)>> \o
                         IF wide THEN <<>> ELSE <<Blank!Entry("file", "a", 4, EPC + 1)>>)
       [] wide /\ c = 5 -> Cells(<<Blank!Entry("file", "a", 4, EPC)>>)
       [] c = 3 -> Cells(<<Blank!Entry("dir", ".", 3, 0), Blank!Entry("dir", "..", 0, 0),
                           Blank!LongCell("l"), Blank!Entry("file", "l", 6, 1)>>)
       [] c \in {4, 5, 6} -> Cells([i \in 1 .. IF c = 4 THEN EPC ELSE 1 |-> Blank!Data(0)])
       [] OTHER -> Cells(<<>>)]]

T == INSTANCE Fat32 WITH
  Clusters <- FatClusters, Root <- 2, MaxRemoves <- 1, MaxEntries <- 5, Names <- FatNames,
  Long <- {"l", "m"}, Short <- FatShort, Paths <- FatPaths,
  Handles <- {1, 2}, Writes <- {<<0, 1, 0>>, <<EPC - 1, 2, 1>>},
  Images <- {FatImage(Blank!END, TRUE, FALSE), FatImage(Blank!NONE, FALSE, FALSE),
             FatImage(Blank!END, FALSE, TRUE)},
  undefined <- fatUndefined, spoiled <- fatSpoiled

(* Twelve frames for programs of one page of text and one of stack.      *)
M == INSTANCE Memory WITH
  Frames <- 12, Text <- 4, Segment <- 1, SCHED_MMAP_TOP <- 20, SCHED_STACK_TOP <- 10,
  StackPages <- 1, MMAP_MAX <- 3, Lengths <- {2}, Unmaps <- {1, 2, 3}, MaxCalls <- 3,
  MaxStores <- 1,
  at <- memAt, spoiled <- memSpoiled

(* Two callers of printf and a terminal on a screen of four columns and    *)
(* three rows.                                                             *)
Texts == {
  << <<"a", "%", "d", "\n", "b">>, <<13>> >>,
  << <<"%", "s", "%", "c", "\n">>, << <<"x", "bs", "y", "z", "w", "v", "\r">>, "u">> >>,
  << <<"%", "#", "0", "*", "l", "x", "%", "n", "%", "h", "h", "d", "%", "e", "\n", "\n">>, <<3, 29, 0>> >> }

K == INSTANCE Printf WITH
  Calls <- Texts, Columns <- 4, Rows <- 3, Terminals <- {"u"}, Typed <- {<<"t", "\n">>, <<"bs">>}
L == INSTANCE Stdio

Flags == {<<>>, <<"-">>, <<"0">>, <<"+">>, <<" ", "#">>, <<"#", "0">>, <<"-", "+", "#">>, <<"0", "+">>, <<"-", "0">>}
Directives ==
  {<<"%">> \o flags \o width \o length \o <<c>> :
     flags \in Flags, width \in {<<>>, <<"1", "0", ".", "2">>},
     length \in {<<>>, <<"h">>, <<"l">>, <<"l", "l">>}, c \in {"d", "u", "x", "X", "o", "p"}}
Samples == Directives \X {0, 5, 8, 15, 16, 19, 31}

(* "/dev/" is short for a three-character path.                            *)
Dev == <<"/", "d", "/">>
V == INSTANCE Vfs WITH
  Slash <- "/", DevPath <- Dev, Devices <- <<Dev \o <<"t">>, Dev \o <<"f">>, Dev \o <<"m">>>>,
  Paths <- {<<"/">> \o s : s \in BoundedSeq({"/", "d", "t", "x"}, 4)},
  Opened <- {Dev \o s : s \in BoundedSeq({"/", "t", "x"}, 2)}

A == INSTANCE Args WITH Lengths <- {0, 6, 7, 8, 15}, MaxStrings <- 2

(* Pages of sixteen bytes, runs of two of them.                            *)
U == INSTANCE UserHeap WITH
  Requests <- {1, 4}, MaxBlocks <- 3, Sizeof <- [major |-> 3, minor |-> 3],
  ALIGNMENT <- 2, ALIGN_INFO <- 2, l_pageSize <- 16, l_pageCount <- 2, MMAP_MAX <- 8,
  call <- heapCall

---------------------------------------------------------------------------
filesVars == <<fds, objs, fileAt, fileUndefined, raced, leaked>>
fatVars == <<disk, files, fatUndefined, removed, contents, fatSpoiled>>
memVars == <<bitmap, mem, proc, memAt, calls, stores, view, partial, memSpoiled>>
printVars == <<printf_lock, call, output, paper, rows, curr_x, curr_y, garbled>>
vfsVars == <<step, mounts, children, fault>>
argsVars == <<argv, env>>
heapVars == <<addresses, majors, l_bestBet, l_inuse, l_allocated, l_errorCount, halted, live, pc,
              heapCall, mmaped_len, crashed>>
vars == <<scene, filesVars, fatVars, memVars, printVars, sample, vfsVars, argsVars, heapVars>>

FilesOff == /\ fds = Off /\ objs = Off /\ fileAt = Off /\ fileUndefined = Off
            /\ raced = Off /\ leaked = Off
FatOff == /\ disk = Off /\ files = Off /\ fatUndefined = Off /\ removed = Off
          /\ contents = Off /\ fatSpoiled = Off
MemOff == /\ bitmap = Off /\ mem = Off /\ proc = Off /\ memAt = Off /\ calls = Off
          /\ stores = Off /\ view = Off /\ partial = Off
          /\ memSpoiled = Off
PrintOff == /\ printf_lock = Off /\ call = Off /\ output = Off /\ paper = Off
            /\ rows = Off /\ curr_x = Off /\ curr_y = Off /\ garbled = Off
VfsOff == step = Off /\ mounts = Off /\ children = Off /\ fault = Off
ArgsOff == argv = Off /\ env = Off
HeapOff == /\ addresses = Off /\ majors = Off /\ l_bestBet = Off /\ l_inuse = Off
           /\ l_allocated = Off /\ l_errorCount = Off /\ halted = Off /\ live = Off
           /\ pc = Off /\ heapCall = Off /\ mmaped_len = Off /\ crashed = Off

Init ==
  /\ scene \in {"files", "fat", "memory", "print", "number", "vfs", "args", "heap"}
  /\ IF scene = "files" THEN F!Init ELSE FilesOff
  /\ IF scene = "fat" THEN T!Init ELSE FatOff
  /\ IF scene = "memory" THEN M!Init ELSE MemOff
  /\ IF scene = "print" THEN K!Init ELSE PrintOff
  /\ IF scene = "number" THEN sample \in Samples ELSE sample = Off
  /\ IF scene = "vfs" THEN V!Init ELSE VfsOff
  /\ IF scene = "args" THEN A!Init ELSE ArgsOff
  /\ IF scene = "heap" THEN U!Init ELSE HeapOff

FilesStep == scene = "files" /\ F!Next
  /\ UNCHANGED <<scene, fatVars, memVars, printVars, sample, vfsVars, argsVars, heapVars>>
FatStep == scene = "fat" /\ T!Next
  /\ UNCHANGED <<scene, filesVars, memVars, printVars, sample, vfsVars, argsVars, heapVars>>
MemStep == scene = "memory" /\ M!Next
  /\ UNCHANGED <<scene, filesVars, fatVars, printVars, sample, vfsVars, argsVars, heapVars>>
PrintStep == scene = "print" /\ K!Next
  /\ UNCHANGED <<scene, filesVars, fatVars, memVars, sample, vfsVars, argsVars, heapVars>>
VfsStep == scene = "vfs" /\ V!Next
  /\ UNCHANGED <<scene, filesVars, fatVars, memVars, printVars, sample, argsVars, heapVars>>
ArgsStep == scene = "args" /\ A!Next
  /\ UNCHANGED <<scene, filesVars, fatVars, memVars, printVars, sample, vfsVars, heapVars>>
HeapStep == scene = "heap" /\ U!Next
  /\ UNCHANGED <<scene, filesVars, fatVars, memVars, printVars, sample, vfsVars, argsVars>>

Next == FilesStep \/ FatStep \/ MemStep \/ PrintStep \/ VfsStep \/ ArgsStep \/ HeapStep
Spec == Init /\ [][Next]_vars

---------------------------------------------------------------------------
(* Descriptors and the files behind them, as long as no two processes      *)
(* change the count or the offset of one file at once (they are changed    *)
(* without a lock, and an update is lost then): a regular file is not      *)
(* freed as long as a descriptor of any process reaches it, and is freed   *)
(* with the last unless F_DUPFD found no descriptor free; a pipe lives     *)
(* exactly as long as two descriptors of it are open (the first close of   *)
(* syscall_pipe's two takes it from the other); reads and writes leave an  *)
(* offset within the file where it is, while seeks are not bounded.        *)
DescriptorsOwn ==
  scene = "files" => F!RegularAlive /\ F!LastCloseFrees /\ F!PipeAlive /\ F!OffsetInside

(* fat_read returns what fat_write wrote, and the size and cluster an open *)
(* file caches are those of its entry on the disk, for every file that was *)
(* not removed and that, like its directory, has all its clusters.  Making *)
(* a file ends the chain of the cluster whose number is that of the entry  *)
(* found free (fat32.c:198), removing one frees its directory (728, 748):  *)
(* of what loses a link in this way nothing is said.                       *)
FatContents == scene = "fat" => T!FilesIntact /\ T!CachedCurrent

(* What the FAT driver leaves on the disk: every chain ends and is as long *)
(* as the size says.  Of files and directories whose chains lost no link   *)
(* (198, 728, 748), no two share a cluster, except 248, which all new ones *)
(* share (84), and no directory has a name twice before its first long     *)
(* name, from where on fat_find compares with freed memory (406).          *)
FatStructure ==
  scene = "fat" => T!TypeOK /\ T!ChainsDisjoint /\ T!ChainsEnd /\ T!NamesUnique

(* As long as pmalloc has handed out no page in use (it tests the first of *)
(* a run only, and marks after it gave up the lock) and no page in use was *)
(* freed: a process reads from a page what it, or one it shares the page   *)
(* with, last wrote there; a frame serves one purpose at a time; and page  *)
(* tables and lists of ranges agree after every mmap, munmap of a whole    *)
(* range, fork and execve.  Pages in use are freed by munmap only where    *)
(* another range is listed behind the one removed, where its length is too *)
(* short, and, by execve too, where a range is shared since a fork.        *)
SpacesApart ==
  scene = "memory" => M!Isolation /\ M!FramesExclusive /\ M!RangesMapped /\ M!MayFreeUsed

(* The output of a printf is not mixed with that of another printf, which  *)
(* prints only while it holds printf_lock; the screen shows the last lines *)
(* put.  tty_write and tty_read put characters without the lock: they come *)
(* in between, and nothing is said of the screen once two CPUs are in putc *)
(* at the same time.                                                       *)
PrintedWhole == scene = "print" => K!Untorn /\ K!ShowsLastLines /\ K!HolderPrints

(* Both printfs, the kernel's and libc's, print the number they are given, *)
(* in its base, cut to its length (none, h, l or ll), with its sign and in *)
(* the width at least.  Padding zeros come before the sign.  Not so where  *)
(* they do not: the least intmax_t, an unsigned above the largest intmax_t *)
(* in libc, and a number with both flags - and 0, behind which zeros are   *)
(* put.  The precision is read and has no effect; the length hh, whose     *)
(* second h is taken for the specifier, is not among the directives.       *)
PrintsNumber ==
  scene = "number" => K!PrintsNumber(sample[1], sample[2]) /\ L!PrintsNumber(sample[1], sample[2])

(* vfs_find_mount finds the mount a path belongs to, and a node made in    *)
(* /dev is found again by its path.                                        *)
PathsLead == scene = "vfs" => V!PathSplit /\ V!NodesReached

(* sched_load_args_to_stack hands over argv and envp.                      *)
ArgsReadable == scene = "args" => A!ArgsReadable

(* The blocks of a program's heap are its own, and the runs of pages they  *)
(* lie in, which mmap gave one after the other, lie apart.                 *)
UserHeapOwned == scene = "heap" => U!UserBlocksOwned /\ U!UserRunsApart
=============================================================================
