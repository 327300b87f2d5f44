------------------------------ MODULE UserHeap ------------------------------
(***************************************************************************)
(* The heap of a program: libc's copy of liballoc.c, which is the kernel's *)
(* (module Liballoc), on the hooks of libc's stdlib.c.  Pages come from    *)
(* mmap, at addresses that only grow and with a page left out behind each  *)
(* run, and go back by munmap, after which their addresses are not used    *)
(* again.  A program has one thread and its lock does nothing.             *)
(***************************************************************************)
EXTENDS Integers, Sequences, FiniteSets

CONSTANTS
  Requests, MaxBlocks, Sizeof, ALIGNMENT, ALIGN_INFO, l_pageSize, l_pageCount,
  MMAP_MAX        \* MMAP_MAX_SIZE of the kernel, in pages

VARIABLES
  addresses,      \* pages that have been mapped, and those left out
  majors, l_bestBet, l_inuse, l_allocated, l_errorCount, halted, live, pc, call,
  mmaped_len,     \* proc_t.mmaped_len of the process, in pages
  crashed

H == INSTANCE Liballoc WITH Threads <- {"main"}, pmm_bitmap <- addresses,
                            highest_page <- 2 * MMAP_MAX, Guard <- 1, Reused <- FALSE

Init == H!Init /\ mmaped_len = 0 /\ crashed = FALSE

(* Pages that allocate_new_page asks mmap for.                             *)
Asked(n) ==
  LET size == H!Padded(n)
  IN  IF H!Search(size).hit THEN 0 ELSE H!PagesFor(size)

(* The kernel counts what is mapped and never counts down.                 *)
Mapped ==
  mmaped_len' = mmaped_len + (IF l_allocated' > l_allocated
                              THEN (l_allocated' - l_allocated) \div l_pageSize ELSE 0)

malloc ==
  /\ H!Malloc("main")
  /\ Mapped /\ mmaped_len' <= MMAP_MAX /\ UNCHANGED crashed

free == H!FreeBlock("main") /\ Mapped /\ UNCHANGED crashed

realloc ==
  /\ H!Realloc("main") \/ H!ReallocMalloc("main") \/ H!ReallocFree("main")
  /\ Mapped /\ mmaped_len' <= MMAP_MAX /\ UNCHANGED crashed

(* mmap answers MAP_FAILED, which allocate_new_page, having looked for     *)
(* NULL, writes to.                                                        *)
Refused(n) == mmaped_len + Asked(n) > MMAP_MAX

Crash ==
  /\ \/ pc["main"] = "run" /\ H!Bounded /\ \E n \in Requests : Refused(n)
     \/ pc["main"] = "malloc" /\ Refused(call["main"].size)
  /\ crashed' = TRUE
  /\ UNCHANGED <<addresses, majors, l_bestBet, l_inuse, l_allocated, l_errorCount, halted, live, pc,
                 call, mmaped_len>>

Next == ~crashed /\ (malloc \/ free \/ realloc \/ Crash)

vars == <<addresses, majors, l_bestBet, l_inuse, l_allocated, l_errorCount, halted, live, pc, call,
          mmaped_len, crashed>>
Spec == Init /\ [][Next]_vars

---------------------------------------------------------------------------
(* On the libc hooks, too, every pointer a program holds leads free and    *)
(* realloc to the one block that has the bytes asked for, and no block is  *)
(* without a holder.                                                       *)
UserBlocksOwned == H!BlocksOwned

(* The runs of the heap lie apart with an unmapped page between any two,   *)
(* none reaches past what mmap hands out, and all of them were counted     *)
(* against the limit of the process.                                       *)
UserRunsApart ==
  /\ \A k, j \in DOMAIN majors : majors[k].page < majors[j].page
       => majors[k].page + majors[k].pages < majors[j].page
  /\ \A k \in DOMAIN majors : H!PageRun(majors[k].page, majors[k].pages) \subseteq addresses
  /\ l_allocated <= l_pageSize * mmaped_len /\ mmaped_len <= MMAP_MAX
=============================================================================
