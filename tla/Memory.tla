------------------------------- MODULE Memory -------------------------------
(***************************************************************************)
(* Address spaces: pages of mm/pmm.c, page tables and ranges of mm/vmm.c,  *)
(* the mmap and munmap system calls, fork, and the replacing exec with the *)
(* program elf.c loads.  Addresses are page numbers.  A call allocates     *)
(* what it needs piece by piece, and each pmalloc is two steps, since it   *)
(* gives up pmm_lock before it marks the pages it found.  Page tables      *)
(* below the top level are not counted.                                    *)
(*                                                                         *)
(* A behaviour ends (spoiled) where pages that are in use are handed out,  *)
(* when two calls race for a page or the pages behind the first free one   *)
(* are taken untested, and where pages are freed that stay in use, which   *)
(* MayFreeUsed says of munmap and exec.                                    *)
(***************************************************************************)
EXTENDS Integers, Sequences, FiniteSets, FiniteSetsExt, SequencesExt

CONSTANTS
  Procs, First,
  Frames,           \* pages of memory, above those the kernel took at boot
  Text, Segment,    \* where a program is loaded, and its pages
  SCHED_MMAP_TOP, SCHED_STACK_TOP, StackPages,
  MMAP_MAX,         \* MMAP_MAX_SIZE, in pages
  Lengths, Unmaps,  \* lengths given to mmap and to munmap
  MaxCalls, MaxStores   \* bounds: calls of mmap, munmap and execve, and stores

VARIABLES
  bitmap,   \* pmm_bitmap: the frames marked
  mem,      \* what is in each frame, and in the framebuffer
  proc,     \* proc_t and its pagemap_t
  at,       \* the call a process is in
  calls, stores,   \* how many so far
  view,     \* history: what a process last put at each of its pages
  partial,  \* history: processes with a munmap of another length than the range's
  spoiled   \* history: "no", or pages in use were handed out or freed, as "known" or not

NONE == -1
FB == 0                       \* the framebuffer, one cell, is no frame of the allocator
FBID == -1
TEXT == 2                     \* what a program is loaded with; fresh pages hold 0
Run(f, n) == f .. f + n - 1

(* mmap_range_t; id tells shared ranges apart, and is 0 for a private one. *)
Region(virt, phys, n, kind, id) ==
  [virt |-> virt, phys |-> phys, n |-> n, kind |-> kind, id |-> id]
PhysOf(r) == IF r.kind = "fb" THEN {} ELSE Run(r.phys, r.n)

(* The pages vmm_map_page maps for a range.                                *)
Pages(r) == [v \in Run(r.virt, r.n) |-> IF r.kind = "fb" THEN FB ELSE r.phys + (v - r.virt)]
Over(g, h) == [v \in DOMAIN g \cup DOMAIN h |-> IF v \in DOMAIN h THEN h[v] ELSE g[v]]
Table(ranges) == FoldLeft(LAMBDA t, r : Over(t, Pages(r)), <<>>, ranges)

Idle == [op |-> "idle"]
Off == [op |-> "off"]
Halted == [op |-> "halted"]

(* The two ranges of a program: elf_run_binary's and the stack that        *)
(* sched_new_thread maps, at got[2] and got[3].                            *)
Image(got) == << Region(Text, got[2], Segment, "private", 0),
                 Region(SCHED_STACK_TOP, got[3], StackPages, "private", 0) >>
ImageView == [v \in Run(Text, Segment) \cup Run(SCHED_STACK_TOP, StackPages) |->
                [value |-> IF v \in Run(Text, Segment) THEN TEXT ELSE 0, shared |-> 0]]

(* top_level, segment, stack, kernel stack                                 *)
ImageNeeds == <<1, Segment, StackPages, StackPages>>

Loaded(got) ==
  [top |-> got[1], ranges |-> Image(got), table |-> Table(Image(got)), kernel_stack |-> got[4],
   mmap_top |-> SCHED_MMAP_TOP, mmaped_len |-> 0]

LoadedMem(m, got) == [f \in DOMAIN m |-> IF f \in Run(got[2], Segment) THEN TEXT ELSE m[f]]

NoProc == [top |-> NONE, ranges |-> <<>>, table |-> <<>>, kernel_stack |-> NONE,
           mmap_top |-> NONE, mmaped_len |-> 0]

(* sched_run_program has started the first program on fresh memory.        *)
Init ==
  LET got == <<1, 2, 2 + Segment, 2 + Segment + StackPages>>
      zero == [f \in 0 .. Frames |-> 0]
  IN  /\ bitmap = 1 .. 1 + Segment + 2 * StackPages
      /\ mem = LoadedMem(zero, got)
      /\ proc = [p \in Procs |-> IF p = First THEN Loaded(got) ELSE NoProc]
      /\ view = [p \in Procs |-> IF p = First THEN ImageView ELSE <<>>]
      /\ at = [p \in Procs |-> IF p = First THEN Idle ELSE Off]
      /\ calls = 0 /\ stores = 0 /\ partial = {} /\ spoiled = "no"

---------------------------------------------------------------------------
(* Pages.                                                                  *)

FreeFrames == (1 .. Frames) \ bitmap

Call(op, needs) == [op |-> op, needs |-> needs, found |-> NONE, got |-> <<>>]

Allocating(p) == "needs" \in DOMAIN at[p] /\ at[p].needs # <<>>

(* pmalloc: the first free page; the lock is given up.                     *)
Find(p) ==
  /\ Allocating(p) /\ at[p].found = NONE
  /\ at' = [at EXCEPT ![p] = IF FreeFrames = {} THEN Halted
                             ELSE [@ EXCEPT !.found = Min(FreeFrames)]]
  /\ UNCHANGED <<bitmap, mem, proc, calls, stores, view, partial, spoiled>>

(* Mutant: only the first page is marked.                                  *)
FirstMarked(f, n) == bitmap \cup {f}

(* pmm_alloc_pages                                                         *)
Marked(f, n) == bitmap \cup Run(f, n)

(* The pages are marked, and pcalloc clears them.                          *)
Take(p) ==
  /\ Allocating(p) /\ at[p].found # NONE
  /\ LET f == at[p].found
         n == Head(at[p].needs)
     IN  /\ bitmap' = Marked(f, n)
         /\ mem' = [g \in DOMAIN mem |-> IF g \in Run(f, n) THEN 0 ELSE mem[g]]
         /\ spoiled' = IF Run(f, n) \subseteq FreeFrames THEN "no" ELSE "known"
         /\ at' = [at EXCEPT ![p].needs = Tail(@), ![p].found = NONE, ![p].got = Append(@, f)]
  /\ UNCHANGED <<proc, calls, stores, view, partial>>

Ready(p, op) == at[p].op = op /\ ~Allocating(p)

(* What stays mapped somewhere, if the processes were ps.                  *)
InUse(ps) == UNION {{ps[p].table[v] : v \in DOMAIN ps[p].table} : p \in Procs}

(* The pages of r are in a range of another process, too, or may be left   *)
(* there from one that was unmapped in part.                               *)
SharedWithOther(p, r) == \E q \in Procs \ {p} : r \in ToSet(proc[q].ranges) \/ q \in partial

(* pmm_free_pages on frames while the processes are ps.                    *)
Freed(frames, ps, known) ==
  /\ bitmap' = bitmap \ frames
  /\ spoiled' = CASE frames \cap InUse(ps) = {} -> "no" [] known -> "known" [] OTHER -> "unknown"

---------------------------------------------------------------------------
(* mmap and munmap.                                                        *)

(* The call is refused once the process has asked for MMAP_MAX pages; what *)
(* is unmapped is not given back.                                          *)
syscall_mmap(p, n, kind) ==
  /\ at[p] = Idle /\ calls < MaxCalls
  /\ proc[p].mmaped_len + n <= MMAP_MAX
  /\ calls' = calls + 1
  /\ proc' = [proc EXCEPT ![p].mmaped_len = @ + n, ![p].mmap_top = @ + n + 1]
  /\ at' = [at EXCEPT ![p] = [op |-> "mmap", needs |-> IF kind = "fb" THEN <<>> ELSE <<n>>,
                              found |-> NONE, got |-> <<>>, n |-> n, kind |-> kind,
                              addr |-> proc[p].mmap_top, id |-> calls + 1]]
  /\ UNCHANGED <<bitmap, mem, stores, view, partial, spoiled>>

(* vmm_mmap_range, fb_mmap.  The framebuffer is mapped MAP_SHARED; private *)
(* mappings of it, which fork maps and lists twice, are left out, as is    *)
(* MAP_FIXED.                                                              *)
Map(p) ==
  /\ Ready(p, "mmap")
  /\ LET c == at[p]
         id == CASE c.kind = "private" -> 0 [] c.kind = "fb" -> FBID [] OTHER -> c.id
         r == Region(c.addr, IF c.kind = "fb" THEN FB ELSE c.got[1], c.n, c.kind, id)
     IN  /\ proc' = [proc EXCEPT ![p].ranges = Append(@, r), ![p].table = Over(@, Pages(r))]
         /\ view' = [view EXCEPT ![p] = Over(@, [v \in Run(r.virt, r.n) |->
              [value |-> IF c.kind = "fb" THEN mem[FB] ELSE 0, shared |-> id]])]
  /\ at' = [at EXCEPT ![p] = Idle]
  /\ UNCHANGED <<bitmap, mem, calls, stores, partial, spoiled>>

Without(g, vs) == [v \in (DOMAIN g) \ vs |-> g[v]]

(* The first range at addr, of whatever kind and length, is taken out of   *)
(* the list and n pages from addr are unmapped.  Freed are the pages of    *)
(* the range that is then in its place: the next one's, or, where there is *)
(* none, by what the vector still holds, its own.                          *)
syscall_munmap(p, i, n) ==
  /\ at[p] = Idle /\ i \in DOMAIN proc[p].ranges /\ calls < MaxCalls
  /\ calls' = calls + 1
  /\ LET q == proc[p]
         r == q.ranges[i]
         there == IF i < Len(q.ranges) THEN q.ranges[i + 1] ELSE r
         gone == Run(r.virt, n)
         after == [proc EXCEPT ![p].ranges = RemoveAt(@, i), ![p].table = Without(@, gone)]
     IN  /\ \A j \in 1 .. i - 1 : q.ranges[j].virt # r.virt
         /\ proc' = after
         /\ view' = [view EXCEPT ![p] = Without(@, gone)]
         /\ partial' = partial \cup IF n # r.n THEN {p} ELSE {}
         /\ Freed(PhysOf(there), after, i < Len(q.ranges) \/ n < r.n \/ SharedWithOther(p, r))
  /\ UNCHANGED <<mem, at, stores>>

---------------------------------------------------------------------------
(* fork and exec.                                                          *)

Private(ranges) == SelectSeq(ranges, LAMBDA r : r.kind = "private")

(* sched_fork: a top level, a copy of each private range, a kernel stack   *)
Fork(p, q) ==
  /\ at[p] = Idle /\ at[q] = Off
  /\ LET private == Private(proc[p].ranges)
     IN  at' = [at EXCEPT
           ![p] = [op |-> "fork", child |-> q, found |-> NONE, got |-> <<>>,
                   needs |-> <<1>> \o [i \in DOMAIN private |-> private[i].n] \o <<StackPages>>],
           ![q] = [op |-> "born"]]
  /\ UNCHANGED <<bitmap, mem, proc, calls, stores, view, partial, spoiled>>

(* The child's range: its own pages for a private one.                     *)
ForkedRange(ranges, i, got) ==
  IF ranges[i].kind = "private"
  THEN [ranges[i] EXCEPT !.phys = got[1 + Len(Private(SubSeq(ranges, 1, i)))]]
  ELSE ranges[i]

(* vmm_fork_pagemap; the new process starts with mmaped_len 0.  It is      *)
(* given all pages of the ranges, with what is in them: the pages of its   *)
(* parent, but for those the parent unmapped apart from their range.       *)
Forked(p) ==
  /\ Ready(p, "fork")
  /\ LET q == proc[p]
         got == at[p].got
         ranges == [i \in DOMAIN q.ranges |-> ForkedRange(q.ranges, i, got)]
         source(f) == CHOOSE g \in DOMAIN mem :
           \E i \in DOMAIN ranges : f - ranges[i].phys = g - q.ranges[i].phys
                                    /\ f \in PhysOf(ranges[i]) /\ g \in PhysOf(q.ranges[i])
         copied == [f \in DOMAIN mem |->
           IF \E i \in DOMAIN ranges : f \in PhysOf(ranges[i]) THEN mem[source(f)] ELSE mem[f]]
         seen == [v \in DOMAIN Table(ranges) |->
           [value |-> copied[Table(ranges)[v]],
            shared |-> (CHOOSE r \in ToSet(ranges) : v \in Run(r.virt, r.n)).id]]
     IN  /\ proc' = [proc EXCEPT ![at[p].child] =
              [q EXCEPT !.top = got[1], !.ranges = ranges, !.table = Table(ranges),
                        !.kernel_stack = Last(got), !.mmaped_len = 0]]
         /\ mem' = copied
         /\ view' = [view EXCEPT ![at[p].child] =
              [v \in DOMAIN seen |-> IF v \in DOMAIN view[p] THEN view[p][v] ELSE seen[v]]]
         /\ at' = [at EXCEPT ![p] = Idle, ![at[p].child] = Idle]
  /\ UNCHANGED <<bitmap, calls, stores, partial, spoiled>>

(* syscall_execve: the new program is built beside the old one ...         *)
Exec(p) ==
  /\ at[p] = Idle /\ calls < MaxCalls
  /\ calls' = calls + 1
  /\ at' = [at EXCEPT ![p] = Call("exec", ImageNeeds)]
  /\ UNCHANGED <<bitmap, mem, proc, stores, view, partial, spoiled>>

(* The pages vmm_destroy_pagemap frees: those of the ranges and the top    *)
(* level.  The old kernel stack is never freed.                            *)
Destroyed(q, got) == UNION {PhysOf(q.ranges[i]) : i \in DOMAIN q.ranges} \cup {q.top}

(* ... and takes its place; vmm_destroy_pagemap frees the old one.         *)
Execed(p) ==
  /\ Ready(p, "exec")
  /\ LET after == [proc EXCEPT ![p] = Loaded(at[p].got)]
     IN  /\ proc' = after
         /\ mem' = LoadedMem(mem, at[p].got)
         /\ Freed(Destroyed(proc[p], at[p].got), after,
                  \E r \in ToSet(proc[p].ranges) : SharedWithOther(p, r))
  /\ view' = [view EXCEPT ![p] = ImageView]
  /\ partial' = partial \ {p}
  /\ at' = [at EXCEPT ![p] = Idle]
  /\ UNCHANGED <<calls, stores>>

---------------------------------------------------------------------------
(* A process writes to a page of its own.  All who share it see it.        *)
Store(p, v) ==
  /\ at[p] = Idle /\ v \in DOMAIN view[p] /\ stores < MaxStores
  /\ stores' = stores + 1
  /\ mem' = [mem EXCEPT ![proc[p].table[v]] = 1]
  /\ view' = [q \in Procs |-> [w \in DOMAIN view[q] |->
       IF \/ q = p /\ w = v
          \/ /\ view[p][v].shared # 0 /\ view[q][w].shared = view[p][v].shared
             /\ w = v \/ view[p][v].shared = FBID
       THEN [view[q][w] EXCEPT !.value = 1] ELSE view[q][w]]]
  /\ UNCHANGED <<bitmap, proc, at, calls, partial, spoiled>>

Next ==
  /\ spoiled = "no"
  /\ \E p \in Procs :
       \/ Find(p) \/ Take(p) \/ Map(p) \/ Forked(p) \/ Exec(p) \/ Execed(p)
       \/ \E n \in Lengths, kind \in {"private", "shared"} : syscall_mmap(p, n, kind)
       \/ syscall_mmap(p, 1, "fb")
       \/ \E i \in DOMAIN proc[p].ranges, n \in Unmaps : syscall_munmap(p, i, n)
       \/ \E q \in Procs : Fork(p, q)
       \/ \E v \in DOMAIN view[p] : Store(p, v)

vars == <<bitmap, mem, proc, at, calls, stores, view, partial, spoiled>>
Spec == Init /\ [][Next]_vars

---------------------------------------------------------------------------
(* Pages that stay in use are freed by munmap only where it was given one  *)
(* of several ranges (it then frees the next one), or too short a length,  *)
(* and by munmap and exec only of a range shared since a fork.             *)
MayFreeUsed == spoiled # "unknown"

(* Up to there: what a process reads at a page is what it, or one it       *)
(* shares the page with, last put there.  Across mmap, munmap, fork and    *)
(* exec of all, every private page is its own and every shared one common. *)
Isolation ==
  spoiled = "no" => \A p \in Procs :
    /\ DOMAIN proc[p].table = DOMAIN view[p]
    /\ \A v \in DOMAIN view[p] : mem[proc[p].table[v]] = view[p][v].value

FramesOf(ranges) == UNION {PhysOf(ranges[i]) : i \in DOMAIN ranges}
Held(q) == IF q.top = NONE THEN {}
           ELSE FramesOf(q.ranges) \cup {q.top} \cup Run(q.kernel_stack, StackPages)
Needed(q) == IF q.top = NONE THEN 0
             ELSE FoldLeft(LAMBDA n, r : n + Cardinality(PhysOf(r)), 1 + StackPages, q.ranges)
Common(q, r) == {x \in ToSet(q.ranges) \cap ToSet(r.ranges) : x.kind = "shared"}

(* Up to there: a frame serves one purpose at a time, as a page of one     *)
(* range, a top level or a kernel stack, and is marked while it does; what *)
(* two processes both hold is in ranges shared since a fork.               *)
FramesExclusive ==
  spoiled = "no" => \A p \in Procs :
    /\ Held(proc[p]) \subseteq bitmap
    /\ Cardinality(Held(proc[p])) = Needed(proc[p])
    /\ \A q \in Procs \ {p} :
         Held(proc[p]) \cap Held(proc[q]) = UNION {PhysOf(r) : r \in Common(proc[p], proc[q])}

(* The page tables, which the hardware reads, map a page of a range to the *)
(* frame that the list of ranges, which fork and exec read, says; as long  *)
(* as munmap is given the length of the range, they map these pages and no *)
(* others.                                                                 *)
RangesMapped ==
  spoiled = "no" => \A p \in Procs :
    LET q == proc[p]
        pages == [i \in DOMAIN q.ranges |-> Pages(q.ranges[i])]
    IN  /\ p \notin partial =>
             DOMAIN q.table = UNION {DOMAIN pages[i] : i \in DOMAIN pages}
        /\ \A i \in DOMAIN pages : \A v \in DOMAIN pages[i] \cap DOMAIN q.table :
             q.table[v] = pages[i][v]
=============================================================================
