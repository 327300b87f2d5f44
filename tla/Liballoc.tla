----------------------------- MODULE Liballoc -----------------------------
(* The kernel heap: liballoc.c on top of the page allocator pmm.c, to which*)
(* kheap.c connects it.  The heap is a list of majors (runs of pages), each*)
(* with a list of minors (allocated blocks).  liballoc_slock is held from  *)
(* entry to return of malloc and free, so each is one step; realloc gives  *)
(* the lock up after looking at the old block and after allocating the new *)
(* one, and is three (the copy, made without the lock, before the third).  *)
EXTENDS Integers, Sequences, FiniteSets, SequencesExt, FiniteSetsExt

CONSTANTS
  Threads,        \* callers of kmalloc, kfree, krealloc
  Requests,       \* sizes they ask for
  MaxBlocks,      \* bound on blocks allocated at a time
  Sizeof,         \* [major, minor]: sizes of the two list headers
  ALIGNMENT, ALIGN_INFO,
  l_pageSize, l_pageCount,
  highest_page,   \* pages of physical memory
  Guard, Reused   \* pages left out behind a run; are freed pages handed out again

ASSUME LiballocAssumption ==
  /\ Requests \subseteq Nat
  /\ Sizeof.major \in Nat \ {0} /\ Sizeof.minor \in Nat \ {0}
  /\ ALIGNMENT \in Nat \ {0} /\ ALIGN_INFO \in Nat \ {0}
  /\ l_pageSize \in Nat \ {0} /\ l_pageCount \in Nat \ {0}
  /\ highest_page \in Nat
  /\ Guard \in Nat /\ Reused \in BOOLEAN

VARIABLES
  pmm_bitmap,     \* pages whose bit is set
  majors,         \* the list at l_memRoot
  l_bestBet,      \* first page of a major, or NULL
  l_inuse, l_allocated, l_errorCount,
  halted,         \* pmalloc found no page: it stops, with the lock held
  live,           \* blocks in the callers' hands: [ptr, n]
  pc, call        \* where a thread is in krealloc, and its locals

heap == <<pmm_bitmap, majors, l_bestBet, l_inuse, l_allocated, halted>>
vars == <<heap, l_errorCount, live, pc, call>>

NULL == -1
NoCall == [ptr |-> NULL, size |-> 0, real_size |-> 0, new |-> NULL]

---------------------------------------------------------------------------
(* pmm.c: pmalloc takes the first free page and marks it and the pages     *)
(* after it; only the first one's bit is tested.                           *)
FreePages == (0 .. highest_page - 1) \ pmm_bitmap
PageRun(page, pages) == page .. page + pages - 1

\* Mutant: the next run follows at once.
TakenBare(m) == pmm_bitmap \cup PageRun(m.page, m.pages)

\* liballoc_alloc_pages and liballoc_free_pages: the pages out of reach of
\* the next call.
Taken(m) == pmm_bitmap \cup PageRun(m.page, m.pages + Guard)
Given(page, pages) == IF Reused THEN pmm_bitmap \ PageRun(page, pages) ELSE pmm_bitmap

---------------------------------------------------------------------------
(* Layout of a major.  Addresses are absolute.                             *)
Base(m) == m.page * l_pageSize
MajorSize(m) == m.pages * l_pageSize
Free(m) == MajorSize(m) - m.usage
LimitNoSize(b) == b.at + Sizeof.minor   \* mutant: the existing block is not counted
Limit(b) == b.at + Sizeof.minor + b.size

\* Gap i follows the i-th minor; gap 0 is in front of the first.
GapStart(m, i) == IF i = 0 THEN Base(m) + Sizeof.major ELSE Limit(m.minors[i])
GapEnd(m, i) == IF i = Len(m.minors) THEN Base(m) + MajorSize(m) ELSE m.minors[i + 1].at
Need(size) == size + Sizeof.minor
Gaps(m, size) == {i \in 0 .. Len(m.minors) : GapEnd(m, i) - GapStart(m, i) >= Need(size)}

(* ALIGN moves a block's address up past the byte that notes by how much;  *)
(* UNALIGN reads the byte.                                                 *)
Padding(a) == LET d == (a + ALIGN_INFO) % ALIGNMENT
              IN ALIGN_INFO + (IF d = 0 THEN 0 ELSE ALIGNMENT - d)
ALIGN(a) == a + Padding(a)

PaddedOnce(req_size) == req_size + ALIGNMENT   \* mutant: no room for the byte
\* The size malloc works with, room for ALIGN included.
Padded(req_size) == req_size + ALIGNMENT + ALIGN_INFO

---------------------------------------------------------------------------
(* allocate_new_page.                                                      *)
PagesFor(size) ==
  LET st == size + Sizeof.major + Sizeof.minor
      n == IF st % l_pageSize = 0 THEN st \div l_pageSize ELSE st \div l_pageSize + 1
  IN IF n < l_pageCount THEN l_pageCount ELSE n

NewMajor(size) ==
  [page |-> Min(FreePages), pages |-> PagesFor(size), usage |-> Sizeof.major, minors |-> <<>>]

---------------------------------------------------------------------------
(* The search.  It starts at l_bestBet if that has room, and then goes     *)
(* through the whole list once more before a major is added.               *)
Bet == {k \in DOMAIN majors : majors[k].page = l_bestBet}
BestSize == IF l_bestBet = NULL THEN 0 ELSE Free(majors[CHOOSE k \in Bet : TRUE])
StartedBet(size) == l_bestBet # NULL /\ BestSize > Need(size)
Indices(from) == [i \in 1 .. Len(majors) - from + 1 |-> from + i - 1]
Order(size) ==
  (IF StartedBet(size) THEN Indices(CHOOSE k \in Bet : TRUE) ELSE <<>>) \o Indices(1)

HasRoom(m, size) == Free(m) >= Need(size) /\ Gaps(m, size) # {}

\* The majors visited: up to the first with room, which is used, or all.
Search(size) ==
  LET order == Order(size)
      hits == {i \in DOMAIN order : HasRoom(majors[order[i]], size)}
  IN [hit |-> hits # {}, seen |-> IF hits = {} THEN order ELSE SubSeq(order, 1, Min(hits))]

(* A visited major with more free memory than the best so far becomes      *)
(* l_bestBet: in the end, the first with the most.  A major added after    *)
(* CASE 1 is used without this comparison, one added after CASE 5 or as    *)
(* the first one is compared.                                              *)
NewBet(search, size) ==
  LET compared == \/ majors = <<>>
                  \/ ~search.hit /\ Free(Last(majors)) >= Need(size)
      seen == [i \in DOMAIN search.seen |-> majors[search.seen[i]]]
              \o (IF compared THEN <<NewMajor(size)>> ELSE <<>>)
      most == Max({Free(seen[i]) : i \in DOMAIN seen})
  IN IF most > BestSize
       THEN seen[Min({i \in DOMAIN seen : Free(seen[i]) = most})].page
       ELSE l_bestBet

---------------------------------------------------------------------------
(* CASES 2, 3 and 4: a minor in the first gap that has room.  A new major  *)
(* is used without looking at its size.                                    *)
GapUsed(m, size) == IF m.minors = <<>> THEN 0 ELSE Min(Gaps(m, size))

Placed(m, size, req_size) ==
  LET i == GapUsed(m, size)
  IN [m EXCEPT !.usage = @ + Need(size),
               !.minors = InsertAt(@, i + 1,
                            [at |-> GapStart(m, i), size |-> size, req_size |-> req_size])]

\* The major malloc uses, what it does to the heap and what it returns.
Chosen(search, size) == IF search.hit THEN majors[Last(search.seen)] ELSE NewMajor(size)

liballoc_malloc(req_size) ==
  LET size == Padded(req_size)
      search == Search(size)
      used == Placed(Chosen(search, size), size, req_size)
  IN /\ ~halted
     /\ \/ /\ search.hit
           /\ majors' = [majors EXCEPT ![Last(search.seen)] = used]
           /\ UNCHANGED <<pmm_bitmap, l_allocated>>
        \/ /\ ~search.hit /\ FreePages # {}
           /\ majors' = Append(majors, used)
           /\ pmm_bitmap' = Taken(used)
           /\ l_allocated' = l_allocated + MajorSize(used)
     /\ l_bestBet' = NewBet(search, size)
     /\ l_inuse' = l_inuse + size
     /\ UNCHANGED halted

Returned(req_size) ==
  LET size == Padded(req_size)
      m == Chosen(Search(size), size)
  IN ALIGN(GapStart(m, GapUsed(m, size)) + Sizeof.minor)

(* No page is free: pmalloc loops for ever inside liballoc_malloc.         *)
OutOfMemory(req_size) ==
  /\ ~halted
  /\ ~Search(Padded(req_size)).hit /\ FreePages = {}
  /\ halted' = TRUE
  /\ UNCHANGED <<pmm_bitmap, majors, l_bestBet, l_inuse, l_allocated, l_errorCount, live, pc, call>>

---------------------------------------------------------------------------
(* liballoc_free.                                                          *)

\* The minors UNALIGN can find behind ptr: the byte it reads was written by
\* ALIGN.  [k, i]: the i-th minor of the k-th major.
Found(ptr) ==
  {f \in [k : DOMAIN majors, i : 1 .. MaxBlocks] :
     /\ f.i \in DOMAIN majors[f.k].minors
     /\ LET a == majors[f.k].minors[f.i].at + Sizeof.minor
        IN ptr = ALIGN(a) /\ Padding(a) < ALIGNMENT + ALIGN_INFO}

Without(m, i) ==
  [m EXCEPT !.usage = @ - Need(m.minors[i].size), !.minors = RemoveAt(@, i)]

\* Mutants: the last page stays marked; the best bet is kept.
ReleaseKeepsPage(k) ==
  /\ majors' = RemoveAt(majors, k)
  /\ l_bestBet' = IF l_bestBet = majors[k].page THEN NULL ELSE l_bestBet
  /\ l_allocated' = l_allocated - MajorSize(majors[k])
  /\ pmm_bitmap' = Given(majors[k].page, majors[k].pages - 1)
ReleaseKeepsBet(k) ==
  /\ majors' = RemoveAt(majors, k)
  /\ l_allocated' = l_allocated - MajorSize(majors[k])
  /\ pmm_bitmap' = Given(majors[k].page, majors[k].pages)
  /\ UNCHANGED l_bestBet

\* The major is empty: it leaves the list and its pages are freed.
ReleaseMajor(k) ==
  /\ majors' = RemoveAt(majors, k)
  /\ l_bestBet' = IF l_bestBet = majors[k].page THEN NULL ELSE l_bestBet
  /\ l_allocated' = l_allocated - MajorSize(majors[k])
  /\ pmm_bitmap' = Given(majors[k].page, majors[k].pages)

\* It is not: it is the best bet if it now has more free memory.
ShrinkMajor(k, m) ==
  /\ majors' = [majors EXCEPT ![k] = m]
  /\ l_bestBet' = LET b == CHOOSE j \in Bet : TRUE
                      best == IF b = k THEN m ELSE majors[b]
                  IN IF l_bestBet # NULL /\ Free(m) > Free(best) THEN m.page ELSE l_bestBet
  /\ UNCHANGED <<pmm_bitmap, l_allocated>>

liballoc_free(ptr) ==
  /\ ~halted
  /\ IF Found(ptr) = {}
       THEN /\ l_errorCount' = l_errorCount + 1
            /\ UNCHANGED heap
       ELSE LET f == CHOOSE g \in Found(ptr) : TRUE
                m == Without(majors[f.k], f.i)
            IN /\ l_inuse' = l_inuse - majors[f.k].minors[f.i].size
               /\ IF m.minors = <<>> THEN ReleaseMajor(f.k) ELSE ShrinkMajor(f.k, m)
               /\ UNCHANGED <<halted, l_errorCount>>

---------------------------------------------------------------------------
(* Threads.                                                                *)
Block(ptr, n) == [ptr |-> ptr, n |-> n]

\* A caller does not pass on, free or reallocate a block during krealloc.
Idle == {b \in live : \A t \in Threads : b.ptr \notin {call[t].ptr, call[t].new}}

\* Bound on what callers hold or are about to get.
Bounded == Cardinality(live) + Cardinality({t \in Threads : pc[t] = "malloc"}) < MaxBlocks

\* kmalloc and kcalloc.
Malloc(t) ==
  /\ pc[t] = "run" /\ Bounded
  /\ \E n \in Requests :
       /\ liballoc_malloc(n)
       /\ live' = live \cup {Block(Returned(n), n)}
  /\ UNCHANGED <<l_errorCount, pc, call>>

Halt(t) ==
  /\ pc[t] = "run" /\ Bounded
  /\ \E n \in Requests : OutOfMemory(n)

\* kfree, and krealloc with size 0.
FreeBlock(t) ==
  /\ pc[t] = "run"
  /\ \E b \in Idle :
       /\ liballoc_free(b.ptr)
       /\ live' = live \ {b}
  /\ UNCHANGED <<pc, call>>

(* liballoc_realloc: looks at the block under the lock ...                 *)
Realloc(t) ==
  /\ pc[t] = "run" /\ ~halted
  /\ \E b \in Idle, size \in Requests \ {0} :
       /\ IF Found(b.ptr) = {}
            THEN /\ l_errorCount' = l_errorCount + 1
                 /\ UNCHANGED <<majors, live, pc, call>>
            ELSE LET f == CHOOSE g \in Found(b.ptr) : TRUE
                     real_size == majors[f.k].minors[f.i].req_size
                 IN \/ /\ real_size >= size
                       /\ majors' = [majors EXCEPT ![f.k].minors[f.i].req_size = size]
                       /\ live' = (live \ {b}) \cup {Block(b.ptr, size)}
                       /\ UNCHANGED <<l_errorCount, pc, call>>
                    \/ /\ real_size < size /\ Bounded
                       /\ pc' = [pc EXCEPT ![t] = "malloc"]
                       /\ call' = [call EXCEPT ![t] = [ptr |-> b.ptr, size |-> size,
                                                       real_size |-> real_size, new |-> NULL]]
                       /\ UNCHANGED <<majors, live, l_errorCount>>
  /\ UNCHANGED <<pmm_bitmap, l_bestBet, l_inuse, l_allocated, halted>>

\* Mutant: a block of the old size is allocated.
ReallocMallocOld(t) ==
  /\ pc[t] = "malloc"
  /\ liballoc_malloc(call[t].real_size)
  /\ live' = live \cup {Block(Returned(call[t].real_size), call[t].real_size)}
  /\ call' = [call EXCEPT ![t].new = Returned(call[t].real_size)]
  /\ pc' = [pc EXCEPT ![t] = "free"]
  /\ UNCHANGED l_errorCount

\* ... and, having released it, allocates, copies and frees.
ReallocMalloc(t) ==
  /\ pc[t] = "malloc"
  /\ liballoc_malloc(call[t].size)
  /\ live' = live \cup {Block(Returned(call[t].size), call[t].size)}
  /\ call' = [call EXCEPT ![t].new = Returned(call[t].size)]
  /\ pc' = [pc EXCEPT ![t] = "free"]
  /\ UNCHANGED l_errorCount

ReallocHalt(t) == pc[t] = "malloc" /\ OutOfMemory(call[t].size)

ReallocFree(t) ==
  /\ pc[t] = "free"
  /\ liballoc_free(call[t].ptr)
  /\ live' = {b \in live : b.ptr # call[t].ptr}
  /\ pc' = [pc EXCEPT ![t] = "run"]
  /\ call' = [call EXCEPT ![t] = NoCall]

Init ==
  /\ pmm_bitmap = {} /\ majors = <<>> /\ l_bestBet = NULL
  /\ l_inuse = 0 /\ l_allocated = 0 /\ l_errorCount = 0 /\ halted = FALSE
  /\ live = {} /\ pc = [t \in Threads |-> "run"] /\ call = [t \in Threads |-> NoCall]

Next ==
  \E t \in Threads : \/ Malloc(t) \/ Halt(t) \/ FreeBlock(t) \/ Realloc(t)
                     \/ ReallocMalloc(t) \/ ReallocHalt(t) \/ ReallocFree(t)

Spec == Init /\ [][Next]_vars

---------------------------------------------------------------------------
(* Properties.                                                             *)
Minors == UNION {{k} \X (DOMAIN majors[k].minors) : k \in DOMAIN majors}

(* Types: pages, the two lists, counters and the state of krealloc.        *)
TypeOK ==
  /\ pmm_bitmap \subseteq Nat
  /\ \A k \in DOMAIN majors :
       /\ majors[k].page \in Nat /\ majors[k].pages \in Nat /\ majors[k].usage \in Nat
       /\ \A i \in DOMAIN majors[k].minors :
            majors[k].minors[i] \in [at : Nat, size : Nat, req_size : Nat]
  /\ l_bestBet \in Nat \cup {NULL}
  /\ l_inuse \in Nat /\ l_allocated \in Nat /\ l_errorCount \in Nat /\ halted \in BOOLEAN
  /\ live \subseteq [ptr : Nat, n : Nat]
  /\ pc \in [Threads -> {"run", "malloc", "free"}]
  /\ call \in [Threads -> [ptr : Nat \cup {NULL}, size : Nat, real_size : Nat,
                           new : Nat \cup {NULL}]]

(* liballoc_alloc_pages gives the heap pages of its own: the runs of two   *)
(* majors share no page, all lie in memory, and when a major is released   *)
(* its pages are, so that no other page stays marked.                      *)
PagesExclusive ==
  /\ \A k \in DOMAIN majors :
       /\ PageRun(majors[k].page, majors[k].pages) \subseteq 0 .. highest_page - 1
       /\ \A j \in (DOMAIN majors) \ {k} :
            PageRun(majors[k].page, majors[k].pages)
              \cap PageRun(majors[j].page, majors[j].pages) = {}
  /\ pmm_bitmap = UNION {PageRun(majors[k].page, majors[k].pages) : k \in DOMAIN majors}

(* The list of minors malloc squeezes blocks into stays in address order:  *)
(* no block, header included, reaches into the next one, into the major's  *)
(* header or past its end.  The unsigned gap sizes of CASE 3 and 4 rely on *)
(* it.                                                                     *)
BlocksOrdered ==
  \A k \in DOMAIN majors :
    \A i \in 0 .. Len(majors[k].minors) : GapStart(majors[k], i) <= GapEnd(majors[k], i)

(* A pointer malloc or realloc returned is aligned, leads UNALIGN to its   *)
(* one block, in which the bytes asked for fit behind it; so free and      *)
(* realloc refuse none of them.  No block is left that nobody holds.       *)
BlocksOwned ==
  /\ \A b \in live :
       /\ b.ptr % ALIGNMENT = 0
       /\ \E f \in Found(b.ptr) :
            /\ Found(b.ptr) = {f}
            /\ b.ptr + b.n <= Limit(majors[f.k].minors[f.i])
            /\ b.n = majors[f.k].minors[f.i].req_size
  /\ Cardinality(live) = Cardinality(Minors)
  /\ l_errorCount = 0

(* usage, l_inuse and l_allocated, which malloc and free keep separately   *)
(* from the lists, agree with them: CASE 1 skips no major that has room    *)
(* and the memory is reported as returned when it is.                      *)
Accounted ==
  /\ \A k \in DOMAIN majors :
       majors[k].usage = Sizeof.major
         + FoldSeq(LAMBDA b, sum : Need(b.size) + sum, 0, majors[k].minors)
  /\ l_allocated = FoldSeq(LAMBDA m, sum : MajorSize(m) + sum, 0, majors)
  /\ l_inuse = FoldSeq(LAMBDA m, sum :
                 m.usage - Sizeof.major - Sizeof.minor * Len(m.minors) + sum, 0, majors)

(* l_bestBet, which malloc dereferences, is NULL or a major of the list,   *)
(* and free keeps no empty major.                                          *)
BestBetListed ==
  /\ l_bestBet # NULL => Bet # {}
  /\ \A k \in DOMAIN majors : majors[k].minors # <<>>

(* When realloc copies, with a size it read before it gave up the lock,    *)
(* both blocks are still there and the copy fits in both.                  *)
CopyFits ==
  \A t \in Threads : pc[t] = "free" =>
    /\ Block(call[t].ptr, call[t].real_size) \in live
    /\ Block(call[t].new, call[t].size) \in live
    /\ call[t].real_size <= call[t].size

---------------------------------------------------------------------------
(* What callers rely on.                                                   *)
Abstract == INSTANCE Allocator WITH blocks <- live

(* malloc, free and realloc implement an allocator of disjoint blocks that *)
(* leaves every block alone but the one it is called for.                  *)
ImplementsAllocator == Abstract!Spec

(* The heap's own lists and counters fit together: blocks in order, usage  *)
(* counted, l_bestBet listed.                                              *)
ListsSound == TypeOK /\ BlocksOrdered /\ Accounted /\ BestBetListed
=============================================================================
