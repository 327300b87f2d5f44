----------------------------- MODULE Allocator -----------------------------
(* What the callers of kmalloc, kfree and krealloc rely on: blocks that do *)
(* not overlap and stay where and as long as they are.                     *)
EXTENDS Integers

VARIABLE blocks   \* [ptr, n]: n bytes at ptr

Disjoint(b, c) == b.ptr + b.n <= c.ptr \/ c.ptr + c.n <= b.ptr

Init == blocks = {}

Free(b) == blocks' = blocks \ {b}

\* A new block, or a shorter one in the place of b.
Malloc == \E b \in blocks' : /\ blocks' = blocks \cup {b}
                             /\ \A c \in blocks : Disjoint(b, c)
Shrink(b) == \E c \in blocks' : /\ blocks' = (blocks \ {b}) \cup {c}
                                /\ c.ptr = b.ptr /\ c.n <= b.n

Next == Malloc \/ \E b \in blocks : Free(b) \/ Shrink(b)

Spec == Init /\ [][Next]_blocks
============================================================================
