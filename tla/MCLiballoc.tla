----------------------------- MODULE MCLiballoc -----------------------------
EXTENDS Liballoc, TLC
CONSTANTS t1, t2
Sizes == [major |-> 3, minor |-> 3]
Symmetry == Permutations(Threads)
=============================================================================
