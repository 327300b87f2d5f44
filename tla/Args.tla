-------------------------------- MODULE Args -------------------------------
(***************************************************************************)
(* sched_load_args_to_stack (tasking/scheduler.c): what a new program      *)
(* finds on its stack.  A string is the length it has; NULL is no array.   *)
(* The stack is a function from the addresses below its top (as negative   *)
(* numbers, seen by the kernel at another address with the same offset) to *)
(* what is in each byte.                                                   *)
(***************************************************************************)
EXTENDS Integers, Sequences, SequencesExt, FiniteSets

CONSTANTS Lengths, MaxStrings    \* bounds on the strings handed over

VARIABLES argv, env              \* sequences of lengths, or NULL

NULL == <<-1>>
Arrays == {NULL} \cup BoundedSeq(Lengths, MaxStrings)
Count(a) == IF a = NULL THEN 0 ELSE Len(a)

Init == argv = NULL /\ env = NULL

(* The caller of sched_run_program hands over any arrays.                  *)
Call == argv' \in Arrays /\ env' \in Arrays

Sum(a, n) == FoldLeft(LAMBDA s, i : s + a[i] + 1, 0, [i \in 1 .. n |-> i])

(* strcpy of each string of a below the one before it: where string i is.  *)
Strings(top, a) == [i \in 1 .. Count(a) |-> top - Sum(a, i)]

(* Mutant: the terminating zero of a string is not counted.                *)
Unterminated(sa, a) == [i \in 1 .. Count(a) |-> sa - (Sum(a, i) - i)]

(* The addresses written into an array, worked out from sa a second time.  *)
Pointers(sa, a) == [i \in 1 .. Count(a) |-> sa - Sum(a, i)]

(* --stack for the null pointer and one for each string.                   *)
Array(stack, a) == IF a = NULL THEN stack ELSE stack - 8 - 8 * Count(a)

(* rsp -= rsp & 8                                                          *)
Rsp(stack) == stack - 8 * ((stack \div 8) % 2)

Layout ==
  LET envs == 0 - Sum(env, Count(env))
      low == envs - Sum(argv, Count(argv))
      stack == low - (low % 16)
      envp == Array(stack, env)
      argp == Array(envp, argv)
  IN  [env_at |-> Strings(0, env), env_ptrs |-> Pointers(0, env), rdx |-> envp,
       argv_at |-> Strings(envs, argv), argv_ptrs |-> Pointers(envs, argv), rsi |-> argp,
       rsp |-> Rsp(argp)]

(* What is on the stack: where it begins and how long it is.               *)
Pieces(a, at, array) ==
  {<<at[i], a[i] + 1>> : i \in 1 .. Count(a)}
    \cup (IF a = NULL THEN {} ELSE {<<array, 8 * (Count(a) + 1)>>})

Next == Call
vars == <<argv, env>>
Spec == Init /\ [][Next]_vars

---------------------------------------------------------------------------
(* A program can read what it is called with: each pointer of argv and of  *)
(* envp is where its string was copied, the arrays with their null         *)
(* pointers and all strings lie apart from each other, and rsp is aligned  *)
(* to 16 bytes and below all of it, so that pushes overwrite none of it.   *)
ArgsReadable ==
  LET l == Layout
      pieces == Pieces(env, l.env_at, l.rdx) \cup Pieces(argv, l.argv_at, l.rsi)
  IN  /\ l.env_ptrs = l.env_at /\ l.argv_ptrs = l.argv_at
      /\ Cardinality(pieces) = Count(env) + Count(argv) + Cardinality({a \in {1, 2} : <<env, argv>>[a] # NULL})
      /\ \A x, y \in pieces : x = y \/ x[1] + x[2] <= y[1] \/ y[1] + y[2] <= x[1]
      /\ l.rsp % 16 = 0 /\ \A x \in pieces : l.rsp <= x[1] /\ x[1] + x[2] <= 0
=============================================================================
