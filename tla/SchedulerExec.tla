--------------------------- MODULE SchedulerExec ---------------------------
(***************************************************************************)
(* The scheduler with execve: the path of sched_run_program (replace = 1)  *)
(* that turns the calling thread into a new program.  It rebuilds the      *)
(* thread_t the CPU is running, with interrupts enabled, and loads the     *)
(* result only after it has released sched_lock.                           *)
(***************************************************************************)
EXTENDS Scheduler

(* sched_new_thread on the running thread: the structure is overwritten,   *)
(* so its lock and its queued flag are clear and its registers are those   *)
(* of the entry point.                                                     *)
Replace(c) ==
  LET t == current[c]
  IN /\ Executes(c, "run")
     /\ lock' = [lock EXCEPT ![t] = FALSE]
     /\ queued' = [queued EXCEPT ![t] = FALSE]
     /\ regs' = [regs EXCEPT ![t] = At("entry")]
     /\ Goto(c, "exec_lock")
     /\ UNCHANGED <<runqueue, sched_lock, heap_lock, cpu_locals, timer, hpc>>

ReplaceLock(c) ==
  /\ Executes(c, "exec_lock")
  /\ ~sched_lock
  /\ sched_lock' = TRUE
  /\ Goto(c, "exec")
  /\ UNCHANGED <<runqueue, heap_lock, thread_t, cpu_locals, timer, hpc>>

(* The arguments are loaded and the page maps exchanged under the lock.    *)
ReplaceUnlock(c) ==
  /\ Executes(c, "exec")
  /\ sched_lock' = FALSE
  /\ Goto(c, "exec_jump")
  /\ UNCHANGED <<runqueue, heap_lock, thread_t, cpu_locals, timer, hpc>>

(* switch_and_run_stack(&thread->regs): whatever has been saved there.     *)
ReplaceJump(c) ==
  /\ Executes(c, "exec_jump")
  /\ ctx' = [ctx EXCEPT ![c] = regs[current[c]]]
  /\ UNCHANGED <<runqueue, sched_lock, heap_lock, thread_t, cpu_locals, timer, hpc>>

ExecStep(c) == ThreadStep(c) \/ ReplaceLock(c) \/ ReplaceUnlock(c) \/ ReplaceJump(c)

ExecNext == Next \/ (~astray /\ \E c \in Cpus : Replace(c) \/ ExecStep(c))

ExecSpec == Init /\ [][ExecNext]_vars

ExecFairSpec ==
  /\ ExecSpec
  /\ \A c \in Cpus :
       /\ WF_vars(~astray /\ HandlerStep(c))
       /\ WF_vars(~astray /\ Tick(c))
       /\ \A t \in Threads : SF_vars(~astray /\ current[c] = t /\ ExecStep(c))

---------------------------------------------------------------------------
(* execve runs the program it was given: a thread that has started to      *)
(* replace its image gets to the entry point of the new one                *)
(* (prog/fork_test/src/fork_test.c:71 calls it as its last act).           *)
ExecReachesEntry ==
  \A t \in Threads : ContextOf(t).pc = "exec_lock" ~> ContextOf(t).pc = "entry"
=============================================================================
