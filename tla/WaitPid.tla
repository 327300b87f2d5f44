------------------------------ MODULE WaitPid ------------------------------
(***************************************************************************)
(* Waiting for child processes: event_await and event_trigger (event.c),   *)
(* sched_exit and sched_waitpid (tasking/scheduler.c), and the part of     *)
(* sched_fork that makes a process a child.                                *)
(*                                                                         *)
(* One parent forks children and waits for them while they run and exit on *)
(* other CPUs or in other time slices.  A process exits once, and its event*)
(* is counted up by its exit and down by its parent's wait.  Each event has*)
(* a spinlock, which the polling loop of event_await does not take.        *)
(***************************************************************************)
EXTENDS Integers, Sequences, SequencesExt

CONSTANTS
  Children,     \* processes the parent may fork
  Nobody,       \* the result of a call that reaps no child: 0 or -ECHILD
  Wild,         \* the pid found behind an uninitialised pointer
  Programs      \* parent programs, as the calls they make: "any" (pid -1), "pid",
                \* "stranger", and "nohang" if they may have the WNOHANG option

ASSUME ProgramsAssumption == Programs \subseteq SUBSET {"any", "pid", "stranger", "nohang"}
ASSUME ResultsAssumption == Nobody \notin Children /\ Wild \notin Children

VARIABLES
  calls,        \* the program the parent runs, a member of Programs
  children,     \* current_proc->children
  pending,      \* event->pending of each process
  elock,        \* bit 0 of event->lock of each process
  cpc,          \* where each child is
  cval,         \* what a child in event_trigger has read from pending
  ppc,          \* where the parent is
  events,       \* the events array of sched_waitpid, as the processes they belong to
  i,            \* the loop index in event_await, from 1
  block,        \* !(options & WNOHANG)
  child,        \* the local variable of sched_waitpid, Nobody when NULL
  val,          \* what the parent has read from pending before storing it back
  result,       \* what the last call of waitpid returned
  reaped        \* history: how many times each child was reaped

event_t == <<pending, elock>>
locals == <<events, block, child>>
vars == <<calls, children, event_t, cpc, cval, ppc, locals, i, val, result, reaped>>

TypeOK ==
  /\ calls \in Programs
  /\ children \in Seq(Children)
  /\ pending \in [Children -> Nat]
  /\ elock \in [Children -> BOOLEAN]
  /\ cpc \in [Children -> {"none", "run", "lock", "load", "store", "unlock", "exited"}]
  /\ cval \in [Children -> Nat]
  /\ ppc \in {"run", "lock", "check", "unlock", "poll", "load", "store", "lost"}
  /\ events \in Seq(Children)
  /\ i \in Nat
  /\ block \in BOOLEAN
  /\ child \in Children \cup {Nobody, Wild}
  /\ val \in Nat
  /\ result \in Children \cup {Nobody, Wild}
  /\ reaped \in [Children -> Nat]

Init ==
  /\ calls \in Programs
  /\ children = <<>>
  /\ pending = [c \in Children |-> 0]
  /\ elock = [c \in Children |-> FALSE]
  /\ cpc = [c \in Children |-> "none"]
  /\ cval = [c \in Children |-> 0]
  /\ ppc = "run"
  /\ events = <<>>
  /\ i = 1
  /\ block = FALSE
  /\ child = Nobody
  /\ val = 0
  /\ result = Nobody
  /\ reaped = [c \in Children |-> 0]

---------------------------------------------------------------------------
(* A child.                                                                *)

CMove(c, from, to) == cpc[c] = from /\ cpc' = [cpc EXCEPT ![c] = to]
ParentUnchanged == UNCHANGED <<calls, children, ppc, locals, i, val, result, reaped>>

sched_exit(c) ==
  /\ CMove(c, "run", "lock")
  /\ ParentUnchanged /\ UNCHANGED <<event_t, cval>>

(* event_trigger: pending is counted up under the event's lock, by a load  *)
(* and a store.                                                            *)
TriggerLock(c) ==
  /\ CMove(c, "lock", "load")
  /\ ~elock[c]
  /\ elock' = [elock EXCEPT ![c] = TRUE]
  /\ ParentUnchanged /\ UNCHANGED <<pending, cval>>

TriggerLoad(c) ==
  /\ CMove(c, "load", "store")
  /\ cval' = [cval EXCEPT ![c] = pending[c]]
  /\ ParentUnchanged /\ UNCHANGED event_t

TriggerStore(c) ==
  /\ CMove(c, "store", "unlock")
  /\ pending' = [pending EXCEPT ![c] = cval[c] + 1]
  /\ ParentUnchanged /\ UNCHANGED <<elock, cval>>

TriggerUnlock(c) ==
  /\ CMove(c, "unlock", "exited")
  /\ elock' = [elock EXCEPT ![c] = FALSE]
  /\ ParentUnchanged /\ UNCHANGED <<pending, cval>>

event_trigger(c) ==
  TriggerLock(c) \/ TriggerLoad(c) \/ TriggerStore(c) \/ TriggerUnlock(c)

---------------------------------------------------------------------------
(* The parent.                                                             *)

PMove(from, to) == ppc = from /\ ppc' = to
ChildrenUnchanged == UNCHANGED <<calls, children, cpc, cval>>

(* A new process has an event of its own and is the parent's last child.   *)
sched_fork(c) ==
  /\ ppc = "run"
  /\ CMove(c, "none", "run")
  /\ children' = Append(children, c)
  /\ UNCHANGED <<calls, event_t, cval, ppc, locals, i, val, result, reaped>>

Blocking == {TRUE} \cup (IF "nohang" \in calls THEN {FALSE} ELSE {})

(* sched_waitpid(-1): child is not initialised on this path.               *)
WaitAny ==
  /\ "any" \in calls
  /\ PMove("run", "lock")
  /\ events' = children
  /\ child' \in {Nobody, Wild}
  /\ block' \in Blocking
  /\ i' = 1
  /\ ChildrenUnchanged /\ UNCHANGED <<event_t, val, result, reaped>>

(* sched_waitpid(pid) for a child, reaped or not: children stay in the list.*)
WaitFor(c) ==
  /\ "pid" \in calls
  /\ c \in ToSet(children)
  /\ PMove("run", "lock")
  /\ events' = <<c>>
  /\ child' = c
  /\ block' \in Blocking
  /\ i' = 1
  /\ ChildrenUnchanged /\ UNCHANGED <<event_t, val, result, reaped>>

(* sched_waitpid(pid) for no child: *events is whatever the heap holds, and*)
(* only a NULL there is an error; anything else is used as an event.       *)
WaitForStranger ==
  /\ "stranger" \in calls
  /\ \/ ppc = "run" /\ UNCHANGED ppc
     \/ PMove("run", "lost")
  /\ result' = Nobody
  /\ ChildrenUnchanged /\ UNCHANGED <<event_t, locals, i, val, reaped>>

(* Mutant: the index is always taken for one into the list of children.    *)
ReturnedByIndex(which) == children[which]

(* sched_waitpid, after event_await has returned an index.                 *)
Returned(which) == IF child = Nobody THEN children[which] ELSE child

(* event_await: lock all events in order.                                  *)
AwaitLock ==
  /\ ppc = "lock"
  /\ IF i > Len(events)
     THEN ppc' = "check" /\ i' = 1 /\ UNCHANGED elock
     ELSE /\ ~elock[events[i]]
          /\ elock' = [elock EXCEPT ![events[i]] = TRUE]
          /\ i' = i + 1
          /\ UNCHANGED ppc
  /\ ChildrenUnchanged /\ UNCHANGED <<pending, locals, val, result, reaped>>

(* Mutant: the event that is found is not counted down.                    *)
AwaitFoundKeeps ==
  /\ ppc = "check"
  /\ i <= Len(events) /\ pending[events[i]] > 0
  /\ reaped' = [reaped EXCEPT ![events[i]] = @ + 1]
  /\ result' = Returned(i)
  /\ ppc' = "run"
  /\ ChildrenUnchanged /\ UNCHANGED <<event_t, locals, i, val>>

(* Look for a pending one; the call that finds one returns at once.        *)
AwaitFound ==
  /\ ppc = "check"
  /\ i <= Len(events) /\ pending[events[i]] > 0
  /\ pending' = [pending EXCEPT ![events[i]] = @ - 1]
  /\ reaped' = [reaped EXCEPT ![events[i]] = @ + 1]
  /\ result' = Returned(i)
  /\ ppc' = "run"
  /\ ChildrenUnchanged /\ UNCHANGED <<elock, locals, i, val>>

AwaitNext ==
  /\ ppc = "check"
  /\ i <= Len(events) => pending[events[i]] = 0
  /\ IF i > Len(events) THEN ppc' = "unlock" /\ i' = 1
                        ELSE ppc' = "check" /\ i' = i + 1
  /\ ChildrenUnchanged /\ UNCHANGED <<event_t, locals, val, result, reaped>>

(* Mutant: the locks are kept while the call polls.                        *)
AwaitKeepsLocks ==
  /\ ppc = "unlock"
  /\ ppc' = IF block THEN "poll" ELSE "run"
  /\ result' = IF block THEN result ELSE Nobody
  /\ i' = 1
  /\ ChildrenUnchanged /\ UNCHANGED <<event_t, locals, val, reaped>>

(* Nothing pending: unlock all, and return unless the call is to block.    *)
AwaitUnlock ==
  /\ ppc = "unlock"
  /\ IF i > Len(events)
     THEN /\ ppc' = IF block THEN "poll" ELSE "run"
          /\ result' = IF block THEN result ELSE Nobody
          /\ i' = 1
          /\ UNCHANGED elock
     ELSE /\ elock' = [elock EXCEPT ![events[i]] = FALSE]
          /\ i' = i + 1
          /\ UNCHANGED <<ppc, result>>
  /\ ChildrenUnchanged /\ UNCHANGED <<pending, locals, val, reaped>>

(* Mutant: the test of pending off by one.                                 *)
AwaitPollAboveOne ==
  /\ ppc = "poll"
  /\ Len(events) > 0
  /\ IF pending[events[i]] > 1
     THEN ppc' = "load" /\ UNCHANGED i
     ELSE i' = (i % Len(events)) + 1 /\ UNCHANGED ppc
  /\ ChildrenUnchanged /\ UNCHANGED <<event_t, locals, val, result, reaped>>

(* Poll without the locks; with no events the loop goes round for ever.    *)
AwaitPoll ==
  /\ ppc = "poll"
  /\ Len(events) > 0
  /\ IF pending[events[i]] > 0
     THEN ppc' = "load" /\ UNCHANGED i
     ELSE i' = (i % Len(events)) + 1 /\ UNCHANGED ppc
  /\ ChildrenUnchanged /\ UNCHANGED <<event_t, locals, val, result, reaped>>

AwaitLoad ==
  /\ PMove("load", "store")
  /\ val' = pending[events[i]]
  /\ ChildrenUnchanged /\ UNCHANGED <<event_t, locals, i, result, reaped>>

AwaitStore ==
  /\ PMove("store", "run")
  /\ pending' = [pending EXCEPT ![events[i]] = val - 1]
  /\ reaped' = [reaped EXCEPT ![events[i]] = @ + 1]
  /\ result' = Returned(i)
  /\ ChildrenUnchanged /\ UNCHANGED <<elock, locals, i, val>>

event_await ==
  \/ AwaitLock
  \/ AwaitFound
  \/ AwaitNext
  \/ AwaitUnlock
  \/ AwaitPoll
  \/ AwaitLoad
  \/ AwaitStore

sched_waitpid == WaitAny \/ (\E c \in Children : WaitFor(c)) \/ WaitForStranger

Next ==
  \/ sched_waitpid
  \/ event_await
  \/ \E c \in Children : sched_fork(c) \/ sched_exit(c) \/ event_trigger(c)

Spec == Init /\ [][Next]_vars

(* Every runnable process is given time slices (Scheduler: NoStarvation).  *)
FairSpec ==
  /\ Spec
  /\ WF_vars(event_await)
  /\ \A c \in Children : WF_vars(event_trigger(c))

---------------------------------------------------------------------------
(* Properties.                                                             *)

Triggered(c) == cpc[c] \in {"unlock", "exited"}

(* No exit is lost and none is counted twice, although pending is counted  *)
(* down without the lock: once a child has raised its event, either it is  *)
(* still pending or the parent has reaped it, and never before.            *)
ExitsAccounted ==
  \A c \in Children : pending[c] + reaped[c] = IF Triggered(c) THEN 1 ELSE 0

(* The first pass of event_await is atomic for the events it looks at: from*)
(* the last LOCK to the first UNLOCK no child is counting its event up.    *)
ScanExclusive ==
  ppc = "check" => \A k \in DOMAIN events : cpc[events[k]] \notin {"load", "store", "unlock"}

(* A parent that asks for its children by pid and blocks.                  *)
WaitsByPid == calls \cap {"any", "nohang"} = {}

(* Such a parent is only ever told of a child that has exited and has been *)
(* reaped by it (with pid -1 the local variable child is used              *)
(* uninitialised).                                                         *)
ReturnsExitedChild ==
  WaitsByPid /\ result # Nobody =>
    result \in Children /\ Triggered(result) /\ reaped[result] = 1

(* It holds up no exit: a child that calls exit raises its event.          *)
ExitCompletes ==
  WaitsByPid => \A c \in Children : cpc[c] = "lock" ~> cpc[c] = "exited"

Waiting == ppc \notin {"run", "lost"}
Reapable == \E k \in DOMAIN events : cpc[events[k]] = "exited" /\ reaped[events[k]] = 0

(* A wait() that has a child to reap comes back, whatever calls the parent *)
(* has made before: the shell runs its next command after it               *)
(* (prog/shell/src/main.c:111, "Wait for Children if not running on        *)
(* Background.").                                                          *)
WaitReturns == Waiting /\ Reapable ~> ~Waiting

(* A parent that waits by pid gets its answer.                             *)
WaitByPidReturns == WaitsByPid => WaitReturns

(* The book-keeping of exits, and the locking that protects it in the      *)
(* first pass of event_await.                                              *)
Accounting == TypeOK /\ ExitsAccounted /\ ScanExclusive
=============================================================================
