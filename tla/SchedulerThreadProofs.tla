----------------------- MODULE SchedulerThreadProofs -----------------------
(***************************************************************************)
(* Threads are neither duplicated nor lost: for any number of CPUs and     *)
(* threads, with all threads at one priority (SingleLevel), each thread    *)
(* runs on one CPU at most, has one slot in its run queue, and its context *)
(* passes through schedule() unchanged; with these the scheduler is shown  *)
(* to implement ThreadMachine, and two CPUs to be on one kernel stack only *)
(* between scheduler.c:375 and 377.                                        *)
(***************************************************************************)
EXTENDS SchedulerProofs, SchedulerRefinement, FiniteSetTheorems

(* Points at which a new thread is in hand and not in its run queue yet.   *)
BeforePush == {"heap_lock", "heap", "enq", "enq_lock", "push", "grow_lock", "grow"}
Pending(s, t) == ContextOf(s).arg = t /\ ContextOf(s).pc \in BeforePush

Distinct == \A c, d \in Cpus : current[c] = current[d] /\ current[c] # NoThread => c = d
Locked == \A t \in Threads : lock[t] <=> \E c \in Cpus : current[c] = t

OwnLevel == \A l \in Levels : \A i \in DOMAIN queue[l] : Priority[queue[l][i]] = l
OneSlot == \A l \in Levels : \A i, j \in DOMAIN queue[l] : queue[l][i] = queue[l][j] => i = j

(* The slot of a CPU's current thread, and the level it was found at, which*)
(* schedule() compares with what the search returns.                       *)
CurrentSlot(c) ==
  LET l == Priority[current[c]]
  IN /\ last_run[c][l] + 1 \in DOMAIN queue[l]
     /\ queue[l][last_run[c][l] + 1] = current[c]
CurrentLevel(c) ==
  /\ hpc[c] # "level" => prio[c] = Priority[current[c]]
  /\ hpc[c] \in {"level", "pick"} => old_prio[c] = Priority[current[c]]

PlaceInv ==
  /\ Distinct
  /\ Locked
  /\ OwnLevel
  /\ OneSlot
  /\ \A c \in Cpus : current[c] # NoThread => CurrentSlot(c) /\ CurrentLevel(c)
  /\ \A c \in Cpus : current[c] = NoThread => ctx[c].pc = "idle"

(* A thread in a run queue, or about to be pushed, exists; what is about to*)
(* be pushed is in no queue and in nobody else's hands.                    *)
Usual(x) == x.pc \in {"run", "entry"} => x.arg = NoThread
PendingInv ==
  /\ \A c \in Cpus : ctx[c].pc # "none" /\ Usual(ctx[c])
  /\ \A t \in Threads : Usual(regs[t])
  /\ \A t \in Threads : InQueue(t) => regs[t].pc # "none"
  /\ \A s, t \in Threads : Pending(s, t) =>
       /\ ~InQueue(t)
       /\ regs[t].pc # "none"
       /\ \A r \in Threads : Pending(r, t) => r = s

---------------------------------------------------------------------------
(* ContextOf, as a function of the state it looks at.                      *)
IsLoaded(cur, h, c, t) == cur[c] = t /\ h[c] \notin {"release", "jump"}
View(cur, h, x, r, t) ==
  IF \E c \in Cpus : IsLoaded(cur, h, c, t)
  THEN x[CHOOSE c \in Cpus : IsLoaded(cur, h, c, t)]
  ELSE r[t]

LEMMA ContextIsView ==
  \A t \in Threads : /\ ContextOf(t) = View(current, hpc, ctx, regs, t)
                     /\ ContextOf(t)' = View(current', hpc', ctx', regs', t)
  BY DEF ContextOf, Loaded, View, IsLoaded

LEMMA ViewLoaded ==
  ASSUME NEW cur, NEW h, NEW x, NEW r, NEW t, NEW c \in Cpus, IsLoaded(cur, h, c, t),
         \A d \in Cpus : cur[d] = t => d = c
  PROVE  View(cur, h, x, r, t) = x[c]
<1>1. (CHOOSE d \in Cpus : IsLoaded(cur, h, d, t)) = c
  BY DEF IsLoaded
<1> QED BY <1>1 DEF View

LEMMA ViewSaved ==
  ASSUME NEW cur, NEW h, NEW x, NEW r, NEW t, \A c \in Cpus : ~IsLoaded(cur, h, c, t)
  PROVE  View(cur, h, x, r, t) = r[t]
  BY DEF View

---------------------------------------------------------------------------
(* What schedule() switches to: a thread that no CPU is running.  If the   *)
(* search comes back with the CPU's own thread, it has found the slot it   *)
(* remembers, and does not switch.                                         *)
LEMMA SwitchFacts ==
  ASSUME TypeInv, PlaceInv, NEW c \in Cpus, SwitchTo(c)
  PROVE  \E new \in Threads, slot \in Nat :
           /\ \A d \in Cpus : current[d] # new
           /\ Priority[new] = prio[c]
           /\ slot + 1 \in DOMAIN queue[prio[c]] /\ queue[prio[c]][slot + 1] = new
           /\ lock' = [t \in Threads |->
                         IF t = current[c] THEN FALSE ELSE t = new \/ lock[t]]
           /\ regs' = [t \in Threads |-> IF t = current[c] THEN ctx[c] ELSE regs[t]]
           /\ current' = [current EXCEPT ![c] = new]
           /\ last_run' = [last_run EXCEPT ![c][prio[c]] = slot]
<1>0. hpc[c] = "pick"
  BY DEF SwitchTo
<1>1. PICK k \in Probes(c) :
        /\ FirstTaken(c, k)
        /\ ~SameSlot(c, k)
        /\ lock' = [t \in Threads |->
                      IF t = current[c] THEN FALSE ELSE t = Probed(c, k) \/ lock[t]]
        /\ regs' = [t \in Threads |-> IF t = current[c] THEN ctx[c] ELSE regs[t]]
        /\ current' = [current EXCEPT ![c] = Probed(c, k)]
        /\ last_run' = [last_run EXCEPT ![c][prio[c]] = Probe(c, k)]
  BY DEF SwitchTo
<1> DEFINE new == Probed(c, k)
           slot == Probe(c, k)
<1>2. slot \in Nat /\ slot + 1 \in DOMAIN queue[prio[c]] /\ new \in Threads
  BY <1>0, ProbeType
<1>3. queue[prio[c]][slot + 1] = new
  BY DEF Probed
<1>4. prio[c] \in Levels /\ current[c] \in Threads \cup {NoThread}
  BY DEF TypeInv, TypeOK
<1>5. Priority[new] = prio[c]
  BY <1>2, <1>3, <1>4 DEF PlaceInv, OwnLevel
<1>6. new # current[c]
  <2> SUFFICES ASSUME new = current[c] PROVE FALSE
    OBVIOUS
  <2>1. current[c] # NoThread
    BY <1>2, NoThreadAssumption
  <2>2. CurrentSlot(c) /\ CurrentLevel(c)
    BY <2>1 DEF PlaceInv
  <2>3. prio[c] = Priority[current[c]] /\ old_prio[c] = prio[c]
    BY <1>0, <2>2 DEF CurrentLevel
  <2>4. /\ last_run[c][prio[c]] + 1 \in DOMAIN queue[prio[c]]
        /\ queue[prio[c]][last_run[c][prio[c]] + 1] = queue[prio[c]][slot + 1]
    BY <1>3, <2>2, <2>3 DEF CurrentSlot
  <2>5. last_run[c][prio[c]] + 1 = slot + 1
    BY <1>2, <1>4, <2>4 DEF PlaceInv, OneSlot
  <2>6. last_run[c][prio[c]] = slot
    BY <1>2, <1>4, <2>5 DEF TypeInv, TypeOK
  <2> QED
    BY <1>1, <2>1, <2>3, <2>6 DEF SameSlot
<1>7. ~lock[new]
  BY <1>1, <1>6 DEF FirstTaken, Takes
<1>8. \A d \in Cpus : current[d] # new
  BY <1>2, <1>7 DEF PlaceInv, Locked
<1> HIDE DEF new, slot
<1>9. /\ lock' = [t \in Threads |-> IF t = current[c] THEN FALSE ELSE t = new \/ lock[t]]
      /\ current' = [current EXCEPT ![c] = new]
      /\ last_run' = [last_run EXCEPT ![c][prio[c]] = slot]
  BY <1>1 DEF new, slot
<1>10. regs' = [t \in Threads |-> IF t = current[c] THEN ctx[c] ELSE regs[t]]
  BY <1>1
<1>11. new \in Threads /\ slot \in Nat /\ slot + 1 \in DOMAIN queue[prio[c]]
  BY <1>2
<1> QED
  BY <1>3, <1>5, <1>8, <1>9, <1>10, <1>11, Zenon

(* A timer tick changes no thread's context, whichever way schedule()      *)
(* takes and wherever on its way it is.                                    *)
LEMMA SwitchContexts ==
  ASSUME TypeInv, PlaceInv, NEW c \in Cpus, Tick(c) \/ HandlerStep(c) \/ Overwrite(c), NEW t \in Threads
  PROVE  ContextOf(t)' = ContextOf(t)
<1> DEFINE L(d) == IsLoaded(current, hpc, d, t)
           LP(d) == IsLoaded(current', hpc', d, t)
<1>0. /\ current \in [Cpus -> Threads \cup {NoThread}] /\ hpc \in [Cpus -> HandlerPcs]
      /\ ctx \in [Cpus -> Context] /\ t # NoThread
      /\ \A d, e \in Cpus : current[d] = t /\ current[e] = t => d = e
  BY NoThreadAssumption DEF TypeInv, TypeOK, PlaceInv, Distinct
<1>1. CASE Tick(c) \/ Rearm(c) \/ NextLevel(c) \/ NoneTaken(c) \/ SameTaken(c) \/ Keep(c)
           \/ Release(c) \/ Overwrite(c)
  <2>1. UNCHANGED <<current, ctx, regs>>
    BY <1>1 DEF Tick, Rearm, NextLevel, NoneTaken, SameTaken, Keep, Release, Overwrite,
                thread_t, cpu_locals
  <2>2. \A d \in Cpus : hpc'[d] \in {"release", "jump"} <=> hpc[d] \in {"release", "jump"}
    BY <1>0, <1>1 DEF Tick, Rearm, NextLevel, NoneTaken, SameTaken, Keep, Release, Overwrite
  <2> QED BY <2>1, <2>2 DEF ContextOf, Loaded
<1>2. CASE SwitchTo(c)
  <2>1. PICK new \in Threads :
          /\ \A d \in Cpus : current[d] # new
          /\ regs' = [s \in Threads |-> IF s = current[c] THEN ctx[c] ELSE regs[s]]
          /\ current' = [current EXCEPT ![c] = new]
    BY <1>2, SwitchFacts
  <2>2. /\ hpc[c] = "pick" /\ ctx' = ctx
        /\ hpc' = [hpc EXCEPT ![c] = "release"]
    BY <1>2 DEF SwitchTo
  <2>3. CASE t = current[c]
    <3>1. L(c) /\ \A d \in Cpus : current[d] = t => d = c
      BY <1>0, <2>2, <2>3 DEF IsLoaded
    <3>2. \A d \in Cpus : ~LP(d)
      BY <1>0, <2>1, <2>2, <2>3 DEF IsLoaded
    <3>3. ContextOf(t) = ctx[c]
      BY <3>1, ViewLoaded, ContextIsView
    <3>4. ContextOf(t)' = regs'[t]
      BY <3>2, ViewSaved, ContextIsView
    <3> QED BY <2>1, <2>3, <3>3, <3>4
  <2>4. CASE t # current[c] /\ \E d \in Cpus : L(d)
    <3>1. PICK d \in Cpus : L(d)
      BY <2>4
    <3>2. d # c /\ \A e \in Cpus : current[e] = t => e = d
      BY <1>0, <2>4, <3>1 DEF IsLoaded
    <3>3. LP(d) /\ \A e \in Cpus : current'[e] = t => e = d
      BY <1>0, <2>1, <2>2, <3>1, <3>2 DEF IsLoaded
    <3>4. ContextOf(t) = ctx[d]
      BY <3>1, <3>2, ViewLoaded, ContextIsView
    <3>5. ContextOf(t)' = ctx'[d]
      BY <3>3, ViewLoaded, ContextIsView
    <3> QED BY <2>2, <3>4, <3>5
  <2>5. CASE t # current[c] /\ \A d \in Cpus : ~L(d)
    <3>1. \A d \in Cpus : ~LP(d)
      BY <1>0, <2>1, <2>2, <2>5 DEF IsLoaded
    <3>2. ContextOf(t) = regs[t] /\ ContextOf(t)' = regs'[t]
      BY <2>5, <3>1, ViewSaved, ContextIsView
    <3> QED BY <2>1, <2>5, <3>2
  <2> QED BY <2>3, <2>4, <2>5
<1>3. CASE switch_and_run_stack(c)
  <2>1. /\ hpc[c] = "jump" /\ current' = current /\ regs' = regs
        /\ ctx' = [ctx EXCEPT ![c] = regs[current[c]]]
        /\ hpc' = [hpc EXCEPT ![c] = "out"]
    BY <1>3 DEF switch_and_run_stack, cpu_locals, thread_t
  <2>2. CASE t = current[c]
    <3>1. \A d \in Cpus : ~L(d)
      BY <1>0, <2>1, <2>2 DEF IsLoaded
    <3>2. LP(c) /\ \A d \in Cpus : current'[d] = t => d = c
      BY <1>0, <2>1, <2>2 DEF IsLoaded
    <3>3. ContextOf(t) = regs[t]
      BY <3>1, ViewSaved, ContextIsView
    <3>4. ContextOf(t)' = ctx'[c]
      BY <3>2, ViewLoaded, ContextIsView
    <3> QED BY <1>0, <2>1, <2>2, <3>3, <3>4
  <2>3. CASE t # current[c] /\ \E d \in Cpus : L(d)
    <3>1. PICK d \in Cpus : L(d)
      BY <2>3
    <3>2. d # c /\ \A e \in Cpus : current[e] = t => e = d
      BY <1>0, <2>3, <3>1 DEF IsLoaded
    <3>3. LP(d) /\ \A e \in Cpus : current'[e] = t => e = d
      BY <1>0, <2>1, <3>1, <3>2 DEF IsLoaded
    <3>4. ContextOf(t) = ctx[d]
      BY <3>1, <3>2, ViewLoaded, ContextIsView
    <3>5. ContextOf(t)' = ctx'[d]
      BY <3>3, ViewLoaded, ContextIsView
    <3> QED BY <1>0, <2>1, <3>2, <3>4, <3>5
  <2>4. CASE t # current[c] /\ \A d \in Cpus : ~L(d)
    <3>1. \A d \in Cpus : ~LP(d)
      BY <1>0, <2>1, <2>4 DEF IsLoaded
    <3>2. ContextOf(t) = regs[t] /\ ContextOf(t)' = regs'[t]
      BY <2>4, <3>1, ViewSaved, ContextIsView
    <3> QED BY <2>1, <3>2
  <2> QED BY <2>2, <2>3, <2>4
<1> QED
  BY <1>1, <1>2, <1>3 DEF HandlerStep

LEMMA LoadedNext ==
  ASSUME NEW c \in Cpus, NEW t \in Threads, IsLoaded(current', hpc', c, t),
         \A d \in Cpus : current'[d] = t => d = c
  PROVE  ContextOf(t)' = ctx'[c]
  BY ViewLoaded, ContextIsView

LEMMA LoadedNow ==
  ASSUME NEW c \in Cpus, NEW t \in Threads, IsLoaded(current, hpc, c, t),
         \A d \in Cpus : current[d] = t => d = c
  PROVE  ContextOf(t) = ctx[c]
  BY ViewLoaded, ContextIsView

LEMMA SavedBoth ==
  ASSUME NEW t \in Threads, \A c \in Cpus : ~IsLoaded(current, hpc, c, t),
         \A c \in Cpus : ~IsLoaded(current', hpc', c, t)
  PROVE  ContextOf(t) = regs[t] /\ ContextOf(t)' = regs'[t]
  BY ViewSaved, ContextIsView

(* A step of the code a CPU executes is a step of its current thread, and  *)
(* changes no other thread's context but that of a thread it creates.      *)
LEMMA OwnStep ==
  ASSUME TypeInv, PlaceInv, NEW c \in Cpus, hpc[c] = "out", ctx[c].pc # "idle",
         UNCHANGED <<current, hpc>>, NEW x, ctx' = [ctx EXCEPT ![c] = x]
  PROVE  \E s \in Threads :
           /\ s = current[c]
           /\ ContextOf(s) = ctx[c]
           /\ ContextOf(s)' = x
           /\ \A t \in Threads \ {s} :
                \/ ContextOf(t)' = ContextOf(t) /\ \E d \in Cpus : current[d] = t
                \/ ContextOf(t) = regs[t] /\ ContextOf(t)' = regs'[t]
<1>0. /\ current \in [Cpus -> Threads \cup {NoThread}] /\ ctx \in [Cpus -> Context]
      /\ \A d, e \in Cpus : current[d] = current[e] /\ current[d] # NoThread => d = e
      /\ current' = current /\ hpc' = hpc
  BY DEF TypeInv, TypeOK, PlaceInv, Distinct
<1>1. PICK s \in Threads : s = current[c] /\ s # NoThread
  BY <1>0, NoThreadAssumption DEF PlaceInv
<1>2. /\ IsLoaded(current, hpc, c, s) /\ IsLoaded(current', hpc', c, s)
      /\ \A d \in Cpus : current[d] = s => d = c
      /\ \A d \in Cpus : current'[d] = s => d = c
  BY <1>0, <1>1 DEF IsLoaded
<1>3. ContextOf(s) = ctx[c]
  BY <1>2, LoadedNow
<1>4. ContextOf(s)' = ctx'[c]
  BY <1>2, LoadedNext
<1>5. ctx'[c] = x
  BY <1>0
<1>6. ASSUME NEW t \in Threads, t # s
      PROVE  \/ ContextOf(t)' = ContextOf(t) /\ \E d \in Cpus : current[d] = t
             \/ ContextOf(t) = regs[t] /\ ContextOf(t)' = regs'[t]
  <2>1. CASE \E d \in Cpus : IsLoaded(current, hpc, d, t)
    <3>1. PICK d \in Cpus : IsLoaded(current, hpc, d, t)
      BY <2>1
    <3>2. current[d] = t /\ hpc[d] \notin {"release", "jump"}
      BY <3>1 DEF IsLoaded
    <3>3. d # c /\ t # NoThread
      BY <1>1, <1>6, <3>2, NoThreadAssumption
    <3>4. \A e \in Cpus : current[e] = t => e = d
      BY <1>0, <3>2, <3>3
    <3>5. IsLoaded(current', hpc', d, t) /\ \A e \in Cpus : current'[e] = t => e = d
      BY <1>0, <3>2, <3>4 DEF IsLoaded
    <3>6. ContextOf(t) = ctx[d]
      BY <3>1, <3>4, LoadedNow
    <3>7. ContextOf(t)' = ctx'[d]
      BY <3>5, LoadedNext
    <3> QED BY <1>0, <3>2, <3>3, <3>6, <3>7
  <2>2. CASE \A d \in Cpus : ~IsLoaded(current, hpc, d, t)
    <3>1. \A d \in Cpus : ~IsLoaded(current', hpc', d, t)
      BY <1>0, <2>2 DEF IsLoaded
    <3> QED BY <2>2, <3>1, SavedBoth
  <2> QED BY <2>1, <2>2
<1> QED BY <1>1, <1>3, <1>4, <1>5, <1>6

---------------------------------------------------------------------------
(* PlaceInv.                                                               *)
LEMMA InitPlace == Init => PlaceInv
<1> SUFFICES ASSUME Init PROVE PlaceInv
  OBVIOUS
<1>1. \A c \in Cpus : current[c] = NoThread /\ ctx[c].pc = "idle"
  BY DEF Init, At
<1>2. Locked
  BY <1>1, NoThreadAssumption DEF Init, Locked
<1>3. OwnLevel /\ OneSlot
  BY InitQueueAssumption DEF Init, OwnLevel, OneSlot
<1> QED
  BY <1>1, <1>2, <1>3 DEF PlaceInv, Distinct

(* The queues keep their entries where they are, and a push adds one that  *)
(* is in no queue.                                                         *)
LEMMA PushPlace ==
  ASSUME TypeInv, OwnLevel, OneSlot, NEW t \in Threads, ~InQueue(t),
         queue' = [queue EXCEPT ![Priority[t]] = Append(@, t)]
  PROVE  /\ OwnLevel' /\ OneSlot'
         /\ \A l \in Levels : \A i \in DOMAIN queue[l] :
              i \in DOMAIN queue'[l] /\ queue'[l][i] = queue[l][i]
         /\ \A s \in Threads : InQueue(s)' <=> InQueue(s) \/ s = t
<1> DEFINE p == Priority[t]
           q == queue[p]
<1>1. p \in Levels /\ queue \in [Levels -> Seq(Threads)]
  BY PriorityAssumption DEF TypeInv, TypeOK
<1>2. q \in Seq(Threads) /\ Len(q) \in Nat /\ DOMAIN q = 1 .. Len(q)
  BY <1>1
<1>3. /\ DOMAIN Append(q, t) = 1 .. Len(q) + 1
      /\ Append(q, t)[Len(q) + 1] = t
      /\ \A i \in 1 .. Len(q) : Append(q, t)[i] = q[i]
  <2> HIDE DEF q
  <2> QED BY <1>2
<1>4. queue'[p] = Append(q, t) /\ \A l \in Levels : l # p => queue'[l] = queue[l]
  BY <1>1
<1>5. \A i \in DOMAIN q : q[i] # t
  BY DEF InQueue
<1>6. \A i \in DOMAIN queue'[p] : i \in DOMAIN q \/ i = Len(q) + 1
  <2> HIDE DEF q, p
  <2> QED BY <1>2, <1>3, <1>4
<1>7. DOMAIN q \subseteq DOMAIN queue'[p] /\ Len(q) + 1 \in DOMAIN queue'[p]
  <2> HIDE DEF q, p
  <2> QED BY <1>2, <1>3, <1>4
<1>8. queue'[p][Len(q) + 1] = t /\ \A i \in DOMAIN q : queue'[p][i] = q[i]
  BY <1>2, <1>3, <1>4
<1>9. OwnLevel'
  <2> SUFFICES ASSUME NEW l \in Levels, NEW i \in DOMAIN queue'[l]
               PROVE  Priority[queue'[l][i]] = l
    BY DEF OwnLevel
  <2>1. CASE l # p
    BY <1>4, <2>1 DEF OwnLevel
  <2>2. CASE l = p
    BY <1>1, <1>6, <1>8, <2>2 DEF OwnLevel
  <2> QED BY <2>1, <2>2
<1>10. OneSlot'
  <2> SUFFICES ASSUME NEW l \in Levels, NEW i \in DOMAIN queue'[l], NEW j \in DOMAIN queue'[l],
                      queue'[l][i] = queue'[l][j]
               PROVE  i = j
    BY DEF OneSlot
  <2>1. CASE l # p
    BY <1>4, <2>1 DEF OneSlot
  <2>2. CASE l = p
    BY <1>1, <1>5, <1>6, <1>8, <2>2 DEF OneSlot
  <2> QED BY <2>1, <2>2
<1>11. \A l \in Levels : \A i \in DOMAIN queue[l] :
         i \in DOMAIN queue'[l] /\ queue'[l][i] = queue[l][i]
  BY <1>4, <1>7, <1>8
<1>12. \A s \in Threads : InQueue(s)' <=> InQueue(s) \/ s = t
  <2> SUFFICES ASSUME NEW s \in Threads
               PROVE  InQueue(s)' <=> InQueue(s) \/ s = t
    OBVIOUS
  <2>1. Priority[s] \in Levels
    BY PriorityAssumption
  <2>2. CASE Priority[s] # p
    BY <1>4, <2>1, <2>2 DEF InQueue
  <2>3. CASE Priority[s] = p
    BY <1>6, <1>7, <1>8, <2>3 DEF InQueue
  <2> QED BY <2>2, <2>3
<1> QED BY <1>9, <1>10, <1>11, <1>12

---------------------------------------------------------------------------
(* The steps of a context, as far as PlaceInv, PendingInv and the heap lock*)
(* tell them apart.                                                        *)
Step(c, x) ==
  /\ hpc[c] = "out"
  /\ ctx[c].pc \notin {"idle", "none"} /\ x.pc \notin {"idle", "none"}
  /\ Usual(x)
  /\ ctx' = [ctx EXCEPT ![c] = x]
  /\ UNCHANGED <<lock, current, prio, last_run, old_prio, hpc>>

QuietStep(c, x) ==
  /\ UNCHANGED <<queue, regs>>
  /\ x.pc \in BeforePush /\ x.arg \in Threads =>
       ctx[c].pc \in BeforePush /\ x.arg = ctx[c].arg

CreateStep(c, x) ==
  /\ ctx[c].pc = "run"
  /\ UNCHANGED queue
  /\ \E t \in Threads, q \in {"run", "entry"} :
       /\ regs[t] = Absent
       /\ regs' = [regs EXCEPT ![t] = At(q)]
       /\ x = [pc |-> "heap_lock", arg |-> t]

PushStep(c, x) ==
  /\ ctx[c].pc = "push" /\ ctx[c].arg \in Threads
  /\ x.pc = "enq_unlock"
  /\ queue' = [queue EXCEPT ![Priority[ctx[c].arg]] = Append(@, ctx[c].arg)]
  /\ UNCHANGED regs

InHeap == {"heap", "grow"}
HeapStep(c, x) ==
  \/ UNCHANGED heap_lock /\ (x.pc \in InHeap <=> ctx[c].pc \in InHeap)
  \/ ~heap_lock /\ heap_lock' = TRUE /\ x.pc \in InHeap /\ ctx[c].pc \notin InHeap
  \/ heap_lock' = FALSE /\ x.pc \notin InHeap /\ ctx[c].pc \in InHeap

ContextStep(c, x) ==
  /\ Step(c, x)
  /\ QuietStep(c, x) \/ CreateStep(c, x) \/ PushStep(c, x)
  /\ HeapStep(c, x)

LEMMA GotoIsReplace ==
  ASSUME TypeInv, NEW c \in Cpus, NEW q \in Pcs, Goto(c, q)
  PROVE  ctx' = [ctx EXCEPT ![c] = [pc |-> q, arg |-> ctx[c].arg]]
<1>1. ctx \in [Cpus -> Context]
  BY DEF TypeInv, TypeOK
<1>2. ctx' = [ctx EXCEPT ![c] = [ctx[c] EXCEPT !.pc = q]]
  BY DEF Goto
<1>3. [ctx[c] EXCEPT !.pc = q] = [pc |-> q, arg |-> ctx[c].arg]
  BY <1>1 DEF Context
<1> QED BY <1>2, <1>3

LEMMA StepShape ==
  ASSUME TypeInv, PendingInv, NEW c \in Cpus, ThreadStep(c) \/ ProgramChoice(c)
  PROVE  \E x \in Context : ContextStep(c, x)
<1> DEFINE a == ctx[c].arg
           G(q) == [pc |-> q, arg |-> a]
           Goal == \E x \in Context : ContextStep(c, x)
<1>0. /\ ctx \in [Cpus -> Context] /\ a \in Threads \cup {NoThread}
      /\ ctx[c].pc \in EnqueuePcs => a \in Threads
      /\ ctx[c].pc \in {"run", "entry"} => a = NoThread
      /\ heap_lock \in BOOLEAN
  BY DEF TypeInv, TypeOK, HasArg, Context, PendingInv, Usual
<1>1. \A q \in Pcs : G(q) \in Context /\ G(q).pc = q /\ G(q).arg = a
  BY <1>0 DEF Context
<1>2. At("run") \in Context /\ At("run").pc = "run" /\ At("run").arg = NoThread
  BY DEF At, Context, Pcs
<1>3. \A q \in Pcs : Goto(c, q) => ctx' = [ctx EXCEPT ![c] = G(q)]
  BY GotoIsReplace
<1> HIDE DEF G
<1> USE <1>0, <1>1, <1>2, <1>3, NoThreadAssumption
<1> USE DEF ContextStep, Step, QuietStep, PushStep, HeapStep, Usual, Executes, BeforePush, InHeap,
            EnqueuePcs, Pcs, HoldingPcs, thread_t, runqueue, cpu_locals
<1>4. CASE Start(c)
  <2>1. Step(c, G("run")) /\ QuietStep(c, G("run")) /\ HeapStep(c, G("run"))
    BY <1>4 DEF Start
  <2> QED BY <2>1
<1>5. CASE liballoc_lock(c)
  <2>1. Step(c, G("heap")) /\ QuietStep(c, G("heap")) /\ HeapStep(c, G("heap"))
    BY <1>5 DEF liballoc_lock
  <2> QED BY <2>1
<1>6. CASE liballoc_unlock(c)
  <2>1. CASE a = NoThread
    <3>1. Step(c, G("run")) /\ QuietStep(c, G("run")) /\ HeapStep(c, G("run"))
      BY <1>6, <2>1 DEF liballoc_unlock
    <3> QED BY <3>1
  <2>2. CASE a # NoThread
    <3>1. Step(c, G("enq")) /\ QuietStep(c, G("enq")) /\ HeapStep(c, G("enq"))
      BY <1>6, <2>2 DEF liballoc_unlock
    <3> QED BY <3>1
  <2> QED BY <2>1, <2>2
<1>7. CASE sched_enqueue(c)
  <2>1. CASE queued[a]
    <3>1. Step(c, At("run")) /\ QuietStep(c, At("run")) /\ HeapStep(c, At("run"))
      BY <1>7, <2>1 DEF sched_enqueue
    <3> QED BY <3>1
  <2>2. CASE ~queued[a]
    <3>1. Step(c, G("enq_lock")) /\ QuietStep(c, G("enq_lock")) /\ HeapStep(c, G("enq_lock"))
      BY <1>7, <2>2 DEF sched_enqueue
    <3> QED BY <3>1
  <2> QED BY <2>1, <2>2
<1>8. CASE EnqueueLock(c)
  <2>1. Step(c, G("push")) /\ QuietStep(c, G("push")) /\ HeapStep(c, G("push"))
    BY <1>8 DEF EnqueueLock
  <2> QED BY <2>1
<1>9. CASE vec_push(c)
  <2>1. CASE Len(queue[Priority[a]]) + 1 > capacity[Priority[a]]
    <3>1. Step(c, G("grow_lock")) /\ QuietStep(c, G("grow_lock")) /\ HeapStep(c, G("grow_lock"))
      BY <1>9, <2>1 DEF vec_push
    <3> QED BY <3>1
  <2>2. CASE ~(Len(queue[Priority[a]]) + 1 > capacity[Priority[a]])
    <3>1. Step(c, G("enq_unlock")) /\ PushStep(c, G("enq_unlock")) /\ HeapStep(c, G("enq_unlock"))
      BY <1>9, <2>2 DEF vec_push
    <3> QED BY <3>1
  <2> QED BY <2>1, <2>2
<1>10. CASE GrowLock(c)
  <2>1. Step(c, G("grow")) /\ QuietStep(c, G("grow")) /\ HeapStep(c, G("grow"))
    BY <1>10 DEF GrowLock
  <2> QED BY <2>1
<1>11. CASE vec_expand(c)
  <2>1. Step(c, G("push")) /\ QuietStep(c, G("push")) /\ HeapStep(c, G("push"))
    BY <1>11 DEF vec_expand
  <2> QED BY <2>1
<1>12. CASE EnqueueUnlock(c)
  <2>1. Step(c, At("run")) /\ QuietStep(c, At("run")) /\ HeapStep(c, At("run"))
    BY <1>12 DEF EnqueueUnlock
  <2> QED BY <2>1
<1>13. CASE HeapCall(c)
  <2>1. Step(c, G("heap_lock")) /\ QuietStep(c, G("heap_lock")) /\ HeapStep(c, G("heap_lock"))
    BY <1>13 DEF HeapCall
  <2> QED BY <2>1
<1>14. CASE sched_exit(c)
  <2>1. Step(c, G("exit")) /\ QuietStep(c, G("exit")) /\ HeapStep(c, G("exit"))
    BY <1>14 DEF sched_exit
  <2> QED BY <2>1
<1>15. ASSUME NEW t \in Threads, NEW q \in {"run", "entry"}, Create(c, t, q) PROVE Goal
  <2> DEFINE x == [pc |-> "heap_lock", arg |-> t]
  <2>1. x \in Context /\ x.pc = "heap_lock" /\ x.arg = t
    BY DEF Context
  <2>2. CreateStep(c, x)
    BY <1>15 DEF Create, CreateStep
  <2> HIDE DEF x
  <2>3. ctx' = [ctx EXCEPT ![c] = x]
    BY <1>15 DEF Create, x
  <2>4. Step(c, x) /\ HeapStep(c, x)
    BY <1>15, <2>1, <2>3 DEF Create
  <2> QED BY <2>1, <2>2, <2>4
<1> HIDE <1>0, <1>1, <1>2, <1>3
<1> HIDE DEF ContextStep, Executes, Pcs
<1> QED
  BY <1>4, <1>5, <1>6, <1>7, <1>8, <1>9, <1>10, <1>11, <1>12, <1>13, <1>14, <1>15
     DEF ThreadStep, ProgramChoice, sched_fork, sched_run_program

---------------------------------------------------------------------------
(* PlaceInv and PendingInv under steps of contexts.                        *)

(* A CPU's current thread is in its run queue.                             *)
LEMMA CurrentQueued ==
  ASSUME TypeInv, PlaceInv, NEW c \in Cpus, current[c] # NoThread
  PROVE  InQueue(current[c])
  BY DEF PlaceInv, CurrentSlot, InQueue

LEMMA ThreadPlace ==
  ASSUME TypeInv, PlaceInv, PendingInv, NEW c \in Cpus, NEW x \in Context, ContextStep(c, x)
  PROVE  PlaceInv'
<1>0. /\ current \in [Cpus -> Threads \cup {NoThread}] /\ ctx \in [Cpus -> Context]
      /\ last_run \in [Cpus -> [Levels -> Nat]]
  BY DEF TypeInv, TypeOK
<1>1. UNCHANGED <<lock, current, prio, last_run, old_prio, hpc>>
  BY DEF ContextStep, Step
<1>2. Distinct' /\ Locked'
  BY <1>1 DEF PlaceInv, Distinct, Locked
<1>3. /\ OwnLevel' /\ OneSlot'
      /\ \A l \in Levels : \A i \in DOMAIN queue[l] :
           i \in DOMAIN queue'[l] /\ queue'[l][i] = queue[l][i]
  <2>1. CASE queue' = queue
    BY <2>1 DEF PlaceInv, OwnLevel, OneSlot
  <2>2. CASE PushStep(c, x)
    <3>1. PICK s \in Threads : ContextOf(s) = ctx[c]
      BY OwnStep DEF ContextStep, Step
    <3>2. Pending(s, ctx[c].arg) /\ ctx[c].arg \in Threads
      BY <2>2, <3>1 DEF PushStep, Pending, BeforePush
    <3>3. ~InQueue(ctx[c].arg)
      BY <3>2 DEF PendingInv
    <3> QED BY <2>2, <3>2, <3>3, PushPlace DEF PushStep, PlaceInv
  <2> QED BY <2>1, <2>2 DEF ContextStep, QuietStep, CreateStep
<1>4. ASSUME NEW d \in Cpus, current'[d] # NoThread
      PROVE  CurrentSlot(d)' /\ CurrentLevel(d)'
  <2>1. current'[d] = current[d] /\ current[d] \in Threads
    BY <1>0, <1>1, <1>4
  <2>2. Priority[current[d]] \in Levels
    BY <2>1, PriorityAssumption
  <2>3. CurrentSlot(d) /\ CurrentLevel(d)
    BY <1>1, <1>4 DEF PlaceInv
  <2>4. CurrentSlot(d)'
    BY <1>1, <1>3, <2>2, <2>3 DEF CurrentSlot
  <2>5. CurrentLevel(d)'
    BY <1>1, <2>3 DEF CurrentLevel
  <2> QED BY <2>4, <2>5
<1>5. ASSUME NEW d \in Cpus, current'[d] = NoThread PROVE ctx'[d].pc = "idle"
  BY <1>0, <1>1, <1>5 DEF PlaceInv, ContextStep, Step
<1> QED BY <1>2, <1>3, <1>4, <1>5 DEF PlaceInv

LEMMA ThreadPending ==
  ASSUME TypeInv, PlaceInv, PendingInv, NEW c \in Cpus, NEW x \in Context, ContextStep(c, x)
  PROVE  PendingInv'
<1>0. ctx \in [Cpus -> Context] /\ regs \in [Threads -> Context]
  BY DEF TypeInv, TypeOK
<1>1. \A d \in Cpus : ctx'[d].pc # "none" /\ Usual(ctx'[d])
  BY <1>0 DEF PendingInv, ContextStep, Step
<1>2. PICK s \in Threads :
        /\ s = current[c]
        /\ ContextOf(s) = ctx[c]
        /\ ContextOf(s)' = x
        /\ \A t \in Threads \ {s} :
             \/ ContextOf(t)' = ContextOf(t) /\ \E d \in Cpus : current[d] = t
             \/ ContextOf(t) = regs[t] /\ ContextOf(t)' = regs'[t]
  BY OwnStep DEF ContextStep, Step
<1>3. CASE QuietStep(c, x)
  <2>1. queue' = queue /\ regs' = regs
    BY <1>3 DEF QuietStep
  <2>2. \A r, t \in Threads : Pending(r, t)' => Pending(r, t)
    BY <1>2, <1>3, <2>1 DEF QuietStep, Pending
  <2>3. \A t \in Threads : InQueue(t)' <=> InQueue(t)
    BY <2>1 DEF InQueue
  <2> QED BY <1>1, <2>1, <2>2, <2>3 DEF PendingInv
<1>4. CASE CreateStep(c, x)
  <2>1. PICK n \in Threads, q \in {"run", "entry"} :
          /\ regs[n] = Absent
          /\ regs' = [regs EXCEPT ![n] = At(q)]
          /\ x = [pc |-> "heap_lock", arg |-> n]
    BY <1>4 DEF CreateStep
  <2>2. queue' = queue /\ ctx[c].pc = "run" /\ regs[n].pc = "none"
    BY <1>4, <2>1 DEF CreateStep, Absent, At
  <2>3. ~InQueue(n) /\ \A r \in Threads : ~Pending(r, n)
    BY <2>2 DEF PendingInv
  <2>4. \A d \in Cpus : current[d] # n
    BY <2>3, CurrentQueued, NoThreadAssumption
  <2>5. At(q).pc \in {"run", "entry"} /\ At(q).arg = NoThread /\ At(q).pc # "none"
    BY DEF At
  <2>6. \A t \in Threads : InQueue(t)' <=> InQueue(t)
    BY <2>2 DEF InQueue
  <2>7. \A t \in Threads : /\ Usual(regs'[t])
                           /\ regs[t].pc # "none" => regs'[t].pc # "none"
    BY <1>0, <2>1, <2>5 DEF PendingInv, Usual
  <2>8. regs'[n].pc # "none" /\ regs'[n].pc \notin BeforePush
    BY <1>0, <2>1, <2>5 DEF BeforePush
  <2>9. \A t \in Threads : Pending(s, t)' => t = n
    BY <1>2, <2>1 DEF Pending
  <2>10. \A r \in Threads \ {s}, t \in Threads : Pending(r, t)' => Pending(r, t) /\ t # n
    <3> SUFFICES ASSUME NEW r \in Threads \ {s}, NEW t \in Threads, Pending(r, t)'
                 PROVE  Pending(r, t) /\ t # n
      OBVIOUS
    <3>1. CASE r = n
      BY <1>2, <2>4, <2>8, <3>1 DEF Pending
    <3>2. CASE r # n
      <4>1. ContextOf(r)' = ContextOf(r)
        BY <1>0, <1>2, <2>1, <3>2
      <4> QED BY <2>3, <4>1 DEF Pending
    <3> QED BY <3>1, <3>2
  <2>11. ASSUME NEW r \in Threads, NEW t \in Threads, Pending(r, t)'
         PROVE  /\ ~InQueue(t)'
                /\ regs'[t].pc # "none"
                /\ \A u \in Threads : Pending(u, t)' => u = r
    <3>1. CASE r = s
      BY <2>3, <2>6, <2>8, <2>9, <2>10, <2>11, <3>1
    <3>2. CASE r # s
      <4>1. Pending(r, t) /\ t # n
        BY <2>10, <2>11, <3>2
      <4> QED BY <2>6, <2>7, <2>9, <2>10, <4>1 DEF PendingInv
    <3> QED BY <3>1, <3>2
  <2> QED BY <1>1, <2>6, <2>7, <2>11 DEF PendingInv
<1>5. CASE PushStep(c, x)
  <2> DEFINE n == ctx[c].arg
  <2>1. /\ regs' = regs /\ n \in Threads /\ ctx[c].pc = "push" /\ x.pc = "enq_unlock"
        /\ queue' = [queue EXCEPT ![Priority[n]] = Append(@, n)]
    BY <1>5 DEF PushStep
  <2>2. Pending(s, n)
    BY <1>2, <2>1 DEF Pending, BeforePush
  <2>3. ~InQueue(n) /\ regs[n].pc # "none" /\ \A r \in Threads : Pending(r, n) => r = s
    BY <2>1, <2>2 DEF PendingInv
  <2> HIDE DEF n
  <2>4. \A t \in Threads : InQueue(t)' <=> InQueue(t) \/ t = n
    BY <2>1, <2>3, PushPlace DEF PlaceInv
  <2>5. ASSUME NEW r \in Threads, NEW t \in Threads, Pending(r, t)'
        PROVE  Pending(r, t) /\ r # s
    <3>1. r # s
      BY <1>2, <2>1, <2>5 DEF Pending, BeforePush
    <3>2. ContextOf(r)' = ContextOf(r)
      BY <1>2, <2>1, <3>1
    <3> QED BY <2>5, <3>1, <3>2 DEF Pending
  <2>6. \A t \in Threads : InQueue(t)' => regs'[t].pc # "none"
    BY <2>1, <2>3, <2>4 DEF PendingInv
  <2>7. ASSUME NEW r \in Threads, NEW t \in Threads, Pending(r, t)'
        PROVE  /\ ~InQueue(t)'
               /\ regs'[t].pc # "none"
               /\ \A u \in Threads : Pending(u, t)' => u = r
    <3>1. Pending(r, t) /\ r # s
      BY <2>5, <2>7
    <3>2. t # n
      BY <2>3, <3>1
    <3> QED BY <2>1, <2>4, <2>5, <3>1, <3>2 DEF PendingInv
  <2>8. \A t \in Threads : Usual(regs'[t])
    BY <2>1 DEF PendingInv
  <2> QED BY <1>1, <2>6, <2>7, <2>8 DEF PendingInv
<1> QED BY <1>3, <1>4, <1>5 DEF ContextStep

---------------------------------------------------------------------------
(* PlaceInv and PendingInv under schedule().                               *)

(* All non-empty queues are at the one level, so the level schedule() finds*)
(* is the level of the thread it interrupted.                              *)
LEMMA LevelFound ==
  ASSUME SingleLevel, TypeInv, PlaceInv, NEW l \in Levels, Len(queue[l]) > 0,
         NEW t \in Threads
  PROVE  l = Priority[t]
<1>1. queue[l] \in Seq(Threads)
  BY DEF TypeInv, TypeOK
<1>2. 1 \in DOMAIN queue[l] /\ queue[l][1] \in Threads
  BY <1>1
<1> QED
  BY <1>2 DEF PlaceInv, OwnLevel, SingleLevel

LEMMA HandlerPlace ==
  ASSUME SingleLevel, TypeInv, TypeInv', PlaceInv, NEW c \in Cpus, Tick(c) \/ HandlerStep(c) \/ Overwrite(c)
  PROVE  PlaceInv'
<1>0. /\ current \in [Cpus -> Threads \cup {NoThread}] /\ ctx \in [Cpus -> Context]
      /\ last_run \in [Cpus -> [Levels -> Nat]] /\ hpc \in [Cpus -> HandlerPcs]
      /\ prio \in [Cpus -> Levels] /\ old_prio \in [Cpus -> Levels]
      /\ lock \in [Threads -> BOOLEAN]
  BY DEF TypeInv, TypeOK
<1>1. queue' = queue
  BY DEF Tick, HandlerStep, Rearm, NextLevel, NoneTaken, SameTaken, SwitchTo, Keep, Release,
         switch_and_run_stack, Overwrite, runqueue
<1>2. OwnLevel' /\ OneSlot'
  BY <1>1 DEF PlaceInv, OwnLevel, OneSlot
(* Steps that leave the current thread alone.                              *)
<1>3. ASSUME UNCHANGED <<current, last_run, lock>>,
             \A d \in Cpus : current[d] # NoThread => CurrentLevel(d)',
             \A d \in Cpus : current[d] = NoThread => ctx'[d] = ctx[d]
      PROVE  PlaceInv'
  BY <1>1, <1>2, <1>3 DEF PlaceInv, Distinct, Locked, CurrentSlot
<1>4. CASE Tick(c)
  <2>1. \A d \in Cpus : current[d] # NoThread => CurrentLevel(d)'
    BY <1>0, <1>4 DEF Tick, PlaceInv, CurrentLevel
  <2> QED BY <1>3, <1>4, <2>1 DEF Tick, thread_t
<1>5. CASE Rearm(c) \/ Keep(c) \/ Release(c) \/ NoneTaken(c) \/ Overwrite(c)
  <2>1. UNCHANGED <<current, last_run, lock, prio, old_prio, ctx>>
    BY <1>5 DEF Rearm, Keep, Release, NoneTaken, Overwrite, cpu_locals, thread_t
  <2>2. /\ \A d \in Cpus : hpc'[d] \in {"level", "pick"} => hpc'[d] = hpc[d]
        /\ \A d \in Cpus : hpc[d] = "level" => hpc'[d] = "level"
    BY <1>0, <1>5 DEF Rearm, Keep, Release, NoneTaken, Overwrite
  <2>3. \A d \in Cpus : current[d] # NoThread => CurrentLevel(d)'
    BY <2>1, <2>2 DEF PlaceInv, CurrentLevel
  <2> QED BY <1>3, <2>1, <2>3
<1>6. CASE NextLevel(c)
  <2>1. /\ UNCHANGED <<current, last_run, lock, old_prio, ctx>>
        /\ hpc[c] = "level"
        /\ \A d \in Cpus \ {c} : prio'[d] = prio[d] /\ hpc'[d] = hpc[d]
        /\ hpc'[c] \in {"level", "pick"}
    BY <1>0, <1>6 DEF NextLevel, thread_t
  <2>2. hpc'[c] = "pick" => Len(queue[prio'[c]]) > 0 /\ prio'[c] \in Levels
    BY <1>1 DEF TypeInv, TypeOK
  <2>3. \A d \in Cpus : current[d] # NoThread => CurrentLevel(d)'
    <3> SUFFICES ASSUME NEW d \in Cpus, current[d] # NoThread PROVE CurrentLevel(d)'
      OBVIOUS
    <3>1. current[d] \in Threads /\ CurrentLevel(d)
      BY <1>0 DEF PlaceInv
    <3>2. CASE d = c
      <4>1. hpc'[c] = "pick" => prio'[c] = Priority[current[c]]
        BY <2>2, <3>1, <3>2, LevelFound
      <4> QED BY <2>1, <3>1, <3>2, <4>1 DEF CurrentLevel
    <3>3. CASE d # c
      BY <2>1, <3>1, <3>3 DEF CurrentLevel
    <3> QED BY <3>2, <3>3
  <2> QED BY <1>3, <2>1, <2>3
<1>7. CASE SameTaken(c)
  <2>1. PICK k \in Probes(c) :
          /\ SameSlot(c, k)
          /\ lock' = [lock EXCEPT ![Probed(c, k)] = @ \/ Probed(c, k) # current[c]]
    BY <1>7 DEF SameTaken
  <2>2. /\ UNCHANGED <<current, last_run, prio, old_prio, ctx>>
        /\ hpc[c] = "pick" /\ hpc' = [hpc EXCEPT ![c] = "keep"]
    BY <1>7 DEF SameTaken, cpu_locals
  <2>3. CurrentSlot(c) /\ CurrentLevel(c)
    BY <2>1 DEF SameSlot, PlaceInv
  <2>4. Probed(c, k) = current[c]
    <3>1. prio[c] = Priority[current[c]] /\ Probe(c, k) = last_run[c][prio[c]]
      BY <2>1, <2>2, <2>3 DEF SameSlot, CurrentLevel
    <3>2. Probed(c, k) = queue[prio[c]][last_run[c][prio[c]] + 1]
      BY <3>1 DEF Probed
    <3> QED BY <2>3, <3>1, <3>2 DEF CurrentSlot
  <2>5. lock' = lock
    BY <1>0, <2>1, <2>4
  <2>6. \A d \in Cpus : current[d] # NoThread => CurrentLevel(d)'
    BY <1>0, <2>2 DEF PlaceInv, CurrentLevel
  <2> QED BY <1>3, <2>2, <2>5, <2>6
<1>8. CASE SwitchTo(c)
  <2>1. PICK new \in Threads, slot \in Nat :
          /\ \A d \in Cpus : current[d] # new
          /\ Priority[new] = prio[c]
          /\ slot + 1 \in DOMAIN queue[prio[c]] /\ queue[prio[c]][slot + 1] = new
          /\ lock' = [t \in Threads |->
                        IF t = current[c] THEN FALSE ELSE t = new \/ lock[t]]
          /\ regs' = [t \in Threads |-> IF t = current[c] THEN ctx[c] ELSE regs[t]]
          /\ current' = [current EXCEPT ![c] = new]
          /\ last_run' = [last_run EXCEPT ![c][prio[c]] = slot]
    BY <1>8, SwitchFacts, Zenon
  <2>2. hpc' = [hpc EXCEPT ![c] = "release"] /\ UNCHANGED <<prio, old_prio, ctx>>
    BY <1>8 DEF SwitchTo
  <2>3. new # NoThread /\ current'[c] = new /\ \A d \in Cpus \ {c} : current'[d] = current[d]
    BY <1>0, <2>1, NoThreadAssumption
  <2>4. Distinct'
    BY <2>1, <2>3 DEF PlaceInv, Distinct
  <2>5. Locked'
    <3> SUFFICES ASSUME NEW t \in Threads PROVE lock'[t] <=> \E d \in Cpus : current'[d] = t
      BY DEF Locked
    <3>1. lock[t] <=> \E d \in Cpus : current[d] = t
      BY DEF PlaceInv, Locked
    <3>2. CASE t = current[c]
      <4>1. \A d \in Cpus \ {c} : current[d] # t
        BY <3>2, NoThreadAssumption DEF PlaceInv, Distinct
      <4> QED BY <2>1, <2>3, <3>2, <4>1
    <3>3. CASE t = new
      BY <2>1, <2>3, <3>3
    <3>4. CASE t # current[c] /\ t # new
      <4>1. lock'[t] <=> lock[t]
        BY <1>0, <2>1, <3>4
      <4> QED BY <2>3, <3>1, <3>4, <4>1
    <3> QED BY <3>2, <3>3, <3>4
  <2>6. ASSUME NEW d \in Cpus, current'[d] # NoThread PROVE CurrentSlot(d)' /\ CurrentLevel(d)'
    <3>1. CASE d = c
      <4>1. last_run'[c][prio[c]] = slot
        BY <1>0, <2>1
      <4> QED BY <1>0, <1>1, <2>1, <2>2, <2>3, <3>1, <4>1 DEF CurrentSlot, CurrentLevel
    <3>2. CASE d # c
      <4>1. last_run'[d] = last_run[d] /\ hpc'[d] = hpc[d] /\ current'[d] = current[d]
        BY <1>0, <2>1, <2>2, <2>3, <3>2
      <4>2. CurrentSlot(d) /\ CurrentLevel(d)
        BY <2>6, <4>1 DEF PlaceInv
      <4> QED BY <1>1, <2>2, <4>1, <4>2 DEF CurrentSlot, CurrentLevel
    <3> QED BY <3>1, <3>2
  <2>7. \A d \in Cpus : current'[d] = NoThread => ctx'[d].pc = "idle"
    BY <2>2, <2>3 DEF PlaceInv
  <2> QED BY <1>2, <2>4, <2>5, <2>6, <2>7 DEF PlaceInv
<1>9. CASE switch_and_run_stack(c)
  <2>1. /\ UNCHANGED <<current, last_run, lock, prio, old_prio>>
        /\ hpc[c] = "jump" /\ hpc' = [hpc EXCEPT ![c] = "out"]
        /\ \A d \in Cpus \ {c} : ctx'[d] = ctx[d]
    BY <1>0, <1>9 DEF switch_and_run_stack, cpu_locals, thread_t
  <2>2. current[c] # NoThread
    BY <2>1, NoThreadAssumption DEF TypeInv
  <2>3. \A d \in Cpus : current[d] # NoThread => CurrentLevel(d)'
    BY <1>0, <2>1 DEF PlaceInv, CurrentLevel
  <2> QED BY <1>3, <2>1, <2>2, <2>3
<1> QED
  BY <1>4, <1>5, <1>6, <1>7, <1>8, <1>9 DEF HandlerStep

LEMMA HandlerPending ==
  ASSUME TypeInv, PlaceInv, PendingInv, NEW c \in Cpus, Tick(c) \/ HandlerStep(c) \/ Overwrite(c)
  PROVE  PendingInv'
<1>0. /\ ctx \in [Cpus -> Context] /\ regs \in [Threads -> Context]
      /\ current \in [Cpus -> Threads \cup {NoThread}]
  BY DEF TypeInv, TypeOK
<1>1. queue' = queue
  BY DEF Tick, HandlerStep, Rearm, NextLevel, NoneTaken, SameTaken, SwitchTo, Keep, Release,
         switch_and_run_stack, Overwrite, runqueue
<1>2. \A t \in Threads : InQueue(t)' <=> InQueue(t)
  BY <1>1 DEF InQueue
<1>3. \A s, t \in Threads : Pending(s, t)' <=> Pending(s, t)
  BY SwitchContexts DEF Pending
<1>4. \A t \in Threads : Usual(regs'[t]) /\ (regs[t].pc # "none" => regs'[t].pc # "none")
  <2>1. CASE SwitchTo(c)
    <3>1. regs' = [t \in Threads |-> IF t = current[c] THEN ctx[c] ELSE regs[t]]
      BY <2>1 DEF SwitchTo
    <3> QED BY <3>1 DEF PendingInv
  <2>2. CASE regs' = regs
    BY <2>2 DEF PendingInv
  <2> QED
    BY <2>1, <2>2 DEF Tick, HandlerStep, Rearm, NextLevel, NoneTaken, SameTaken, Keep, Release,
                      switch_and_run_stack, Overwrite, thread_t
<1>5. \A d \in Cpus : ctx'[d].pc # "none" /\ Usual(ctx'[d])
  <2>1. CASE switch_and_run_stack(c)
    <3>1. hpc[c] = "jump" /\ ctx' = [ctx EXCEPT ![c] = regs[current[c]]]
      BY <2>1 DEF switch_and_run_stack
    <3>2. current[c] \in Threads /\ current[c] # NoThread
      BY <3>1, NoThreadAssumption DEF TypeInv
    <3>3. regs[current[c]].pc # "none" /\ Usual(regs[current[c]])
      BY <3>2, CurrentQueued DEF PendingInv
    <3> QED BY <1>0, <3>1, <3>3 DEF PendingInv
  <2>2. CASE ctx' = ctx
    BY <2>2 DEF PendingInv
  <2> QED
    BY <2>1, <2>2 DEF Tick, HandlerStep, Rearm, NextLevel, NoneTaken, SameTaken, SwitchTo, Keep,
                      Release, Overwrite
<1> QED BY <1>2, <1>3, <1>4, <1>5 DEF PendingInv

LEMMA InitPending == Init => PendingInv
<1> SUFFICES ASSUME Init PROVE PendingInv
  OBVIOUS
<1>1. \A c \in Cpus : ctx[c] = At("idle") /\ current[c] = NoThread
  BY DEF Init
<1>2. \A t \in Threads : regs[t] = IF Queued(t) THEN At("entry") ELSE Absent
  BY DEF Init
<1>3. \A t \in Threads : InQueue(t) <=> Queued(t)
  BY DEF Init, InQueue, Queued
<1>4. \A t \in Threads : ContextOf(t) = regs[t]
  <2> SUFFICES ASSUME NEW t \in Threads PROVE ContextOf(t) = regs[t]
    OBVIOUS
  <2>1. \A c \in Cpus : ~Loaded(c, t)
    BY <1>1, NoThreadAssumption DEF Loaded
  <2> QED BY <2>1 DEF ContextOf
<1>5. \A s, t \in Threads : ~Pending(s, t)
  BY <1>2, <1>4 DEF Pending, BeforePush, At, Absent
<1> QED
  BY <1>1, <1>2, <1>3, <1>5 DEF PendingInv, Usual, At, Absent

---------------------------------------------------------------------------
(* The inductive invariant.                                                *)
ThreadInv == TypeInv /\ PlaceInv /\ PendingInv

THEOREM ThreadInvariance == ASSUME SingleLevel PROVE Spec => []ThreadInv
<1>1. Init => ThreadInv
  BY InitTypeInv, InitPlace, InitPending DEF ThreadInv
<1>2. ASSUME ThreadInv, [Next]_vars, TypeInv' PROVE ThreadInv'
  <2>1. CASE UNCHANGED vars
    <3>0. UNCHANGED <<queue, lock, regs, current, prio, last_run, old_prio, hpc, ctx>>
      BY <2>1 DEF vars, runqueue, thread_t, cpu_locals
    <3>1. PlaceInv'
      <4>1. /\ Distinct' <=> Distinct
            /\ Locked' <=> Locked
            /\ OwnLevel' <=> OwnLevel
            /\ OneSlot' <=> OneSlot
        BY <3>0 DEF Distinct, Locked, OwnLevel, OneSlot
      <4>2. \A c \in Cpus : /\ CurrentSlot(c)' <=> CurrentSlot(c)
                           /\ CurrentLevel(c)' <=> CurrentLevel(c)
        BY <3>0 DEF CurrentSlot, CurrentLevel
      <4> QED BY <1>2, <3>0, <4>1, <4>2 DEF ThreadInv, PlaceInv
    <3>2. PendingInv'
      <4>1. \A t \in Threads : ContextOf(t)' = ContextOf(t) /\ (InQueue(t)' <=> InQueue(t))
        BY <3>0 DEF ContextOf, Loaded, InQueue
      <4>2. \A s, t \in Threads : Pending(s, t)' <=> Pending(s, t)
        BY <4>1 DEF Pending
      <4> QED BY <1>2, <3>0, <4>1, <4>2 DEF ThreadInv, PendingInv
    <3> QED BY <1>2, <3>1, <3>2 DEF ThreadInv
  <2>2. ASSUME NEW c \in Cpus, ThreadStep(c) \/ ProgramChoice(c) PROVE ThreadInv'
    <3>1. PICK x \in Context : ContextStep(c, x)
      BY <1>2, <2>2, StepShape DEF ThreadInv
    <3> QED BY <1>2, <3>1, ThreadPlace, ThreadPending DEF ThreadInv
  <2>3. ASSUME NEW c \in Cpus, Tick(c) \/ HandlerStep(c) \/ Overwrite(c) PROVE ThreadInv'
    BY <1>2, <2>3, HandlerPlace, HandlerPending DEF ThreadInv
  <2> QED BY <1>2, <2>1, <2>2, <2>3 DEF Next, CpuStep, Unfollowed
<1> QED
  BY <1>1, <1>2, TypeCorrect, PTL DEF Spec

(* No thread runs on two CPUs, and thread->lock says whether it is running:*)
(* for any number of CPUs and threads, as long as all threads have one     *)
(* priority.                                                               *)
THEOREM ThreadExclusion == ASSUME SingleLevel PROVE Spec => []OneCpuPerThread
<1>1. ThreadInv => OneCpuPerThread
  BY DEF ThreadInv, PlaceInv, Distinct, Locked, OneCpuPerThread
<1> QED BY <1>1, ThreadInvariance, PTL

(* Every thread has one slot, and a CPU remembers the one of its thread.   *)
THEOREM RunQueueConsistent == ASSUME SingleLevel PROVE Spec => []QueueConsistent
<1>1. ThreadInv => QueueConsistent
  BY DEF ThreadInv, PlaceInv, OneSlot, CurrentSlot, QueueConsistent
<1> QED BY <1>1, ThreadInvariance, PTL

---------------------------------------------------------------------------
(* Kernel stacks.  The thread that schedule() has just switched from is    *)
(* nobody's current thread until sched_lock is released.                   *)
LeftAlone == \A c \in Cpus :
               hpc[c] = "release" /\ stack[c] # NoThread => \A d \in Cpus : current[d] # stack[c]

LEMMA HandlerLeft ==
  ASSUME ThreadInv, SchedLockExclusive, LeftAlone, NEW c \in Cpus, HandlerStep(c)
  PROVE  LeftAlone'
<1>0. /\ hpc \in [Cpus -> HandlerPcs] /\ stack \in [Cpus -> Threads \cup {NoThread}]
      /\ current \in [Cpus -> Threads \cup {NoThread}]
  BY DEF ThreadInv, TypeInv, TypeOK
<1>1. CASE SwitchTo(c)
  <2>1. PICK new \in Threads :
          (\A d \in Cpus : current[d] # new) /\ current' = [current EXCEPT ![c] = new]
    BY <1>1, SwitchFacts DEF ThreadInv
  <2>2. /\ hpc[c] = "pick" /\ hpc' = [hpc EXCEPT ![c] = "release"]
        /\ stack' = [stack EXCEPT ![c] = current[c]]
    BY <1>1 DEF SwitchTo
  <2>3. \A d \in Cpus \ {c} : hpc[d] # "release"
    BY <2>2 DEF SchedLockExclusive, HandlerHolds, HandlerHolding
  <2>4. \A d \in Cpus : hpc'[d] = "release" => d = c
    BY <1>0, <2>2, <2>3
  <2>5. stack'[c] # NoThread => \A d \in Cpus : current'[d] # stack'[c]
    BY <1>0, <2>1, <2>2 DEF ThreadInv, PlaceInv, Distinct
  <2> QED BY <2>4, <2>5 DEF LeftAlone
<1>2. CASE ~SwitchTo(c)
  <2>1. current' = current
    BY <1>2 DEF HandlerStep, Rearm, NextLevel, NoneTaken, SameTaken, Keep, Release,
                switch_and_run_stack, cpu_locals
  <2>2. \A d \in Cpus : hpc'[d] = "release" => hpc[d] = "release" /\ stack'[d] = stack[d]
    BY <1>0, <1>2 DEF HandlerStep, Rearm, NextLevel, NoneTaken, SameTaken, Keep, Release,
                      switch_and_run_stack, cpu_locals
  <2> QED BY <2>1, <2>2 DEF LeftAlone
<1> QED BY <1>1, <1>2

(* Two CPUs are on one kernel stack at most while one of them is between   *)
(* the release of sched_lock and the loading of the new stack pointer, for *)
(* any number of CPUs and threads of one priority.                         *)
THEOREM KernelStacksApart == ASSUME SingleLevel PROVE Spec => []StacksApart
<1>1. Init => LeftAlone
  BY DEF Init, LeftAlone
<1>2. ASSUME ThreadInv, SchedLockExclusive, LeftAlone, [Next]_vars PROVE LeftAlone'
  <2>1. ASSUME UNCHANGED <<hpc, stack, current>> PROVE LeftAlone'
    BY <1>2, <2>1 DEF LeftAlone
  <2>2. CASE UNCHANGED vars
    BY <2>1, <2>2 DEF vars, cpu_locals
  <2>3. ASSUME NEW c \in Cpus, ThreadStep(c) \/ ProgramChoice(c) PROVE LeftAlone'
    <3>1. UNCHANGED <<hpc, cpu_locals>>
      BY <2>3 DEF ThreadStep, ProgramChoice, sched_fork, sched_run_program, Start, liballoc_lock,
                  liballoc_unlock, sched_enqueue, EnqueueLock, vec_push, GrowLock, vec_expand,
                  EnqueueUnlock, HeapCall, sched_exit, Create
    <3> QED BY <2>1, <3>1 DEF cpu_locals
  <2>4. ASSUME NEW c \in Cpus, Tick(c) PROVE LeftAlone'
    <3>1. UNCHANGED <<stack, current>> /\ \A d \in Cpus : hpc'[d] = "release" => hpc[d] = "release"
      BY <1>2, <2>4 DEF Tick, ThreadInv, TypeInv, TypeOK
    <3> QED BY <1>2, <3>1 DEF LeftAlone
  <2>5. ASSUME NEW c \in Cpus, Overwrite(c) PROVE LeftAlone'
    BY <2>1, <2>5 DEF Overwrite
  <2> QED BY <1>2, <2>2, <2>3, <2>4, <2>5, HandlerLeft DEF Next, CpuStep, Unfollowed
<1>3. ASSUME ThreadInv, SchedLockExclusive, LeftAlone PROVE StacksApart
  <2> SUFFICES ASSUME NEW c \in Cpus, NEW d \in Cpus, c # d, OnStack(c) = OnStack(d),
                      OnStack(c) # NoThread, hpc[c] # "jump", hpc[d] # "jump"
               PROVE  FALSE
    BY DEF StacksApart
  <2>1. CASE hpc[c] # "release" /\ hpc[d] # "release"
    BY <1>3, <2>1 DEF OnStack, ThreadInv, PlaceInv, Distinct
  <2>2. CASE hpc[c] = "release" /\ hpc[d] = "release"
    BY <1>3, <2>2 DEF SchedLockExclusive, HandlerHolds, HandlerHolding
  <2>3. CASE hpc[c] = "release" /\ hpc[d] # "release"
    BY <1>3, <2>3 DEF OnStack, LeftAlone
  <2>4. CASE hpc[c] # "release" /\ hpc[d] = "release"
    BY <1>3, <2>4 DEF OnStack, LeftAlone
  <2> QED BY <2>1, <2>2, <2>3, <2>4
<1> QED
  BY <1>1, <1>2, <1>3, ThreadInvariance, SchedLockMutex, PTL DEF Spec

---------------------------------------------------------------------------
(* The heap lock: held by the thread whose context is inside, wherever that*)
(* context is kept.                                                        *)
HeapInv ==
  /\ heap_lock <=> \E t \in Threads : ContextOf(t).pc \in InHeap
  /\ \A s, t \in Threads : ContextOf(s).pc \in InHeap /\ ContextOf(t).pc \in InHeap => s = t

LEMMA ThreadHeap ==
  ASSUME ThreadInv, HeapInv, NEW c \in Cpus, NEW x \in Context, ContextStep(c, x)
  PROVE  HeapInv'
<1>0. regs \in [Threads -> Context] /\ heap_lock \in BOOLEAN
  BY DEF ThreadInv, TypeInv, TypeOK
<1>1. PICK s \in Threads :
        /\ s = current[c]
        /\ ContextOf(s) = ctx[c]
        /\ ContextOf(s)' = x
        /\ \A t \in Threads \ {s} :
             \/ ContextOf(t)' = ContextOf(t) /\ \E d \in Cpus : current[d] = t
             \/ ContextOf(t) = regs[t] /\ ContextOf(t)' = regs'[t]
  BY OwnStep DEF ContextStep, Step, ThreadInv
<1>2. \A t \in Threads : regs'[t] = regs[t] \/ (regs'[t].pc \notin InHeap /\ regs[t].pc \notin InHeap)
  <2>1. CASE regs' = regs
    BY <2>1
  <2>2. CASE CreateStep(c, x)
    <3>1. PICK t \in Threads, q \in {"run", "entry"} :
            regs[t] = Absent /\ regs' = [regs EXCEPT ![t] = At(q)]
      BY <2>2 DEF CreateStep
    <3>2. regs[t].pc \notin InHeap /\ At(q).pc \notin InHeap
      BY <3>1 DEF InHeap, At, Absent
    <3> QED BY <1>0, <3>1, <3>2
  <2> QED BY <2>1, <2>2 DEF ContextStep, QuietStep, PushStep
<1>3. \A t \in Threads \ {s} : ContextOf(t)'.pc \in InHeap <=> ContextOf(t).pc \in InHeap
  BY <1>1, <1>2
<1>4. CASE UNCHANGED heap_lock /\ (x.pc \in InHeap <=> ctx[c].pc \in InHeap)
  BY <1>1, <1>3, <1>4 DEF HeapInv
<1>5. CASE ~heap_lock /\ heap_lock' = TRUE /\ x.pc \in InHeap /\ ctx[c].pc \notin InHeap
  BY <1>1, <1>3, <1>5 DEF HeapInv
<1>6. CASE heap_lock' = FALSE /\ x.pc \notin InHeap /\ ctx[c].pc \in InHeap
  BY <1>1, <1>3, <1>6 DEF HeapInv
<1> QED BY <1>4, <1>5, <1>6 DEF ContextStep, HeapStep

LEMMA HeapInvariance == ASSUME SingleLevel PROVE Spec => []HeapInv
<1>1. Init => HeapInv
  <2> SUFFICES ASSUME Init PROVE HeapInv
    OBVIOUS
  <2>1. \A t \in Threads, c \in Cpus : ~Loaded(c, t)
    BY NoThreadAssumption DEF Init, Loaded
  <2>2. \A t \in Threads : ContextOf(t) = regs[t]
    BY <2>1 DEF ContextOf
  <2>3. \A t \in Threads : regs[t] = At("entry") \/ regs[t] = Absent
    BY DEF Init
  <2>4. \A t \in Threads : ContextOf(t).pc \notin InHeap
    BY <2>2, <2>3 DEF InHeap, At, Absent
  <2>5. ~heap_lock
    BY DEF Init
  <2> QED BY <2>4, <2>5 DEF HeapInv
<1>2. ASSUME ThreadInv, HeapInv, [Next]_vars PROVE HeapInv'
  <2>1. CASE UNCHANGED vars
    <3>1. UNCHANGED <<heap_lock, regs, current, hpc, ctx>>
      BY <2>1 DEF vars, thread_t, cpu_locals
    <3>2. \A t \in Threads : ContextOf(t)' = ContextOf(t)
      BY <3>1 DEF ContextOf, Loaded
    <3> QED BY <1>2, <3>1, <3>2 DEF HeapInv
  <2>2. ASSUME NEW c \in Cpus, ThreadStep(c) \/ ProgramChoice(c) PROVE HeapInv'
    <3>1. PICK x \in Context : ContextStep(c, x)
      BY <1>2, <2>2, StepShape DEF ThreadInv
    <3> QED BY <1>2, <3>1, ThreadHeap
  <2>3. ASSUME NEW c \in Cpus, Tick(c) \/ HandlerStep(c) \/ Overwrite(c) PROVE HeapInv'
    <3>1. \A t \in Threads : ContextOf(t)' = ContextOf(t)
      BY <1>2, <2>3, SwitchContexts DEF ThreadInv
    <3>2. heap_lock' = heap_lock
      BY <2>3 DEF Tick, HandlerStep, Rearm, NextLevel, NoneTaken, SameTaken, SwitchTo, Keep,
                  Release, switch_and_run_stack, Overwrite
    <3> QED BY <1>2, <3>1, <3>2 DEF HeapInv
  <2> QED BY <1>2, <2>1, <2>2, <2>3 DEF Next, CpuStep, Unfollowed
<1> QED
  BY <1>1, <1>2, ThreadInvariance, PTL DEF Spec

(* At most one thread is in the heap's critical section, running or        *)
(* preempted, and the lock's bit tells whether there is one.               *)
THEOREM HeapMutex == ASSUME SingleLevel PROVE Spec => []HeapLockExclusive
<1>1. HeapInv => HeapLockExclusive
  <2> SUFFICES ASSUME HeapInv PROVE HeapLockExclusive
    OBVIOUS
  <2>1. heap_lock <=> HeapHolders # {}
    BY DEF HeapInv, HeapHolders, InHeap
  <2>2. Cardinality(HeapHolders) <= 1
    <3>1. CASE HeapHolders = {}
      <4>1. Cardinality(HeapHolders) = 0
        BY <3>1, FS_EmptySet
      <4> QED BY <4>1
    <3>2. CASE HeapHolders # {}
      <4>1. PICK t : HeapHolders = {t}
        BY <3>2 DEF HeapInv, HeapHolders, InHeap
      <4>2. Cardinality(HeapHolders) = 1
        BY <4>1, FS_Singleton
      <4> QED BY <4>2
    <3> QED BY <3>1, <3>2
  <2> QED BY <2>1, <2>2 DEF HeapLockExclusive
<1> QED
  BY <1>1, HeapInvariance, PTL

---------------------------------------------------------------------------
(* The refinement of ThreadMachine.                                        *)

(* sched_enqueue finds the flag clear: nobody has queued a thread that is  *)
(* still in its creator's hands.                                           *)
BeforeFlag == {"heap_lock", "heap", "enq"}
FlagInv ==
  /\ \A t \in Threads : queued[t] => regs[t].pc # "none"
  /\ \A s, t \in Threads :
       ContextOf(s).arg = t /\ ContextOf(s).pc \in BeforeFlag => ~queued[t]

LEMMA InitFlag == Init => FlagInv
<1> SUFFICES ASSUME Init PROVE FlagInv
  OBVIOUS
<1>1. \A t \in Threads : /\ queued[t] <=> Queued(t)
                         /\ regs[t] = IF Queued(t) THEN At("entry") ELSE Absent
  BY DEF Init
<1>2. \A t \in Threads : \A c \in Cpus : ~IsLoaded(current, hpc, c, t)
  BY NoThreadAssumption DEF Init, IsLoaded
<1>3. \A t \in Threads : ContextOf(t) = regs[t]
  BY <1>2, ViewSaved, ContextIsView
<1>4. \A t \in Threads : regs[t].pc \in {"entry", "none"} /\ (queued[t] => regs[t].pc = "entry")
  BY <1>1 DEF At, Absent
<1> QED BY <1>3, <1>4 DEF FlagInv, BeforeFlag

(* How a context gets to a point before the test of the flag: from another *)
(* such point, or by creating a thread.                                    *)
FlagStep(c, x) ==
  \/ /\ queued' = queued
     /\ x.pc \in BeforeFlag /\ x.arg \in Threads =>
          \/ ctx[c].pc \in BeforeFlag /\ x.arg = ctx[c].arg
          \/ regs[x.arg] = Absent
  \/ /\ ctx[c].pc = "enq" /\ ctx[c].arg \in Threads
     /\ queued' = [queued EXCEPT ![ctx[c].arg] = TRUE]
     /\ x.pc = "enq_lock"

LEMMA GotoPc ==
  ASSUME TypeInv, NEW c \in Cpus, NEW q \in Pcs, Goto(c, q)
  PROVE  ctx'[c].pc = q
<1>1. ctx \in [Cpus -> Context]
  BY DEF TypeInv, TypeOK
<1> QED BY <1>1, GotoIsReplace

LEMMA FlagShape ==
  ASSUME TypeInv, PendingInv, NEW c \in Cpus, ThreadStep(c) \/ ProgramChoice(c)
  PROVE  FlagStep(c, ctx'[c])
<1> USE DEF FlagStep, BeforeFlag, Executes, Goto, thread_t
<1>0. /\ ctx \in [Cpus -> Context] /\ ctx[c].arg \in Threads \cup {NoThread}
      /\ ctx[c].pc \in EnqueuePcs => ctx[c].arg \in Threads
      /\ ctx[c].pc \in {"run", "entry"} => ctx[c].arg = NoThread
      /\ NoThread \notin Threads
  BY NoThreadAssumption DEF TypeInv, TypeOK, HasArg, Context, PendingInv, Usual
<1>1. CASE Start(c)
  BY <1>0, <1>1 DEF Start
<1>2. CASE liballoc_lock(c)
  BY <1>0, <1>2 DEF liballoc_lock
<1>3. CASE liballoc_unlock(c)
  BY <1>0, <1>3 DEF liballoc_unlock
<1>4. CASE sched_enqueue(c)
  <2>1. ctx[c].pc = "enq" /\ ctx[c].arg \in Threads
    BY <1>0, <1>4 DEF sched_enqueue, EnqueuePcs
  <2>2. CASE queued[ctx[c].arg]
    <3>1. ctx'[c].pc = "run"
      BY <1>0, <1>4, <2>2 DEF sched_enqueue, At
    <3> QED BY <1>4, <2>2, <3>1 DEF sched_enqueue
  <2>3. CASE ~queued[ctx[c].arg]
    <3>1. ctx'[c].pc = "enq_lock"
      <4>1. Goto(c, "enq_lock") /\ "enq_lock" \in Pcs
        BY <1>4, <2>3 DEF sched_enqueue, Pcs
      <4> HIDE DEF Goto
      <4> QED BY <4>1, GotoPc
    <3> QED BY <1>4, <2>1, <2>3, <3>1 DEF sched_enqueue
  <2> QED BY <2>2, <2>3
<1>5. CASE EnqueueLock(c)
  BY <1>0, <1>5 DEF EnqueueLock
<1>6. CASE vec_push(c)
  <2>1. Goto(c, "grow_lock") \/ Goto(c, "enq_unlock")
    BY <1>6 DEF vec_push
  <2>2. ctx'[c].pc \notin BeforeFlag
    <3>1. "grow_lock" \in Pcs /\ "enq_unlock" \in Pcs
      BY DEF Pcs, HoldingPcs
    <3> HIDE DEF Goto
    <3> QED BY <2>1, <3>1, GotoPc
  <2> QED BY <1>6, <2>2 DEF vec_push
<1>7. CASE GrowLock(c)
  BY <1>0, <1>7 DEF GrowLock
<1>8. CASE vec_expand(c)
  BY <1>0, <1>8 DEF vec_expand
<1>9. CASE EnqueueUnlock(c)
  BY <1>0, <1>9 DEF EnqueueUnlock, At
<1>10. CASE HeapCall(c)
  BY <1>0, <1>10 DEF HeapCall
<1>11. CASE sched_exit(c)
  BY <1>0, <1>11 DEF sched_exit
<1>12. ASSUME NEW t \in Threads, NEW q, Create(c, t, q) PROVE FlagStep(c, ctx'[c])
  BY <1>0, <1>12 DEF Create
<1> HIDE DEF FlagStep
<1> QED
  BY <1>1, <1>2, <1>3, <1>4, <1>5, <1>6, <1>7, <1>8, <1>9, <1>10, <1>11, <1>12
     DEF ThreadStep, ProgramChoice, sched_fork, sched_run_program

LEMMA ThreadFlag ==
  ASSUME ThreadInv, FlagInv, NEW c \in Cpus, ThreadStep(c) \/ ProgramChoice(c)
  PROVE  FlagInv'
<1>0. /\ ctx \in [Cpus -> Context] /\ regs \in [Threads -> Context]
      /\ queued \in [Threads -> BOOLEAN]
  BY DEF ThreadInv, TypeInv, TypeOK
<1>1. PICK x \in Context : ContextStep(c, x)
  BY StepShape DEF ThreadInv
<1>2. PICK s \in Threads :
        /\ s = current[c]
        /\ ContextOf(s) = ctx[c]
        /\ ContextOf(s)' = x
        /\ \A t \in Threads \ {s} :
             \/ ContextOf(t)' = ContextOf(t) /\ \E d \in Cpus : current[d] = t
             \/ ContextOf(t) = regs[t] /\ ContextOf(t)' = regs'[t]
  BY <1>1, OwnStep DEF ContextStep, Step, ThreadInv
<1>3. ctx'[c] = x
  BY <1>0, <1>1 DEF ContextStep, Step
<1>4. FlagStep(c, x)
  BY <1>3, FlagShape DEF ThreadInv
<1>5. \A t \in Threads : \/ regs'[t] = regs[t]
                         \/ regs[t].pc = "none" /\ regs'[t].pc \in {"run", "entry"}
  <2>1. CASE regs' = regs
    BY <2>1
  <2>2. CASE CreateStep(c, x)
    <3>1. PICK t \in Threads, q \in {"run", "entry"} :
            regs[t] = Absent /\ regs' = [regs EXCEPT ![t] = At(q)]
      BY <2>2 DEF CreateStep
    <3>2. regs[t].pc = "none" /\ At(q).pc = q
      BY <3>1 DEF At, Absent
    <3> QED BY <1>0, <3>1, <3>2
  <2> QED BY <1>1, <2>1, <2>2 DEF ContextStep, QuietStep, PushStep
<1>6. ASSUME NEW r \in Threads \ {s}, ContextOf(r)'.pc \in BeforeFlag
      PROVE  ContextOf(r)' = ContextOf(r)
  <2>1. \/ ContextOf(r)' = ContextOf(r)
        \/ ContextOf(r) = regs[r] /\ ContextOf(r)' = regs'[r]
    BY <1>2
  <2>2. regs'[r] = regs[r] \/ regs'[r].pc \notin BeforeFlag
    BY <1>5 DEF BeforeFlag
  <2> QED BY <1>6, <2>1, <2>2
<1>7. CASE /\ queued' = queued
           /\ x.pc \in BeforeFlag /\ x.arg \in Threads =>
                \/ ctx[c].pc \in BeforeFlag /\ x.arg = ctx[c].arg
                \/ regs[x.arg] = Absent
  <2>1. \A t \in Threads : queued'[t] => regs'[t].pc # "none"
    BY <1>5, <1>7 DEF FlagInv
  <2>2. ASSUME NEW r \in Threads, NEW t \in Threads, ContextOf(r)'.arg = t,
               ContextOf(r)'.pc \in BeforeFlag
        PROVE  ~queued[t]
    <3>1. CASE r # s
      BY <1>6, <2>2, <3>1 DEF FlagInv
    <3>2. CASE r = s /\ regs[t] = Absent
      BY <3>2 DEF FlagInv, Absent, At
    <3>3. CASE r = s /\ ctx[c].pc \in BeforeFlag /\ x.arg = ctx[c].arg
      BY <1>2, <2>2, <3>3 DEF FlagInv
    <3> QED BY <1>2, <1>7, <2>2, <3>1, <3>2, <3>3
  <2> QED BY <1>7, <2>1, <2>2 DEF FlagInv
<1>8. CASE /\ ctx[c].pc = "enq" /\ ctx[c].arg \in Threads
           /\ queued' = [queued EXCEPT ![ctx[c].arg] = TRUE]
           /\ x.pc = "enq_lock"
  <2> DEFINE n == ctx[c].arg
  <2>1. Pending(s, n) /\ n \in Threads
    BY <1>2, <1>8 DEF Pending, BeforePush
  <2>2. regs[n].pc # "none" /\ \A r \in Threads : Pending(r, n) => r = s
    BY <2>1 DEF ThreadInv, PendingInv
  <2> HIDE DEF n
  <2>3. \A t \in Threads : queued'[t] <=> queued[t] \/ t = n
    BY <1>0, <1>8, <2>1 DEF n
  <2>4. \A t \in Threads : queued'[t] => regs'[t].pc # "none"
    BY <1>5, <2>2, <2>3 DEF FlagInv
  <2>5. ASSUME NEW r \in Threads, NEW t \in Threads, ContextOf(r)'.arg = t,
               ContextOf(r)'.pc \in BeforeFlag
        PROVE  ~queued'[t]
    <3>1. r # s
      BY <1>2, <1>8, <2>5 DEF BeforeFlag
    <3>2. ContextOf(r).arg = t /\ ContextOf(r).pc \in BeforeFlag
      BY <1>6, <2>5, <3>1
    <3>3. Pending(r, t)
      BY <3>2 DEF Pending, BeforePush, BeforeFlag
    <3>4. t # n
      BY <2>2, <3>1, <3>3
    <3> QED BY <2>3, <3>2, <3>4 DEF FlagInv
  <2> QED BY <2>4, <2>5 DEF FlagInv
<1> QED BY <1>4, <1>7, <1>8 DEF FlagStep

LEMMA HandlerFlag ==
  ASSUME ThreadInv, FlagInv, NEW c \in Cpus, Tick(c) \/ HandlerStep(c) \/ Overwrite(c)
  PROVE  FlagInv'
<1>1. \A t \in Threads : ContextOf(t)' = ContextOf(t)
  BY SwitchContexts DEF ThreadInv
<1>2. queued' = queued
  BY DEF Tick, HandlerStep, Rearm, NextLevel, NoneTaken, SameTaken, SwitchTo, Keep, Release,
         switch_and_run_stack, Overwrite, thread_t
<1>3. \A t \in Threads : regs[t].pc # "none" => regs'[t].pc # "none"
  <2>1. CASE SwitchTo(c)
    <3>1. regs' = [t \in Threads |-> IF t = current[c] THEN ctx[c] ELSE regs[t]]
      BY <2>1 DEF SwitchTo
    <3> QED BY <3>1 DEF ThreadInv, PendingInv
  <2>2. CASE regs' = regs
    BY <2>2
  <2> QED
    BY <2>1, <2>2 DEF Tick, HandlerStep, Rearm, NextLevel, NoneTaken, SameTaken, Keep, Release,
                      switch_and_run_stack, Overwrite, thread_t
<1> QED BY <1>1, <1>2, <1>3 DEF FlagInv

---------------------------------------------------------------------------
(* The refinement mapping, and a context's step seen through it.           *)
prog == [t \in Threads |-> ContextOf(t)]
runnable == {t \in Threads : InQueue(t)}

LEMMA OwnProg ==
  ASSUME ThreadInv, NEW c \in Cpus, hpc[c] = "out", ctx[c].pc # "idle",
         UNCHANGED <<current, hpc, regs>>, NEW x, ctx' = [ctx EXCEPT ![c] = x]
  PROVE  \E s \in runnable : prog[s] = ctx[c] /\ prog' = [prog EXCEPT ![s] = x]
<1>1. PICK s \in Threads :
        /\ s = current[c]
        /\ ContextOf(s) = ctx[c]
        /\ ContextOf(s)' = x
        /\ \A t \in Threads \ {s} :
             \/ ContextOf(t)' = ContextOf(t) /\ \E d \in Cpus : current[d] = t
             \/ ContextOf(t) = regs[t] /\ ContextOf(t)' = regs'[t]
  BY OwnStep DEF ThreadInv
<1>2. s \in runnable
  BY <1>1, CurrentQueued, NoThreadAssumption DEF ThreadInv, runnable
<1>3. \A t \in Threads \ {s} : ContextOf(t)' = ContextOf(t)
  BY <1>1
<1>4. prog' = [prog EXCEPT ![s] = x] /\ prog[s] = ctx[c]
  BY <1>1, <1>3 DEF prog
<1> QED BY <1>2, <1>4

LEMMA OwnerOf ==
  ASSUME ThreadInv, NEW c \in Cpus, hpc[c] = "out", ctx[c].pc # "idle"
  PROVE  \E s \in Threads : ContextOf(s) = ctx[c]
<1>1. current[c] \in Threads /\ current[c] # NoThread
  BY DEF ThreadInv, TypeInv, TypeOK, PlaceInv
<1>2. /\ IsLoaded(current, hpc, c, current[c])
      /\ \A d \in Cpus : current[d] = current[c] => d = c
  BY <1>1 DEF IsLoaded, ThreadInv, PlaceInv, Distinct
<1> QED BY <1>1, <1>2, LoadedNow

LEMMA GotoProg ==
  ASSUME ThreadInv, NEW c \in Cpus, NEW p \in Pcs \ {"idle"}, Executes(c, p),
         NEW q \in Pcs, Goto(c, q), UNCHANGED <<current, hpc, regs>>
  PROVE  \E s \in runnable : /\ prog[s] = ctx[c]
                             /\ prog[s].pc = p
                             /\ prog' = [prog EXCEPT ![s].pc = q]
<1> DEFINE x == [pc |-> q, arg |-> ctx[c].arg]
<1>1. ctx \in [Cpus -> Context] /\ hpc[c] = "out" /\ ctx[c].pc = p
  BY DEF ThreadInv, TypeInv, TypeOK, Executes
<1>2. ctx' = [ctx EXCEPT ![c] = x]
  BY GotoIsReplace DEF ThreadInv
<1>3. [ctx[c] EXCEPT !.pc = q] = x
  BY <1>1 DEF Context
<1> HIDE DEF x
<1>4. PICK s \in runnable : prog[s] = ctx[c] /\ prog' = [prog EXCEPT ![s] = x]
  BY <1>1, <1>2, OwnProg
<1>5. prog' = [prog EXCEPT ![s].pc = q]
  BY <1>3, <1>4
<1> QED BY <1>1, <1>4, <1>5

(* Where contexts may be, from the exclusion of the two locks.             *)
LEMMA ProgPlace ==
  ASSUME NEW t \in Threads
  PROVE  prog[t] = regs[t] \/ \E c \in Cpus : prog[t] = ctx[c]
  BY DEF prog, ContextOf

LEMMA HeapFree ==
  ASSUME HeapInv, ~heap_lock
  PROVE  Abstract!Nobody(Abstract!InHeap)
  BY DEF HeapInv, InHeap, prog, Abstract!Nobody, Abstract!InHeap

LEMMA QueueFree ==
  ASSUME SchedLockExclusive, ~sched_lock
  PROVE  Abstract!Nobody(Abstract!InQueue)
<1>1. \A t \in Threads : prog[t].pc \notin HoldingPcs
  BY ProgPlace DEF SchedLockExclusive, ContextHolds
<1> QED
  BY <1>1 DEF prog, HoldingPcs, Abstract!Nobody, Abstract!InQueue

---------------------------------------------------------------------------
(* Every step of a context is a step of ThreadMachine, taken by the thread *)
(* whose context it is.                                                    *)
RefineInv == ThreadInv /\ FlagInv /\ HeapInv /\ SchedLockExclusive

LEMMA ThreadRefines ==
  ASSUME RefineInv, NEW c \in Cpus, ThreadStep(c)
  PROVE  Abstract!Next
<1> USE DEF RefineInv
<1>0. /\ \A s \in runnable : s \in Threads
      /\ {"entry", "run", "heap_lock", "heap", "enq", "enq_lock", "push", "grow_lock", "grow",
          "enq_unlock", "exit"} \subseteq Pcs \ {"idle"}
      /\ \A s \in Threads : prog[s] = ContextOf(s)
  BY DEF runnable, prog, Pcs, HoldingPcs
<1>1. ASSUME NEW p, NEW q, NEW s \in runnable, prog[s].pc = p, prog' = [prog EXCEPT ![s].pc = q]
      PROVE  Abstract!Step(s, p, q)
  BY <1>1 DEF Abstract!Step, prog, runnable
<1>2. UNCHANGED queue => runnable' = runnable
  BY DEF runnable, InQueue
<1>3. CASE Start(c)
  <2>1. Executes(c, "entry") /\ Goto(c, "run") /\ UNCHANGED <<current, hpc, regs, queue>>
    BY <1>3 DEF Start, thread_t, cpu_locals, runqueue
  <2>2. PICK s \in runnable : prog[s].pc = "entry" /\ prog' = [prog EXCEPT ![s].pc = "run"]
    BY <1>0, <2>1, GotoProg
  <2>4. Abstract!Compute(s)
    BY <1>1, <1>2, <2>1, <2>2 DEF Abstract!Compute, runnable
  <2> QED BY <1>0, <2>4 DEF Abstract!Next
<1>4. CASE liballoc_lock(c)
  <2>1. Executes(c, "heap_lock") /\ Goto(c, "heap") /\ UNCHANGED <<current, hpc, regs, queue>>
    BY <1>4 DEF liballoc_lock, thread_t, cpu_locals, runqueue
  <2>2. PICK s \in runnable : prog[s].pc = "heap_lock" /\ prog' = [prog EXCEPT ![s].pc = "heap"]
    BY <1>0, <2>1, GotoProg
  <2>3. Abstract!Nobody(Abstract!InHeap)
    BY <1>4, HeapFree DEF liballoc_lock
  <2>4. Abstract!UseHeap(s)
    BY <1>1, <1>2, <2>1, <2>2, <2>3 DEF Abstract!UseHeap, runnable
  <2> QED BY <1>0, <2>4 DEF Abstract!Next
<1>5. CASE liballoc_unlock(c)
  <2> DEFINE q == IF ctx[c].arg = NoThread THEN "run" ELSE "enq"
  <2>1. Executes(c, "heap") /\ Goto(c, q) /\ UNCHANGED <<current, hpc, regs, queue>>
    BY <1>5 DEF liballoc_unlock, thread_t, cpu_locals, runqueue
  <2>2. PICK s \in runnable : /\ prog[s] = ctx[c]
                             /\ prog[s].pc = "heap" /\ prog' = [prog EXCEPT ![s].pc = q]
    BY <1>0, <2>1, GotoProg
  <2>3. Abstract!Step(s, "heap", q)
    BY <1>1, <2>2
  <2>4. Abstract!UseHeap(s)
    BY <1>0, <1>2, <2>1, <2>2, <2>3 DEF Abstract!UseHeap, runnable
  <2> QED BY <1>0, <2>4 DEF Abstract!Next
<1>6. CASE sched_enqueue(c)
  <2>0. Executes(c, "enq") /\ UNCHANGED <<current, hpc, regs, queue>>
    BY <1>6 DEF sched_enqueue, thread_t, cpu_locals, runqueue
  <2>1. ~queued[ctx[c].arg]
    <3>1. PICK s \in Threads : ContextOf(s) = ctx[c]
      BY <2>0, OwnerOf DEF Executes
    <3>2. ctx[c].arg \in Threads /\ ctx[c].pc = "enq"
      BY <2>0 DEF ThreadInv, TypeInv, HasArg, EnqueuePcs, Executes
    <3> QED BY <3>1, <3>2 DEF FlagInv, BeforeFlag
  <2>2. Goto(c, "enq_lock")
    BY <1>6, <2>1 DEF sched_enqueue
  <2>3. PICK s \in runnable : prog[s].pc = "enq" /\ prog' = [prog EXCEPT ![s].pc = "enq_lock"]
    BY <1>0, <2>0, <2>2, GotoProg
  <2>4. Abstract!UseHeap(s)
    BY <1>1, <1>2, <2>0, <2>3 DEF Abstract!UseHeap, runnable
  <2> QED BY <1>0, <2>4 DEF Abstract!Next
<1>7. CASE EnqueueLock(c)
  <2>1. Executes(c, "enq_lock") /\ Goto(c, "push") /\ UNCHANGED <<current, hpc, regs, queue>>
    BY <1>7 DEF EnqueueLock, thread_t, cpu_locals, runqueue
  <2>2. PICK s \in runnable : prog[s].pc = "enq_lock" /\ prog' = [prog EXCEPT ![s].pc = "push"]
    BY <1>0, <2>1, GotoProg
  <2>3. Abstract!Nobody(Abstract!InQueue)
    BY <1>7, QueueFree DEF EnqueueLock
  <2>4. Abstract!UseQueue(s)
    BY <1>1, <1>2, <2>1, <2>2, <2>3 DEF Abstract!UseQueue, runnable
  <2> QED BY <1>0, <2>4 DEF Abstract!Next
<1>8. CASE vec_push(c)
  <2> DEFINE n == ctx[c].arg
             full == Len(queue[Priority[n]]) + 1 > capacity[Priority[n]]
  <2>1. Executes(c, "push") /\ UNCHANGED <<current, hpc, regs>>
    BY <1>8 DEF vec_push, thread_t, cpu_locals
  <2>2. CASE full
    <3>1. Goto(c, "grow_lock") /\ UNCHANGED queue
      BY <1>8, <2>2 DEF vec_push
    <3>2. PICK s \in runnable : prog[s].pc = "push" /\ prog' = [prog EXCEPT ![s].pc = "grow_lock"]
      BY <1>0, <2>1, <3>1, GotoProg
    <3>3. Abstract!UseQueue(s)
      BY <1>1, <1>2, <3>1, <3>2 DEF Abstract!UseQueue, runnable
    <3> QED BY <1>0, <3>3 DEF Abstract!Next
  <2>3. CASE ~full
    <3>1. Goto(c, "enq_unlock") /\ queue' = [queue EXCEPT ![Priority[n]] = Append(@, n)]
      BY <1>8, <2>3 DEF vec_push
    <3>2. PICK s \in runnable : /\ prog[s] = ctx[c]
                               /\ prog[s].pc = "push"
                               /\ prog' = [prog EXCEPT ![s].pc = "enq_unlock"]
      BY <1>0, <2>1, <3>1, GotoProg
    <3>3. n \in Threads /\ ctx[c].pc = "push"
      BY <2>1 DEF ThreadInv, TypeInv, HasArg, EnqueuePcs, Executes
    <3>4. ~InQueue(n)
      BY <1>0, <3>2, <3>3 DEF ThreadInv, PendingInv, Pending, BeforePush
    <3> HIDE DEF n
    <3>5. \A t \in Threads : InQueue(t)' <=> InQueue(t) \/ t = n
      BY <3>1, <3>3, <3>4, PushPlace DEF ThreadInv, PlaceInv
    <3>6. runnable' = runnable \cup {n} /\ n \in Threads \ runnable /\ prog[s].arg = n
      BY <3>2, <3>3, <3>4, <3>5 DEF runnable, n
    <3>7. Abstract!Publish(s)
      BY <1>1, <3>2, <3>6 DEF Abstract!Publish, runnable, prog
    <3> QED BY <1>0, <3>7 DEF Abstract!Next
  <2> QED BY <2>2, <2>3
<1>9. CASE GrowLock(c)
  <2>1. Executes(c, "grow_lock") /\ Goto(c, "grow") /\ UNCHANGED <<current, hpc, regs, queue>>
    BY <1>9 DEF GrowLock, thread_t, cpu_locals, runqueue
  <2>2. PICK s \in runnable : prog[s].pc = "grow_lock" /\ prog' = [prog EXCEPT ![s].pc = "grow"]
    BY <1>0, <2>1, GotoProg
  <2>3. Abstract!Nobody(Abstract!InHeap)
    BY <1>9, HeapFree DEF GrowLock
  <2>4. Abstract!UseQueue(s)
    BY <1>1, <1>2, <2>1, <2>2, <2>3 DEF Abstract!UseQueue, runnable
  <2> QED BY <1>0, <2>4 DEF Abstract!Next
<1>10. CASE vec_expand(c)
  <2>1. Executes(c, "grow") /\ Goto(c, "push") /\ UNCHANGED <<current, hpc, regs, queue>>
    BY <1>10 DEF vec_expand, thread_t, cpu_locals, runqueue
  <2>0. "grow" \in Pcs \ {"idle"} /\ "push" \in Pcs
    BY <1>0
  <2>2. PICK s \in runnable : prog[s].pc = "grow" /\ prog' = [prog EXCEPT ![s].pc = "push"]
    BY <2>0, <2>1, GotoProg
  <2>4. Abstract!UseQueue(s)
    BY <1>1, <1>2, <2>1, <2>2 DEF Abstract!UseQueue, runnable
  <2> QED BY <1>0, <2>4 DEF Abstract!Next
<1>11. CASE EnqueueUnlock(c)
  <2>1. /\ hpc[c] = "out" /\ ctx[c].pc = "enq_unlock" /\ ctx' = [ctx EXCEPT ![c] = At("run")]
        /\ UNCHANGED <<current, hpc, regs, queue>>
    BY <1>11 DEF EnqueueUnlock, Executes, thread_t, cpu_locals, runqueue
  <2>2. PICK s \in runnable : prog[s] = ctx[c] /\ prog' = [prog EXCEPT ![s] = At("run")]
    BY <2>1, OwnProg
  <2>3. Abstract!Return(s)
    BY <1>2, <2>1, <2>2 DEF Abstract!Return, Abstract!At, At, prog, runnable
  <2> QED BY <1>0, <2>3 DEF Abstract!Next
<1> QED
  BY <1>3, <1>4, <1>5, <1>6, <1>7, <1>8, <1>9, <1>10, <1>11 DEF ThreadStep

LEMMA ChoiceRefines ==
  ASSUME RefineInv, NEW c \in Cpus, ProgramChoice(c)
  PROVE  Abstract!Next
<1> USE DEF RefineInv
<1>0. /\ \A s \in runnable : s \in Threads
      /\ {"run", "heap_lock", "exit"} \subseteq Pcs \ {"idle"}
  BY DEF runnable, Pcs
<1>1. UNCHANGED queue => runnable' = runnable
  BY DEF runnable, InQueue
<1>2. ASSUME NEW q \in {"heap_lock", "exit"}, Executes(c, "run"), Goto(c, q),
             UNCHANGED <<current, hpc, regs, queue>>
      PROVE  Abstract!Next
  <2>1. PICK s \in runnable : prog[s].pc = "run" /\ prog' = [prog EXCEPT ![s].pc = q]
    BY <1>0, <1>2, GotoProg
  <2>2. Abstract!Step(s, "run", q)
    BY <2>1 DEF Abstract!Step, prog, runnable
  <2>3. Abstract!Compute(s)
    BY <1>1, <1>2, <2>2 DEF Abstract!Compute, runnable
  <2> QED BY <1>0, <2>3 DEF Abstract!Next
<1>3. CASE HeapCall(c)
  BY <1>2, <1>3 DEF HeapCall, thread_t, cpu_locals, runqueue
<1>4. CASE sched_exit(c)
  BY <1>2, <1>4 DEF sched_exit, thread_t, cpu_locals, runqueue
<1>5. ASSUME NEW n \in Threads, NEW q \in {"run", "entry"}, Create(c, n, q)
      PROVE  Abstract!Next
  <2> DEFINE x == [pc |-> "heap_lock", arg |-> n]
  <2>1. /\ hpc[c] = "out" /\ ctx[c].pc = "run" /\ regs[n] = Absent
        /\ regs' = [regs EXCEPT ![n] = At(q)] /\ ctx' = [ctx EXCEPT ![c] = x]
        /\ UNCHANGED <<current, hpc, queue>>
    BY <1>5 DEF Create, Executes, cpu_locals, runqueue
  <2> HIDE DEF x
  <2>2. PICK s \in Threads :
          /\ s = current[c]
          /\ ContextOf(s) = ctx[c]
          /\ ContextOf(s)' = x
          /\ \A t \in Threads \ {s} :
               \/ ContextOf(t)' = ContextOf(t) /\ \E d \in Cpus : current[d] = t
               \/ ContextOf(t) = regs[t] /\ ContextOf(t)' = regs'[t]
    BY <2>1, OwnStep DEF ThreadInv
  <2>3. s \in runnable
    BY <2>2, CurrentQueued, NoThreadAssumption DEF ThreadInv, runnable
  <2>4. ~InQueue(n)
    <3>1. regs[n].pc = "none"
      BY <2>1 DEF Absent, At
    <3> QED BY <3>1 DEF ThreadInv, PendingInv
  <2>5. n # s /\ \A d \in Cpus : current[d] # n
    BY <2>3, <2>4, CurrentQueued, NoThreadAssumption DEF ThreadInv, runnable
  <2>6. regs \in [Threads -> Context]
    BY DEF ThreadInv, TypeInv, TypeOK
  <2>7. ContextOf(n) = Absent /\ ContextOf(n)' = At(q)
    BY <2>1, <2>2, <2>5, <2>6
  <2>8. \A t \in Threads \ {s, n} : ContextOf(t)' = ContextOf(t)
    BY <2>1, <2>2, <2>6
  <2>9. prog' = [prog EXCEPT ![s] = x, ![n] = At(q)]
    BY <2>2, <2>5, <2>7, <2>8 DEF prog
  <2>10. Abstract!Create(s, n)
    BY <1>1, <2>1, <2>2, <2>3, <2>7, <2>9
       DEF Abstract!Create, Abstract!At, Abstract!Absent, At, Absent, prog, runnable, x
  <2> QED BY <2>10 DEF Abstract!Next
<1> QED
  BY <1>3, <1>4, <1>5 DEF ProgramChoice, sched_fork, sched_run_program

(* A timer tick, and everything schedule() does, is invisible.             *)
LEMMA HandlerRefines ==
  ASSUME RefineInv, NEW c \in Cpus, Tick(c) \/ HandlerStep(c) \/ Overwrite(c)
  PROVE  UNCHANGED Abstract!vars
<1>1. \A t \in Threads : ContextOf(t)' = ContextOf(t)
  BY SwitchContexts DEF RefineInv, ThreadInv
<1>2. queue' = queue
  BY DEF Tick, HandlerStep, Rearm, NextLevel, NoneTaken, SameTaken, SwitchTo, Keep, Release,
         switch_and_run_stack, Overwrite, runqueue
<1> QED BY <1>1, <1>2 DEF Abstract!vars, InQueue

LEMMA InitRefines == Init => Abstract!Init
<1> SUFFICES ASSUME Init PROVE Abstract!Init
  OBVIOUS
<1>1. \A t \in Threads : regs[t] = IF Queued(t) THEN At("entry") ELSE Absent
  BY DEF Init
<1>2. \A t \in Threads : InQueue(t) <=> Queued(t)
  BY DEF Init, InQueue, Queued
<1>3. \A t \in Threads : \A c \in Cpus : ~IsLoaded(current, hpc, c, t)
  BY NoThreadAssumption DEF Init, IsLoaded
<1>4. \A t \in Threads : ContextOf(t) = regs[t]
  BY <1>3, ViewSaved, ContextIsView
<1> QED
  BY <1>1, <1>2, <1>4 DEF Abstract!Init, Abstract!At, Abstract!Absent, At, Absent

LEMMA FlagInvariance == ASSUME SingleLevel PROVE Spec => []FlagInv
<1>1. ASSUME ThreadInv, FlagInv, [Next]_vars PROVE FlagInv'
  <2>1. CASE UNCHANGED vars
    <3>1. UNCHANGED <<queued, regs, current, hpc, ctx>>
      BY <2>1 DEF vars, thread_t, cpu_locals
    <3>2. \A t \in Threads : ContextOf(t)' = ContextOf(t)
      BY <3>1 DEF ContextOf, Loaded
    <3> QED BY <1>1, <3>1, <3>2 DEF FlagInv
  <2> QED BY <1>1, <2>1, ThreadFlag, HandlerFlag DEF Next, CpuStep, Unfollowed
<1> QED BY <1>1, InitFlag, ThreadInvariance, PTL DEF Spec

(* The scheduler implements ThreadMachine until a CPU has its stack written*)
(* over at scheduler.c:375-377: whatever the timer ticks, the failed       *)
(* attempts at sched_lock and the switches between CPUs, each thread goes  *)
(* on from where it was, runs only after it has been enqueued, and is alone*)
(* in what the two locks protect.                                          *)
THEOREM ThreadMachineRefined ==
  ASSUME SingleLevel PROVE Spec => ImplementsThreadMachine
<1>1. ASSUME RefineInv, [Next]_vars PROVE [Abstract!Next]_(Abstract!vars)
  <2>1. CASE UNCHANGED vars
    <3>1. UNCHANGED <<queue, regs, current, hpc, ctx>>
      BY <2>1 DEF vars, thread_t, cpu_locals, runqueue
    <3> QED BY <3>1 DEF Abstract!vars, ContextOf, Loaded, InQueue
  <2> QED
    BY <1>1, <2>1, ThreadRefines, ChoiceRefines, HandlerRefines DEF Next, CpuStep, Unfollowed
<1>2. Spec => []RefineInv
  BY ThreadInvariance, FlagInvariance, HeapInvariance, SchedLockMutex, PTL DEF RefineInv
<1> QED
  BY <1>1, <1>2, InitRefines, PTL DEF Spec, ImplementsThreadMachine, Abstract!Spec
=============================================================================
