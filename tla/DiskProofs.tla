----------------------------- MODULE DiskProofs -----------------------------
(***************************************************************************)
(* The driver of the disk, for a medium of any size, any partition table,  *)
(* any set of command slots and requests of any length: a completed request*)
(* moved the sectors that the last entry of its command table takes and no *)
(* others changed, the devices are the partitions of the table, and the    *)
(* command list moves only while the engines are stopped.                  *)
(*                                                                         *)
(* The inductive invariant DiskInv says of each point of a request which   *)
(* command its slot holds and how much of it the controller has done       *)
(* (MoveInv), and of the probing loop how many used entries it has passed  *)
(* (MatchInv).                                                             *)
(***************************************************************************)
EXTENDS Disk, FiniteSetTheorems, WellFoundedInduction, TLAPS

Requesting == thread.pc \in {"slot", "issue", "wait", "done", "failed"}
Port == [st : BOOLEAN, cr : BOOLEAN, fre : BOOLEAN, fr : BOOLEAN, base : {"old", "new"},
         ci : SUBSET Slots, tfes : BOOLEAN, busy : BOOLEAN, halted : BOOLEAN]
DiskRequest ==
  [pc : {"slot", "issue", "wait", "done", "failed"}, w : BOOLEAN, lba : Nat, count : Nat \ {0},
   buf : Buffers, slot : Nat,
   then : [pc : {"probed"}, entry : Nat \ {0}] \cup [pc : {"idle"}, d : Nat \ {0}, lba : Nat]]
DiskConstants ==
  /\ Sectors \in Nat /\ Tables \subseteq Seq(Nat)
  /\ Counts \subseteq Nat \ {0} /\ SectorsPerPrd \in Nat \ {0}
  /\ Slots \subseteq Nat
  /\ DmaSpace \in Nat \ {0} /\ Buffers \subseteq 0 .. DmaSpace - 1
DiskTypes ==
  /\ DiskConstants
  /\ port \in Port
  /\ table \in Seq(Nat) /\ devices \in Seq(Nat)
  /\ medium = [x \in 0 .. Sectors - 1 |-> medium[x]]
  /\ DOMAIN commands = Slots /\ commands = [s \in Slots |-> commands[s]]
  /\ \/ thread \in [pc : {"stop", "stopping", "start", "idle"}]
     \/ thread \in [pc : {"probe"}, entry : Nat \ {0}]
     \/ thread \in DiskRequest

(* The engines follow their switches, which stay off from the stop until   *)
(* the list has been moved.                                                *)
EngineInv ==
  /\ thread.pc \in {"stopping", "start"} => ~port.st /\ ~port.fre
  /\ thread.pc = "start" => ~port.cr /\ ~port.fr

(* A request of the file system goes to the sectors of a device.           *)
AskInv ==
  Requesting /\ thread.then.pc = "idle" =>
    /\ thread.then.d \in DOMAIN devices
    /\ thread.lba = devices[thread.then.d] + thread.then.lba
    /\ thread.lba + thread.count <= Sectors

(* An error halts the controller for good; until then nothing but the      *)
(* command waited for is in its list.                                      *)
ListInv ==
  /\ port.tfes => port.halted
  /\ ~port.halted => \A s \in port.ci : thread.pc = "wait" /\ s = thread.slot
  /\ thread.pc = "issue" => thread.slot \in Slots \ port.ci
  /\ thread.pc = "wait" => thread.slot \in Slots
  /\ thread.pc = "wait" /\ thread.slot \in port.ci /\ ~port.halted =>
       commands[thread.slot] = Filled(thread)
  /\ thread.pc = "wait" /\ thread.slot \notin port.ci => ~port.halted

(* Before its command runs a request has changed nothing; when it has run, *)
(* it has moved what the command says.                                     *)
Untouched ==
  /\ medium = held
  /\ memory = [i \in 1 .. thread.count |-> IF thread.w THEN 100 + i ELSE Stale]
Moved ==
  LET n == LastEntry(thread.count)
  IN  IF thread.w
      THEN /\ memory = [i \in 1 .. thread.count |-> 100 + i]
           /\ \A x \in 0 .. Sectors - 1 :
                medium[x] = IF x \in thread.lba .. thread.lba + n - 1
                            THEN memory[x - thread.lba + 1] ELSE held[x]
      ELSE /\ medium = held
           /\ memory = [i \in 1 .. thread.count |->
                          IF i <= n THEN medium[thread.lba + i - 1] ELSE Stale]
MoveInv ==
  Requesting /\ thread.then.pc = "idle" =>
    /\ thread.pc \in {"slot", "issue", "failed"} => Untouched
    /\ thread.pc = "wait" => IF thread.slot \in port.ci THEN Untouched ELSE Moved
    /\ thread.pc = "done" => Moved

(* The devices of the first n entries.                                     *)
Matched(n) ==
  \A k \in 1 .. n : table[k] # 0 => Used(k) \in DOMAIN devices /\ devices[Used(k)] = table[k]
MatchInv ==
  /\ thread.pc \in {"stop", "stopping", "start"} => devices = <<>>
  /\ thread.pc = "probe" =>
       /\ thread.entry \in 1 .. Len(table) + 1
       /\ ~blind => Len(devices) = Used(thread.entry - 1) /\ Matched(thread.entry - 1)
  /\ Requesting /\ thread.then.pc = "probed" =>
       /\ thread.then.entry \in 1 .. Len(table)
       /\ ~blind => Len(devices) = Used(thread.then.entry - 1) /\ Matched(thread.then.entry - 1)
  /\ ~blind /\ (thread.pc = "idle" \/ (Requesting /\ thread.then.pc = "idle")) =>
       /\ Len(devices) = Used(Len(table)) + 1 /\ Matched(Len(table))
       /\ devices[Len(devices)] = 0

DiskInv == DiskTypes /\ EngineInv /\ AskInv /\ ListInv /\ MoveInv /\ MatchInv

LEMMA ThreadKinds ==
  ASSUME DiskTypes
  PROVE  /\ Requesting => thread \in DiskRequest
         /\ thread.pc = "probe" =>
              thread.entry \in Nat \ {0} /\ thread = [pc |-> "probe", entry |-> thread.entry]
  BY DEF DiskTypes, Requesting, DiskRequest

(* The parts of a request that stay when it goes on.                       *)
LEMMA GoesOn ==
  ASSUME NEW t \in DiskRequest, NEW q \in {"slot", "issue", "wait", "done", "failed"}
  PROVE  /\ [t EXCEPT !.pc = q] \in DiskRequest
         /\ [t EXCEPT !.pc = q].pc = q
         /\ [t EXCEPT !.pc = q].w = t.w
         /\ [t EXCEPT !.pc = q].lba = t.lba
         /\ [t EXCEPT !.pc = q].count = t.count
         /\ [t EXCEPT !.pc = q].buf = t.buf
         /\ [t EXCEPT !.pc = q].slot = t.slot
         /\ [t EXCEPT !.pc = q].then = t.then
  BY DEF DiskRequest

LEMMA TakesSlot ==
  ASSUME NEW t \in DiskRequest, NEW s \in Nat
  PROVE  /\ [t EXCEPT !.pc = "issue", !.slot = s] \in DiskRequest
         /\ [t EXCEPT !.pc = "issue", !.slot = s].pc = "issue"
         /\ [t EXCEPT !.pc = "issue", !.slot = s].w = t.w
         /\ [t EXCEPT !.pc = "issue", !.slot = s].lba = t.lba
         /\ [t EXCEPT !.pc = "issue", !.slot = s].count = t.count
         /\ [t EXCEPT !.pc = "issue", !.slot = s].buf = t.buf
         /\ [t EXCEPT !.pc = "issue", !.slot = s].slot = s
         /\ [t EXCEPT !.pc = "issue", !.slot = s].then = t.then
  BY DEF DiskRequest

LEMMA LeastSlot ==
  ASSUME NEW S \in SUBSET Nat, S # {} PROVE Min(S) \in S
<1>1. \E x \in S : \A y \in S : ~(<<y, x>> \in OpToRel(<, Nat))
  BY NatLessThanWellFounded, WFMin
<1>2. PICK x \in S : \A y \in S : ~(<<y, x>> \in OpToRel(<, Nat))
  BY <1>1
<1>3. ASSUME NEW y \in S PROVE x <= y
  <2>1. x \in Nat /\ y \in Nat
    OBVIOUS
  <2>2. y < x => <<y, x>> \in OpToRel(<, Nat)
    BY <2>1 DEF OpToRel
  <2>3. ~(y < x)
    BY <1>2, <2>2
  <2> QED BY <2>1, <2>3
<1> QED BY <1>3 DEF Min

(* What a step of a request changes: it goes on, or takes a slot.          *)
Ongoing(q) ==
  /\ thread \in DiskRequest /\ thread' \in DiskRequest
  /\ thread'.pc = q
  /\ thread'.w = thread.w /\ thread'.lba = thread.lba
  /\ thread'.count = thread.count /\ thread'.buf = thread.buf
  /\ thread'.then = thread.then

LEMMA FindShape ==
  ASSUME DiskTypes, ahci_find_cmdslot
  PROVE  /\ thread.pc = "slot"
         /\ port' = [port EXCEPT !.tfes = FALSE]
         /\ \/ Ongoing("failed")
            \/ Ongoing("issue") /\ thread'.slot \in Slots \ port.ci
<1>1. thread \in DiskRequest /\ thread.pc = "slot" /\ port' = [port EXCEPT !.tfes = FALSE]
  BY ThreadKinds DEF ahci_find_cmdslot, Requesting
<1>2. CASE FreeSlots = {}
  BY <1>1, <1>2, GoesOn DEF ahci_find_cmdslot, Ongoing
<1>3. CASE FreeSlots # {}
  <2>1. FreeSlots \in SUBSET Nat /\ FreeSlots = Slots \ port.ci
    BY DEF FreeSlots, DiskTypes, DiskConstants
  <2>2. Min(FreeSlots) \in Slots \ port.ci /\ Min(FreeSlots) \in Nat
    BY <1>3, <2>1, LeastSlot
  <2>3. thread' = [thread EXCEPT !.pc = "issue", !.slot = Min(FreeSlots)]
    BY <1>3 DEF ahci_find_cmdslot
  <2>4. Ongoing("issue") /\ thread'.slot = Min(FreeSlots)
    BY <1>1, <2>2, <2>3, TakesSlot DEF Ongoing
  <2> QED BY <1>1, <2>2, <2>4
<1> QED BY <1>2, <1>3

LEMMA IssueShape ==
  ASSUME DiskTypes, Issue
  PROVE  /\ thread.pc = "issue" /\ thread'.slot = thread.slot
         /\ \/ port.busy /\ Ongoing("failed") /\ UNCHANGED <<port, commands>>
            \/ /\ ~port.busy /\ Ongoing("wait")
               /\ commands' = [commands EXCEPT ![thread.slot] = Filled(thread)]
               /\ port' = [port EXCEPT !.ci = @ \cup {thread.slot}]
<1>1. thread \in DiskRequest /\ thread.pc = "issue"
  BY ThreadKinds DEF Issue, Requesting
<1>2. CASE port.busy
  <2>1. thread' = [thread EXCEPT !.pc = "failed"] /\ UNCHANGED <<port, commands>>
    BY <1>2 DEF Issue
  <2> QED BY <1>1, <1>2, <2>1, GoesOn DEF Ongoing
<1>3. CASE ~port.busy
  <2>1. /\ thread' = [thread EXCEPT !.pc = "wait"]
        /\ commands' = [commands EXCEPT ![thread.slot] = Filled(thread)]
        /\ port' = [port EXCEPT !.ci = @ \cup {thread.slot}]
    BY <1>3 DEF Issue
  <2>2. Ongoing("wait") /\ thread'.slot = thread.slot
    BY <1>1, <2>1, GoesOn DEF Ongoing
  <2> QED BY <1>1, <1>3, <2>1, <2>2
<1> QED BY <1>2, <1>3

LEMMA WaitShape ==
  ASSUME DiskTypes, Wait
  PROVE  /\ thread.pc = "wait" /\ thread'.slot = thread.slot /\ port' = port
         /\ \/ port.tfes /\ Ongoing("failed")
            \/ ~port.tfes /\ thread.slot \notin port.ci /\ Ongoing("done")
<1>1. thread \in DiskRequest /\ thread.pc = "wait"
  BY ThreadKinds DEF Wait, Requesting
<1>2. CASE port.tfes
  <2>1. thread' = [thread EXCEPT !.pc = "failed"] /\ port' = port
    BY <1>2 DEF Wait
  <2> QED BY <1>1, <1>2, <2>1, GoesOn DEF Ongoing
<1>3. CASE ~port.tfes
  <2>1. thread' = [thread EXCEPT !.pc = "done"] /\ port' = port /\ thread.slot \notin port.ci
    BY <1>3 DEF Wait
  <2> QED BY <1>1, <1>3, <2>1, GoesOn DEF Ongoing
<1> QED BY <1>2, <1>3

LEMMA ProbeShape ==
  ASSUME DiskTypes, Probe
  PROVE  /\ thread.pc = "probe" /\ thread.entry \in Nat \ {0}
         /\ \/ /\ thread.entry > Len(table) /\ devices' = Append(devices, 0)
               /\ thread' = At("idle") /\ thread'.pc = "idle"
            \/ /\ ~(thread.entry > Len(table)) /\ devices' = devices
               /\ thread' \in DiskRequest /\ thread'.pc = "slot" /\ thread'.then.pc = "probed"
               /\ thread'.then.entry = thread.entry
<1>1. thread.pc = "probe" /\ thread.entry \in Nat \ {0}
  BY ThreadKinds DEF Probe
<1> DEFINE e == thread.entry
<1>2. CASE e > Len(table)
  <2>1. devices' = Append(devices, 0) /\ thread' = At("idle")
    BY <1>2 DEF Probe, NoneLeft
  <2>2. At("idle").pc = "idle"
    BY DEF At
  <2> HIDE DEF e
  <2> QED BY <1>1, <1>2, <2>1, <2>2 DEF e
<1>3. CASE ~(e > Len(table))
  <2>1. devices' = devices /\ \E buf \in Buffers :
          thread' = [pc |-> "slot", w |-> FALSE, lba |-> 0, count |-> 1, buf |-> buf, slot |-> 0,
                     then |-> [pc |-> "probed", entry |-> e]]
    BY <1>3 DEF Probe, NoneLeft, Request
  <2> HIDE DEF e
  <2>2. thread' \in DiskRequest /\ thread'.pc = "slot" /\ thread'.then.pc = "probed"
    BY <1>1, <2>1 DEF DiskRequest, e
  <2>3. thread'.then.entry = e
    BY <2>1
  <2> QED BY <1>1, <1>3, <2>1, <2>2, <2>3 DEF e
<1> QED BY <1>2, <1>3

LEMMA ProbedShape ==
  ASSUME DiskTypes, Probed
  PROVE  /\ thread \in DiskRequest /\ thread.pc \in {"done", "failed"} /\ thread.then.pc = "probed"
         /\ thread.then.entry \in Nat \ {0}
         /\ thread'.pc = "probe" /\ thread'.entry = thread.then.entry + 1
         /\ thread' \in [pc : {"probe"}, entry : Nat \ {0}]
         /\ \E start \in {table[thread.then.entry], 0, 1} :
              /\ devices' = IF start = 0 THEN devices ELSE Append(devices, start)
              /\ ~blind' => ~blind /\ start = table[thread.then.entry]
<1>1. thread \in DiskRequest /\ thread.pc \in {"done", "failed"} /\ thread.then.pc = "probed"
  BY ThreadKinds DEF Probed, Requesting
<1>2. thread.then.entry \in Nat \ {0}
  BY <1>1 DEF DiskRequest
<1>3. thread' = [pc |-> "probe", entry |-> thread.then.entry + 1]
  BY DEF Probed
<1>4. thread.then.entry + 1 \in Nat \ {0}
  BY <1>2
<1>5. PICK start \in IF thread.pc = "done" THEN {table[thread.then.entry]} ELSE {0, 1} :
        devices' = IF start = 0 THEN devices ELSE Append(devices, start)
  BY DEF Probed
<1>6. blind' = (blind \/ thread.pc = "failed")
  BY DEF Probed
<1>7. /\ start \in {table[thread.then.entry], 0, 1}
      /\ ~blind' => ~blind /\ start = table[thread.then.entry]
  BY <1>1, <1>5, <1>6
<1> QED BY <1>1, <1>2, <1>3, <1>4, <1>5, <1>7

LEMMA AskShape ==
  ASSUME DiskTypes, NEW d \in DOMAIN devices, NEW lba \in 0 .. Sectors - 1, NEW n \in Counts,
         NEW buf \in Buffers, Read(d, lba, n, buf) \/ Write(d, lba, n, buf)
  PROVE  /\ thread.pc = "idle" /\ thread' \in DiskRequest /\ thread'.pc = "slot"
         /\ thread'.then.pc = "idle" /\ thread'.then.d = d /\ thread'.then.lba = lba
         /\ thread'.lba = devices[d] + lba /\ thread'.count = n
         /\ devices[d] + lba + n <= Sectors
         /\ memory' = [i \in 1 .. n |-> IF thread'.w THEN 100 + i ELSE Stale]
         /\ held' = medium /\ UNCHANGED <<table, medium, port, commands, devices, blind>>
<1>1. devices[d] \in Nat /\ lba \in Nat /\ n \in Nat \ {0} /\ d \in Nat \ {0}
  BY DEF DiskTypes, DiskConstants
<1>2. PICK w \in BOOLEAN :
        /\ thread' = Request(w, Lba(d, lba), n, buf, [pc |-> "idle", d |-> d, lba |-> lba])
        /\ memory' = [i \in 1 .. n |-> IF w THEN 100 + i ELSE Stale]
  BY DEF Read, Write
<1>3. thread' = [pc |-> "slot", w |-> w, lba |-> devices[d] + lba, count |-> n, buf |-> buf,
                 slot |-> 0, then |-> [pc |-> "idle", d |-> d, lba |-> lba]]
  BY <1>2 DEF Request, Lba
<1>4. thread' \in DiskRequest
  <2>1. devices[d] + lba \in Nat
    BY <1>1
  <2> QED BY <1>1, <1>3, <2>1 DEF DiskRequest
<1>5. /\ thread'.pc = "slot" /\ thread'.w = w
      /\ thread'.then.pc = "idle" /\ thread'.then.d = d /\ thread'.then.lba = lba
      /\ thread'.lba = devices[d] + lba /\ thread'.count = n
  BY <1>3
<1>6. /\ thread.pc = "idle" /\ devices[d] + lba + n <= Sectors
      /\ held' = medium /\ UNCHANGED <<table, medium, port, commands, devices, blind>>
  BY DEF Read, Write
<1> QED BY <1>2, <1>4, <1>5, <1>6

LEMMA ReturnShape ==
  ASSUME DiskTypes, Return
  PROVE  /\ thread \in DiskRequest /\ thread.pc \in {"done", "failed"} /\ thread.then.pc = "idle"
         /\ thread' = At("idle") /\ thread'.pc = "idle"
         /\ UNCHANGED <<table, medium, port, commands, devices, blind>>
  BY ThreadKinds DEF Return, At, Requesting

LEMMA RunShape ==
  ASSUME DiskTypes, ListInv, NEW s \in Slots, Run(s)
  PROVE  /\ thread \in DiskRequest /\ thread.pc = "wait" /\ s = thread.slot /\ s \in port.ci
         /\ ~port.halted /\ commands[s] = Filled(thread)
         /\ port' = [port EXCEPT !.ci = @ \ {s}]
         /\ commands' = [commands EXCEPT ![s] = NoCommand]
         /\ UNCHANGED <<table, devices, thread, held, blind>>
<1>1. /\ s \in port.ci /\ ~port.halted /\ port' = [port EXCEPT !.ci = @ \ {s}]
      /\ commands' = [commands EXCEPT ![s] = NoCommand]
      /\ UNCHANGED <<table, devices, thread, held, blind>>
  BY DEF Run
<1>2. thread.pc = "wait" /\ s = thread.slot
  BY <1>1 DEF ListInv
<1> QED BY <1>1, <1>2, ThreadKinds DEF ListInv, Requesting

LEMMA FailShape ==
  ASSUME DiskTypes, ListInv, NEW s \in Slots, Fail(s)
  PROVE  /\ thread \in DiskRequest /\ thread.pc = "wait" /\ s = thread.slot /\ s \in port.ci
         /\ port' = [port EXCEPT !.tfes = TRUE, !.halted = TRUE]
         /\ commands' = [commands EXCEPT ![s] = NoCommand]
         /\ UNCHANGED <<table, medium, devices, thread, memory, held, blind>>
<1>1. /\ s \in port.ci /\ ~port.halted
      /\ port' = [port EXCEPT !.tfes = TRUE, !.halted = TRUE]
      /\ commands' = [commands EXCEPT ![s] = NoCommand]
      /\ UNCHANGED <<table, medium, devices, thread, memory, held, blind>>
  BY DEF Fail
<1>2. thread.pc = "wait" /\ s = thread.slot
  BY <1>1 DEF ListInv
<1> QED BY <1>1, <1>2, ThreadKinds DEF Requesting

---------------------------------------------------------------------------
LEMMA PortKinds ==
  ASSUME NEW q \in Port, NEW b \in BOOLEAN, NEW c \in SUBSET Slots, NEW a \in {"old", "new"}
  PROVE  /\ [q EXCEPT !.st = b, !.fre = b] \in Port /\ [q EXCEPT !.base = a] \in Port
         /\ [q EXCEPT !.tfes = b] \in Port /\ [q EXCEPT !.tfes = b, !.halted = b] \in Port
         /\ [q EXCEPT !.ci = c] \in Port /\ [q EXCEPT !.busy = b] \in Port
         /\ [q EXCEPT !.cr = b] \in Port /\ [q EXCEPT !.fr = b] \in Port
  BY DEF Port

ThreadType ==
  \/ thread \in [pc : {"stop", "stopping", "start", "idle"}]
  \/ thread \in [pc : {"probe"}, entry : Nat \ {0}]
  \/ thread \in DiskRequest
MapTypes ==
  /\ medium = [x \in 0 .. Sectors - 1 |-> medium[x]]
  /\ DOMAIN commands = Slots /\ commands = [s \in Slots |-> commands[s]]

LEMMA PortNext == ASSUME DiskInv, Next PROVE port' \in Port
<1> USE DEF DiskInv, DiskTypes
<1>1. CASE ahci_stop_cmd_engine
  BY <1>1, PortKinds DEF ahci_stop_cmd_engine
<1>2. CASE SetBase
  BY <1>2, PortKinds DEF SetBase
<1>3. CASE ahci_start_cmd_engine
  BY <1>3, PortKinds DEF ahci_start_cmd_engine
<1>4. CASE Probe \/ Probed \/ Return
  BY <1>4 DEF Probe, Probed, Return
<1>5. CASE ahci_find_cmdslot
  BY <1>5, PortKinds DEF ahci_find_cmdslot
<1>6. CASE Issue
  <2>1. port.ci \cup {thread.slot} \in SUBSET Slots
    BY <1>6 DEF Issue, ListInv, Port
  <2>2. port' = port \/ port' = [port EXCEPT !.ci = @ \cup {thread.slot}]
    BY <1>6, IssueShape
  <2>3. [port EXCEPT !.ci = @ \cup {thread.slot}] \in Port
    BY <2>1, PortKinds
  <2> QED BY <2>2, <2>3
<1>7. CASE Wait
  BY <1>7 DEF Wait
<1>8. CASE Engine
  <2>1. port.st \in BOOLEAN /\ port.fre \in BOOLEAN
    BY DEF Port
  <2> QED BY <1>8, <2>1, PortKinds DEF Engine
<1>9. CASE Toggle
  BY <1>9, PortKinds DEF Toggle
<1>10. ASSUME NEW s \in Slots, Run(s) PROVE port' \in Port
  <2>1. port.ci \ {s} \in SUBSET Slots
    BY DEF Port
  <2> QED BY <1>10, <2>1, PortKinds DEF Run
<1>11. ASSUME NEW s \in Slots, Fail(s) PROVE port' \in Port
  BY <1>11, PortKinds DEF Fail
<1>12. ASSUME NEW d \in DOMAIN devices, NEW lba \in 0 .. Sectors - 1, NEW n \in Counts,
              NEW buf \in Buffers, Read(d, lba, n, buf) \/ Write(d, lba, n, buf)
       PROVE  port' \in Port
  BY <1>12 DEF Read, Write
<1> QED
  BY <1>1, <1>2, <1>3, <1>4, <1>5, <1>6, <1>7, <1>8, <1>9, <1>10, <1>11, <1>12
     DEF Next, Hba, Driver

LEMMA ThreadNext == ASSUME DiskInv, Next PROVE ThreadType'
<1>0. DiskTypes /\ ListInv /\ ThreadType
  BY DEF DiskInv, DiskTypes, ThreadType
<1>1. CASE ahci_stop_cmd_engine \/ SetBase
  BY <1>1 DEF ahci_stop_cmd_engine, SetBase, At, ThreadType
<1>2. CASE ahci_start_cmd_engine
  BY <1>2 DEF ahci_start_cmd_engine, ThreadType
<1>3. CASE Probe
  BY <1>0, <1>3, ProbeShape DEF ThreadType, At
<1>4. CASE Probed
  BY <1>0, <1>4, ProbedShape DEF ThreadType
<1>5. CASE Return
  BY <1>0, <1>5, ReturnShape DEF ThreadType, At
<1>6. CASE ahci_find_cmdslot
  BY <1>0, <1>6, FindShape DEF ThreadType, Ongoing
<1>7. CASE Issue
  BY <1>0, <1>7, IssueShape DEF ThreadType, Ongoing
<1>8. CASE Wait
  BY <1>0, <1>8, WaitShape DEF ThreadType, Ongoing
<1>9. CASE thread' = thread
  BY <1>0, <1>9 DEF ThreadType
<1>10. ASSUME NEW d \in DOMAIN devices, NEW lba \in 0 .. Sectors - 1, NEW n \in Counts,
              NEW buf \in Buffers, Read(d, lba, n, buf) \/ Write(d, lba, n, buf)
       PROVE  ThreadType'
  BY <1>0, <1>10, AskShape DEF ThreadType
<1> QED
  BY <1>1, <1>2, <1>3, <1>4, <1>5, <1>6, <1>7, <1>8, <1>9, <1>10
     DEF Next, Hba, Driver, Engine, Toggle, Run, Fail

LEMMA MapsNext == ASSUME DiskInv, Next PROVE MapTypes'
<1>0. DiskTypes /\ ListInv /\ MapTypes
  BY DEF DiskInv, DiskTypes, MapTypes
<1>1. CASE UNCHANGED <<medium, commands>>
  BY <1>0, <1>1 DEF MapTypes
<1>2. CASE Issue
  <2>1. medium' = medium
    BY <1>2 DEF Issue
  <2>2. commands' = commands \/ commands' = [commands EXCEPT ![thread.slot] = Filled(thread)]
    BY <1>2 DEF Issue
  <2> HIDE DEF MapTypes
  <2>3. DOMAIN commands' = Slots /\ commands' = [s \in Slots |-> commands'[s]]
    BY <1>0, <2>2 DEF MapTypes
  <2> QED BY <1>0, <2>1, <2>3 DEF MapTypes
<1>3. ASSUME NEW s \in Slots, Run(s) PROVE MapTypes'
  <2>1. commands' = [commands EXCEPT ![s] = NoCommand]
    BY <1>3 DEF Run
  <2>2. DOMAIN commands' = Slots /\ commands' = [t \in Slots |-> commands'[t]]
    BY <1>0, <2>1 DEF MapTypes
  <2>3. DOMAIN medium = 0 .. Sectors - 1
    BY <1>0 DEF MapTypes
  <2>4. medium' = [x \in 0 .. Sectors - 1 |-> medium'[x]]
    <3>1. CASE commands[s].w
      BY <1>3, <2>3, <3>1 DEF Run
    <3>2. CASE ~commands[s].w
      BY <1>0, <1>3, <3>2 DEF Run, MapTypes
    <3> QED BY <3>1, <3>2
  <2> QED BY <2>2, <2>4 DEF MapTypes
<1>4. ASSUME NEW s \in Slots, Fail(s) PROVE MapTypes'
  <2>1. commands' = [commands EXCEPT ![s] = NoCommand] /\ medium' = medium
    BY <1>4 DEF Fail
  <2>2. DOMAIN commands' = Slots /\ commands' = [t \in Slots |-> commands'[t]]
    BY <1>0, <2>1 DEF MapTypes
  <2> QED BY <1>0, <2>1, <2>2 DEF MapTypes
<1> QED
  BY <1>1, <1>2, <1>3, <1>4
     DEF Next, Hba, Driver, Engine, Toggle, ahci_stop_cmd_engine, SetBase,
         ahci_start_cmd_engine, Probe, Probed, ahci_find_cmdslot, Wait, Return,
         Read, Write

LEMMA TableNext ==
  ASSUME DiskInv, Next PROVE table' = table /\ devices' \in Seq(Nat)
<1>0. DiskTypes /\ devices \in Seq(Nat) /\ MatchInv
  BY DEF DiskInv, DiskTypes
<1>1. table' = table
  BY DEF Next, Hba, Driver, Engine, Toggle, Run, Fail, ahci_stop_cmd_engine,
         SetBase, ahci_start_cmd_engine, Probe, Probed, ahci_find_cmdslot, Issue,
         Wait, Return, Read, Write
<1>2. CASE Probe
  <2>1. devices' = Append(devices, 0) \/ devices' = devices
    BY <1>0, <1>2, ProbeShape
  <2>2. Append(devices, 0) \in Seq(Nat)
    BY <1>0
  <2> QED BY <1>0, <1>1, <2>1, <2>2
<1>3. CASE Probed
  <2>1. table[thread.then.entry] \in Nat
    <3>1. thread.then.entry \in 1 .. Len(table)
      BY <1>0, <1>3, ProbedShape DEF MatchInv, Requesting
    <3>2. table \in Seq(Nat)
      BY DEF DiskInv, DiskTypes
    <3> QED BY <3>1, <3>2
  <2>2. PICK start \in {table[thread.then.entry], 0, 1} :
          devices' = IF start = 0 THEN devices ELSE Append(devices, start)
    BY <1>0, <1>3, ProbedShape
  <2>3. start \in Nat
    BY <2>1, <2>2
  <2>4. Append(devices, start) \in Seq(Nat)
    BY <1>0, <2>3
  <2> QED BY <1>0, <1>1, <2>2, <2>4
<1>4. CASE devices' = devices
  BY <1>0, <1>1, <1>4
<1> QED
  BY <1>1, <1>2, <1>3, <1>4
     DEF Next, Hba, Driver, Engine, Toggle, Run, Fail, ahci_stop_cmd_engine,
         SetBase, ahci_start_cmd_engine, ahci_find_cmdslot, Issue, Wait, Return,
         Read, Write

LEMMA DiskTypesNext == ASSUME DiskInv, Next PROVE DiskTypes'
<1>1. table \in Seq(Nat) /\ DiskConstants
  BY DEF DiskInv, DiskTypes
<1>2. DiskConstants'
  BY <1>1 DEF DiskConstants
<1> QED
  BY <1>1, <1>2, PortNext, ThreadNext, MapsNext, TableNext DEF DiskTypes, ThreadType, MapTypes

LEMMA EngineNext == ASSUME DiskInv, Next PROVE EngineInv'
<1>0. DiskTypes /\ EngineInv /\ ListInv /\ port \in Port
  BY DEF DiskInv, DiskTypes
<1>1. CASE ahci_stop_cmd_engine
  <2>1. port' = [port EXCEPT !.st = FALSE, !.fre = FALSE] /\ thread' = At("stopping")
    BY <1>1 DEF ahci_stop_cmd_engine
  <2> QED BY <1>0, <2>1 DEF EngineInv, At, Port
<1>2. CASE SetBase
  <2>1. /\ port' = [port EXCEPT !.base = "new"] /\ thread' = At("start")
        /\ thread.pc = "stopping" /\ ~port.fr /\ ~port.cr
    BY <1>2 DEF SetBase, Stopped
  <2> QED BY <1>0, <2>1 DEF EngineInv, At, Port
<1>3. CASE ahci_start_cmd_engine
  BY <1>3 DEF EngineInv, ahci_start_cmd_engine
<1>4. CASE Engine
  <2>1. /\ \/ port' = [port EXCEPT !.cr = port.st]
           \/ port' = [port EXCEPT !.fr = port.fre]
        /\ thread' = thread
    BY <1>4 DEF Engine
  <2> QED BY <1>0, <2>1 DEF EngineInv, Port
<1>5. CASE thread'.pc \notin {"stopping", "start"}
  BY <1>5 DEF EngineInv
<1>6. CASE Toggle
  BY <1>5, <1>6 DEF Toggle
<1>7. CASE Probe
  BY <1>0, <1>5, <1>7, ProbeShape
<1>8. CASE Probed
  BY <1>0, <1>5, <1>8, ProbedShape
<1>9. CASE ahci_find_cmdslot
  BY <1>0, <1>5, <1>9, FindShape DEF Ongoing
<1>10. CASE Issue
  BY <1>0, <1>5, <1>10, IssueShape DEF Ongoing
<1>11. CASE Wait
  BY <1>0, <1>5, <1>11, WaitShape DEF Ongoing
<1>12. CASE Return
  BY <1>0, <1>5, <1>12, ReturnShape
<1>13. ASSUME NEW s \in Slots, Run(s) \/ Fail(s) PROVE EngineInv'
  BY <1>0, <1>5, <1>13, RunShape, FailShape
<1>14. ASSUME NEW d \in DOMAIN devices, NEW lba \in 0 .. Sectors - 1, NEW n \in Counts,
              NEW buf \in Buffers, Read(d, lba, n, buf) \/ Write(d, lba, n, buf)
       PROVE  EngineInv'
  BY <1>0, <1>5, <1>14, AskShape
<1> QED
  BY <1>1, <1>2, <1>3, <1>4, <1>6, <1>7, <1>8, <1>9, <1>10, <1>11, <1>12, <1>13, <1>14
     DEF Next, Hba, Driver

LEMMA AskNext == ASSUME DiskInv, Next PROVE AskInv'
<1>0. DiskTypes /\ AskInv /\ ListInv
  BY DEF DiskInv
<1>1. CASE ~(Requesting /\ thread.then.pc = "idle")'
  BY <1>1 DEF AskInv
<1>2. CASE thread' = thread /\ devices' = devices
  BY <1>0, <1>2 DEF AskInv, Requesting
<1>3. ASSUME NEW q, Ongoing(q), Requesting, devices' = devices PROVE AskInv'
  BY <1>0, <1>3 DEF AskInv, Ongoing, Requesting
<1>4. CASE ahci_stop_cmd_engine \/ SetBase
  BY <1>1, <1>4 DEF ahci_stop_cmd_engine, SetBase, At, Requesting
<1>5. CASE ahci_start_cmd_engine
  BY <1>1, <1>5 DEF ahci_start_cmd_engine, Requesting
<1>6. CASE Probe
  BY <1>0, <1>1, <1>6, ProbeShape DEF Requesting
<1>7. CASE Probed
  BY <1>0, <1>1, <1>7, ProbedShape DEF Requesting
<1>8. CASE Return
  BY <1>0, <1>1, <1>8, ReturnShape DEF Requesting
<1>9. CASE ahci_find_cmdslot
  <2>1. devices' = devices
    BY <1>9 DEF ahci_find_cmdslot
  <2> QED BY <1>0, <1>3, <1>9, <2>1, FindShape DEF Requesting
<1>10. CASE Issue
  <2>1. devices' = devices
    BY <1>10 DEF Issue
  <2> QED BY <1>0, <1>3, <1>10, <2>1, IssueShape DEF Requesting
<1>11. CASE Wait
  <2>1. devices' = devices
    BY <1>11 DEF Wait
  <2> QED BY <1>0, <1>3, <1>11, <2>1, WaitShape DEF Requesting
<1>12. ASSUME NEW d \in DOMAIN devices, NEW lba \in 0 .. Sectors - 1, NEW n \in Counts,
              NEW buf \in Buffers, Read(d, lba, n, buf) \/ Write(d, lba, n, buf)
       PROVE  AskInv'
  BY <1>0, <1>12, AskShape DEF AskInv
<1> QED
  BY <1>2, <1>4, <1>5, <1>6, <1>7, <1>8, <1>9, <1>10, <1>11, <1>12
     DEF Next, Hba, Driver, Engine, Toggle, Run, Fail

LEMMA ListNext == ASSUME DiskInv, Next PROVE ListInv'
<1>0. DiskTypes /\ ListInv /\ port \in Port /\ DOMAIN commands = Slots
  BY DEF DiskInv, DiskTypes
<1>1. ASSUME thread'.pc \notin {"issue", "wait"}, thread.pc # "wait",
             port'.tfes = port.tfes, port'.halted = port.halted, port'.ci = port.ci
      PROVE  ListInv'
  BY <1>0, <1>1 DEF ListInv
<1>2. ASSUME thread' = thread, commands' = commands,
             port'.tfes = port.tfes, port'.halted = port.halted, port'.ci = port.ci
      PROVE  ListInv'
  BY <1>0, <1>2 DEF ListInv, Filled, LastEntry, Dba
<1>3. CASE ahci_stop_cmd_engine \/ SetBase \/ ahci_start_cmd_engine
  <2>1. port'.tfes = port.tfes /\ port'.halted = port.halted /\ port'.ci = port.ci
    BY <1>0, <1>3 DEF ahci_stop_cmd_engine, SetBase, ahci_start_cmd_engine, Port
  <2> QED BY <1>1, <1>3, <2>1 DEF ahci_stop_cmd_engine, SetBase, ahci_start_cmd_engine, At
<1>4. CASE Probe
  BY <1>0, <1>1, <1>4, ProbeShape DEF Probe
<1>5. CASE Probed
  BY <1>0, <1>1, <1>5, ProbedShape DEF Probed
<1>6. CASE Return
  BY <1>0, <1>1, <1>6, ReturnShape
<1>7. ASSUME NEW d \in DOMAIN devices, NEW lba \in 0 .. Sectors - 1, NEW n \in Counts,
              NEW buf \in Buffers, Read(d, lba, n, buf) \/ Write(d, lba, n, buf)
      PROVE  ListInv'
  BY <1>0, <1>1, <1>7, AskShape
<1>8. CASE Engine \/ Toggle
  <2>1. port'.tfes = port.tfes /\ port'.halted = port.halted /\ port'.ci = port.ci
    BY <1>0, <1>8 DEF Engine, Toggle, Port
  <2> QED BY <1>2, <1>8, <2>1 DEF Engine, Toggle
<1>9. CASE ahci_find_cmdslot
  <2>1. ~port'.tfes /\ port'.halted = port.halted /\ port'.ci = port.ci
    BY <1>0, <1>9, FindShape DEF Port
  <2>2. thread.pc = "slot" /\ (thread'.pc = "failed" \/ (thread'.pc = "issue" /\ thread'.slot \in Slots \ port.ci))
    BY <1>0, <1>9, FindShape DEF Ongoing
  <2> QED BY <1>0, <2>1, <2>2 DEF ListInv
<1>10. CASE Issue
  <2>1. thread.pc = "issue" /\ thread'.slot = thread.slot
    BY <1>0, <1>10, IssueShape
  <2>2. CASE Ongoing("failed") /\ UNCHANGED <<port, commands>>
    BY <1>0, <1>1, <2>1, <2>2 DEF Ongoing
  <2>3. CASE /\ Ongoing("wait")
             /\ commands' = [commands EXCEPT ![thread.slot] = Filled(thread)]
             /\ port' = [port EXCEPT !.ci = @ \cup {thread.slot}]
    <3>1. /\ port'.tfes = port.tfes /\ port'.halted = port.halted
          /\ port'.ci = port.ci \cup {thread.slot} /\ thread'.pc = "wait"
      BY <1>0, <2>3 DEF Port, Ongoing
    <3>2. thread.slot \in Slots
      BY <1>0, <2>1 DEF ListInv
    <3>3. commands'[thread.slot] = Filled(thread) /\ Filled(thread)' = Filled(thread)
      BY <1>0, <2>3, <3>2 DEF Filled, LastEntry, Dba, Ongoing
    <3>4. ~port.halted => port.ci = {}
      BY <1>0, <2>1 DEF ListInv
    <3> QED BY <1>0, <2>1, <3>1, <3>2, <3>3, <3>4 DEF ListInv
  <2> QED BY <1>0, <1>10, <2>2, <2>3, IssueShape
<1>11. CASE Wait
  <2>1. thread.pc = "wait" /\ port' = port /\ thread'.pc \in {"done", "failed"}
    BY <1>0, <1>11, WaitShape DEF Ongoing
  <2>2. ~port.halted => port.ci = {}
    <3>1. thread.slot \notin port.ci \/ port.tfes
      BY <1>11 DEF Wait
    <3> QED BY <1>0, <3>1 DEF ListInv
  <2> QED BY <1>0, <2>1, <2>2 DEF ListInv
<1>12. ASSUME NEW s \in Slots, Run(s) PROVE ListInv'
  <2>1. /\ thread.pc = "wait" /\ s = thread.slot /\ ~port.halted /\ thread' = thread
        /\ port'.ci = port.ci \ {s} /\ port'.halted = port.halted /\ port'.tfes = port.tfes
    BY <1>0, <1>12, RunShape DEF Port
  <2>2. port.ci \ {s} = {}
    BY <1>0, <2>1 DEF ListInv
  <2> QED BY <1>0, <2>1, <2>2 DEF ListInv
<1>13. ASSUME NEW s \in Slots, Fail(s) PROVE ListInv'
  <2>1. /\ thread.pc = "wait" /\ s = thread.slot /\ s \in port.ci /\ thread' = thread
        /\ port'.ci = port.ci /\ port'.halted
    BY <1>0, <1>13, FailShape DEF Port
  <2> QED BY <1>0, <2>1 DEF ListInv
<1> QED
  BY <1>3, <1>4, <1>5, <1>6, <1>7, <1>8, <1>9, <1>10, <1>11, <1>12, <1>13
     DEF Next, Hba, Driver

---------------------------------------------------------------------------
LEMMA Remainder ==
  ASSUME NEW a \in Nat, NEW b \in Nat \ {0}
  PROVE  a % b \in 0 .. a /\ (a < b => a % b = a)
  OBVIOUS

(* The last entry of the command table takes no more than was asked for,   *)
(* and the buffer is found at the address cut to 32 bits.                  *)
LEMMA FilledCount ==
  ASSUME DiskConstants, NEW t \in DiskRequest
  PROVE  /\ Filled(t).w = t.w /\ Filled(t).lba = t.lba /\ Filled(t).dba = t.buf
         /\ Filled(t).count = LastEntry(t.count)
         /\ LastEntry(t.count) \in 1 .. t.count
<1>1. t.count \in Nat \ {0} /\ t.count - 1 \in Nat /\ SectorsPerPrd \in Nat \ {0}
  BY DEF DiskRequest, DiskConstants
<1>2. (t.count - 1) % SectorsPerPrd \in 0 .. t.count - 1
  BY <1>1, Remainder
<1>3. LastEntry(t.count) \in 1 .. t.count
  BY <1>1, <1>2 DEF LastEntry
<1>4. t.buf \in Buffers /\ DmaSpace \in Nat \ {0} /\ Buffers \subseteq 0 .. DmaSpace - 1
  BY DEF DiskRequest, DiskConstants
<1>5. t.buf \in Nat /\ t.buf < DmaSpace
  <2>1. t.buf \in 0 .. DmaSpace - 1
    BY <1>4, Zenon
  <2> QED BY <1>4, <2>1
<1>6. t.buf % DmaSpace = t.buf
  BY <1>4, <1>5, Remainder
<1> QED BY <1>3, <1>6 DEF Filled, Dba

SameRequest ==
  /\ thread'.w = thread.w /\ thread'.lba = thread.lba
  /\ thread'.count = thread.count /\ thread'.buf = thread.buf

LEMMA UntouchedStable ==
  ASSUME SameRequest, Untouched, UNCHANGED <<medium, memory, held>> PROVE Untouched'
  BY DEF SameRequest, Untouched

LEMMA MovedStable ==
  ASSUME SameRequest, Moved, UNCHANGED <<medium, memory, held>> PROVE Moved'
<1>1. LastEntry(thread.count)' = LastEntry(thread.count)
  BY DEF SameRequest, LastEntry
<1> QED BY <1>1 DEF SameRequest, Moved

LEMMA RunMoves ==
  ASSUME DiskTypes, ListInv, NEW s \in Slots, Run(s), Untouched PROVE Moved'
<1> DEFINE c == Filled(thread) n == LastEntry(thread.count)
<1>1. thread \in DiskRequest /\ commands[s] = c /\ thread' = thread /\ held' = held
  BY RunShape
<1>2. /\ c.w = thread.w /\ c.lba = thread.lba /\ c.dba = thread.buf /\ c.count = n
      /\ n \in 1 .. thread.count /\ thread.lba \in Nat /\ thread.count \in Nat
  BY <1>1, FilledCount DEF DiskRequest, DiskTypes
<1>3. LastEntry(thread.count)' = n
  BY <1>1 DEF LastEntry
<1>4. DOMAIN medium = 0 .. Sectors - 1 /\ medium = held /\ DOMAIN memory = 1 .. thread.count
  BY DEF DiskTypes, Untouched
<1>5. \A i : InBuffer(c, i) <=> i \in 1 .. thread.count
  BY <1>2, <1>4 DEF InBuffer
<1> HIDE DEF c, n
<1>6. CASE thread.w
  <2>1. memory' = memory /\ memory = [i \in 1 .. thread.count |-> 100 + i]
    BY <1>1, <1>2, <1>6 DEF Run, Untouched
  <2>2. medium' = [x \in 0 .. Sectors - 1 |->
                     IF x \in Span(c) THEN Dma(c, x - c.lba + 1) ELSE medium[x]]
    BY <1>1, <1>2, <1>4, <1>6 DEF Run
  <2>3. Span(c) = thread.lba .. thread.lba + n - 1
    BY <1>2 DEF Span
  <2>4. ASSUME NEW x \in 0 .. Sectors - 1, x \in thread.lba .. thread.lba + n - 1
        PROVE  Dma(c, x - c.lba + 1) = memory[x - thread.lba + 1]
    <3>1. x - thread.lba + 1 \in 1 .. thread.count
      BY <1>2, <2>4
    <3> QED BY <1>2, <1>5, <3>1 DEF Dma
  <2>5. \A x \in 0 .. Sectors - 1 :
          medium'[x] = IF x \in thread.lba .. thread.lba + n - 1
                       THEN memory[x - thread.lba + 1] ELSE held[x]
    BY <1>4, <2>2, <2>3, <2>4
  <2> QED BY <1>1, <1>3, <1>6, <2>1, <2>5 DEF Moved
<1>7. CASE ~thread.w
  <2>1. /\ medium' = medium
        /\ memory' = [i \in 1 .. thread.count |->
                        IF InBuffer(c, i) /\ i <= n THEN medium[c.lba + i - 1] ELSE memory[i]]
    BY <1>1, <1>2, <1>4, <1>7 DEF Run
  <2>2. \A i \in 1 .. thread.count : memory[i] = Stale
    BY <1>7 DEF Untouched
  <2>3. memory' = [i \in 1 .. thread.count |->
                     IF i <= n THEN medium[thread.lba + i - 1] ELSE Stale]
    BY <1>2, <1>5, <2>1, <2>2
  <2> QED BY <1>1, <1>3, <1>4, <1>7, <2>1, <2>3 DEF Moved
<1> QED BY <1>6, <1>7

LEMMA MoveNext == ASSUME DiskInv, Next PROVE MoveInv'
<1>0. DiskTypes /\ ListInv /\ MoveInv /\ port \in Port
  BY DEF DiskInv, DiskTypes
<1>1. CASE ~(Requesting /\ thread.then.pc = "idle")'
  BY <1>1 DEF MoveInv
<1>2. CASE thread' = thread /\ UNCHANGED <<medium, memory, held>> /\ port'.ci = port.ci
  <2>1. SameRequest /\ (Untouched => Untouched') /\ (Moved => Moved')
    BY <1>2, UntouchedStable, MovedStable DEF SameRequest
  <2> QED BY <1>0, <1>2, <2>1 DEF MoveInv, Requesting
<1>3. CASE ahci_stop_cmd_engine \/ SetBase
  BY <1>1, <1>3 DEF ahci_stop_cmd_engine, SetBase, At, Requesting
<1>4. CASE ahci_start_cmd_engine
  BY <1>1, <1>4 DEF ahci_start_cmd_engine, Requesting
<1>5. CASE Probe
  BY <1>0, <1>1, <1>5, ProbeShape DEF Requesting
<1>6. CASE Probed
  BY <1>0, <1>1, <1>6, ProbedShape DEF Requesting
<1>7. CASE Return
  BY <1>0, <1>1, <1>7, ReturnShape DEF Requesting
<1>8. ASSUME NEW q, Ongoing(q), UNCHANGED <<medium, memory, held>>
      PROVE  /\ thread'.then = thread.then /\ thread'.pc = q
             /\ (Untouched => Untouched') /\ (Moved => Moved')
  <2>1. SameRequest
    BY <1>8 DEF Ongoing, SameRequest
  <2> QED BY <1>8, <2>1, UntouchedStable, MovedStable DEF Ongoing
<1>9. CASE ahci_find_cmdslot
  <2>1. UNCHANGED <<medium, memory, held>>
    BY <1>9 DEF ahci_find_cmdslot
  <2>2. thread.pc = "slot" /\ (Ongoing("failed") \/ Ongoing("issue"))
    BY <1>0, <1>9, FindShape
  <2> QED BY <1>0, <1>8, <2>1, <2>2 DEF MoveInv, Requesting
<1>10. CASE Issue
  <2>1. UNCHANGED <<medium, memory, held>>
    BY <1>10 DEF Issue
  <2>2. /\ thread.pc = "issue" /\ thread'.slot = thread.slot
        /\ \/ Ongoing("failed")
           \/ Ongoing("wait") /\ thread.slot \in port'.ci
    BY <1>0, <1>10, IssueShape DEF Port
  <2> QED BY <1>0, <1>8, <2>1, <2>2 DEF MoveInv, Requesting
<1>11. CASE Wait
  <2>1. UNCHANGED <<medium, memory, held>>
    BY <1>11 DEF Wait
  <2>2. /\ thread.pc = "wait"
        /\ \/ thread.slot \in port.ci /\ Ongoing("failed")
           \/ thread.slot \notin port.ci /\ Ongoing("done")
    BY <1>0, <1>11, WaitShape DEF ListInv
  <2> QED BY <1>0, <1>8, <2>1, <2>2 DEF MoveInv, Requesting
<1>12. CASE Engine \/ Toggle
  <2>1. port'.ci = port.ci
    BY <1>0, <1>12 DEF Engine, Toggle, Port
  <2> QED BY <1>2, <1>12, <2>1 DEF Engine, Toggle
<1>13. ASSUME NEW s \in Slots, Fail(s) PROVE MoveInv'
  <2>1. port'.ci = port.ci
    BY <1>0, <1>13, FailShape DEF Port
  <2> QED BY <1>0, <1>2, <1>13, <2>1, FailShape
<1>14. ASSUME NEW s \in Slots, Run(s) PROVE MoveInv'
  <2>1. /\ thread' = thread /\ thread.pc = "wait" /\ s = thread.slot /\ s \in port.ci
        /\ s \notin port'.ci
    BY <1>0, <1>14, RunShape DEF Port
  <2>2. CASE thread.then.pc = "idle"
    <3>1. Untouched
      BY <1>0, <2>1, <2>2 DEF MoveInv, Requesting
    <3>2. Moved'
      BY <1>0, <1>14, <3>1, RunMoves
    <3> QED BY <2>1, <3>2 DEF MoveInv
  <2> QED BY <1>1, <2>1, <2>2
<1>15. ASSUME NEW d \in DOMAIN devices, NEW lba \in 0 .. Sectors - 1, NEW n \in Counts,
              NEW buf \in Buffers, Read(d, lba, n, buf) \/ Write(d, lba, n, buf)
       PROVE  MoveInv'
  <2>1. /\ thread'.pc = "slot" /\ thread'.count = n
        /\ memory' = [i \in 1 .. n |-> IF thread'.w THEN 100 + i ELSE Stale]
        /\ medium' = held'
    BY <1>0, <1>15, AskShape
  <2>2. Untouched'
    BY <2>1 DEF Untouched
  <2> QED BY <2>1, <2>2 DEF MoveInv
<1> QED
  BY <1>3, <1>4, <1>5, <1>6, <1>7, <1>9, <1>10, <1>11, <1>12, <1>13, <1>14, <1>15
     DEF Next, Hba, Driver

---------------------------------------------------------------------------
LEMMA UsedIs ==
  ASSUME NEW n PROVE Used(n) = Cardinality({k \in 1 .. n : table[k] # 0})
<1>1. ASSUME NEW S PROVE Cardinality(S) = Cardinality(S)
  BY DEF Cardinality, Cardinality
<1> QED BY <1>1 DEF Used

LEMMA UsedFacts ==
  ASSUME table \in Seq(Nat)
  PROVE  /\ Used(0) = 0
         /\ \A k \in Nat : Used(k) \in Nat
         /\ \A k \in Nat \ {0} :
              Used(k) = IF table[k] # 0 THEN Used(k - 1) + 1 ELSE Used(k - 1)
<1> DEFINE U(k) == {j \in 1 .. k : table[j] # 0}
<1>1. ASSUME NEW k \in Nat PROVE IsFiniteSet(U(k))
  <2>1. IsFiniteSet(1 .. k)
    BY FS_Interval
  <2> QED BY <2>1, FS_Subset
<1>2. \A k \in Nat : Used(k) \in Nat
  BY <1>1, FS_CardinalityType, UsedIs
<1>3. Used(0) = 0
  <2>1. U(0) = {}
    OBVIOUS
  <2> QED BY <2>1, FS_EmptySet, UsedIs
<1>4. ASSUME NEW k \in Nat \ {0}
      PROVE  Used(k) = IF table[k] # 0 THEN Used(k - 1) + 1 ELSE Used(k - 1)
  <2>1. k - 1 \in Nat /\ k \notin 1 .. k - 1 /\ 1 .. k = (1 .. k - 1) \cup {k}
    OBVIOUS
  <2>2. CASE table[k] # 0
    <3>1. U(k) = U(k - 1) \cup {k} /\ k \notin U(k - 1)
      BY <2>1, <2>2
    <3>2. IsFiniteSet(U(k - 1))
      BY <1>1, <2>1
    <3> HIDE DEF U
    <3>3. Cardinality(U(k)) = Cardinality(U(k - 1)) + 1
      BY <3>1, <3>2, FS_AddElement
    <3> QED BY <2>2, <3>3, UsedIs DEF U
  <2>3. CASE table[k] = 0
    <3>1. U(k) = U(k - 1)
      BY <2>1, <2>3
    <3> QED BY <2>3, <3>1, UsedIs
  <2> QED BY <2>2, <2>3
<1> QED BY <1>2, <1>3, <1>4

LEMMA AppendDevice ==
  ASSUME NEW s \in Seq(Nat), NEW x \in Nat
  PROVE  /\ Len(Append(s, x)) = Len(s) + 1 /\ Len(s) \in Nat
         /\ \A i \in DOMAIN s : i \in DOMAIN Append(s, x) /\ Append(s, x)[i] = s[i]
         /\ Len(s) + 1 \in DOMAIN Append(s, x) /\ Append(s, x)[Len(s) + 1] = x
  OBVIOUS

(* A device more leaves those found as they are.                           *)
LEMMA MatchedStays ==
  ASSUME table \in Seq(Nat), devices \in Seq(Nat), NEW x \in Nat, table' = table,
         devices' \in {devices, Append(devices, x)}, NEW n \in Nat, Matched(n)
  PROVE  \A k \in 1 .. n : table[k] # 0 =>
           Used(k) \in DOMAIN devices' /\ devices'[Used(k)] = table[k]
<1>1. \A i \in DOMAIN devices :
        i \in DOMAIN Append(devices, x) /\ Append(devices, x)[i] = devices[i]
  BY AppendDevice
<1>2. \A i \in DOMAIN devices : i \in DOMAIN devices' /\ devices'[i] = devices[i]
  BY <1>1, Zenon
<1> QED BY <1>2, Zenon DEF Matched

LEMMA MatchNext == ASSUME DiskInv, Next PROVE MatchInv'
<1>0. /\ DiskTypes /\ ListInv /\ MatchInv
      /\ table \in Seq(Nat) /\ devices \in Seq(Nat) /\ Len(table) \in Nat
  BY DEF DiskInv, DiskTypes
<1>1. table' = table /\ \A k : Used(k)' = Used(k)
  BY TableNext DEF Used
<1>2. ASSUME thread' = thread, UNCHANGED <<devices, blind>> PROVE MatchInv'
  BY <1>0, <1>1, <1>2 DEF MatchInv, Matched, Requesting
<1>3. ASSUME NEW q, Requesting, q \in {"slot", "issue", "wait", "done", "failed"}, Ongoing(q),
             UNCHANGED <<devices, blind>>
      PROVE  MatchInv'
  <2>1. thread'.then = thread.then /\ thread'.pc = q
    BY <1>3 DEF Ongoing
  <2> QED BY <1>0, <1>1, <1>3, <2>1 DEF MatchInv, Matched, Requesting
<1>4. CASE ahci_stop_cmd_engine \/ SetBase
  <2>1. thread'.pc \in {"stopping", "start"} /\ devices' = <<>>
    BY <1>0, <1>4 DEF ahci_stop_cmd_engine, SetBase, At, MatchInv
  <2> QED BY <2>1 DEF MatchInv, Requesting
<1>5. CASE ahci_start_cmd_engine
  <2>1. thread'.pc = "probe" /\ thread'.entry = 1 /\ devices' = <<>>
    BY <1>0, <1>5 DEF ahci_start_cmd_engine, MatchInv
  <2>2. Len(devices') = Used(0)' /\ 1 - 1 = 0 /\ 1 \in 1 .. Len(table) + 1 /\ 1 .. 0 = {}
    BY <1>0, <1>1, <2>1, UsedFacts
  <2> QED BY <1>1, <2>1, <2>2 DEF MatchInv, Matched, Requesting
<1>6. CASE Probe
  <2>0. PICK e \in 1 .. Len(table) + 1 : e = thread.entry
    BY <1>0, <1>6 DEF Probe, MatchInv
  <2>1. thread.pc = "probe" /\ blind' = blind
    BY <1>0, <1>6 DEF Probe, MatchInv
  <2>2. ~blind => Len(devices) = Used(e - 1) /\ Matched(e - 1)
    BY <1>0, <2>0, <2>1 DEF MatchInv
  <2>3. CASE e > Len(table) /\ devices' = Append(devices, 0) /\ thread'.pc = "idle"
    <3>1. e - 1 = Len(table)
      BY <1>0, <2>1, <2>3
    <3>2. /\ Len(devices') = Len(devices) + 1 /\ devices'[Len(devices) + 1] = 0
      BY <1>0, <2>3, AppendDevice
    <3>3. ~blind' => /\ Len(devices') = Used(Len(table)) + 1
                     /\ devices'[Len(devices')] = 0
      BY <2>1, <2>2, <3>1, <3>2
    <3>4. ~blind' => Matched(Len(table))'
      BY <1>0, <1>1, <2>1, <2>2, <2>3, <3>1, MatchedStays DEF Matched
    <3> QED BY <1>1, <2>3, <3>3, <3>4 DEF MatchInv, Requesting
  <2>4. CASE /\ ~(e > Len(table)) /\ devices' = devices
             /\ thread'.pc = "slot" /\ thread'.then.pc = "probed" /\ thread'.then.entry = e
    <3>1. e \in 1 .. Len(table)
      BY <1>0, <2>1, <2>4
    <3>2. ~blind' => Len(devices') = Used(e - 1)' /\ Matched(e - 1)'
      BY <1>1, <2>1, <2>2, <2>4 DEF Matched
    <3> QED BY <1>1, <2>4, <3>1, <3>2 DEF MatchInv, Matched, Requesting, Used
  <2> QED BY <1>0, <1>6, <2>3, <2>4, ProbeShape, <2>0
<1>7. CASE Probed
  <2>0. PICK e : e = thread.then.entry
    OBVIOUS
  <2>1. /\ thread.pc \in {"done", "failed"} /\ thread.then.pc = "probed"
        /\ thread'.pc = "probe" /\ thread'.entry = e + 1
    BY <1>0, <1>7, <2>0, ProbedShape
  <2>2. /\ e \in 1 .. Len(table)
        /\ ~blind => Len(devices) = Used(e - 1) /\ Matched(e - 1)
    BY <1>0, <2>0, <2>1 DEF MatchInv, Requesting
  <2>3. PICK start \in {table[e], 0, 1} :
          /\ devices' = IF start = 0 THEN devices ELSE Append(devices, start)
          /\ ~blind' => ~blind /\ start = table[e]
    BY <1>0, <1>7, <2>0, ProbedShape
  <2>4. e + 1 \in 1 .. Len(table) + 1 /\ (e + 1) - 1 = e /\ e \in Nat \ {0} /\ table[e] \in Nat
    BY <1>0, <2>2
  <2>5. ASSUME ~blind' PROVE Len(devices') = Used(e) /\ Matched(e)'
    <3>1. start = table[e] /\ Len(devices) = Used(e - 1) /\ Matched(e - 1)
      BY <2>2, <2>3, <2>5
    <3>2. e - 1 \in Nat /\ \A k \in 1 .. e : k \in 1 .. e - 1 \/ k = e
      BY <2>4
    <3>3. devices' \in {devices, Append(devices, start)} /\ start \in Nat
      BY <2>3, <2>4, <3>1
    <3>4. \A k \in 1 .. e - 1 : table[k] # 0 =>
            Used(k) \in DOMAIN devices' /\ devices'[Used(k)] = table[k]
      BY <1>0, <1>1, <3>1, <3>2, <3>3, MatchedStays
    <3>5. CASE table[e] = 0
      <4>1. devices' = devices /\ Used(e) = Used(e - 1)
        BY <1>0, <2>3, <2>4, <3>1, <3>5, UsedFacts
      <4> QED BY <1>1, <3>1, <3>2, <3>4, <3>5, <4>1 DEF Matched
    <3>6. CASE table[e] # 0
      <4>1. devices' = Append(devices, table[e]) /\ Used(e) = Used(e - 1) + 1
        BY <1>0, <2>3, <2>4, <3>1, <3>6, UsedFacts
      <4>2. /\ Len(devices') = Len(devices) + 1 /\ Len(devices) + 1 \in DOMAIN devices'
            /\ devices'[Len(devices) + 1] = table[e]
        BY <1>0, <2>4, <4>1, AppendDevice
      <4>3. Used(e) = Len(devices) + 1
        BY <3>1, <4>1
      <4> QED BY <1>1, <3>2, <3>4, <4>2, <4>3 DEF Matched
    <3> QED BY <3>5, <3>6
  <2>6. thread'.entry \in 1 .. Len(table') + 1 /\ thread'.entry - 1 = e
    BY <1>1, <2>1, <2>4
  <2> QED BY <1>1, <2>1, <2>5, <2>6 DEF MatchInv, Matched, Requesting, Used
<1>8. CASE Return
  <2>1. /\ thread.pc \in {"done", "failed"} /\ thread.then.pc = "idle" /\ thread'.pc = "idle"
        /\ UNCHANGED <<devices, blind>>
    BY <1>0, <1>8, ReturnShape
  <2> QED BY <1>0, <1>1, <2>1 DEF MatchInv, Matched, Requesting
<1>9. CASE ahci_find_cmdslot
  <2>1. UNCHANGED <<devices, blind>>
    BY <1>9 DEF ahci_find_cmdslot
  <2> QED BY <1>0, <1>3, <1>9, <2>1, FindShape DEF Requesting
<1>10. CASE Issue
  <2>1. UNCHANGED <<devices, blind>>
    BY <1>10 DEF Issue
  <2> QED BY <1>0, <1>3, <1>10, <2>1, IssueShape DEF Requesting
<1>11. CASE Wait
  <2>1. UNCHANGED <<devices, blind>>
    BY <1>11 DEF Wait
  <2> QED BY <1>0, <1>3, <1>11, <2>1, WaitShape DEF Requesting
<1>12. ASSUME NEW d \in DOMAIN devices, NEW lba \in 0 .. Sectors - 1, NEW n \in Counts,
              NEW buf \in Buffers, Read(d, lba, n, buf) \/ Write(d, lba, n, buf)
       PROVE  MatchInv'
  <2>1. /\ thread.pc = "idle" /\ thread'.pc = "slot" /\ thread'.then.pc = "idle"
        /\ UNCHANGED <<devices, blind>>
    BY <1>0, <1>12, AskShape
  <2> QED BY <1>0, <1>1, <2>1 DEF MatchInv, Matched, Requesting
<1> QED
  BY <1>2, <1>4, <1>5, <1>6, <1>7, <1>8, <1>9, <1>10, <1>11, <1>12
     DEF Next, Hba, Driver, Engine, Toggle, Run, Fail

---------------------------------------------------------------------------
LEMMA DiskInit == ASSUME DiskConstants, Init PROVE DiskInv
<1>1. /\ table \in Seq(Nat) /\ thread = At("stop") /\ devices = <<>>
      /\ medium = [x \in 0 .. Sectors - 1 |-> x] /\ commands = [s \in Slots |-> NoCommand]
  BY DEF Init, DiskConstants
<1>2. PICK on \in BOOLEAN :
        port = [st |-> on, cr |-> on, fre |-> on, fr |-> on, base |-> "old",
                ci |-> {}, tfes |-> FALSE, busy |-> FALSE, halted |-> FALSE]
  BY DEF Init
<1>3. port \in Port /\ port.ci = {} /\ ~port.tfes
  BY <1>2 DEF Port
<1>4. thread.pc = "stop" /\ thread \in [pc : {"stop", "stopping", "start", "idle"}]
  BY <1>1 DEF At
<1>5. DiskTypes
  BY <1>1, <1>3, <1>4 DEF DiskTypes
<1> QED
  BY <1>1, <1>3, <1>4, <1>5
     DEF DiskInv, EngineInv, AskInv, ListInv, MoveInv, MatchInv, Requesting

LEMMA DiskStepNext == ASSUME DiskInv, Next PROVE DiskInv'
  BY DiskTypesNext, EngineNext, AskNext, ListNext, MoveNext, MatchNext DEF DiskInv

LEMMA DiskStable ==
  ASSUME DiskInv,
         UNCHANGED <<table, medium, port, commands, devices, thread, memory, held, blind>>
  PROVE  DiskInv'
<1>1. UNCHANGED <<table, medium, port, commands, devices, thread, memory, held, blind>>
  OBVIOUS
<1>2. DiskTypes'
  BY <1>1 DEF DiskInv, DiskTypes
<1>3. EngineInv' /\ AskInv'
  BY <1>1 DEF DiskInv, EngineInv, AskInv, Requesting
<1>4. ListInv'
  BY <1>1 DEF DiskInv, ListInv, Filled, LastEntry, Dba
<1>5. MoveInv'
  <2>1. SameRequest /\ (Untouched => Untouched') /\ (Moved => Moved')
    BY <1>1, UntouchedStable, MovedStable DEF SameRequest
  <2> QED BY <1>1, <2>1 DEF DiskInv, MoveInv, Requesting
<1>6. MatchInv'
  BY <1>1 DEF DiskInv, MatchInv, Matched, Requesting, Used
<1> QED BY <1>2, <1>3, <1>4, <1>5, <1>6 DEF DiskInv

LEMMA DiskInvExact == ASSUME DiskInv PROVE DoneRight /\ OthersKept /\ DevicesMatch /\ BaseMoved
<1>0. DiskTypes /\ AskInv /\ MoveInv /\ (Requesting => thread \in DiskRequest)
  BY ThreadKinds DEF DiskInv
<1>1. BaseMoved
  BY DEF DiskInv, EngineInv, BaseMoved
<1>2. DevicesMatch
  <2>1. DOMAIN table = 1 .. Len(table)
    BY <1>0 DEF DiskTypes
  <2> QED BY <2>1 DEF DiskInv, MatchInv, Matched, DevicesMatch
<1>3. ASSUME Requesting, thread.then.pc = "idle"
      PROVE  /\ thread \in DiskRequest /\ thread.lba \in Nat /\ thread.count \in Nat \ {0}
             /\ thread.then.d \in DOMAIN devices
             /\ thread.lba = devices[thread.then.d] + thread.then.lba
             /\ thread.lba + thread.count <= Sectors
             /\ DOMAIN medium = 0 .. Sectors - 1
             /\ LastEntry(thread.count) \in 1 .. thread.count
  BY <1>0, <1>3, FilledCount DEF AskInv, DiskRequest, DiskTypes
<1>4. DoneRight
  <2> SUFFICES ASSUME thread.pc = "done", thread.then.pc = "idle", NEW i \in 1 .. thread.count
               PROVE  LET x == devices[thread.then.d] + thread.then.lba + i - 1
                      IN  IF i <= LastEntry(thread.count) THEN memory[i] = medium[x]
                          ELSE IF thread.w THEN medium[x] = held[x] ELSE memory[i] = Stale
    BY DEF DoneRight
  <2> DEFINE x == thread.lba + i - 1 n == LastEntry(thread.count)
  <2>1. Requesting /\ Moved
    BY <1>0 DEF MoveInv, Requesting
  <2>2. devices[thread.then.d] + thread.then.lba + i - 1 = x
    BY <1>3, <2>1
  <2>3. n \in Nat /\ thread.lba \in Nat /\ thread.count \in Nat
    BY <1>3, <2>1
  <2>4. IF i <= n THEN memory[i] = medium[x]
        ELSE IF thread.w THEN medium[x] = held[x] ELSE memory[i] = Stale
    <3>1. CASE ~thread.w
      BY <2>1, <3>1 DEF Moved
    <3>2. CASE thread.w
      <4>1. Sectors \in Nat /\ thread.lba + thread.count <= Sectors
        BY <1>0, <1>3, <2>1 DEF DiskTypes, DiskConstants
      <4> HIDE DEF n
      <4>2. /\ x \in 0 .. Sectors - 1 /\ x - thread.lba + 1 = i
            /\ i <= n <=> x \in thread.lba .. thread.lba + n - 1
        BY <2>3, <4>1
      <4> HIDE DEF x
      <4>3. medium[x] = IF x \in thread.lba .. thread.lba + n - 1
                        THEN memory[x - thread.lba + 1] ELSE held[x]
        BY <2>1, <3>2, <4>2 DEF Moved, n
      <4> QED BY <3>2, <4>2, <4>3
    <3> QED BY <3>1, <3>2
  <2> QED BY <2>2, <2>4
<1>5. OthersKept
  <2> SUFFICES ASSUME Requesting, thread.then.pc = "idle", NEW x \in DOMAIN medium,
                      medium[x] # held[x]
               PROVE  thread.w /\ x \in Asked
    BY DEF OthersKept, Busy, Requesting
  <2>1. Moved /\ x \in 0 .. Sectors - 1
    BY <1>0, <1>3 DEF MoveInv, Untouched, Requesting
  <2>2. thread.w /\ x \in thread.lba .. thread.lba + LastEntry(thread.count) - 1
    BY <2>1 DEF Moved
  <2>3. x \in thread.lba .. thread.lba + thread.count - 1
    BY <1>3, <2>1, <2>2
  <2> QED BY <1>3, <2>2, <2>3 DEF Asked
<1> QED BY <1>1, <1>2, <1>4, <1>5
=============================================================================
