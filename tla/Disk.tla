-------------------------------- MODULE Disk --------------------------------
(***************************************************************************)
(* One SATA disk: drivers/ahci.c as one thread runs it, the table of       *)
(* partitions of drivers/mbr.c, and the controller.  Sectors hold one      *)
(* value, memory is a list of them.  An entry of the command table takes   *)
(* SectorsPerPrd sectors at most.                                          *)
(***************************************************************************)
EXTENDS Integers, Sequences, FiniteSets, FiniteSetsExt

CONSTANTS
  Sectors,      \* the medium has sectors 0 .. Sectors - 1; 0 holds the table
  Tables,       \* possible tables: sector_start of each entry (of four), 0 if unused
  Counts,       \* sectors of a request
  SectorsPerPrd,\* 16 in the code
  MaxWrites,    \* bound: writes
  Buffers,      \* physical addresses of buffers
  DmaSpace,     \* addresses an entry can hold: 2^32
  Slots         \* command slots

VARIABLES
  table,        \* partition table in sector 0
  medium,       \* the sectors
  port,         \* hba_port_t
  commands,     \* the command list, by slot
  devices,      \* the devices added: the first sector of each
  thread,       \* the request being made
  memory,       \* the sectors of its buffer
  written,      \* history: writes so far
  held,         \* history: the medium when the request began
  blind         \* history: the table could not be read

diskVars == <<table, medium, port, commands, devices, thread, memory, written, held, blind>>

NoCommand == [w |-> FALSE, lba |-> -1, count |-> 0, dba |-> -1]
Stale == -1             \* what a buffer holds that nothing was moved to
At(pc) == [pc |-> pc]

(* The firmware may leave the engine running.                              *)
Init ==
  /\ table \in Tables
  /\ medium = [s \in 0 .. Sectors - 1 |-> s]
  /\ \E on \in BOOLEAN :
       port = [st |-> on, cr |-> on, fre |-> on, fr |-> on, base |-> "old",
               ci |-> {}, tfes |-> FALSE, busy |-> FALSE, halted |-> FALSE]
  /\ commands = [s \in Slots |-> NoCommand]
  /\ devices = <<>>
  /\ thread = At("stop")
  /\ memory = <<>>
  /\ written = 0
  /\ held = medium
  /\ blind = FALSE

---------------------------------------------------------------------------
(* ahci_port_init                                                          *)

ahci_stop_cmd_engine ==
  /\ thread.pc = "stop"
  /\ port' = [port EXCEPT !.st = FALSE, !.fre = FALSE]
  /\ thread' = At("stopping")
  /\ UNCHANGED <<table, medium, commands, devices, memory, written, held, blind>>

Stopped == ~port.fr /\ ~port.cr

SetBase ==
  /\ thread.pc = "stopping" /\ Stopped
  /\ port' = [port EXCEPT !.base = "new"]
  /\ thread' = At("start")
  /\ UNCHANGED <<table, medium, commands, devices, memory, written, held, blind>>

(* Then, for each of the four entries, a device is probed.                 *)
ahci_start_cmd_engine ==
  /\ thread.pc = "start" /\ ~port.cr
  /\ port' = [port EXCEPT !.st = TRUE, !.fre = TRUE]
  /\ thread' = [pc |-> "probe", entry |-> 1]
  /\ UNCHANGED <<table, medium, commands, devices, memory, written, held, blind>>

---------------------------------------------------------------------------
(* sata_read and sata_write.                                               *)

Request(w, lba, count, buf, then) ==
  [pc |-> "slot", w |-> w, lba |-> lba, count |-> count, buf |-> buf, slot |-> 0, then |-> then]

Busy == thread.pc \in {"slot", "issue", "wait"}

FreeSlots == Slots \ port.ci

(* Every entry but the last takes its sectors off count32, which then goes *)
(* into the command: the drive is only asked for those of the last entry.  *)
LastEntry(count) == ((count - 1) % SectorsPerPrd) + 1

(* The address of the buffer is cut to 32 bits.                            *)
Dba(buf) == buf % DmaSpace

Filled(r) == [w |-> r.w, lba |-> r.lba, count |-> LastEntry(r.count), dba |-> Dba(r.buf)]

(* port->is is cleared and a slot chosen; no slot, no request.             *)
ahci_find_cmdslot ==
  /\ thread.pc = "slot"
  /\ port' = [port EXCEPT !.tfes = FALSE]
  /\ thread' = IF FreeSlots = {} THEN [thread EXCEPT !.pc = "failed"]
               ELSE [thread EXCEPT !.pc = "issue", !.slot = Min(FreeSlots)]
  /\ UNCHANGED <<table, medium, commands, devices, memory, written, held, blind>>

(* The slot's table is filled, for the controller to see once ci is set.   *)
(* The drive is waited for, up to a number of turns.                       *)
Issue ==
  /\ thread.pc = "issue"
  /\ IF port.busy THEN thread' = [thread EXCEPT !.pc = "failed"] /\ UNCHANGED <<port, commands>>
     ELSE /\ commands' = [commands EXCEPT ![thread.slot] = Filled(thread)]
          /\ port' = [port EXCEPT !.ci = @ \cup {thread.slot}]
          /\ thread' = [thread EXCEPT !.pc = "wait"]
  /\ UNCHANGED <<table, medium, devices, memory, written, held, blind>>

(* Mutant: an error is not looked for.                                     *)
WaitForSlotOnly ==
  /\ thread.pc = "wait"
  /\ thread.slot \notin port.ci
  /\ thread' = [thread EXCEPT !.pc = "done"]
  /\ UNCHANGED <<table, medium, port, commands, devices, memory, written, held, blind>>

Wait ==
  /\ thread.pc = "wait"
  /\ thread.slot \notin port.ci \/ port.tfes
  /\ thread' = [thread EXCEPT !.pc = IF port.tfes THEN "failed" ELSE "done"]
  /\ UNCHANGED <<table, medium, port, commands, devices, memory, written, held, blind>>

---------------------------------------------------------------------------
(* The controller (external): it stops and starts its engines when told,   *)
(* becomes busy and ready, and runs a command or fails it.  After an error *)
(* it runs none until the engine is started again, which nobody does.  The *)
(* command of a slot that ran or failed is not looked at again.            *)

Engine ==
  /\ \/ port.cr # port.st /\ port' = [port EXCEPT !.cr = port.st]
     \/ port.fr # port.fre /\ port' = [port EXCEPT !.fr = port.fre]
  /\ UNCHANGED <<table, medium, commands, devices, thread, memory, written, held, blind>>

Toggle ==
  /\ thread.pc = "issue" /\ port.ci = {}
  /\ port' = [port EXCEPT !.busy = ~@]
  /\ UNCHANGED <<table, medium, commands, devices, thread, memory, written, held, blind>>

Span(c) == c.lba .. c.lba + c.count - 1

(* Sector i of what a command moves from or to, if that is the buffer.     *)
InBuffer(c, i) == c.dba = thread.buf /\ i \in DOMAIN memory
Dma(c, i) == IF InBuffer(c, i) THEN memory[i] ELSE Stale

Run(s) ==
  /\ s \in port.ci /\ port.cr /\ ~port.halted
  /\ LET c == commands[s]
     IN  IF c.w THEN /\ medium' = [x \in DOMAIN medium |->
                                     IF x \in Span(c) THEN Dma(c, x - c.lba + 1) ELSE medium[x]]
                     /\ UNCHANGED memory
                ELSE /\ memory' = [i \in DOMAIN memory |->
                                     IF InBuffer(c, i) /\ i <= c.count THEN medium[c.lba + i - 1]
                                     ELSE memory[i]]
                     /\ UNCHANGED medium
  /\ port' = [port EXCEPT !.ci = @ \ {s}]
  /\ commands' = [commands EXCEPT ![s] = NoCommand]
  /\ UNCHANGED <<table, devices, thread, written, held, blind>>

Fail(s) ==
  /\ s \in port.ci /\ port.cr /\ ~port.halted
  /\ port' = [port EXCEPT !.tfes = TRUE, !.halted = TRUE]
  /\ commands' = [commands EXCEPT ![s] = NoCommand]
  /\ UNCHANGED <<table, medium, devices, thread, memory, written, held, blind>>

---------------------------------------------------------------------------
NoneLeft(entry) == entry > Len(table)

(* ahci_init_abars, probe_mbr: sector 0 is read for each entry, and a      *)
(* device added for those in use; after the fourth one for the disk.       *)

Probe ==
  /\ thread.pc = "probe"
  /\ IF NoneLeft(thread.entry)
     THEN devices' = Append(devices, 0) /\ thread' = At("idle")
     ELSE /\ \E buf \in Buffers :
               thread' = Request(FALSE, 0, 1, buf, [pc |-> "probed", entry |-> thread.entry])
          /\ UNCHANGED devices
  /\ held' = medium
  /\ memory' = <<Stale>>
  /\ UNCHANGED <<table, medium, port, commands, written, blind>>

(* The result of the read is not looked at: after one that failed, the     *)
(* buffer on the stack may say anything.                                   *)
Probed ==
  /\ thread.pc \in {"done", "failed"} /\ thread.then.pc = "probed"
  /\ \E start \in IF thread.pc = "done" THEN {table[thread.then.entry]} ELSE {0, 1} :
       devices' = IF start = 0 THEN devices ELSE Append(devices, start)
  /\ blind' = (blind \/ thread.pc = "failed")
  /\ thread' = [pc |-> "probe", entry |-> thread.then.entry + 1]
  /\ UNCHANGED <<table, medium, port, commands, memory, written, held>>

(* Mutant: the first sector of the partition is not added.                 *)
BareLba(d, lba) == lba

Lba(d, lba) == devices[d] + lba

(* The file system reads and writes.                                       *)
Read(d, lba, count, buf) ==
  /\ thread.pc = "idle" /\ devices[d] + lba + count <= Sectors
  /\ thread' = Request(FALSE, Lba(d, lba), count, buf, [pc |-> "idle", d |-> d, lba |-> lba])
  /\ held' = medium
  /\ memory' = [i \in 1 .. count |-> Stale]
  /\ UNCHANGED <<table, medium, port, commands, devices, written, blind>>

Write(d, lba, count, buf) ==
  /\ thread.pc = "idle" /\ devices[d] + lba + count <= Sectors
  /\ written < MaxWrites /\ lba > 0
  /\ thread' = Request(TRUE, Lba(d, lba), count, buf, [pc |-> "idle", d |-> d, lba |-> lba])
  /\ held' = medium
  /\ memory' = [i \in 1 .. count |-> 100 + i]
  /\ written' = written + 1
  /\ UNCHANGED <<table, medium, port, commands, devices, blind>>

Return ==
  /\ thread.pc \in {"done", "failed"} /\ thread.then.pc = "idle"
  /\ thread' = At("idle")
  /\ memory' = <<>>
  /\ held' = medium
  /\ UNCHANGED <<table, medium, port, commands, devices, written, blind>>

Hba == Engine \/ Toggle \/ \E s \in Slots : Run(s) \/ Fail(s)
Driver ==
  \/ ahci_stop_cmd_engine \/ SetBase \/ ahci_start_cmd_engine \/ Probe \/ Probed
  \/ ahci_find_cmdslot \/ Issue \/ Wait \/ Return
Next ==
  \/ Hba \/ Driver
  \/ \E d \in DOMAIN devices, lba \in 0 .. Sectors - 1, n \in Counts, buf \in Buffers :
       Read(d, lba, n, buf) \/ Write(d, lba, n, buf)

(* A running driver goes on, an engine follows its switch, and a command   *)
(* issued to a running controller ends.                                    *)
Fairness ==
  /\ WF_diskVars(Driver) /\ WF_diskVars(Engine)
  /\ \A s \in Slots : WF_diskVars(Run(s) \/ Fail(s))

---------------------------------------------------------------------------
(* When the addresses of the command list and of the receive area have     *)
(* been changed, neither engine runs on the old ones.                      *)
BaseMoved == thread.pc = "start" => ~port.cr /\ ~port.fr

(* What the device was asked for, as a set of sectors of the disk.         *)
Asked == LET t == thread.then IN devices[t.d] + t.lba .. devices[t.d] + t.lba + thread.count - 1

(* A request that succeeds moved the first sectors of what the partition   *)
(* was asked for, as many as the last entry of the command table takes;    *)
(* the others, of which there are some when the request needs two entries, *)
(* it left as they were: in the buffer after a read, on the disk after a   *)
(* write.                                                                  *)
DoneRight ==
  thread.pc = "done" /\ thread.then.pc = "idle" =>
    \A i \in 1 .. thread.count :
      LET x == devices[thread.then.d] + thread.then.lba + i - 1
      IN  IF i <= LastEntry(thread.count) THEN memory[i] = medium[x]
          ELSE IF thread.w THEN medium[x] = held[x] ELSE memory[i] = Stale

(* No sector changes but those a write was asked for, whether or not it    *)
(* succeeds.                                                               *)
OthersKept ==
  (Busy \/ thread.pc \in {"done", "failed"}) /\ thread.then.pc = "idle" =>
    \A s \in DOMAIN medium : medium[s] # held[s] => thread.w /\ s \in Asked

(* The devices are the partitions in the order of the table, and the disk  *)
(* after them, if the table could be read.                                 *)
Used(n) == Cardinality({k \in 1 .. n : table[k] # 0})
DevicesMatch ==
  thread.pc = "idle" /\ ~blind =>
    /\ Len(devices) = Used(Len(table)) + 1
    /\ \A k \in DOMAIN table : table[k] # 0 => devices[Used(k)] = table[k]
    /\ devices[Len(devices)] = 0

(* A request ends, well or not, unless an earlier one failed and stopped   *)
(* the controller.                                                         *)
Returns == thread.pc = "slot" /\ ~port.halted ~> thread.pc \in {"done", "failed"}
=============================================================================
