------------------------------ MODULE Devices ------------------------------
(***************************************************************************)
(* The devices, one scene each, since they share nothing: a behaviour      *)
(* chooses its scene at the start and leaves the other scenes as they are. *)
(***************************************************************************)
EXTENDS Integers, Sequences, FiniteSets

CONSTANTS
  PipeCapacity, PipeCounts, MaxGot,
  Sectors, Tables, SectorCounts, SectorsPerPrd, MaxWrites, Slots, Buffers, DmaSpace,
  Readers, LineCounts, MaxKeys, MaxBytes, MaxPackets,
  block_size, Blocks

(* The bound on bytes returned lets the reader reach the end of the buffer.*)
ASSUME PipeAssumption ==
  PipeCapacity \in Nat \ {0} /\ PipeCounts \subseteq Nat /\ MaxGot \in Nat /\ MaxGot >= PipeCapacity

ASSUME DiskAssumption ==
  /\ Sectors \in Nat /\ Tables \subseteq Seq(Nat)
  /\ SectorCounts \subseteq Nat \ {0} /\ SectorsPerPrd \in Nat \ {0}
  /\ Slots \subseteq Nat

(* init_vmm maps the first 4 GiB of memory only, so no buffer lies above.  *)
ASSUME BufferAssumption == DmaSpace \in Nat \ {0} /\ Buffers \subseteq 0 .. DmaSpace - 1

(* tty_read is asked for one character at least.                           *)
ASSUME LineAssumption == LineCounts \subseteq Nat \ {0}

ASSUME BlockAssumption == block_size \in Nat \ {0} /\ Blocks \in Nat

VARIABLES
  scene,
  buffer, head, tail, writer, reader, got, overread,
  table, medium, port, commands, devices, thread, memory, written, held, blind,
  curr_key, keys, tty, text, mouse_keys, mouse_cycle, bytes, mouse, packets,
  range

P == INSTANCE Pipe WITH Capacity <- PipeCapacity, Counts <- PipeCounts
D == INSTANCE Disk WITH Counts <- SectorCounts
I == INSTANCE Input WITH Counts <- LineCounts
B == INSTANCE BlockDevice

pipeVars == <<buffer, head, tail, writer, reader, got, overread>>
diskVars == <<table, medium, port, commands, devices, thread, memory, written, held, blind>>
inputVars == <<curr_key, keys, tty, text, mouse_keys, mouse_cycle, bytes, mouse, packets>>
vars == <<scene, pipeVars, diskVars, inputVars, range>>

Init ==
  /\ scene \in {"pipe", "disk", "keys", "mouse", "range"}
  /\ P!Init /\ D!Init /\ I!Init
  /\ scene # "disk" => table[1] = 1 /\ ~port.st
  /\ range \in IF scene = "range" THEN B!Ranges ELSE {<<0, 1>>}

PipeStep ==
  /\ scene = "pipe" /\ P!Next /\ UNCHANGED <<scene, range>>
  /\ UNCHANGED diskVars /\ UNCHANGED inputVars
DiskStep ==
  /\ scene = "disk" /\ D!Next /\ UNCHANGED <<scene, range>>
  /\ UNCHANGED pipeVars /\ UNCHANGED inputVars
KeyStep ==
  /\ scene = "keys" /\ I!KeyNext /\ UNCHANGED <<scene, range>>
  /\ UNCHANGED pipeVars /\ UNCHANGED diskVars
MouseStep ==
  /\ scene = "mouse" /\ I!MouseNext /\ UNCHANGED <<scene, range>>
  /\ UNCHANGED pipeVars /\ UNCHANGED diskVars
Next == PipeStep \/ DiskStep \/ KeyStep \/ MouseStep

Spec ==
  /\ Init /\ [][Next]_vars
  /\ scene = "pipe" => P!Fairness
  /\ scene = "disk" => D!Fairness

---------------------------------------------------------------------------
(* As long as no read asks for more bytes than are stored, which pipe_read *)
(* does not look at, pipe_write and pipe_read implement a channel: bytes   *)
(* are returned in order, each once, although the two threads share head   *)
(* and tail without a lock.  Whatever is asked for, the two ends stay in   *)
(* the buffer.                                                             *)
PipeIsChannel == P!ImplementsChannel /\ [](P!InOrder /\ P!EndsInside)

(* A reader that goes on reading is given as many bytes as were written to *)
(* the pipe (which ones, PipeIsChannel says).                              *)
PipeDelivers == scene = "pipe" => P!Delivered

(* A sata_read or sata_write that reports success moved the first sectors *)
(* asked for, as many as the last entry of its command table takes: all of *)
(* them if one entry does, and of a longer request only those.  It changed *)
(* nothing else, through whichever partition probe_mbr and ahci_init_abars *)
(* found; ahci_port_init moves the command list only while the engines     *)
(* stand still.                                                            *)
DiskExact == D!DoneRight /\ D!OthersKept /\ D!DevicesMatch /\ D!BaseMoved

(* sata_read and sata_write return, well or not, unless an earlier request *)
(* failed and stopped the controller.                                      *)
DiskReturns == scene = "disk" => D!Returns

(* What getchar and getmouse hand on is what the interrupt handlers got:   *)
(* keys in order and each once, tty_read a line or as much as was asked    *)
(* for, each byte at its place in a packet, and no movement twice.         *)
InputInOrder == I!KeysInOrder /\ I!LineComplete /\ I!PacketsFramed /\ I!MovesOnce

(* device_read gives exactly the bytes of the range, and device_write      *)
(* changes exactly those, however the range lies over the blocks.          *)
RangesExact == scene = "range" => B!ReadsRange(range) /\ B!WritesRange(range)
=============================================================================
