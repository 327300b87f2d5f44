---------------------------- MODULE BlockDevice ----------------------------
(***************************************************************************)
(* device_read and device_write of dev/device.c: a range of bytes is cut   *)
(* into the rest of a first block, whole blocks, and the start of a last   *)
(* one.  The device reads and writes whole blocks.                         *)
(***************************************************************************)
EXTENDS Integers, Sequences

CONSTANTS block_size, Blocks

Image == [i \in 1 .. block_size * Blocks |-> i]

(* dev->read and dev->write                                                *)
DevRead(bytes, start, count) == SubSeq(bytes, start * block_size + 1, (start + count) * block_size)
DevWrite(bytes, start, count, buf) ==
  SubSeq(bytes, 1, start * block_size) \o buf \o SubSeq(bytes, (start + count) * block_size + 1, Len(bytes))

Smaller(a, b) == IF a < b THEN a ELSE b

(* Mutant: the first block is taken to its end.                            *)
LenToBlockEnd(start, count) == block_size - (start % block_size)

HeadLen(start, count) == Smaller(block_size - (start % block_size), count)

(* The pieces, each the state of start, count, buf after it.               *)
ReadHead(bytes, r) ==
  LET skip == r.start % block_size
      len == HeadLen(r.start, r.count)
      nbuf == DevRead(bytes, r.start \div block_size, 1)
  IN  IF skip = 0 THEN r
      ELSE [start |-> r.start + len, count |-> r.count - len,
            buf |-> r.buf \o SubSeq(nbuf, skip + 1, skip + len)]

ReadBlocks(bytes, r) ==
  LET blocks == r.count \div block_size
  IN  IF blocks = 0 THEN r
      ELSE [start |-> r.start + blocks * block_size, count |-> r.count - (blocks * block_size),
            buf |-> r.buf \o DevRead(bytes, r.start \div block_size, blocks)]

ReadTail(bytes, r) ==
  LET end == r.count % block_size
      skip == r.start % block_size
      nbuf == DevRead(bytes, r.start \div block_size, 1)
  IN  IF end = 0 THEN r.buf ELSE r.buf \o SubSeq(nbuf, skip + 1, skip + end)

device_read(bytes, start, count) ==
  ReadTail(bytes, ReadBlocks(bytes, ReadHead(bytes, [start |-> start, count |-> count, buf |-> <<>>])))

Rest(buf, n) == SubSeq(buf, n + 1, Len(buf))
(* nbuf with s copied to it behind its first skip bytes                    *)
Patch(nbuf, skip, s) == SubSeq(nbuf, 1, skip) \o s \o Rest(nbuf, skip + Len(s))

WriteHead(r) ==
  LET skip == r.start % block_size
      len == HeadLen(r.start, Len(r.buf))
      block == r.start \div block_size
      nbuf == DevRead(r.bytes, block, 1)
  IN  IF skip = 0 THEN r
      ELSE [start |-> r.start + len, buf |-> Rest(r.buf, len),
            bytes |-> DevWrite(r.bytes, block, 1, Patch(nbuf, skip, SubSeq(r.buf, 1, len)))]

WriteBlocks(r) ==
  LET blocks == Len(r.buf) \div block_size
      len == blocks * block_size
  IN  IF blocks = 0 THEN r
      ELSE [start |-> r.start + len, buf |-> Rest(r.buf, len),
            bytes |-> DevWrite(r.bytes, r.start \div block_size, blocks, SubSeq(r.buf, 1, len))]

WriteTail(r) ==
  LET block == r.start \div block_size
  IN  IF r.buf = <<>> THEN r.bytes
      ELSE DevWrite(r.bytes, block, 1, Patch(DevRead(r.bytes, block, 1), 0, r.buf))

device_write(bytes, start, buf) ==
  WriteTail(WriteBlocks(WriteHead([start |-> start, buf |-> buf, bytes |-> bytes])))

---------------------------------------------------------------------------
(* Every range: its bytes are read, and writing it changes them alone.     *)

Ranges == {r \in (0 .. Len(Image) - 1) \X (1 .. Len(Image)) : r[1] + r[2] <= Len(Image)}

ReadsRange(r) == device_read(Image, r[1], r[2]) = SubSeq(Image, r[1] + 1, r[1] + r[2])

WritesRange(r) ==
  device_write(Image, r[1], [i \in 1 .. r[2] |-> 100 + i]) =
    [i \in DOMAIN Image |-> IF i - r[1] \in 1 .. r[2] THEN 100 + i - r[1] ELSE Image[i]]
=============================================================================
