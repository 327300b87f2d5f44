-------------------------------- MODULE Pipe --------------------------------
(***************************************************************************)
(* pipe/pipe.c between one writer and one reader on different CPUs, each   *)
(* in the loop of vfs_write or vfs_read; nothing locks the buffer.  The    *)
(* bytes written are 1, 2, 3, ..., so that a byte is its own place in the  *)
(* stream.                                                                 *)
(***************************************************************************)
EXTENDS Integers, Sequences
CONSTANTS
  Capacity, Counts,
  MaxGot      \* bound: no read begins when so many bytes have been returned
VARIABLES
  buffer, head, tail, writer, reader,
  got,        \* history: the bytes returned
  overread    \* history: a read asked for more bytes than were stored
pipeVars == <<buffer, head, tail, writer, reader, got, overread>>

Idle == [pc |-> "idle"]

(* A byte of memory nobody wrote to, in the buffer or behind it.           *)
Unwritten == 0

(* pipe_init                                                               *)
Init ==
  /\ buffer = [i \in 0 .. Capacity - 1 |-> Unwritten]
  /\ head = 0 /\ tail = 0
  /\ writer = Idle /\ reader = Idle
  /\ got = <<>> /\ overread = FALSE

(* head + count >= buffer_end refuses                                      *)
Fits(count) == head + count < Capacity

(* A write that does not fit returns 0 and is tried again for ever.        *)
Write(count) ==
  /\ writer = Idle
  /\ Fits(count)
  /\ writer' = [pc |-> "copy", count |-> count]
  /\ UNCHANGED <<buffer, head, tail, reader, got, overread>>

WriteSpins(count) ==
  /\ writer = Idle
  /\ ~Fits(count)
  /\ writer' = [pc |-> "spin"]
  /\ UNCHANGED <<buffer, head, tail, reader, got, overread>>

Copy ==
  /\ writer.pc = "copy"
  /\ buffer' = [i \in DOMAIN buffer |->
                  IF i \in head .. head + writer.count - 1 THEN i + 1 ELSE buffer[i]]
  /\ writer' = [writer EXCEPT !.pc = "publish"]
  /\ UNCHANGED <<head, tail, reader, got, overread>>

(* The wrap to the start of the buffer is never taken: what would reach    *)
(* the end was refused.                                                    *)
Publish ==
  /\ writer.pc = "publish"
  /\ head' = head + writer.count
  /\ writer' = Idle
  /\ UNCHANGED <<buffer, tail, reader, got, overread>>

(* An empty pipe returns -1 and changes nothing.  Otherwise count is not   *)
(* compared with what is stored.                                           *)
Read(count) ==
  /\ reader = Idle /\ tail < head /\ Len(got) < MaxGot
  /\ reader' = [pc |-> "copy", count |-> count, read |-> <<>>]
  /\ overread' = (overread \/ tail + count > head)
  /\ UNCHANGED <<buffer, head, tail, writer, got>>

ByteAt(i) == IF i \in DOMAIN buffer THEN buffer[i] ELSE Unwritten

(* The test inside the loop looks at the tail, which has not moved yet: it *)
(* never ends the loop.                                                    *)
ReadCopy ==
  /\ reader.pc = "copy"
  /\ reader' = IF Len(reader.read) = reader.count THEN [reader EXCEPT !.pc = "advance"]
               ELSE [reader EXCEPT !.read = Append(@, ByteAt(tail + Len(reader.read)))]
  /\ UNCHANGED <<buffer, head, tail, writer, got, overread>>

(* Mutant: the tail stays.                                                 *)
ReadStays ==
  /\ reader.pc = "advance"
  /\ got' = got \o reader.read
  /\ reader' = Idle
  /\ UNCHANGED <<buffer, head, tail, writer, overread>>

(* Mutant: the caller is told that nothing was read.                       *)
ReadDrops ==
  /\ reader.pc = "advance"
  /\ tail' = IF tail + reader.count >= Capacity THEN 0 ELSE tail + reader.count
  /\ reader' = Idle
  /\ UNCHANGED <<buffer, head, writer, got, overread>>

(* A tail that reaches the end goes to the start of the buffer: what was   *)
(* read before is there to be read again.                                  *)
ReadAdvance ==
  /\ reader.pc = "advance"
  /\ got' = got \o reader.read
  /\ tail' = IF tail + reader.count >= Capacity THEN 0 ELSE tail + reader.count
  /\ reader' = Idle
  /\ UNCHANGED <<buffer, head, writer, overread>>

Reader == ReadCopy \/ ReadAdvance \/ \E count \in Counts : Read(count)
Writer == Copy \/ Publish \/ \E count \in Counts : Write(count) \/ WriteSpins(count)
Next == Reader \/ Writer

(* The scheduler gives both threads the CPU again and again.  The reader   *)
(* is in a loop; nobody has to write.                                      *)
Fairness == WF_pipeVars(Reader) /\ WF_pipeVars(Copy \/ Publish)

(* The bytes that can be read.                                             *)
Stored == [i \in 1 .. head - tail |-> buffer[tail + i - 1]]

---------------------------------------------------------------------------
(* As long as no read asked for more than was stored, pipe_read returns    *)
(* the bytes pipe_write was given, in order, each once, however the copies *)
(* and the moves of head and tail interleave.                              *)
InOrder == ~overread => \A i \in DOMAIN got : got[i] = i

(* The two ends stay in the buffer, whatever was asked for, so that no     *)
(* write leaves it and head never wraps; the tail is behind head as long   *)
(* as no read asked for more than was stored.                              *)
EndsInside == head < Capacity /\ tail < Capacity /\ (~overread => tail <= head)

Abstract == INSTANCE Channel WITH queue <- Stored, out <- got

(* pipe_write and pipe_read implement the channel until a read asks for    *)
(* more than is stored.                                                    *)
ImplementsChannel == Abstract!Init /\ [][Abstract!Next \/ overread']_<<Stored, got>>

(* When n bytes have been written, the reader is given n bytes, although a *)
(* writer may wait for ever.                                               *)
Delivered == \A n \in 1 .. Capacity : head >= n ~> Len(got) >= n
=============================================================================
