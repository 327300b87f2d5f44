------------------------------- MODULE Input -------------------------------
(***************************************************************************)
(* Keyboard and mouse: the interrupt handlers and getchar and getmouse of  *)
(* drivers/ps2.c, tty_read of dev/tty.c and mousedev_read of               *)
(* dev/mousedev.c, called by threads on other CPUs.  The n-th key pressed  *)
(* is n, or -n if it is the newline; the n-th byte of the mouse is n.      *)
(***************************************************************************)
EXTENDS Integers, Sequences, FiniteSets

CONSTANTS
  Readers, Counts,
  MaxKeys, MaxBytes, MaxPackets     \* bounds

VARIABLES
  curr_key,     \* 0: none
  keys,         \* history: keys pressed
  tty,          \* the tty_read of each reader
  text,         \* history: all characters each reader has been given
  mouse_keys, mouse_cycle,
  bytes,        \* history: bytes of the mouse
  mouse,        \* the getmouse in progress
  packets       \* history: what getmouse gave

inputVars == <<curr_key, keys, tty, text, mouse_keys, mouse_cycle, bytes, mouse, packets>>
keyVars == <<curr_key, keys, tty, text>>
mouseVars == <<mouse_keys, mouse_cycle, bytes, mouse, packets>>

Off == [pc |-> "off"]
(* A tty_read that has returned: how far behind the end of the buffer its  *)
(* terminating 0 lies, 0 being the first byte behind it.                   *)
Returned(zero) == [pc |-> "off", zero |-> zero]
Axes == 0 .. 2

Init ==
  /\ curr_key = 0 /\ keys = 0
  /\ tty = [r \in Readers |-> Returned(-1)]
  /\ text = [r \in Readers |-> <<>>]
  /\ mouse_keys = [i \in Axes |-> 0] /\ mouse_cycle = 0 /\ bytes = 0
  /\ mouse = Off
  /\ packets = <<>>

---------------------------------------------------------------------------
(* A key with a character; one without (a shift key) stores 0.  Releases   *)
(* have codes the handler ignores.                                         *)
kbd_handler ==
  /\ keys < MaxKeys
  /\ keys' = keys + 1
  /\ curr_key' \in {keys + 1, -(keys + 1), 0}
  /\ UNCHANGED <<tty, text>> /\ UNCHANGED mouseVars

tty_read(r, count) ==
  /\ tty[r].pc = "off"
  /\ tty' = [tty EXCEPT ![r] = [pc |-> "load", count |-> count, buf |-> <<>>]]
  /\ UNCHANGED <<curr_key, keys, text>> /\ UNCHANGED mouseVars

Load(r) ==
  /\ tty[r].pc = "load"
  /\ tty' = [tty EXCEPT ![r] = [pc |-> "clear", count |-> @.count, buf |-> @.buf, c |-> curr_key]]
  /\ UNCHANGED <<curr_key, keys, text>> /\ UNCHANGED mouseVars

(* Mutant: the key stays.                                                  *)
KeyKept == curr_key

KeyCleared == 0

Finished(buf, count) == Len(buf) = count \/ buf[Len(buf)] < 0

(* getchar clears the key; tty_read takes the character, if there is one,  *)
(* and leaves its loop or looks again.                                     *)
Clear(r) ==
  LET t == tty[r]
      buf == Append(t.buf, t.c)
  IN  /\ t.pc = "clear"
      /\ curr_key' = KeyCleared
      /\ text' = IF t.c = 0 THEN text ELSE [text EXCEPT ![r] = Append(@, t.c)]
      /\ tty' = [tty EXCEPT ![r] =
                   IF t.c = 0 THEN [pc |-> "load", count |-> t.count, buf |-> t.buf]
                   ELSE [pc |-> IF Finished(buf, t.count) THEN "line" ELSE "load",
                         count |-> t.count, buf |-> buf]]
      /\ UNCHANGED keys /\ UNCHANGED mouseVars

(* The 0 leaves a byte free behind the last character: after a full buffer *)
(* it is the second byte that does not belong to it.                       *)
Line(r) ==
  /\ tty[r].pc = "line"
  /\ tty' = [tty EXCEPT ![r] = Returned(Len(@.buf) + 1 - @.count)]
  /\ UNCHANGED <<curr_key, keys, text>> /\ UNCHANGED mouseVars

---------------------------------------------------------------------------
NextCycle(cycle) == IF cycle = 2 THEN 0 ELSE cycle + 1

mouse_handler ==
  /\ bytes < MaxBytes
  /\ bytes' = bytes + 1
  /\ mouse_keys' = [mouse_keys EXCEPT ![mouse_cycle] = bytes + 1]
  /\ mouse_cycle' = NextCycle(mouse_cycle)
  /\ UNCHANGED <<mouse, packets>> /\ UNCHANGED keyVars

getmouse ==
  /\ mouse.pc = "off"
  /\ mouse' = [pc |-> "copy", i |-> 0, to |-> [i \in Axes |-> 0]]
  /\ UNCHANGED <<mouse_keys, mouse_cycle, bytes, packets>> /\ UNCHANGED keyVars

CopyByte ==
  /\ mouse.pc = "copy"
  /\ mouse' = [pc |-> IF mouse.i = 2 THEN "clear" ELSE "copy", i |-> (mouse.i + 1) % 3,
               to |-> [mouse.to EXCEPT ![mouse.i] = mouse_keys[mouse.i]]]
  /\ UNCHANGED <<mouse_keys, mouse_cycle, bytes, packets>> /\ UNCHANGED keyVars

ByteCleared(i) == [mouse_keys EXCEPT ![i] = 0]

ClearByte ==
  /\ mouse.pc = "clear"
  /\ mouse_keys' = ByteCleared(mouse.i)
  /\ mouse' = IF mouse.i = 2 THEN Off ELSE [mouse EXCEPT !.i = @ + 1]
  /\ packets' = IF mouse.i = 2 THEN Append(packets, mouse.to) ELSE packets
  /\ UNCHANGED <<mouse_cycle, bytes>> /\ UNCHANGED keyVars

Reader(r) == Load(r) \/ Clear(r) \/ Line(r) \/ \E count \in Counts : tty_read(r, count)
Mouser == (getmouse /\ Len(packets) < MaxPackets) \/ CopyByte \/ ClearByte
KeyNext == kbd_handler \/ \E r \in Readers : Reader(r)
MouseNext == mouse_handler \/ Mouser

---------------------------------------------------------------------------
Press(c) == IF c < 0 THEN -c ELSE c

(* However key presses fall between the two halves of getchar, in this     *)
(* thread or another, a reader gets keys in the order they were pressed,   *)
(* and none of them twice.                                                 *)
KeysInOrder ==
  \A r \in Readers : \A i, j \in DOMAIN text[r] : i < j => Press(text[r][i]) < Press(text[r][j])

(* What tty_read returns is a line, or as many characters as asked for:    *)
(* nothing follows a newline.  The 0 behind it is stored no further than   *)
(* two bytes behind what was asked for.                                    *)
LineComplete ==
  \A r \in Readers :
    /\ tty[r].pc = "line" =>
         LET buf == tty[r].buf
         IN  /\ Len(buf) \in 1 .. tty[r].count
             /\ Len(buf) < tty[r].count => buf[Len(buf)] < 0
             /\ \A i \in 1 .. Len(buf) - 1 : buf[i] > 0
    /\ tty[r].pc = "off" => tty[r].zero <= 1

(* A byte of the mouse is only ever found at its place in the packet,      *)
(* however the handler interrupts getmouse.                                *)
PacketsFramed ==
  \A p \in {mouse_keys} \cup {packets[k] : k \in DOMAIN packets} :
    \A i \in Axes : p[i] # 0 => (p[i] - 1) % 3 = i

(* A movement is reported at most once: later packets have later bytes.    *)
MovesOnce ==
  \A k, l \in DOMAIN packets : k < l =>
    \A i \in Axes : packets[k][i] # 0 /\ packets[l][i] # 0 => packets[k][i] < packets[l][i]
=============================================================================
