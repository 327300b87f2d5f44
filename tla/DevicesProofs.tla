--------------------------- MODULE DevicesProofs ---------------------------
(***************************************************************************)
(* What the devices hand on, for any size of buffer, disk and request, any *)
(* number of readers and any number of interrupts: keys and mouse packets  *)
(* in their order, the bytes of a pipe as an abstract channel would, and   *)
(* (from DiskProofs and BlockDeviceProofs) the sectors and byte ranges     *)
(* asked for.                                                              *)
(***************************************************************************)
EXTENDS Devices, TLAPS

---------------------------------------------------------------------------
(* The keyboard.                                                           *)

Asking == [pc : {"load", "line"}, count : LineCounts, buf : Seq(Int)]
Holding == [pc : {"clear"}, count : LineCounts, buf : Seq(Int), c : Int]
TtyState == [pc : {"off"}, zero : Int] \cup Asking \cup Holding

KeyTypes ==
  /\ keys \in Nat /\ curr_key \in Int
  /\ tty \in [Readers -> TtyState]
  /\ text \in [Readers -> Seq(Int)]

(* What a reader has been given is older than the key it holds and the key *)
(* that waits: getchar clears whatever key it finds, and a key that comes  *)
(* between its two halves is newer than the one it holds.                  *)
Before(s, c) == c # 0 => \A i \in DOMAIN s : I!Press(s[i]) < I!Press(c)
Increasing(s) == \A i, j \in DOMAIN s : i < j => I!Press(s[i]) < I!Press(s[j])
ReaderInOrder(s, t) ==
  /\ Increasing(s)
  /\ \A i \in DOMAIN s : I!Press(s[i]) <= keys
  /\ Before(s, curr_key)
  /\ t.pc = "clear" => Before(s, t.c) /\ I!Press(t.c) <= keys
OrderInv ==
  /\ I!Press(curr_key) <= keys
  /\ \A r \in Readers : ReaderInOrder(text[r], tty[r])

(* Until tty_read leaves its loop it wants more and has seen no newline.   *)
LineSoFar(t) ==
  /\ t.pc \in {"load", "clear"} =>
       Len(t.buf) < t.count /\ \A i \in DOMAIN t.buf : t.buf[i] > 0
  /\ t.pc = "line" =>
       /\ Len(t.buf) \in 1 .. t.count
       /\ Len(t.buf) < t.count => t.buf[Len(t.buf)] < 0
       /\ \A i \in 1 .. Len(t.buf) - 1 : t.buf[i] > 0
  /\ t.pc = "off" => t.zero <= 1
LineInv == \A r \in Readers : LineSoFar(tty[r])

KeyInv == KeyTypes /\ OrderInv /\ LineInv

---------------------------------------------------------------------------
(* The mouse.                                                              *)

MouseTypes ==
  /\ bytes \in Nat /\ mouse_cycle \in I!Axes
  /\ mouse_keys \in [I!Axes -> Nat]
  /\ mouse \in {I!Off} \cup [pc : {"copy", "clear"}, i : I!Axes, to : [I!Axes -> Nat]]
  /\ packets \in Seq([I!Axes -> Nat])

(* A byte at its place that has arrived.                                   *)
Framed(p) == \A i \in I!Axes : p[i] <= bytes /\ (p[i] # 0 => (p[i] - 1) % 3 = i)

Later(m, n) == m # 0 /\ n # 0 => m < n

(* What getmouse has copied is newer than every packet given; what is left *)
(* of mouse_keys is newer than the copy once the place has been cleared,   *)
(* and newer than every packet.                                            *)
Copied(i) == mouse.pc = "clear" \/ (mouse.pc = "copy" /\ i < mouse.i)
Cleared(i) == mouse.pc = "clear" /\ i < mouse.i
MouseInv ==
  /\ MouseTypes
  /\ bytes % 3 = mouse_cycle
  /\ Framed(mouse_keys)
  /\ mouse.pc \in {"copy", "clear"} => Framed(mouse.to)
  /\ \A k \in DOMAIN packets : Framed(packets[k])
  /\ I!MovesOnce
  /\ \A i \in I!Axes : \A k \in DOMAIN packets :
       /\ Later(packets[k][i], mouse_keys[i])
       /\ Copied(i) => Later(packets[k][i], mouse.to[i])
  /\ \A i \in I!Axes : Cleared(i) => Later(mouse.to[i], mouse_keys[i])

LEMMA AppendFacts ==
  ASSUME NEW S, NEW s \in Seq(S), NEW e \in S
  PROVE  /\ Append(s, e) \in Seq(S)
         /\ Len(Append(s, e)) = Len(s) + 1
         /\ DOMAIN Append(s, e) = 1 .. Len(s) + 1
         /\ \A i \in DOMAIN s : Append(s, e)[i] = s[i]
         /\ Append(s, e)[Len(s) + 1] = e
  OBVIOUS

LEMMA MouseInit == I!Init => MouseInv
<1> SUFFICES ASSUME I!Init PROVE MouseInv
  OBVIOUS
<1> USE DEF I!Init, I!Off, I!Axes
<1>1. MouseTypes
  BY DEF MouseTypes
<1>2. Framed(mouse_keys)
  BY DEF Framed
<1> QED BY <1>1, <1>2 DEF MouseInv, I!MovesOnce, Later, Cleared, Framed

LEMMA MouseHandlerNext == ASSUME MouseInv, I!mouse_handler PROVE MouseInv'
<1> USE DEF I!Axes
<1>1. /\ bytes' = bytes + 1 /\ bytes \in Nat /\ mouse_cycle \in I!Axes
      /\ mouse_keys \in [I!Axes -> Nat]
      /\ mouse_keys' = [mouse_keys EXCEPT ![mouse_cycle] = bytes + 1]
      /\ mouse_cycle' = (IF mouse_cycle = 2 THEN 0 ELSE mouse_cycle + 1)
      /\ UNCHANGED <<mouse, packets>>
  BY DEF I!mouse_handler, I!NextCycle, MouseInv, MouseTypes
<1>2. MouseTypes'
  BY <1>1 DEF MouseInv, MouseTypes
<1>3. bytes' % 3 = mouse_cycle'
  BY <1>1 DEF MouseInv
<1>4. \A i \in I!Axes : mouse_keys'[i] = IF i = mouse_cycle THEN bytes + 1 ELSE mouse_keys[i]
  BY <1>1
<1>5. Framed(mouse_keys)'
  BY <1>1, <1>4 DEF MouseInv, Framed
<1>6. ASSUME NEW p \in [I!Axes -> Nat], Framed(p) PROVE Framed(p)'
  BY <1>1, <1>6 DEF Framed
<1>7. \A k \in DOMAIN packets : packets[k] \in [I!Axes -> Nat]
  BY DEF MouseInv, MouseTypes
<1>8. (mouse.pc \in {"copy", "clear"} => Framed(mouse.to))'
  BY <1>1, <1>6 DEF MouseInv, MouseTypes, I!Off
<1>9. (\A k \in DOMAIN packets : Framed(packets[k]))'
  BY <1>1, <1>6, <1>7 DEF MouseInv
<1>10. I!MovesOnce'
  BY <1>1 DEF MouseInv, I!MovesOnce
<1>11. (\A i \in I!Axes : \A k \in DOMAIN packets : Later(packets[k][i], mouse_keys[i]))'
  BY <1>1, <1>4, <1>7 DEF MouseInv, Later, Framed
<1>12. (\A i \in I!Axes : \A k \in DOMAIN packets : Copied(i) => Later(packets[k][i], mouse.to[i]))'
  BY <1>1 DEF MouseInv, Later, Copied
<1>13. (\A i \in I!Axes : Cleared(i) => Later(mouse.to[i], mouse_keys[i]))'
  <2>1. mouse.pc = "clear" => Framed(mouse.to) /\ mouse.to \in [I!Axes -> Nat]
    BY DEF MouseInv, MouseTypes, I!Off
  <2> QED BY <1>1, <1>4, <2>1 DEF MouseInv, Later, Cleared, Framed
<1> QED
  BY <1>2, <1>3, <1>5, <1>8, <1>9, <1>10, <1>11, <1>12, <1>13 DEF MouseInv

LEMMA GetmouseNext == ASSUME MouseInv, I!getmouse PROVE MouseInv'
<1> USE DEF I!Axes
<1>1. /\ mouse' = [pc |-> "copy", i |-> 0, to |-> [i \in I!Axes |-> 0]]
      /\ UNCHANGED <<mouse_keys, mouse_cycle, bytes, packets>>
  BY DEF I!getmouse
<1>2. MouseTypes'
  BY <1>1 DEF MouseInv, MouseTypes
<1>3. Framed(mouse.to)'
  BY <1>1 DEF Framed, MouseInv, MouseTypes
<1>4. \A i \in I!Axes : ~Copied(i)' /\ ~Cleared(i)'
  BY <1>1 DEF Copied, Cleared
<1> QED BY <1>1, <1>2, <1>3, <1>4 DEF MouseInv, Framed, Later, I!MovesOnce

LEMMA CopyByteNext == ASSUME MouseInv, I!CopyByte PROVE MouseInv'
<1> USE DEF I!Axes
<1>1. /\ mouse.pc = "copy" /\ mouse.i \in I!Axes /\ mouse.to \in [I!Axes -> Nat]
      /\ mouse_keys \in [I!Axes -> Nat] /\ bytes \in Nat
  BY DEF I!CopyByte, MouseInv, MouseTypes, I!Off
<1>2. /\ mouse'.pc = (IF mouse.i = 2 THEN "clear" ELSE "copy")
      /\ mouse'.i = (mouse.i + 1) % 3
      /\ mouse'.to = [mouse.to EXCEPT ![mouse.i] = mouse_keys[mouse.i]]
      /\ mouse' = [pc |-> mouse'.pc, i |-> mouse'.i, to |-> mouse'.to]
      /\ UNCHANGED <<mouse_keys, mouse_cycle, bytes, packets>>
  BY DEF I!CopyByte
<1>3. \A i \in I!Axes : mouse'.to[i] = IF i = mouse.i THEN mouse_keys[i] ELSE mouse.to[i]
  BY <1>1, <1>2
<1>4. MouseTypes'
  BY <1>1, <1>2 DEF MouseInv, MouseTypes
<1>5. Framed(mouse.to)'
  BY <1>1, <1>2, <1>3 DEF Framed, MouseInv
<1>6. \A i \in I!Axes : ~Cleared(i)' /\ (Copied(i)' => Copied(i) \/ i = mouse.i)
  BY <1>1, <1>2 DEF Copied, Cleared
<1>7. (\A i \in I!Axes : \A k \in DOMAIN packets : Copied(i) => Later(packets[k][i], mouse.to[i]))'
  BY <1>1, <1>2, <1>3, <1>6 DEF MouseInv, Later
<1> QED BY <1>2, <1>4, <1>5, <1>6, <1>7 DEF MouseInv, Framed, Later, I!MovesOnce

LEMMA ClearByteNext == ASSUME MouseInv, I!ClearByte PROVE MouseInv'
<1> USE DEF I!Axes
<1>1. /\ mouse \in [pc : {"copy", "clear"}, i : I!Axes, to : [I!Axes -> Nat]]
      /\ mouse.pc = "clear" /\ mouse.i \in I!Axes /\ mouse.to \in [I!Axes -> Nat]
      /\ mouse_keys \in [I!Axes -> Nat] /\ bytes \in Nat /\ packets \in Seq([I!Axes -> Nat])
  BY DEF I!ClearByte, MouseInv, MouseTypes, I!Off
<1>2. mouse_keys' = [mouse_keys EXCEPT ![mouse.i] = 0] /\ UNCHANGED <<mouse_cycle, bytes>>
  BY DEF I!ClearByte, I!ByteCleared
<1>3. \A i \in I!Axes : mouse_keys'[i] = IF i = mouse.i THEN 0 ELSE mouse_keys[i]
  BY <1>1, <1>2
<1>4. Framed(mouse_keys)' /\ mouse_keys' \in [I!Axes -> Nat]
  BY <1>1, <1>2, <1>3 DEF Framed, MouseInv
<1>5. /\ \A i \in I!Axes : \A k \in DOMAIN packets :
           Later(packets[k][i], mouse_keys[i]) /\ Later(packets[k][i], mouse.to[i])
      /\ \A i \in I!Axes : i < mouse.i => Later(mouse.to[i], mouse_keys[i])
  BY <1>1 DEF MouseInv, Copied, Cleared
<1>6. CASE mouse.i # 2
  <2>1. /\ mouse'.pc = "clear" /\ mouse'.i = mouse.i + 1 /\ mouse'.to = mouse.to
        /\ mouse' = [pc |-> "clear", i |-> mouse.i + 1, to |-> mouse.to]
        /\ packets' = packets
    BY <1>1, <1>6 DEF I!ClearByte
  <2>2. MouseTypes'
    BY <1>1, <1>2, <1>4, <1>6, <2>1 DEF MouseInv, MouseTypes
  <2>3. (\A i \in I!Axes : \A k \in DOMAIN packets :
           Later(packets[k][i], mouse_keys[i]) /\ Later(packets[k][i], mouse.to[i]))'
    BY <1>3, <1>5, <2>1 DEF Later
  <2>4. (\A i \in I!Axes : Cleared(i) => Later(mouse.to[i], mouse_keys[i]))'
    <3>1. \A i \in I!Axes : i < mouse.i + 1 => i < mouse.i \/ i = mouse.i
      BY <1>1
    <3> QED BY <1>3, <1>5, <2>1, <3>1 DEF Later, Cleared
  <2> QED BY <1>1, <1>2, <1>4, <2>1, <2>2, <2>3, <2>4 DEF MouseInv, Framed, I!MovesOnce
<1>7. CASE mouse.i = 2
  <2>1. mouse' = I!Off /\ packets' = Append(packets, mouse.to)
    BY <1>7 DEF I!ClearByte
  <2> DEFINE n == Len(packets)
  <2>2. /\ packets' \in Seq([I!Axes -> Nat]) /\ DOMAIN packets' = 1 .. n + 1
        /\ \A k \in DOMAIN packets : packets'[k] = packets[k]
        /\ packets'[n + 1] = mouse.to
        /\ n \in Nat /\ DOMAIN packets = 1 .. n
    <3> HIDE DEF I!Axes
    <3> QED BY <1>1, <2>1, AppendFacts
  <2>3. MouseTypes'
    BY <1>2, <1>4, <2>1, <2>2 DEF MouseInv, MouseTypes
  <2> HIDE DEF n
  <2>9. \A k \in DOMAIN packets' : k \in DOMAIN packets \/ k = n + 1
    <3>1. \A k \in 1 .. n + 1 : k \in 1 .. n \/ k = n + 1
      BY <2>2
    <3> QED BY <2>2, <3>1
  <2>10. \A k, l \in DOMAIN packets' : k < l => k \in DOMAIN packets
    <3>1. \A k, l \in 1 .. n + 1 : k < l => k \in 1 .. n
      BY <2>2
    <3> QED BY <2>2, <3>1
  <2>4. \A k \in DOMAIN packets : packets[k] \in [I!Axes -> Nat]
    BY <1>1
  <2>5. (\A k \in DOMAIN packets : Framed(packets[k]))'
    <3>1. Framed(mouse.to) /\ \A k \in DOMAIN packets : Framed(packets[k])
      BY <1>1 DEF MouseInv
    <3>2. \A k \in DOMAIN packets' : Framed(packets'[k])
      BY <2>2, <2>9, <3>1
    <3> QED BY <1>2, <3>2 DEF Framed
  <2>6. I!MovesOnce'
    <3>1. \A k, l \in DOMAIN packets : k < l => \A i \in I!Axes : Later(packets[k][i], packets[l][i])
      BY DEF MouseInv, I!MovesOnce, Later
    <3>3. \A k, l \in DOMAIN packets' : k < l => \A i \in I!Axes : Later(packets'[k][i], packets'[l][i])
      BY <1>5, <2>2, <2>9, <2>10, <3>1
    <3> QED BY <3>3 DEF I!MovesOnce, Later
  <2>7. (\A i \in I!Axes : \A k \in DOMAIN packets : Later(packets[k][i], mouse_keys[i]))'
    <3>1. \A i \in I!Axes : i < mouse.i \/ i = mouse.i
      BY <1>7
    <3>2. \A i \in I!Axes : Later(mouse.to[i], mouse_keys'[i])
      BY <1>3, <1>5, <3>1 DEF Later
    <3>3. \A i \in I!Axes : \A k \in DOMAIN packets : Later(packets[k][i], mouse_keys'[i])
      BY <1>3, <1>5 DEF Later
    <3>5. \A i \in I!Axes : \A k \in DOMAIN packets' : Later(packets'[k][i], mouse_keys'[i])
      BY <2>2, <2>9, <3>2, <3>3
    <3> QED BY <3>5 DEF Later
  <2>8. mouse'.pc = "off"
    BY <2>1 DEF I!Off
  <2> QED
    BY <1>2, <1>4, <2>3, <2>5, <2>6, <2>7, <2>8 DEF MouseInv, Copied, Cleared
<1> QED BY <1>6, <1>7

LEMMA MouseStepNext == ASSUME MouseInv, I!MouseNext PROVE MouseInv'
  BY MouseHandlerNext, GetmouseNext, CopyByteNext, ClearByteNext DEF I!MouseNext, I!Mouser

LEMMA MouseStable ==
  ASSUME MouseInv, UNCHANGED <<mouse_keys, mouse_cycle, bytes, mouse, packets>>
  PROVE  MouseInv'
<1>1. MouseTypes'
  BY DEF MouseInv, MouseTypes
<1> QED BY <1>1 DEF MouseInv, Framed, Later, Copied, Cleared, I!MovesOnce

---------------------------------------------------------------------------
LEMMA PressFacts ==
  /\ I!Press(0) = 0
  /\ \A n \in Nat : I!Press(n) = n /\ I!Press(-n) = n
  /\ \A n \in Int : I!Press(n) \in Nat
  BY DEF I!Press

LEMMA KeyInit == I!Init => KeyInv
<1> SUFFICES ASSUME I!Init PROVE KeyInv
  OBVIOUS
<1>1. /\ curr_key = 0 /\ keys = 0 /\ tty = [r \in Readers |-> I!Returned(-1)]
      /\ text = [r \in Readers |-> <<>>]
  BY DEF I!Init
<1>2. <<>> \in Seq(Int) /\ DOMAIN <<>> = {}
  OBVIOUS
<1>3. KeyTypes
  BY <1>1, <1>2 DEF KeyTypes, TtyState, I!Returned
<1>4. \A r \in Readers : text[r] = <<>> /\ tty[r].pc = "off" /\ tty[r].zero = -1
  BY <1>1 DEF I!Returned
<1>5. OrderInv
  BY <1>1, <1>2, <1>4 DEF OrderInv, ReaderInOrder, Increasing, Before, I!Press
<1>6. LineInv
  BY <1>4 DEF LineInv, LineSoFar
<1> QED BY <1>3, <1>5, <1>6 DEF KeyInv

LEMMA KbdNext == ASSUME KeyInv, I!kbd_handler PROVE KeyInv'
<1>1. /\ keys \in Nat /\ keys' = keys + 1 /\ curr_key' \in {keys + 1, -(keys + 1), 0}
      /\ UNCHANGED <<tty, text>>
  BY DEF I!kbd_handler, KeyInv, KeyTypes
<1>2. KeyTypes'
  BY <1>1 DEF KeyInv, KeyTypes
<1>3. LineInv'
  BY <1>1 DEF KeyInv, LineInv, LineSoFar
<1>4. I!Press(curr_key') <= keys' /\ (curr_key' # 0 => I!Press(curr_key') = keys + 1)
  <2>1. keys + 1 \in Nat
    BY <1>1
  <2>2. I!Press(curr_key') = keys + 1 \/ (curr_key' = 0 /\ I!Press(curr_key') = 0)
    BY <1>1, <2>1, PressFacts
  <2> QED BY <1>1, <2>1, <2>2
<1>5. ASSUME NEW r \in Readers PROVE ReaderInOrder(text[r], tty[r])'
  <2> DEFINE s == text[r] t == tty[r]
  <2>1. /\ ReaderInOrder(s, t) /\ \A i \in DOMAIN s : s[i] \in Int
        /\ t.pc = "clear" => t.c \in Int
    BY <1>5 DEF KeyInv, OrderInv, KeyTypes, TtyState, Asking, Holding
  <2> HIDE DEF s, t
  <2>2. \A c \in Int : I!Press(c) \in Int
    BY DEF I!Press
  <2>3. Increasing(s) /\ (t.pc = "clear" => Before(s, t.c))
    BY <2>1 DEF ReaderInOrder
  <2>4. \A i \in DOMAIN s : I!Press(s[i]) <= keys + 1 /\ I!Press(s[i]) < keys + 1
    BY <1>1, <2>1, <2>2 DEF ReaderInOrder
  <2>5. t.pc = "clear" => I!Press(t.c) <= keys + 1
    BY <1>1, <2>1, <2>2 DEF ReaderInOrder
  <2>6. curr_key' # 0 => \A i \in DOMAIN s : I!Press(s[i]) < I!Press(curr_key')
    BY <1>4, <2>4
  <2>7. s' = s /\ t' = t
    BY <1>1 DEF s, t
  <2> QED BY <1>1, <2>3, <2>4, <2>5, <2>6, <2>7 DEF ReaderInOrder, Increasing, Before, s, t, I!Press
<1> QED BY <1>2, <1>3, <1>4, <1>5 DEF KeyInv, OrderInv, I!Press

(* A step of one reader that takes no key.                                 *)
LEMMA TtyStep ==
  ASSUME KeyInv, NEW r \in Readers, NEW x \in TtyState, tty' = [tty EXCEPT ![r] = x],
         UNCHANGED <<keys, text>>, curr_key' \in {curr_key, 0},
         LineSoFar(x),
         x.pc = "clear" => Before(text[r], x.c) /\ I!Press(x.c) <= keys
  PROVE  KeyInv'
<1>1. KeyTypes'
  BY DEF KeyInv, KeyTypes
<1>2. \A q \in Readers : tty'[q] = IF q = r THEN x ELSE tty[q]
  BY DEF KeyInv, KeyTypes
<1>3. LineInv'
  <2>1. \A q \in Readers : LineSoFar(tty'[q])
    BY <1>2 DEF KeyInv, LineInv
  <2> QED BY <2>1 DEF LineInv, LineSoFar
<1>4. I!Press(curr_key') <= keys
  <2>1. keys \in Nat /\ I!Press(curr_key) <= keys
    BY DEF KeyInv, OrderInv, KeyTypes
  <2> QED BY <2>1, PressFacts
<1>5. ASSUME NEW q \in Readers PROVE ReaderInOrder(text[q], tty[q])'
  <2>1. ReaderInOrder(text[q], tty[q])
    BY DEF KeyInv, OrderInv
  <2>2. /\ Increasing(text[q]) /\ \A i \in DOMAIN text[q] : I!Press(text[q][i]) <= keys
        /\ Before(text[q], curr_key')
    BY <2>1 DEF ReaderInOrder, Before
  <2>3. tty'[q].pc = "clear" => Before(text[q], tty'[q].c) /\ I!Press(tty'[q].c) <= keys
    BY <1>2, <2>1 DEF ReaderInOrder
  <2> QED BY <2>2, <2>3 DEF ReaderInOrder, Before, Increasing, I!Press
<1> QED BY <1>1, <1>3, <1>4, <1>5 DEF KeyInv, OrderInv, I!Press

LEMMA TtyReadNext ==
  ASSUME KeyInv, NEW r \in Readers, NEW count \in LineCounts, I!tty_read(r, count)
  PROVE  KeyInv'
<1> DEFINE x == [pc |-> "load", count |-> count, buf |-> <<>>]
<1>1. x \in TtyState
  BY DEF TtyState, Asking
<1>2. LineSoFar(x)
  BY LineAssumption DEF LineSoFar
<1> QED BY <1>1, <1>2, TtyStep DEF I!tty_read

LEMMA TtyLoadNext == ASSUME KeyInv, NEW r \in Readers, I!Load(r) PROVE KeyInv'
<1> DEFINE t == tty[r]
           x == [pc |-> "clear", count |-> t.count, buf |-> t.buf, c |-> curr_key]
<1>1. t \in Asking /\ t.pc = "load" /\ tty' = [tty EXCEPT ![r] = x]
  BY DEF I!Load, KeyInv, KeyTypes, TtyState, Holding, Asking
<1>2. x \in TtyState
  BY <1>1 DEF KeyInv, KeyTypes, TtyState, Asking, Holding
<1>3. LineSoFar(x)
  BY <1>1 DEF KeyInv, LineInv, LineSoFar
<1>4. Before(text[r], curr_key) /\ I!Press(curr_key) <= keys
  BY DEF KeyInv, OrderInv, ReaderInOrder
<1> QED BY <1>1, <1>2, <1>3, <1>4, TtyStep DEF I!Load

LEMMA LineNext == ASSUME KeyInv, NEW r \in Readers, I!Line(r) PROVE KeyInv'
<1> DEFINE t == tty[r]
           x == I!Returned(Len(t.buf) + 1 - t.count)
<1>1. t \in Asking /\ t.pc = "line" /\ tty' = [tty EXCEPT ![r] = x]
  BY DEF I!Line, KeyInv, KeyTypes, TtyState, Holding, Asking
<1>2. Len(t.buf) \in Nat /\ t.count \in Nat /\ Len(t.buf) <= t.count
  <2>1. t.count \in Nat \ {0} /\ t.buf \in Seq(Int)
    BY <1>1, LineAssumption DEF Asking
  <2>2. LineSoFar(t)
    BY DEF KeyInv, LineInv
  <2>3. Len(t.buf) \in 1 .. t.count
    BY <1>1, <2>2 DEF LineSoFar
  <2> HIDE DEF t
  <2> QED BY <2>1, <2>3
<1> HIDE DEF t
<1>3. Len(t.buf) + 1 - t.count \in Int /\ Len(t.buf) + 1 - t.count <= 1
  BY <1>2
<1>4. x \in TtyState /\ LineSoFar(x) /\ x.pc # "clear"
  BY <1>3 DEF TtyState, LineSoFar, I!Returned
<1> QED BY <1>1, <1>4, TtyStep DEF I!Line

LEMMA ClearNext == ASSUME KeyInv, NEW r \in Readers, I!Clear(r) PROVE KeyInv'
<1> DEFINE t == tty[r]
           buf == Append(t.buf, t.c)
           n == Len(t.buf)
<1>1. /\ t \in Holding /\ t.pc = "clear" /\ t.count \in LineCounts /\ t.count \in Nat
      /\ t.buf \in Seq(Int) /\ t.c \in Int /\ text[r] \in Seq(Int)
  <2>1. t \in TtyState /\ t.pc = "clear" /\ text[r] \in Seq(Int)
    BY DEF I!Clear, KeyInv, KeyTypes
  <2> HIDE DEF t
  <2>2. t \in Holding
    BY <2>1 DEF TtyState, Asking
  <2> QED BY <2>1, <2>2, LineAssumption DEF Holding
<1>2. /\ n \in Nat /\ n < t.count /\ DOMAIN t.buf = 1 .. n
      /\ \A i \in 1 .. n : t.buf[i] > 0
  BY <1>1 DEF KeyInv, LineInv, LineSoFar
<1>3. Before(text[r], t.c) /\ I!Press(t.c) <= keys
  BY <1>1 DEF KeyInv, OrderInv, ReaderInOrder
<1>4. CASE t.c = 0
  <2> DEFINE x == [pc |-> "load", count |-> t.count, buf |-> t.buf]
  <2>1. x \in TtyState
    BY <1>1 DEF TtyState, Asking
  <2>2. LineSoFar(x)
    BY <1>1, <1>2 DEF LineSoFar
  <2>3. tty' = [tty EXCEPT ![r] = x] /\ text' = text /\ curr_key' = 0 /\ keys' = keys
    BY <1>4 DEF I!Clear, I!KeyCleared
  <2> HIDE DEF x
  <2>4. x.pc # "clear"
    BY DEF x
  <2> QED BY <2>1, <2>2, <2>3, <2>4, TtyStep
<1>5. CASE t.c # 0
  <2> DEFINE x == [pc |-> IF I!Finished(buf, t.count) THEN "line" ELSE "load",
                   count |-> t.count, buf |-> buf]
  <2>1. /\ tty' = [tty EXCEPT ![r] = x] /\ text' = [text EXCEPT ![r] = Append(@, t.c)]
        /\ curr_key' = 0 /\ keys' = keys
    BY <1>5 DEF I!Clear, I!KeyCleared
  <2>2. /\ buf \in Seq(Int) /\ Len(buf) = n + 1 /\ DOMAIN buf = 1 .. n + 1
        /\ \A i \in 1 .. n : buf[i] = t.buf[i]
        /\ buf[n + 1] = t.c
    <3>1. t.buf \in Seq(Int) /\ t.c \in Int
      BY <1>1, <1>2
    <3>2. PICK v \in Seq(Int), e \in Int : v = t.buf /\ e = t.c
      BY <3>1
    <3>3. /\ Append(v, e) \in Seq(Int) /\ Len(Append(v, e)) = Len(v) + 1
          /\ DOMAIN Append(v, e) = 1 .. Len(v) + 1 /\ DOMAIN v = 1 .. Len(v)
          /\ \A i \in DOMAIN v : Append(v, e)[i] = v[i]
          /\ Append(v, e)[Len(v) + 1] = e
      BY ONLY v \in Seq(Int), e \in Int, AppendFacts
    <3> HIDE DEF t
    <3> QED BY <3>2, <3>3
  <2> HIDE DEF buf, n
  <2>3. x \in TtyState
    BY <1>1, <2>2 DEF TtyState, Asking
  <2>4. LineSoFar(x)
    <3>1. CASE I!Finished(buf, t.count)
      <4>1. n + 1 < t.count => t.c < 0
        BY <1>1, <1>2, <2>2, <3>1 DEF I!Finished
      <4>2. \A i \in 1 .. n : buf[i] > 0
        BY <1>2, <2>2
      <4>3. n + 1 \in 1 .. t.count
        BY <1>1, <1>2
      <4>4. x.pc = "line" /\ x.count = t.count /\ x.buf = buf
        BY <3>1
      <4> HIDE DEF x, t
      <4>5. /\ Len(buf) \in 1 .. t.count
            /\ Len(buf) < t.count => buf[Len(buf)] < 0
            /\ \A i \in 1 .. Len(buf) - 1 : buf[i] > 0
        <5>1. Len(buf) = n + 1 /\ buf[n + 1] = t.c
          BY <2>2
        <5>2. Len(buf) \in 1 .. t.count
          BY <4>3, <5>1
        <5>3. Len(buf) < t.count => buf[Len(buf)] < 0
          BY <4>1, <5>1, Zenon
        <5>4. \A i \in 1 .. Len(buf) - 1 : buf[i] > 0
          <6>1. Len(buf) - 1 = n
            BY <1>2, <5>1
          <6> QED BY <4>2, <6>1
        <5> QED BY <5>2, <5>3, <5>4
      <4> QED BY <4>4, <4>5 DEF LineSoFar
    <3>2. CASE ~I!Finished(buf, t.count)
      <4>1. n + 1 # t.count /\ ~(t.c < 0)
        BY <2>2, <3>2 DEF I!Finished
      <4>2. n + 1 < t.count /\ t.c > 0
        BY <1>1, <1>2, <1>5, <4>1
      <4>3. \A i \in 1 .. n + 1 : i \in 1 .. n \/ i = n + 1
        BY <1>2
      <4>4. \A i \in 1 .. n + 1 : buf[i] > 0
        BY <1>2, <2>2, <4>2, <4>3
      <4>5. x.pc = "load" /\ x.count = t.count /\ x.buf = buf
        BY <3>2
      <4> HIDE DEF x, t
      <4> QED BY <2>2, <4>2, <4>4, <4>5 DEF LineSoFar
    <3> QED BY <3>1, <3>2
  <2>5. x.pc # "clear"
    OBVIOUS
  <2> HIDE DEF x
  <2>6. \A q \in Readers : tty'[q] = IF q = r THEN x ELSE tty[q]
    BY <2>1 DEF KeyInv, KeyTypes
  <2>7. KeyTypes'
    <3>1. Append(text[r], t.c) \in Seq(Int)
      BY <1>1, AppendFacts
    <3>2. text' \in [Readers -> Seq(Int)]
      BY <2>1, <3>1 DEF KeyInv, KeyTypes
    <3> QED BY <2>1, <2>3, <3>2 DEF KeyInv, KeyTypes
  <2>8. LineInv'
    <3>1. \A q \in Readers : LineSoFar(tty'[q])
      BY <2>4, <2>6 DEF KeyInv, LineInv
    <3> QED BY <3>1 DEF LineInv, LineSoFar
  <2>9. ASSUME NEW q \in Readers PROVE ReaderInOrder(text[q], tty[q])'
    <3>1. ReaderInOrder(text[q], tty[q])
      BY DEF KeyInv, OrderInv
    <3>2. CASE q # r
      <4>1. text'[q] = text[q] /\ tty'[q] = tty[q]
        BY <2>1, <2>6, <3>2 DEF KeyInv, KeyTypes
      <4>2. Before(text[q], 0) /\ keys' = keys /\ curr_key' = 0
        BY <2>1 DEF Before
      <4> QED BY <3>1, <4>1, <4>2 DEF ReaderInOrder, Before, Increasing, I!Press
    <3>3. CASE q = r
      <4> DEFINE s == text[r] m == Len(s) u == Append(s, t.c)
      <4>1. /\ m \in Nat /\ DOMAIN s = 1 .. m /\ DOMAIN u = 1 .. m + 1
            /\ \A i \in 1 .. m : u[i] = s[i]
            /\ u[m + 1] = t.c
        <5>1. text[r] \in Seq(Int) /\ t.c \in Int
          BY <1>1
        <5>2. PICK v \in Seq(Int), e \in Int : v = text[r] /\ e = t.c
          BY <5>1
        <5>3. /\ Len(v) \in Nat /\ DOMAIN v = 1 .. Len(v)
              /\ DOMAIN Append(v, e) = 1 .. Len(v) + 1
              /\ \A i \in DOMAIN v : Append(v, e)[i] = v[i]
              /\ Append(v, e)[Len(v) + 1] = e
          BY ONLY v \in Seq(Int), e \in Int, AppendFacts
        <5> HIDE DEF t
        <5> QED BY <5>2, <5>3
      <4>2. text'[q] = u /\ tty'[q] = x
        BY <2>1, <2>6, <3>3 DEF KeyInv, KeyTypes
      <4>3. /\ \A i, j \in 1 .. m : i < j => I!Press(s[i]) < I!Press(s[j])
            /\ \A i \in 1 .. m : I!Press(s[i]) <= keys /\ I!Press(s[i]) < I!Press(t.c)
        BY <1>3, <1>5, <3>1, <3>3, <4>1 DEF ReaderInOrder, Before, Increasing
      <4> HIDE DEF s, m, u
      <4>4. /\ \A i \in 1 .. m + 1 : i \in 1 .. m \/ i = m + 1
            /\ \A i, j \in 1 .. m + 1 : i < j => i \in 1 .. m
        BY <4>1
      <4>5. Increasing(u) /\ \A i \in DOMAIN u : I!Press(u[i]) <= keys
        <5> HIDE DEF t
        <5> QED BY <1>3, <4>1, <4>3, <4>4 DEF Increasing
      <4>6. Before(u, curr_key')
        BY <2>1 DEF Before
      <4> QED BY <2>1, <2>5, <4>2, <4>5, <4>6 DEF ReaderInOrder, Before, Increasing, I!Press
    <3> QED BY <3>2, <3>3
  <2>10. I!Press(0) <= keys
    BY DEF I!Press, KeyInv, KeyTypes
  <2> QED BY <2>1, <2>7, <2>8, <2>9, <2>10 DEF KeyInv, OrderInv, I!Press
<1> QED BY <1>4, <1>5

LEMMA KeyStepNext == ASSUME KeyInv, I!KeyNext PROVE KeyInv'
  BY KbdNext, TtyReadNext, TtyLoadNext, LineNext, ClearNext DEF I!KeyNext, I!Reader

LEMMA KeyStable == ASSUME KeyInv, UNCHANGED <<curr_key, keys, tty, text>> PROVE KeyInv'
<1>1. KeyTypes'
  BY DEF KeyInv, KeyTypes
<1>2. OrderInv'
  <2>1. \A r \in Readers : ReaderInOrder(text[r], tty[r])' = ReaderInOrder(text[r], tty[r])
    BY DEF ReaderInOrder, Increasing, Before, I!Press
  <2> QED BY <2>1 DEF KeyInv, OrderInv, I!Press
<1>3. LineInv'
  BY DEF KeyInv, LineInv, LineSoFar
<1> QED BY <1>1, <1>2, <1>3 DEF KeyInv

---------------------------------------------------------------------------
(* The pipe.                                                               *)

Writing == [pc : {"copy", "publish"}, count : PipeCounts]
Reading == [pc : {"copy", "advance"}, count : PipeCounts, read : Seq(Nat)]
PipeTypes ==
  /\ head \in Nat /\ tail \in Nat
  /\ buffer \in [0 .. PipeCapacity - 1 -> Nat]
  /\ writer \in {P!Idle, [pc |-> "spin"]} \cup Writing
  /\ reader \in {P!Idle} \cup Reading
  /\ got \in Seq(Nat) /\ overread \in BOOLEAN

(* A byte behind head is its place in the stream, and what a write has     *)
(* copied will be when head moves.  As long as no read asked for too much, *)
(* what a read has copied lies at the tail, behind head, where no write    *)
(* comes.                                                                  *)
WriterInv ==
  /\ \A j \in 0 .. head - 1 : buffer[j] = j + 1
  /\ writer.pc \in {"copy", "publish"} => head + writer.count < PipeCapacity
  /\ writer.pc = "publish" => \A j \in head .. head + writer.count - 1 : buffer[j] = j + 1
ReadSoFar ==
  /\ Len(got) = tail
  /\ reader.pc \in {"copy", "advance"} =>
       /\ tail + reader.count <= head
       /\ Len(reader.read) <= reader.count
       /\ \A i \in DOMAIN reader.read : reader.read[i] = tail + i
  /\ reader.pc = "advance" => Len(reader.read) = reader.count
ReaderInv == ~overread => ReadSoFar
InTurn == overread = FALSE
PipeInv == PipeTypes /\ P!EndsInside /\ P!InOrder /\ WriterInv /\ ReaderInv

LEMMA PipeInit == P!Init => PipeInv
<1> SUFFICES ASSUME P!Init PROVE PipeInv
  OBVIOUS
<1> USE PipeAssumption DEF P!Init
<1>1. PipeTypes
  <2>1. buffer \in [0 .. PipeCapacity - 1 -> Nat]
    BY DEF P!Unwritten
  <2>2. head \in Nat /\ tail \in Nat /\ got \in Seq(Nat)
    OBVIOUS
  <2>3. writer = P!Idle /\ reader = P!Idle /\ overread \in BOOLEAN
    OBVIOUS
  <2> QED BY <2>1, <2>2, <2>3, Zenon DEF PipeTypes
<1>2. P!EndsInside /\ P!InOrder
  BY DEF P!EndsInside, P!InOrder
<1>3. WriterInv
  BY DEF WriterInv, P!Idle
<1>4. ReaderInv
  BY DEF ReaderInv, ReadSoFar, P!Idle
<1> QED BY <1>1, <1>2, <1>3, <1>4 DEF PipeInv

LEMMA WriteNext ==
  ASSUME PipeInv, NEW count \in PipeCounts, P!Write(count) PROVE PipeInv'
<1>1. /\ writer' = [pc |-> "copy", count |-> count] /\ head + count < PipeCapacity
      /\ UNCHANGED <<buffer, head, tail, reader, got, overread>>
  BY DEF P!Write, P!Fits
<1>2. PipeTypes'
  BY <1>1 DEF PipeInv, PipeTypes, Writing
<1>3. WriterInv'
  BY <1>1 DEF PipeInv, WriterInv
<1> QED BY <1>1, <1>2, <1>3 DEF PipeInv, P!EndsInside, P!InOrder, ReaderInv, ReadSoFar

LEMMA WriteSpinsNext ==
  ASSUME PipeInv, NEW count \in PipeCounts, P!WriteSpins(count) PROVE PipeInv'
<1>1. writer' = [pc |-> "spin"] /\ UNCHANGED <<buffer, head, tail, reader, got, overread>>
  BY DEF P!WriteSpins
<1>2. PipeTypes'
  BY <1>1 DEF PipeInv, PipeTypes
<1>3. WriterInv'
  BY <1>1 DEF PipeInv, WriterInv
<1> QED BY <1>1, <1>2, <1>3 DEF PipeInv, P!EndsInside, P!InOrder, ReaderInv, ReadSoFar

LEMMA WriterCopies ==
  ASSUME PipeTypes, writer.pc \in {"copy", "publish"}
  PROVE  writer \in Writing /\ writer.count \in Nat
<1>1. writer \in Writing
  BY DEF PipeTypes, P!Idle
<1> QED BY <1>1, PipeAssumption DEF Writing

LEMMA ReaderReads ==
  ASSUME PipeTypes, reader.pc \in {"copy", "advance"}
  PROVE  /\ reader \in Reading /\ reader.count \in Nat
         /\ reader.read \in Seq(Nat) /\ Len(reader.read) \in Nat
         /\ DOMAIN reader.read = 1 .. Len(reader.read)
<1>1. reader \in Reading
  BY DEF PipeTypes, P!Idle
<1>2. reader.count \in Nat /\ reader.read \in Seq(Nat)
  BY <1>1, PipeAssumption DEF Reading
<1> QED BY <1>1, <1>2

LEMMA CopyNext == ASSUME PipeInv, P!Copy PROVE PipeInv'
<1> DEFINE n == writer.count
<1>1. /\ writer \in Writing /\ writer.pc = "copy" /\ n \in Nat /\ head \in Nat
      /\ head + n < PipeCapacity /\ PipeCapacity \in Nat
      /\ buffer \in [0 .. PipeCapacity - 1 -> Nat]
      /\ \A j \in 0 .. head - 1 : buffer[j] = j + 1
  BY WriterCopies, PipeAssumption DEF P!Copy, PipeInv, PipeTypes, WriterInv
<1>2. /\ buffer' = [i \in 0 .. PipeCapacity - 1 |->
                      IF i \in head .. head + n - 1 THEN i + 1 ELSE buffer[i]]
      /\ UNCHANGED <<head, tail, reader, got, overread>>
  BY <1>1 DEF P!Copy
<1>3. writer' = [pc |-> "publish", count |-> n]
  BY <1>1 DEF P!Copy, Writing
<1>4. writer' \in Writing /\ writer'.pc = "publish" /\ writer'.count = n
  BY <1>1, <1>3 DEF Writing
<1> HIDE DEF n
<1>5. buffer' \in [0 .. PipeCapacity - 1 -> Nat]
  BY <1>1, <1>2
<1>6. PipeTypes'
  BY <1>2, <1>4, <1>5 DEF PipeInv, PipeTypes
<1>7. /\ \A j \in 0 .. head - 1 : buffer'[j] = j + 1
      /\ \A j \in head .. head + n - 1 : buffer'[j] = j + 1
  BY <1>1, <1>2
<1>8. WriterInv'
  BY <1>1, <1>2, <1>4, <1>7 DEF WriterInv
<1> QED BY <1>2, <1>6, <1>8 DEF PipeInv, P!EndsInside, P!InOrder, ReaderInv, ReadSoFar

LEMMA PublishNext == ASSUME PipeInv, P!Publish PROVE PipeInv'
<1> DEFINE n == writer.count
<1>1. /\ writer.pc = "publish" /\ n \in Nat /\ head \in Nat /\ tail \in Nat
      /\ head + n < PipeCapacity /\ PipeCapacity \in Nat
      /\ tail < PipeCapacity /\ (~overread => tail <= head)
      /\ \A j \in 0 .. head - 1 : buffer[j] = j + 1
      /\ \A j \in head .. head + n - 1 : buffer[j] = j + 1
  BY WriterCopies, PipeAssumption DEF P!Publish, PipeInv, PipeTypes, WriterInv, P!EndsInside
<1>2. head' = head + n /\ writer' = P!Idle /\ UNCHANGED <<buffer, tail, reader, got, overread>>
  BY DEF P!Publish
<1> HIDE DEF n
<1>3. PipeTypes'
  BY <1>1, <1>2 DEF PipeInv, PipeTypes
<1>4. \A j \in 0 .. head + n - 1 : buffer[j] = j + 1
  <2>1. \A j \in 0 .. head + n - 1 : j \in 0 .. head - 1 \/ j \in head .. head + n - 1
    BY <1>1
  <2> QED BY <1>1, <2>1
<1>5. WriterInv'
  <2>1. \A j \in 0 .. head' - 1 : buffer'[j] = j + 1
    BY <1>1, <1>2, <1>4
  <2>2. writer'.pc = "idle"
    BY <1>2 DEF P!Idle
  <2> QED BY <2>1, <2>2 DEF WriterInv
<1>6. P!EndsInside'
  BY <1>1, <1>2 DEF P!EndsInside
<1>7. ReaderInv'
  <2>1. reader.pc \in {"copy", "advance"} => reader.count \in Nat
    BY ReaderReads DEF PipeInv
  <2>2. \A k \in Nat : tail + k <= head => tail + k <= head + n
    BY <1>1
  <2> QED BY <1>2, <2>1, <2>2 DEF PipeInv, ReaderInv, ReadSoFar
<1> QED BY <1>2, <1>3, <1>5, <1>6, <1>7 DEF PipeInv, P!InOrder

LEMMA ReadNext ==
  ASSUME PipeInv, NEW count \in PipeCounts, P!Read(count) PROVE PipeInv'
<1>1. /\ UNCHANGED <<buffer, head, tail, writer, got>>
      /\ reader' = [pc |-> "copy", count |-> count, read |-> <<>>]
      /\ overread' = (overread \/ tail + count > head)
  BY DEF P!Read
<1>2. overread' \in BOOLEAN /\ (~overread' => ~overread /\ ~(tail + count > head))
  BY <1>1
<1>3. /\ reader'.pc = "copy" /\ reader'.count = count /\ reader'.read = <<>>
      /\ Len(<<>>) = 0 /\ DOMAIN <<>> = {} /\ <<>> \in Seq(Nat)
  BY <1>1
<1>4. PipeTypes'
  BY <1>1, <1>2, <1>3 DEF PipeInv, PipeTypes, Reading
<1>5. count \in Nat /\ tail \in Nat /\ head \in Nat
  BY PipeAssumption DEF PipeInv, PipeTypes
<1>6. ReaderInv'
  <2> SUFFICES ASSUME ~overread' PROVE ReadSoFar'
    BY DEF ReaderInv
  <2>1. Len(got) = tail /\ tail + count <= head
    BY <1>2, <1>5 DEF PipeInv, ReaderInv, ReadSoFar
  <2> QED BY <1>1, <1>3, <1>5, <2>1 DEF ReadSoFar
<1>7. P!EndsInside' /\ P!InOrder'
  BY <1>1, <1>2 DEF PipeInv, P!EndsInside, P!InOrder
<1> QED BY <1>1, <1>4, <1>6, <1>7 DEF PipeInv, WriterInv

LEMMA ReadCopyNext == ASSUME PipeInv, P!ReadCopy PROVE PipeInv'
<1> DEFINE n == reader.count s == reader.read m == Len(s)
<1>1. /\ reader \in Reading /\ reader.pc = "copy" /\ n \in PipeCounts /\ n \in Nat
      /\ s \in Seq(Nat) /\ m \in Nat /\ DOMAIN s = 1 .. m
  BY ReaderReads DEF P!ReadCopy, PipeInv, Reading
<1>2. ~overread => tail + n <= head /\ m <= n /\ \A i \in 1 .. m : s[i] = tail + i
  BY <1>1 DEF PipeInv, ReaderInv, ReadSoFar
<1>3. UNCHANGED <<buffer, head, tail, writer, got, overread>>
  BY DEF P!ReadCopy
<1>4. tail \in Nat /\ head \in Nat /\ (~overread => Len(got) = tail)
  BY DEF PipeInv, PipeTypes, ReaderInv, ReadSoFar
<1>5. CASE m = n
  <2>1. reader' = [pc |-> "advance", count |-> n, read |-> s]
    BY <1>1, <1>5 DEF P!ReadCopy, Reading
  <2>2. reader'.pc = "advance" /\ reader'.count = n /\ reader'.read = s /\ reader' \in Reading
    BY <1>1, <2>1 DEF Reading
  <2> HIDE DEF n, s, m
  <2>3. PipeTypes'
    BY <1>3, <2>2 DEF PipeInv, PipeTypes
  <2>4. ReaderInv'
    BY <1>1, <1>2, <1>3, <1>4, <1>5, <2>2 DEF ReaderInv, ReadSoFar, m
  <2> QED BY <1>3, <2>3, <2>4 DEF PipeInv, P!EndsInside, P!InOrder, WriterInv
<1>6. CASE m # n
  <2> DEFINE b == P!ByteAt(tail + m) u == Append(s, b)
  <2>1. reader' = [pc |-> "copy", count |-> n, read |-> u]
    BY <1>1, <1>6 DEF P!ReadCopy, Reading
  <2>2. b \in Nat
    BY DEF PipeInv, PipeTypes, P!ByteAt, P!Unwritten
  <2>3. ~overread => b = tail + (m + 1)
    <3> SUFFICES ASSUME ~overread PROVE b = tail + (m + 1)
      OBVIOUS
    <3>1. tail + m \in 0 .. head - 1 /\ tail + m \in 0 .. PipeCapacity - 1
      BY <1>1, <1>2, <1>4, <1>6, PipeAssumption DEF PipeInv, P!EndsInside
    <3>2. b = buffer[tail + m]
      BY <3>1 DEF PipeInv, PipeTypes, P!ByteAt
    <3>3. b = (tail + m) + 1
      BY <3>1, <3>2 DEF PipeInv, WriterInv
    <3> QED BY <1>1, <1>4, <3>3
  <2> HIDE DEF b
  <2>4. /\ u \in Seq(Nat) /\ Len(u) = m + 1 /\ DOMAIN u = 1 .. m + 1
        /\ \A i \in 1 .. m : u[i] = s[i]
        /\ u[m + 1] = b
    BY <1>1, <2>2, AppendFacts
  <2> HIDE DEF n, s, m, u
  <2>5. reader'.pc = "copy" /\ reader'.count = n /\ reader'.read = u /\ reader' \in Reading
    BY <1>1, <2>1, <2>4 DEF Reading
  <2>6. PipeTypes'
    BY <1>3, <2>5 DEF PipeInv, PipeTypes
  <2>7. ReaderInv'
    <3> SUFFICES ASSUME ~overread PROVE ReadSoFar'
      BY <1>3 DEF ReaderInv
    <3>1. \A i \in 1 .. m + 1 : u[i] = tail + i
      <4>1. \A i \in 1 .. m + 1 : i \in 1 .. m \/ i = m + 1
        BY <1>1
      <4> QED BY <1>2, <2>3, <2>4, <4>1
    <3>2. m + 1 <= n
      BY <1>1, <1>2, <1>6
    <3> QED BY <1>2, <1>3, <1>4, <2>4, <2>5, <3>1, <3>2 DEF ReadSoFar
  <2> QED BY <1>3, <2>6, <2>7 DEF PipeInv, P!EndsInside, P!InOrder, WriterInv
<1> QED BY <1>5, <1>6

LEMMA ConcatFacts ==
  ASSUME NEW S, NEW s \in Seq(S), NEW t \in Seq(S)
  PROVE  /\ s \o t \in Seq(S)
         /\ Len(s \o t) = Len(s) + Len(t)
         /\ DOMAIN (s \o t) = 1 .. Len(s) + Len(t)
         /\ \A i \in 1 .. Len(s) : (s \o t)[i] = s[i]
         /\ \A i \in 1 .. Len(t) : (s \o t)[Len(s) + i] = t[i]
  OBVIOUS

(* What a read that asked for no more than was stored finds.               *)
LEMMA AdvanceFacts ==
  ASSUME PipeInv, P!ReadAdvance, InTurn
  PROVE  /\ reader.count \in Nat /\ reader.read \in Seq(Nat)
         /\ DOMAIN reader.read = 1 .. reader.count /\ Len(reader.read) = reader.count
         /\ tail + reader.count <= head /\ \A i \in 1 .. reader.count : reader.read[i] = tail + i
         /\ tail' = tail + reader.count
<1>1. /\ reader.pc = "advance" /\ reader.count \in Nat /\ reader.read \in Seq(Nat)
      /\ DOMAIN reader.read = 1 .. reader.count /\ Len(reader.read) = reader.count
      /\ tail + reader.count <= head /\ \A i \in 1 .. reader.count : reader.read[i] = tail + i
  BY ReaderReads DEF P!ReadAdvance, PipeInv, ReaderInv, ReadSoFar, InTurn
<1>2. tail \in Nat /\ head \in Nat /\ head < PipeCapacity /\ PipeCapacity \in Nat
  BY PipeAssumption DEF PipeInv, PipeTypes, P!EndsInside
<1>3. tail' = IF tail + reader.count >= PipeCapacity THEN 0 ELSE tail + reader.count
  BY DEF P!ReadAdvance
<1> QED BY <1>1, <1>2, <1>3

LEMMA ReadAdvanceNext == ASSUME PipeInv, P!ReadAdvance PROVE PipeInv'
<1> DEFINE n == reader.count s == reader.read u == got \o s
<1>1. n \in Nat /\ s \in Seq(Nat)
  BY ReaderReads DEF P!ReadAdvance, PipeInv
<1>2. tail \in Nat /\ head \in Nat /\ got \in Seq(Nat) /\ PipeCapacity \in Nat \ {0}
  BY PipeAssumption DEF PipeInv, PipeTypes
<1>3. /\ got' = u /\ reader' = P!Idle /\ UNCHANGED <<buffer, head, writer, overread>>
      /\ tail' = IF tail + n >= PipeCapacity THEN 0 ELSE tail + n
  BY DEF P!ReadAdvance
<1>4. /\ u \in Seq(Nat) /\ Len(u) = Len(got) + Len(s) /\ DOMAIN u = 1 .. Len(got) + Len(s)
      /\ \A i \in 1 .. Len(got) : u[i] = got[i]
      /\ \A i \in 1 .. Len(s) : u[Len(got) + i] = s[i]
  BY <1>1, <1>2, ConcatFacts
<1>5. ~overread => /\ Len(s) = n /\ \A i \in 1 .. n : s[i] = tail + i
                   /\ tail' = tail + n /\ tail + n <= head
  BY AdvanceFacts DEF InTurn, PipeInv, PipeTypes
<1>6. ~overread => /\ Len(got) = tail /\ DOMAIN got = 1 .. tail /\ \A i \in 1 .. tail : got[i] = i
  BY <1>2 DEF PipeInv, ReaderInv, ReadSoFar, P!InOrder
<1> HIDE DEF n, s, u
<1>7. tail' \in Nat /\ tail' < PipeCapacity
  BY <1>1, <1>2, <1>3
<1>8. PipeTypes'
  BY <1>3, <1>4, <1>7 DEF PipeInv, PipeTypes
<1>9. P!InOrder' /\ ReaderInv'
  <2> SUFFICES ASSUME ~overread
               PROVE  (\A i \in DOMAIN u : u[i] = i) /\ ReadSoFar'
    BY <1>3 DEF P!InOrder, ReaderInv
  <2>1. Len(got) = tail /\ Len(s) = n /\ DOMAIN u = 1 .. tail + n
    BY <1>4, <1>5, <1>6
  <2>2. ASSUME NEW i \in 1 .. tail + n PROVE u[i] = i
    <3>1. i \in 1 .. tail \/ (i - tail \in 1 .. n /\ i = tail + (i - tail))
      BY <1>1, <1>2
    <3>2. CASE i \in 1 .. tail
      BY <1>4, <1>6, <2>1, <3>2
    <3>3. CASE i - tail \in 1 .. n /\ i = tail + (i - tail)
      BY <1>4, <1>5, <2>1, <3>3
    <3> QED BY <3>1, <3>2, <3>3
  <2>3. ReadSoFar'
    BY <1>3, <1>4, <1>5, <2>1 DEF ReadSoFar, P!Idle
  <2> QED BY <2>1, <2>2, <2>3
<1>10. P!EndsInside'
  BY <1>3, <1>5, <1>7 DEF PipeInv, P!EndsInside
<1> QED BY <1>3, <1>8, <1>9, <1>10 DEF PipeInv, WriterInv

LEMMA PipeStepNext == ASSUME PipeInv, P!Next PROVE PipeInv'
  BY WriteNext, WriteSpinsNext, CopyNext, PublishNext, ReadNext, ReadCopyNext, ReadAdvanceNext
     DEF P!Next, P!Reader, P!Writer

LEMMA PipeStable ==
  ASSUME PipeInv, UNCHANGED <<buffer, head, tail, writer, reader, got, overread>> PROVE PipeInv'
<1>1. PipeTypes'
  BY DEF PipeInv, PipeTypes
<1> QED BY <1>1 DEF PipeInv, P!EndsInside, P!InOrder, WriterInv, ReaderInv, ReadSoFar

---------------------------------------------------------------------------
(* The pipe implements the channel.                                        *)

(* The bytes from place m to n of the stream.                              *)
Bytes(m, n) == [i \in 1 .. n - m |-> m + i]

LEMMA BytesLen ==
  ASSUME NEW m \in Nat, NEW n \in Nat, m <= n
  PROVE  Bytes(m, n) \in Seq(Nat) /\ Len(Bytes(m, n)) = n - m
  BY DEF Bytes

LEMMA BytesFrom ==
  ASSUME NEW m \in Nat, NEW k \in Nat
  PROVE  Bytes(m, m + k) = [i \in 1 .. k |-> m + i]
<1>1. m + k - m = k
  OBVIOUS
<1> QED BY <1>1 DEF Bytes

LEMMA BytesCut ==
  ASSUME NEW m \in Nat, NEW n \in Nat, m <= n, NEW k \in 0 .. n - m
  PROVE  /\ SubSeq(Bytes(m, n), 1, k) = Bytes(m, m + k)
         /\ SubSeq(Bytes(m, n), k + 1, n - m) = Bytes(m + k, n)
  BY DEF Bytes

LEMMA Place ==
  ASSUME NEW m \in Nat, NEW n \in Nat, NEW i \in 1 .. n - m
  PROVE  m + i - 1 \in 0 .. n - 1 /\ (m + i - 1) + 1 = m + i
  OBVIOUS

LEMMA SeqElements ==
  ASSUME NEW S, NEW s \in Seq(S), NEW n, Len(s) = n PROVE s = [i \in 1 .. n |-> s[i]]
  OBVIOUS

LEMMA StoredBytes == ASSUME PipeInv, InTurn PROVE P!Stored = Bytes(tail, head)
<1>1. /\ tail \in Nat /\ head \in Nat /\ tail <= head
      /\ \A j \in 0 .. head - 1 : buffer[j] = j + 1
  BY DEF PipeInv, PipeTypes, P!EndsInside, WriterInv, InTurn
<1>2. ASSUME NEW i \in 1 .. head - tail PROVE buffer[tail + i - 1] = tail + i
  <2>1. tail + i - 1 \in 0 .. head - 1 /\ (tail + i - 1) + 1 = tail + i
    BY <1>1, Place
  <2> QED BY <1>1, <2>1
<1>3. P!Stored = [i \in 1 .. head - tail |-> buffer[tail + i - 1]]
  BY DEF P!Stored
<1>4. P!Stored = [i \in 1 .. head - tail |-> tail + i]
  BY <1>2, <1>3, Zenon
<1> QED BY <1>4 DEF Bytes

LEMMA StoredNext == ASSUME PipeInv', InTurn' PROVE P!Stored' = Bytes(tail', head')
<1>1. /\ tail' \in Nat /\ head' \in Nat /\ tail' <= head'
      /\ \A j \in 0 .. head' - 1 : buffer'[j] = j + 1
  BY DEF PipeInv, PipeTypes, P!EndsInside, WriterInv, InTurn
<1>2. ASSUME NEW i \in 1 .. head' - tail' PROVE buffer'[tail' + i - 1] = tail' + i
  <2>1. tail' + i - 1 \in 0 .. head' - 1 /\ (tail' + i - 1) + 1 = tail' + i
    BY <1>1, Place
  <2> QED BY <1>1, <2>1
<1>3. P!Stored' = [i \in 1 .. head' - tail' |-> buffer'[tail' + i - 1]]
  BY DEF P!Stored
<1>4. P!Stored' = [i \in 1 .. head' - tail' |-> tail' + i]
  BY <1>2, <1>3, Zenon
<1> QED BY <1>4 DEF Bytes

LEMMA PublishPuts ==
  ASSUME PipeInv, PipeInv', P!Publish, InTurn
  PROVE  P!Abstract!Put \/ UNCHANGED <<P!Stored, got>>
<1> DEFINE n == writer.count
<1>1. /\ n \in Nat /\ head \in Nat /\ tail \in Nat /\ tail <= head
      /\ head' = head + n /\ tail' = tail /\ got' = got /\ InTurn'
  BY WriterCopies DEF P!Publish, PipeInv, PipeTypes, P!EndsInside, InTurn
<1>2. P!Stored = Bytes(tail, head) /\ P!Stored' = Bytes(tail, head + n)
  BY <1>1, StoredBytes, StoredNext
<1> HIDE DEF n
<1>3. CASE n = 0
  <2>1. head + n = head
    BY <1>1, <1>3
  <2> QED BY <1>1, <1>2, <2>1
<1>4. CASE n # 0
  <2>1. /\ Len(P!Stored) = head - tail /\ Len(P!Stored') = head + n - tail
        /\ SubSeq(P!Stored', 1, head - tail) = Bytes(tail, tail + (head - tail))
    <3>1. head + n \in Nat /\ tail <= head + n /\ head - tail \in 0 .. head + n - tail
      BY <1>1
    <3>2. /\ Len(Bytes(tail, head)) = head - tail
          /\ Len(Bytes(tail, head + n)) = head + n - tail
      BY <1>1, <3>1, BytesLen
    <3>3. SubSeq(Bytes(tail, head + n), 1, head - tail) = Bytes(tail, tail + (head - tail))
      BY <1>1, <3>1, BytesCut
    <3> QED BY <1>2, <3>2, <3>3
  <2>2. tail + (head - tail) = head /\ head + n - tail > head - tail
    BY <1>1, <1>4
  <2> QED BY <1>1, <1>2, <2>1, <2>2 DEF P!Abstract!Put
<1> QED BY <1>3, <1>4

LEMMA AdvanceGets ==
  ASSUME PipeInv, PipeInv', P!ReadAdvance, InTurn
  PROVE  P!Abstract!Get \/ UNCHANGED <<P!Stored, got>>
<1> DEFINE n == reader.count s == reader.read
<1>1. /\ n \in Nat /\ s \in Seq(Nat) /\ DOMAIN s = 1 .. n /\ Len(s) = n
      /\ tail + n <= head /\ \A i \in 1 .. n : s[i] = tail + i
      /\ tail' = tail + n
  BY AdvanceFacts
<1>2. /\ tail \in Nat /\ head \in Nat /\ tail <= head /\ tail + n \in Nat /\ tail <= tail + n
      /\ n \in 0 .. head - tail
      /\ tail' = tail + n /\ head' = head /\ got' = got \o s /\ got \in Seq(Nat) /\ InTurn'
  <2>1. tail \in Nat /\ head \in Nat /\ tail <= head /\ got \in Seq(Nat)
    BY DEF PipeInv, PipeTypes, P!EndsInside, InTurn
  <2>2. head' = head /\ got' = got \o s /\ InTurn'
    BY DEF P!ReadAdvance, InTurn
  <2>3. n \in Nat /\ tail + n <= head /\ tail' = tail + n
    BY <1>1
  <2> HIDE DEF n, s
  <2>4. tail + n \in Nat /\ tail <= tail + n /\ n \in 0 .. head - tail
    BY <2>1, <2>3
  <2> QED BY <2>1, <2>2, <2>3, <2>4
<1>3. P!Stored = Bytes(tail, head) /\ P!Stored' = Bytes(tail + n, head)
  BY <1>2, StoredBytes, StoredNext
<1>4. s = Bytes(tail, tail + n)
  <2>1. s = [i \in 1 .. n |-> s[i]]
    BY <1>1, SeqElements
  <2>2. Bytes(tail, tail + n) = [i \in 1 .. n |-> tail + i]
    BY <1>1, <1>2, BytesFrom
  <2> HIDE DEF n, s
  <2> QED BY <1>1, <2>1, <2>2
<1> HIDE DEF n, s
<1>5. CASE n = 0
  <2>1. tail + n = tail
    BY <1>2, <1>5
  <2>2. s = <<>>
    BY <1>1, <1>5
  <2>3. got \o <<>> = got
    BY <1>2
  <2> QED BY <1>2, <1>3, <2>1, <2>2, <2>3
<1>6. CASE n # 0
  <2>1. /\ Len(P!Stored) = head - tail
        /\ SubSeq(P!Stored, 1, n) = s
        /\ SubSeq(P!Stored, n + 1, Len(P!Stored)) = P!Stored'
    <3>1. Len(Bytes(tail, head)) = head - tail
      BY <1>2, BytesLen
    <3>2. /\ SubSeq(Bytes(tail, head), 1, n) = Bytes(tail, tail + n)
          /\ SubSeq(Bytes(tail, head), n + 1, head - tail) = Bytes(tail + n, head)
      BY <1>2, BytesCut
    <3> QED BY <1>3, <1>4, <3>1, <3>2
  <2>2. n \in 1 .. Len(P!Stored)
    BY <1>1, <1>2, <1>6, <2>1
  <2> QED BY <1>2, <2>1, <2>2 DEF P!Abstract!Get
<1> QED BY <1>5, <1>6

LEMMA ChannelStep ==
  ASSUME PipeInv, PipeInv', P!Next, InTurn'
  PROVE  P!Abstract!Next \/ UNCHANGED <<P!Stored, got>>
<1>1. P!Publish \/ P!ReadAdvance \/ UNCHANGED <<head, tail, got>>
  BY DEF P!Next, P!Reader, P!Writer, P!Write, P!WriteSpins, P!Copy, P!Read, P!ReadCopy
<1>2. overread' = FALSE => overread = FALSE
  BY DEF P!Next, P!Reader, P!Writer, P!Write, P!WriteSpins, P!Copy, P!Publish, P!Read,
         P!ReadCopy, P!ReadAdvance, PipeInv, PipeTypes
<1>3. InTurn
  BY <1>2 DEF InTurn
<1>4. CASE UNCHANGED <<head, tail, got>>
  <2>1. P!Stored = Bytes(tail, head) /\ P!Stored' = Bytes(tail, head)
    BY <1>3, <1>4, StoredBytes, StoredNext
  <2> QED BY <1>4, <2>1
<1>5. CASE P!Publish
  BY <1>3, <1>5, PublishPuts DEF P!Abstract!Next
<1>6. CASE P!ReadAdvance
  BY <1>3, <1>6, AdvanceGets DEF P!Abstract!Next
<1> QED BY <1>1, <1>4, <1>5, <1>6

---------------------------------------------------------------------------
(* Keys and mouse packets for any number of keys, bytes, packets, reading  *)
(* threads and characters asked for: what getchar and getmouse hand on is  *)
(* what the interrupt handlers got, in order and each once, tty_read       *)
(* returns a line or as much as was asked for, and each byte of the mouse  *)
(* keeps its place.                                                        *)
THEOREM InputInOrderHolds == Spec => []InputInOrder
<1>1. Init => KeyInv /\ MouseInv
  BY KeyInit, MouseInit DEF Init
<1>2. KeyInv /\ MouseInv /\ [Next]_vars => KeyInv' /\ MouseInv'
  <2> SUFFICES ASSUME KeyInv, MouseInv, [Next]_vars PROVE KeyInv' /\ MouseInv'
    OBVIOUS
  <2>1. CASE KeyStep
    <3>1. I!KeyNext
      BY <2>1 DEF KeyStep
    <3>2. UNCHANGED <<mouse_keys, mouse_cycle, bytes, mouse, packets>>
      BY <3>1
         DEF I!KeyNext, I!kbd_handler, I!Reader, I!Load, I!Clear, I!Line, I!tty_read, I!mouseVars
    <3> QED BY <3>1, <3>2, KeyStepNext, MouseStable
  <2>2. CASE MouseStep
    <3>1. I!MouseNext
      BY <2>2 DEF MouseStep
    <3>2. UNCHANGED <<curr_key, keys, tty, text>>
      BY <3>1
         DEF I!MouseNext, I!mouse_handler, I!Mouser, I!getmouse, I!CopyByte, I!ClearByte, I!keyVars
    <3> QED BY <3>1, <3>2, MouseStepNext, KeyStable
  <2>3. CASE PipeStep \/ DiskStep \/ UNCHANGED vars
    <3>1. UNCHANGED inputVars
      BY <2>3 DEF PipeStep, DiskStep, vars
    <3> QED BY <3>1, KeyStable, MouseStable DEF inputVars
  <2> QED BY <2>1, <2>2, <2>3 DEF Next
<1>3. KeyInv => I!KeysInOrder /\ I!LineComplete
  <2> SUFFICES ASSUME KeyInv PROVE I!KeysInOrder /\ I!LineComplete
    OBVIOUS
  <2>1. I!KeysInOrder
    BY DEF KeyInv, OrderInv, ReaderInOrder, Increasing, I!KeysInOrder
  <2>2. I!LineComplete
    BY DEF KeyInv, LineInv, LineSoFar, I!LineComplete
  <2> QED BY <2>1, <2>2
<1>4. MouseInv => I!PacketsFramed /\ I!MovesOnce
  <2> SUFFICES ASSUME MouseInv PROVE I!PacketsFramed /\ I!MovesOnce
    OBVIOUS
  <2>1. Framed(mouse_keys) /\ \A k \in DOMAIN packets : Framed(packets[k])
    BY DEF MouseInv
  <2>2. I!PacketsFramed
    BY <2>1 DEF Framed, I!PacketsFramed
  <2> QED BY <2>2 DEF MouseInv
<1> QED BY <1>1, <1>2, <1>3, <1>4, PTL DEF Spec, InputInOrder

(* A pipe of any capacity, written and read in pieces of any size, is a    *)
(* channel until a read asks for more than is stored: pipe_read returns    *)
(* the bytes of pipe_write in order, each once, although the two threads   *)
(* share head and tail without a lock.  The two stay in the buffer even    *)
(* after such a read.                                                      *)
THEOREM PipeIsChannelHolds == Spec => PipeIsChannel
<1>1. Init => PipeInv
  BY PipeInit DEF Init
<1>2. Init => P!Abstract!Init
  <2> SUFFICES ASSUME Init PROVE P!Abstract!Init
    OBVIOUS
  <2>1. head = 0 /\ tail = 0 /\ got = <<>> /\ InTurn /\ PipeInv
    BY <1>1 DEF Init, P!Init, InTurn
  <2>2. P!Stored = Bytes(0, 0)
    BY <2>1, StoredBytes
  <2>3. Bytes(0, 0) = <<>>
    BY DEF Bytes
  <2> QED BY <2>1, <2>2, <2>3 DEF P!Abstract!Init
<1>3. PipeInv /\ [Next]_vars => PipeInv' /\ [P!Abstract!Next \/ overread']_<<P!Stored, got>>
  <2> SUFFICES ASSUME PipeInv, [Next]_vars
               PROVE  PipeInv' /\ (P!Abstract!Next \/ overread' \/ UNCHANGED <<P!Stored, got>>)
    OBVIOUS
  <2>1. CASE PipeStep
    <3>1. P!Next
      BY <2>1 DEF PipeStep
    <3>2. PipeInv'
      BY <3>1, PipeStepNext
    <3>3. ~overread' => InTurn'
      BY <3>2 DEF InTurn, PipeInv, PipeTypes
    <3> QED BY <3>1, <3>2, <3>3, ChannelStep
  <2>2. CASE ~PipeStep
    <3>1. UNCHANGED <<buffer, head, tail, writer, reader, got, overread>>
      BY <2>2 DEF Next, DiskStep, KeyStep, MouseStep, vars, pipeVars
    <3>2. PipeInv'
      BY <3>1, PipeStable
    <3>3. UNCHANGED <<P!Stored, got>>
      BY <3>1 DEF P!Stored
    <3> QED BY <3>2, <3>3
  <2> QED BY <2>1, <2>2
<1>4. PipeInv => P!InOrder /\ P!EndsInside
  BY DEF PipeInv
<1> QED BY <1>1, <1>2, <1>3, <1>4, PTL DEF Spec, PipeIsChannel, P!ImplementsChannel

---------------------------------------------------------------------------
(* The disk: DiskProofs shows its invariant for the disk alone.            *)

DP == INSTANCE DiskProofs WITH Counts <- SectorCounts

LEMMA SameDisk ==
  /\ D!Init = DP!Init
  /\ D!Next = DP!Next
  /\ DP!DoneRight = D!DoneRight /\ DP!OthersKept = D!OthersKept
  /\ DP!DevicesMatch = D!DevicesMatch /\ DP!BaseMoved = D!BaseMoved
<1>1. D!Init = DP!Init
  BY DEF D!Init, DP!Init, D!NoCommand, DP!NoCommand, D!At, DP!At
<1>2. D!Hba = DP!Hba
  BY DEF D!Hba, DP!Hba, D!Engine, DP!Engine, D!Toggle, DP!Toggle, D!Run, DP!Run, D!Fail, DP!Fail,
         D!Span, DP!Span, D!Dma, DP!Dma, D!InBuffer, DP!InBuffer, D!Stale, DP!Stale,
         D!NoCommand, DP!NoCommand
<1>3. /\ D!ahci_stop_cmd_engine = DP!ahci_stop_cmd_engine /\ D!SetBase = DP!SetBase
      /\ D!ahci_start_cmd_engine = DP!ahci_start_cmd_engine
  BY DEF D!ahci_stop_cmd_engine, DP!ahci_stop_cmd_engine, D!SetBase, DP!SetBase,
         D!Stopped, DP!Stopped, D!ahci_start_cmd_engine, DP!ahci_start_cmd_engine, D!At, DP!At
<1>4. D!Probe = DP!Probe /\ D!Probed = DP!Probed
  BY DEF D!Probe, DP!Probe, D!Probed, DP!Probed, D!NoneLeft, DP!NoneLeft, D!Request, DP!Request,
         D!Stale, DP!Stale, D!At, DP!At
<1>5. D!ahci_find_cmdslot = DP!ahci_find_cmdslot
  BY DEF D!ahci_find_cmdslot, DP!ahci_find_cmdslot, D!FreeSlots, DP!FreeSlots, D!Min, DP!Min
<1>6. D!Issue = DP!Issue /\ D!Wait = DP!Wait /\ D!Return = DP!Return
  BY DEF D!Issue, DP!Issue, D!Wait, DP!Wait, D!Return, DP!Return, D!Filled, DP!Filled,
         D!LastEntry, DP!LastEntry, D!Dba, DP!Dba, D!At, DP!At
<1>7. \A d, lba, n, buf : /\ D!Read(d, lba, n, buf) = DP!Read(d, lba, n, buf)
                           /\ D!Write(d, lba, n, buf) = DP!Write(d, lba, n, buf)
  <2>1. \A d, lba, n, buf : D!Read(d, lba, n, buf) = DP!Read(d, lba, n, buf)
    BY DEF D!Read, DP!Read, D!Lba, DP!Lba, D!Request, DP!Request, D!Stale, DP!Stale
  <2>2. \A d, lba, n, buf : D!Write(d, lba, n, buf) = DP!Write(d, lba, n, buf)
    BY DEF D!Write, DP!Write, D!Lba, DP!Lba, D!Request, DP!Request
  <2> QED BY <2>1, <2>2
<1>8. D!Driver = DP!Driver
  BY <1>3, <1>4, <1>5, <1>6 DEF D!Driver, DP!Driver
<1>9. D!Next = DP!Next
  BY <1>2, <1>7, <1>8 DEF D!Next, DP!Next
<1>10. DP!DoneRight = D!DoneRight /\ DP!OthersKept = D!OthersKept /\ DP!BaseMoved = D!BaseMoved
  BY DEF D!DoneRight, DP!DoneRight, D!OthersKept, DP!OthersKept, D!Busy, DP!Busy,
         D!Asked, DP!Asked, D!BaseMoved, DP!BaseMoved, D!LastEntry, DP!LastEntry, D!Stale, DP!Stale
<1>11. DP!DevicesMatch = D!DevicesMatch
  BY DEF D!DevicesMatch, DP!DevicesMatch, D!Used, DP!Used, D!Cardinality, DP!Cardinality
<1> QED BY <1>1, <1>9, <1>10, <1>11

(* A sata_read or sata_write that reports success moved the first sectors  *)
(* asked for, as many as the last entry of its command table takes, and    *)
(* nothing else, through the devices that the probe found, and             *)
(* ahci_port_init moves the command list only while the engines stand      *)
(* still: for a disk, a table, requests and command slots of any number.   *)
THEOREM DiskExactHolds == Spec => []DiskExact
<1>1. Init => DP!DiskInv
  <2>1. DP!DiskConstants
    BY DiskAssumption, BufferAssumption DEF DP!DiskConstants
  <2> QED BY <2>1, SameDisk, DP!DiskInit DEF Init
<1>2. DP!DiskInv /\ [Next]_vars => DP!DiskInv'
  <2> SUFFICES ASSUME DP!DiskInv, [Next]_vars PROVE DP!DiskInv'
    OBVIOUS
  <2>1. CASE DiskStep
    BY <2>1, SameDisk, DP!DiskStepNext DEF DiskStep
  <2>2. CASE ~DiskStep
    <3>1. UNCHANGED <<table, medium, port, commands, devices, thread, memory, held, blind>>
      BY <2>2 DEF Next, PipeStep, KeyStep, MouseStep, vars, diskVars
    <3> QED BY <3>1, DP!DiskStable
  <2> QED BY <2>1, <2>2
<1>3. DP!DiskInv => DiskExact
  BY SameDisk, DP!DiskInvExact DEF DiskExact
<1> QED BY <1>1, <1>2, <1>3, PTL DEF Spec

---------------------------------------------------------------------------
(* Ranges of bytes: BlockDeviceProofs shows that the operators are exact.  *)

BP == INSTANCE BlockDeviceProofs

LEMMA SameRanges ==
  /\ BP!Ranges = B!Ranges
  /\ \A r : BP!ReadsRange(r) = B!ReadsRange(r) /\ BP!WritesRange(r) = B!WritesRange(r)
<1>1. BP!Image = B!Image /\ BP!Ranges = B!Ranges
  BY DEF BP!Ranges, B!Ranges, BP!Image, B!Image
<1>2. /\ \A s, a, n : BP!DevRead(s, a, n) = B!DevRead(s, a, n)
      /\ \A s, a, n, w : BP!DevWrite(s, a, n, w) = B!DevWrite(s, a, n, w)
      /\ \A a, n : BP!HeadLen(a, n) = B!HeadLen(a, n)
      /\ \A s, n : BP!Rest(s, n) = B!Rest(s, n)
      /\ \A s, n, w : BP!Patch(s, n, w) = B!Patch(s, n, w)
  BY DEF BP!DevRead, B!DevRead, BP!DevWrite, B!DevWrite, BP!HeadLen, B!HeadLen,
         BP!Smaller, B!Smaller, BP!Rest, B!Rest, BP!Patch, B!Patch
<1>3. ASSUME NEW s, NEW r
      PROVE  /\ BP!ReadHead(s, r) = B!ReadHead(s, r) /\ BP!ReadBlocks(s, r) = B!ReadBlocks(s, r)
             /\ BP!ReadTail(s, r) = B!ReadTail(s, r)
  BY <1>2 DEF BP!ReadHead, B!ReadHead, BP!ReadBlocks, B!ReadBlocks, BP!ReadTail, B!ReadTail
<1>4. ASSUME NEW r
      PROVE  /\ BP!WriteHead(r) = B!WriteHead(r) /\ BP!WriteBlocks(r) = B!WriteBlocks(r)
             /\ BP!WriteTail(r) = B!WriteTail(r)
  <2>1. BP!WriteHead(r) = B!WriteHead(r)
    BY <1>2 DEF BP!WriteHead, B!WriteHead
  <2>2. BP!WriteBlocks(r) = B!WriteBlocks(r)
    BY <1>2 DEF BP!WriteBlocks, B!WriteBlocks
  <2>3. BP!WriteTail(r) = B!WriteTail(r)
    BY <1>2 DEF BP!WriteTail, B!WriteTail
  <2> QED BY <2>1, <2>2, <2>3
<1>5. ASSUME NEW s, NEW a, NEW n PROVE BP!device_read(s, a, n) = B!device_read(s, a, n)
  BY <1>3 DEF BP!device_read, B!device_read
<1>6. ASSUME NEW s, NEW a, NEW w PROVE BP!device_write(s, a, w) = B!device_write(s, a, w)
  BY <1>4 DEF BP!device_write, B!device_write
<1>7. ASSUME NEW r PROVE BP!ReadsRange(r) = B!ReadsRange(r) /\ BP!WritesRange(r) = B!WritesRange(r)
  BY <1>1, <1>5, <1>6 DEF BP!ReadsRange, B!ReadsRange, BP!WritesRange, B!WritesRange
<1> QED BY <1>1, <1>7

(* device_read and device_write are exact for blocks of any size, a device *)
(* of any number of them and any range: device_read gives the bytes of the *)
(* range, device_write changes those and no other, wherever the range      *)
(* starts and ends in its first and last block.                            *)
THEOREM RangesExactHolds == Spec => []RangesExact
<1> DEFINE Ranged == scene = "range" => range \in B!Ranges
<1>1. Init => Ranged
  BY DEF Init
<1>2. Ranged /\ [Next]_vars => Ranged'
  BY SameRanges DEF Next, PipeStep, DiskStep, KeyStep, MouseStep, vars, B!Ranges, B!Image
<1>3. Ranged => RangesExact
  <2>1. BP!BlockConstants
    BY BlockAssumption DEF BP!BlockConstants
  <2>2. ASSUME NEW r \in B!Ranges PROVE B!ReadsRange(r) /\ B!WritesRange(r)
    BY <2>1, SameRanges, BP!RangeExact
  <2> QED BY <2>2 DEF RangesExact
<1> HIDE DEF Ranged
<1> QED BY <1>1, <1>2, <1>3, PTL DEF Spec
=============================================================================
