------------------------ MODULE BlockDeviceProofs ------------------------
(***************************************************************************)
(* device_read and device_write are exact for blocks of any size, a device *)
(* of any number of them and any range: the pieces they cut a range into   *)
(* (the rest of a first block, whole blocks, the start of a last one) join *)
(* to the range, whichever of them are empty.                              *)
(***************************************************************************)
EXTENDS BlockDevice, TLAPS

BlockConstants == block_size \in Nat \ {0} /\ Blocks \in Nat

LEMMA Euclid ==
  ASSUME NEW n \in Nat, NEW d \in Nat \ {0}
  PROVE  \E q \in Nat, p \in Nat, r \in 0 .. d - 1 :
           q = n \div d /\ p = q * d /\ r = n % d /\ n = p + r
<1>1. PICK q \in Nat : q = n \div d
  OBVIOUS
<1>2. PICK r \in 0 .. d - 1 : r = n % d
  OBVIOUS
<1>3. PICK p \in Nat : p = q * d
  OBVIOUS
<1>4. n - (n \div d) * d = n % d
  OBVIOUS
<1>5. n - p = r
  BY <1>1, <1>2, <1>3, <1>4, Zenon
<1>6. n = p + r
  BY <1>5
<1> QED BY <1>1, <1>2, <1>3, <1>6

LEMMA Multiple ==
  ASSUME NEW q \in Nat, NEW d \in Nat \ {0}
  PROVE  /\ q * d \in Nat /\ (q * d) % d = 0 /\ (q * d) \div d = q
         /\ (q + 1) * d = q * d + d
  OBVIOUS

LEMMA Distribute ==
  ASSUME NEW q \in Nat, NEW k \in Nat, NEW d \in Nat PROVE (q + k) * d = q * d + k * d
  OBVIOUS

LEMMA MultipleBelow ==
  ASSUME NEW q \in Nat, NEW b \in Nat, NEW d \in Nat \ {0}, q * d < d * b
  PROVE  q * d + d <= d * b
<1>1. CASE q < b
  <2>1. PICK k \in Nat : b = q + 1 + k
    <3>1. b - q - 1 \in Nat /\ b = q + 1 + (b - q - 1)
      BY <1>1
    <3> QED BY <3>1
  <2>2. d * b = q * d + d + k * d /\ k * d >= 0
    BY <2>1
  <2> QED BY <2>2
<1>2. CASE q >= b
  <2>1. PICK k \in Nat : q = b + k
    <3>1. q - b \in Nat /\ q = b + (q - b)
      BY <1>2
    <3> QED BY <3>1
  <2>2. q * d = d * b + k * d /\ k * d >= 0
    BY <2>1
  <2> QED BY <2>2
<1> QED BY <1>1, <1>2

(* The bytes of s from a up to b.                                          *)
Cut(s, a, b) == SubSeq(s, a + 1, b)

(* s with w written behind its first a bytes.                              *)
Over(s, a, w) == [i \in 1 .. Len(s) |-> IF i - a \in 1 .. Len(w) THEN w[i - a] ELSE s[i]]

LEMMA Same ==
  ASSUME NEW S, NEW s \in Seq(S), NEW t \in Seq(S), Len(s) = Len(t),
         \A i \in 1 .. Len(s) : s[i] = t[i]
  PROVE  s = t
  OBVIOUS

LEMMA ConcatIs ==
  ASSUME NEW S, NEW s \in Seq(S), NEW t \in Seq(S)
  PROVE  /\ s \o t \in Seq(S) /\ Len(s \o t) = Len(s) + Len(t)
         /\ \A i \in 1 .. Len(s) : (s \o t)[i] = s[i]
         /\ \A i \in 1 .. Len(t) : (s \o t)[Len(s) + i] = t[i]
  OBVIOUS

LEMMA CutsJoin ==
  ASSUME NEW S, NEW s \in Seq(S), NEW a \in Nat, NEW b \in Nat, NEW c \in Nat,
         a <= b, b <= c, c <= Len(s)
  PROVE  Cut(s, a, b) \o Cut(s, b, c) = Cut(s, a, c)
<1> DEFINE u == Cut(s, a, b) v == Cut(s, b, c) x == Cut(s, a, c) y == u \o v
<1>0. Len(s) \in Nat /\ b <= Len(s) /\ a <= c
  OBVIOUS
<1>1. u \in Seq(S) /\ Len(u) = b - a /\ \A i \in 1 .. b - a : u[i] = s[a + i]
  <2>1. u \in Seq(S) /\ Len(u) = b - a
    BY <1>0 DEF Cut
  <2>2. \A i \in 1 .. b - a : u[i] = s[a + i]
    BY <1>0 DEF Cut
  <2> QED BY <2>1, <2>2
<1>2. v \in Seq(S) /\ Len(v) = c - b /\ \A i \in 1 .. c - b : v[i] = s[b + i]
  <2>1. v \in Seq(S) /\ Len(v) = c - b
    BY <1>0 DEF Cut
  <2>2. \A i \in 1 .. c - b : v[i] = s[b + i]
    BY <1>0 DEF Cut
  <2> QED BY <2>1, <2>2
<1>3. x \in Seq(S) /\ Len(x) = c - a /\ \A i \in 1 .. c - a : x[i] = s[a + i]
  <2>1. x \in Seq(S) /\ Len(x) = c - a
    BY <1>0 DEF Cut
  <2>2. \A i \in 1 .. c - a : x[i] = s[a + i]
    BY <1>0 DEF Cut
  <2> QED BY <2>1, <2>2
<1> HIDE DEF u, v, x
<1>4. /\ y \in Seq(S) /\ Len(y) = (b - a) + (c - b)
      /\ \A i \in 1 .. b - a : y[i] = u[i]
      /\ \A i \in 1 .. c - b : y[(b - a) + i] = v[i]
  <2>1. /\ y \in Seq(S) /\ Len(y) = Len(u) + Len(v)
        /\ \A i \in 1 .. Len(u) : y[i] = u[i]
        /\ \A i \in 1 .. Len(v) : y[Len(u) + i] = v[i]
    <3>1. u \in Seq(S) /\ v \in Seq(S)
      BY <1>1, <1>2
    <3> QED BY <3>1, ConcatIs
  <2> QED BY <1>1, <1>2, <2>1
<1> HIDE DEF y
<1>5. Len(y) = Len(x)
  BY <1>3, <1>4
<1>6. ASSUME NEW i \in 1 .. c - a PROVE y[i] = x[i]
  <2>1. CASE i \in 1 .. b - a
    BY <1>1, <1>3, <1>4, <2>1
  <2>2. CASE i \notin 1 .. b - a
    <3>1. PICK j \in 1 .. c - b : i = (b - a) + j
      <4>1. i - (b - a) \in 1 .. c - b /\ i = (b - a) + (i - (b - a))
        BY <2>2
      <4> QED BY <4>1
    <3>2. b + j = a + i
      BY <3>1
    <3> QED BY <1>2, <1>3, <1>4, <3>1, <3>2
  <2> QED BY <2>1, <2>2
<1>7. y = x
  BY <1>3, <1>4, <1>5, <1>6, Same
<1> QED BY <1>7 DEF u, v, x, y

LEMMA CutOfCut ==
  ASSUME NEW S, NEW s \in Seq(S), NEW a \in Nat, NEW b \in Nat, NEW c \in Nat, NEW d \in Nat,
         a <= b, b <= Len(s), c <= d, a + d <= b
  PROVE  Cut(Cut(s, a, b), c, d) = Cut(s, a + c, a + d)
<1> DEFINE u == Cut(s, a, b) v == Cut(u, c, d) x == Cut(s, a + c, a + d)
<1>0. Len(s) \in Nat /\ a + c \in Nat /\ a + d \in Nat /\ a + c <= a + d /\ a + d <= Len(s)
  OBVIOUS
<1>1. u \in Seq(S) /\ Len(u) = b - a /\ \A i \in 1 .. b - a : u[i] = s[a + i]
  <2>1. u \in Seq(S) /\ Len(u) = b - a
    BY DEF Cut
  <2>2. \A i \in 1 .. b - a : u[i] = s[a + i]
    BY DEF Cut
  <2> QED BY <2>1, <2>2
<1>2. x \in Seq(S) /\ Len(x) = (a + d) - (a + c)
      /\ \A i \in 1 .. (a + d) - (a + c) : x[i] = s[(a + c) + i]
  <2>1. x \in Seq(S) /\ Len(x) = (a + d) - (a + c)
    BY <1>0 DEF Cut
  <2>2. \A i \in 1 .. (a + d) - (a + c) : x[i] = s[(a + c) + i]
    BY <1>0 DEF Cut
  <2> QED BY <2>1, <2>2
<1> HIDE DEF u, x
<1>3. d <= Len(u)
  BY <1>1
<1>4. v \in Seq(S) /\ Len(v) = d - c /\ \A i \in 1 .. d - c : v[i] = u[c + i]
  <2>1. u \in Seq(S)
    BY <1>1
  <2>2. v \in Seq(S) /\ Len(v) = d - c
    BY <1>3, <2>1 DEF Cut
  <2>3. \A i \in 1 .. d - c : v[i] = u[c + i]
    BY <1>3, <2>1 DEF Cut
  <2> QED BY <2>2, <2>3
<1> HIDE DEF v
<1>5. (a + d) - (a + c) = d - c
  OBVIOUS
<1>6. ASSUME NEW i \in 1 .. d - c PROVE v[i] = x[i]
  <2>1. c + i \in 1 .. b - a /\ a + (c + i) = (a + c) + i
    OBVIOUS
  <2> QED BY <1>1, <1>2, <1>4, <1>5, <2>1
<1>7. v = x
  BY <1>2, <1>4, <1>5, <1>6, Same
<1> QED BY <1>7 DEF u, v, x

LEMMA CutAll == ASSUME NEW S, NEW s \in Seq(S) PROVE Cut(s, 0, Len(s)) = s
  BY DEF Cut

LEMMA CutNone == ASSUME NEW S, NEW s \in Seq(S), NEW a \in Nat, a <= Len(s) PROVE Cut(s, a, a) = <<>>
  BY DEF Cut

LEMMA OverFacts ==
  ASSUME NEW S, NEW s \in Seq(S), NEW w \in Seq(S), NEW a \in Nat, a + Len(w) <= Len(s)
  PROVE  /\ Over(s, a, w) \in Seq(S) /\ Len(Over(s, a, w)) = Len(s)
         /\ \A i \in 1 .. Len(s) :
              Over(s, a, w)[i] = IF i - a \in 1 .. Len(w) THEN w[i - a] ELSE s[i]
<1>1. \A i \in 1 .. Len(s) : (IF i - a \in 1 .. Len(w) THEN w[i - a] ELSE s[i]) \in S
  OBVIOUS
<1>2. Over(s, a, w) \in [1 .. Len(s) -> S] /\ Len(s) \in Nat
  BY <1>1 DEF Over
<1>3. \A i \in 1 .. Len(s) :
        Over(s, a, w)[i] = IF i - a \in 1 .. Len(w) THEN w[i - a] ELSE s[i]
  BY DEF Over
<1>4. Over(s, a, w) \in Seq(S) /\ Len(Over(s, a, w)) = Len(s)
  BY <1>2
<1> QED BY <1>3, <1>4

LEMMA OverType ==
  ASSUME NEW S, NEW s \in Seq(S), NEW w \in Seq(S), NEW a \in Nat, a + Len(w) <= Len(s)
  PROVE  Over(s, a, w) \in Seq(S) /\ Len(Over(s, a, w)) = Len(s)
  BY OverFacts

LEMMA Splice ==
  ASSUME NEW S, NEW s \in Seq(S), NEW w \in Seq(S), NEW a \in Nat, a + Len(w) <= Len(s)
  PROVE  Cut(s, 0, a) \o w \o Cut(s, a + Len(w), Len(s)) = Over(s, a, w)
<1> DEFINE m == Len(w) n == Len(s) u == Cut(s, 0, a) v == Cut(s, a + m, n)
           uw == u \o w y == uw \o v x == Over(s, a, w)
<1>0. m \in Nat /\ n \in Nat /\ a + m \in Nat /\ a + m <= n /\ a <= n /\ 0 <= a /\ 0 \in Nat
  OBVIOUS
<1>1. u \in Seq(S) /\ Len(u) = a - 0 /\ \A i \in 1 .. a - 0 : u[i] = s[0 + i]
  <2>1. u \in Seq(S) /\ Len(u) = a - 0
    BY <1>0 DEF Cut
  <2>2. \A i \in 1 .. a - 0 : u[i] = s[0 + i]
    BY <1>0 DEF Cut
  <2> QED BY <2>1, <2>2
<1>2. v \in Seq(S) /\ Len(v) = n - (a + m) /\ \A i \in 1 .. n - (a + m) : v[i] = s[(a + m) + i]
  <2>1. v \in Seq(S) /\ Len(v) = n - (a + m)
    BY <1>0, n <= Len(s) DEF Cut
  <2>2. \A i \in 1 .. n - (a + m) : v[i] = s[(a + m) + i]
    BY <1>0, n <= Len(s) DEF Cut
  <2> QED BY <2>1, <2>2
<1>3. x \in Seq(S) /\ Len(x) = n /\ \A i \in 1 .. n : x[i] = IF i - a \in 1 .. m THEN w[i - a] ELSE s[i]
  BY OverFacts
<1> HIDE DEF u, v, x
<1>4. Len(u) = a /\ \A i \in 1 .. a : u[i] = s[i]
  BY <1>1
<1>5. /\ uw \in Seq(S) /\ Len(uw) = a + m /\ \A i \in 1 .. a : uw[i] = u[i]
      /\ \A i \in 1 .. m : uw[a + i] = w[i]
  <2>1. /\ uw \in Seq(S) /\ Len(uw) = Len(u) + Len(w)
        /\ \A i \in 1 .. Len(u) : uw[i] = u[i]
        /\ \A i \in 1 .. Len(w) : uw[Len(u) + i] = w[i]
    <3>1. u \in Seq(S) /\ w \in Seq(S)
      BY <1>1
    <3> QED BY <3>1, ConcatIs
  <2> QED BY <1>4, <2>1
<1> HIDE DEF uw
<1>6. /\ y \in Seq(S) /\ Len(y) = (a + m) + (n - (a + m)) /\ \A i \in 1 .. a + m : y[i] = uw[i]
      /\ \A i \in 1 .. n - (a + m) : y[(a + m) + i] = v[i]
  <2>1. /\ y \in Seq(S) /\ Len(y) = Len(uw) + Len(v)
        /\ \A i \in 1 .. Len(uw) : y[i] = uw[i]
        /\ \A i \in 1 .. Len(v) : y[Len(uw) + i] = v[i]
    <3>1. uw \in Seq(S) /\ v \in Seq(S)
      BY <1>2, <1>5
    <3> QED BY <3>1, ConcatIs
  <2> QED BY <1>2, <1>5, <2>1
<1> HIDE DEF y, m, n
<1>7. Len(y) = n
  BY <1>0, <1>6
<1>8. ASSUME NEW i \in 1 .. n PROVE y[i] = x[i]
  <2>1. CASE i \in 1 .. a
    <3>1. i \in 1 .. a + m /\ i - a \notin 1 .. m
      BY <1>0, <2>1
    <3> QED BY <1>3, <1>4, <1>5, <1>6, <2>1, <3>1
  <2>2. CASE i - a \in 1 .. m
    <3>1. PICK j \in 1 .. m : j = i - a
      BY <2>2
    <3>2. i = a + j /\ i \in 1 .. a + m
      BY <1>0, <3>1
    <3> QED BY <1>3, <1>5, <1>6, <3>1, <3>2
  <2>3. CASE i - (a + m) \in 1 .. n - (a + m)
    <3>1. PICK j \in 1 .. n - (a + m) : j = i - (a + m)
      BY <2>3
    <3>2. i = (a + m) + j /\ i - a \notin 1 .. m
      BY <1>0, <3>1
    <3> QED BY <1>2, <1>3, <1>6, <3>1, <3>2
  <2>4. i \in 1 .. a \/ i - a \in 1 .. m \/ i - (a + m) \in 1 .. n - (a + m)
    BY <1>0
  <2> QED BY <2>1, <2>2, <2>3, <2>4
<1>9. y = x
  BY <1>3, <1>6, <1>7, <1>8, Same
<1> QED BY <1>9 DEF m, n, u, v, uw, x, y

LEMMA BlockOf ==
  ASSUME BlockConstants, NEW a \in Nat, a < block_size * Blocks
  PROVE  \E q \in Nat, p \in Nat, r \in 0 .. block_size - 1 :
           /\ q = a \div block_size /\ p = q * block_size /\ r = a % block_size /\ a = p + r
           /\ (q + 1) * block_size = p + block_size /\ p + block_size <= block_size * Blocks
<1>1. block_size \in Nat \ {0} /\ Blocks \in Nat /\ block_size * Blocks \in Nat
  BY DEF BlockConstants
<1>2. PICK q \in Nat, p \in Nat, r \in 0 .. block_size - 1 :
        q = a \div block_size /\ p = q * block_size /\ r = a % block_size /\ a = p + r
  BY <1>1, Euclid
<1>3. (q + 1) * block_size = p + block_size
  BY <1>1, <1>2, Multiple
<1>4. p < block_size * Blocks
  BY <1>1, <1>2
<1>5. p + block_size <= block_size * Blocks
  BY <1>1, <1>2, <1>4, MultipleBelow
<1> QED BY <1>2, <1>3, <1>5

LEMMA HeadLenIs ==
  ASSUME NEW a, NEW n \in Nat \ {0}, NEW r \in 0 .. block_size - 1, r = a % block_size,
         block_size \in Nat \ {0}
  PROVE  \E len \in 1 .. n : /\ len = HeadLen(a, n) /\ r + len <= block_size
                             /\ len = n \/ len = block_size - r
<1>1. ASSUME NEW z \in Nat \ {0}, NEW e \in 0 .. z - 1
      PROVE  LET len == Smaller(z - e, n)
             IN  len \in 1 .. n /\ e + len <= z /\ (len = n \/ len = z - e)
  BY DEF Smaller
<1>2. HeadLen(a, n) = Smaller(block_size - r, n)
  BY DEF HeadLen
<1> QED BY <1>1, <1>2

(* The state of device_read after a piece: the bytes up to c are read.     *)
ReadTo(s, a, n, c) == [start |-> c, count |-> a + n - c, buf |-> Cut(s, a, c)]

LEMMA ReadHeadIs ==
  ASSUME BlockConstants, NEW S, NEW s \in Seq(S), Len(s) = block_size * Blocks,
         NEW a \in Nat, NEW n \in Nat \ {0}, a + n <= Len(s)
  PROVE  \E c \in a .. a + n :
           /\ ReadHead(s, [start |-> a, count |-> n, buf |-> <<>>]) = ReadTo(s, a, n, c)
           /\ c = a + n \/ c % block_size = 0
<1> DEFINE r0 == [start |-> a, count |-> n, buf |-> <<>>]
<1>0. block_size \in Nat \ {0} /\ Len(s) \in Nat /\ a < block_size * Blocks
  BY DEF BlockConstants
<1>1. PICK q \in Nat, p \in Nat, r \in 0 .. block_size - 1 :
        /\ q = a \div block_size /\ p = q * block_size /\ r = a % block_size /\ a = p + r
        /\ (q + 1) * block_size = p + block_size /\ p + block_size <= block_size * Blocks
  BY <1>0, BlockOf
<1>2. CASE r = 0
  <2>1. ReadHead(s, r0) = r0
    BY <1>1, <1>2 DEF ReadHead
  <2>2. Cut(s, a, a) = <<>> /\ a + n - a = n
    BY <1>0, CutNone
  <2>3. r0 = ReadTo(s, a, n, a)
    BY <2>2 DEF ReadTo
  <2>4. a \in a .. a + n /\ a % block_size = 0
    BY <1>1, <1>2
  <2> QED BY <2>1, <2>3, <2>4
<1>3. CASE r # 0
  <2>1. PICK len \in 1 .. n : /\ len = HeadLen(a, n) /\ r + len <= block_size
                              /\ len = n \/ len = block_size - r
    BY <1>0, <1>1, HeadLenIs
  <2>2. DevRead(s, q, 1) = Cut(s, p, p + block_size)
    BY <1>1 DEF DevRead, Cut
  <2>3. ReadHead(s, r0) = [start |-> a + len, count |-> n - len,
                             buf |-> <<>> \o Cut(DevRead(s, q, 1), r, r + len)]
    BY <1>1, <1>3, <2>1 DEF ReadHead, Cut
  <2>4. Cut(DevRead(s, q, 1), r, r + len) = Cut(s, p + r, p + (r + len))
    <3>1. /\ r \in Nat /\ r + len \in Nat /\ r <= r + len /\ p + (r + len) <= p + block_size
          /\ p + block_size \in Nat /\ p <= p + block_size
      BY <1>0, <2>1
    <3>2. p + block_size <= Len(s)
      BY <1>1
    <3> QED BY <2>2, <3>1, <3>2, CutOfCut
  <2>5. p + (r + len) = a + len /\ a + len \in a .. a + n /\ n - len = a + n - (a + len)
    <3>1. a = p + r
      BY <1>1
    <3> QED BY <2>1, <3>1
  <2>6. <<>> \o Cut(s, a, a + len) = Cut(s, a, a + len)
    <3>1. Cut(s, a, a + len) \in Seq(S)
      BY <1>0, <2>5 DEF Cut
    <3> QED BY <3>1
  <2>7. ReadHead(s, r0) = ReadTo(s, a, n, a + len)
    BY <1>1, <2>3, <2>4, <2>5, <2>6 DEF ReadTo
  <2>8. len = n \/ (a + len) % block_size = 0
    <3>1. CASE len = block_size - r
      <4>1. a + len = (q + 1) * block_size /\ q + 1 \in Nat
        BY <1>0, <1>1, <3>1
      <4>2. ((q + 1) * block_size) % block_size = 0
        BY <1>0, <4>1, Multiple
      <4> QED BY <4>1, <4>2
    <3> QED BY <2>1, <3>1
  <2> QED BY <2>5, <2>7, <2>8
<1> QED BY <1>2, <1>3

LEMMA ReadBlocksIs ==
  ASSUME BlockConstants, NEW S, NEW s \in Seq(S), Len(s) = block_size * Blocks,
         NEW a \in Nat, NEW n \in Nat \ {0}, a + n <= Len(s),
         NEW c \in a .. a + n, c = a + n \/ c % block_size = 0
  PROVE  \E d \in a .. a + n :
           /\ ReadBlocks(s, ReadTo(s, a, n, c)) = ReadTo(s, a, n, d)
           /\ a + n - d < block_size
           /\ d = a + n \/ d % block_size = 0
<1> DEFINE m == a + n - c r1 == ReadTo(s, a, n, c)
<1>0. block_size \in Nat \ {0} /\ Len(s) \in Nat /\ m \in Nat /\ c \in Nat
  BY DEF BlockConstants
<1>1. PICK k \in Nat, l \in Nat, e \in 0 .. block_size - 1 :
        k = m \div block_size /\ l = k * block_size /\ e = m % block_size /\ m = l + e
  BY <1>0, Euclid
<1>2. r1.start = c /\ r1.count = m /\ r1.buf = Cut(s, a, c)
  BY DEF ReadTo
<1>3. CASE k = 0
  <2>1. ReadBlocks(s, r1) = r1
    BY <1>1, <1>2, <1>3 DEF ReadBlocks
  <2>2. m < block_size
    <3>1. l = 0
      BY <1>0, <1>1, <1>3
    <3> QED BY <1>0, <1>1, <3>1
  <2> QED BY <2>1, <2>2
<1>4. CASE k # 0
  <2>1. l >= block_size /\ m # 0 /\ c # a + n
    <3>1. k \in Nat \ {0}
      BY <1>4
    <3>2. k * block_size >= block_size
      BY <1>0, <3>1
    <3> QED BY <1>0, <1>1, <3>2
  <2>2. c % block_size = 0 /\ c < block_size * Blocks
    BY <1>0, <2>1
  <2>3. PICK q \in Nat : q = c \div block_size /\ c = q * block_size
    <3>1. PICK q \in Nat, p \in Nat, r \in 0 .. block_size - 1 :
            q = c \div block_size /\ p = q * block_size /\ r = c % block_size /\ c = p + r
      BY <1>0, Euclid
    <3>2. c = p
      BY <2>2, <3>1
    <3> QED BY <3>1, <3>2
  <2>4. (q + k) * block_size = c + l
    <3>1. (q + k) * block_size = q * block_size + k * block_size
      BY <1>0, Distribute
    <3> QED BY <1>1, <2>3, <3>1
  <2>5. DevRead(s, q, k) = Cut(s, c, c + l)
    BY <2>3, <2>4 DEF DevRead, Cut
  <2>6. ReadBlocks(s, r1) = [start |-> c + l, count |-> m - l,
                               buf |-> Cut(s, a, c) \o DevRead(s, q, k)]
    BY <1>1, <1>2, <1>4, <2>3 DEF ReadBlocks
  <2>7. /\ c + l \in a .. a + n /\ c + l \in Nat /\ m - l = a + n - (c + l) /\ a + n - (c + l) < block_size
        /\ a <= c /\ c <= c + l /\ c + l <= Len(s)
    <3>1. a + n - (c + l) = e
      BY <1>0, <1>1
    <3> HIDE DEF m
    <3>2. m - l = a + n - (c + l) /\ c + l <= a + n
      BY <1>0, <1>1, <3>1 DEF m
    <3> QED BY <1>0, <1>1, <3>1, <3>2
  <2>8. Cut(s, a, c) \o Cut(s, c, c + l) = Cut(s, a, c + l)
    BY <1>0, <2>7, CutsJoin
  <2>9. ReadBlocks(s, r1) = ReadTo(s, a, n, c + l)
    BY <2>5, <2>6, <2>7, <2>8 DEF ReadTo
  <2>10. (c + l) % block_size = 0
    <3>1. q + k \in Nat
      OBVIOUS
    <3>2. ((q + k) * block_size) % block_size = 0
      BY <1>0, <3>1, Multiple
    <3> QED BY <2>4, <3>2
  <2> QED BY <2>7, <2>9, <2>10
<1> QED BY <1>3, <1>4

LEMMA ReadTailIs ==
  ASSUME BlockConstants, NEW S, NEW s \in Seq(S), Len(s) = block_size * Blocks,
         NEW a \in Nat, NEW n \in Nat \ {0}, a + n <= Len(s),
         NEW d \in a .. a + n, a + n - d < block_size, d = a + n \/ d % block_size = 0
  PROVE  ReadTail(s, ReadTo(s, a, n, d)) = Cut(s, a, a + n)
<1> DEFINE m == a + n - d r2 == ReadTo(s, a, n, d)
<1>0. block_size \in Nat \ {0} /\ Len(s) \in Nat /\ m \in 0 .. block_size - 1 /\ d \in Nat
  BY DEF BlockConstants
<1>1. m % block_size = m
  BY <1>0
<1>2. r2.start = d /\ r2.count = m /\ r2.buf = Cut(s, a, d)
  BY DEF ReadTo
<1>3. CASE m = 0
  <2>1. d = a + n
    BY <1>3
  <2> QED BY <1>1, <1>2, <1>3, <2>1 DEF ReadTail
<1>4. CASE m # 0
  <2>1. d % block_size = 0 /\ d < block_size * Blocks
    BY <1>0, <1>4
  <2>2. PICK q \in Nat, p \in Nat, r \in 0 .. block_size - 1 :
          /\ q = d \div block_size /\ p = q * block_size /\ r = d % block_size /\ d = p + r
          /\ (q + 1) * block_size = p + block_size /\ p + block_size <= block_size * Blocks
    BY <1>0, <2>1, BlockOf
  <2>3. d = p
    BY <2>1, <2>2
  <2>4. DevRead(s, q, 1) = Cut(s, d, d + block_size)
    BY <2>2, <2>3 DEF DevRead, Cut
  <2>5. ReadTail(s, r2) = Cut(s, a, d) \o Cut(DevRead(s, q, 1), 0, 0 + m)
    BY <1>1, <1>2, <1>4, <2>1, <2>2 DEF ReadTail, Cut
  <2>6. Cut(DevRead(s, q, 1), 0, 0 + m) = Cut(s, d + 0, d + (0 + m))
    <3>1. /\ 0 \in Nat /\ 0 + m \in Nat /\ 0 <= 0 + m /\ d + (0 + m) <= d + block_size
          /\ d + block_size \in Nat /\ d <= d + block_size /\ d + block_size <= Len(s)
      BY <1>0, <2>2, <2>3
    <3> QED BY <1>0, <2>4, <3>1, CutOfCut
  <2>7. d + 0 = d /\ d + (0 + m) = a + n /\ a <= d /\ d <= a + n /\ a + n \in Nat
    BY <1>0
  <2>8. Cut(s, a, d) \o Cut(s, d, a + n) = Cut(s, a, a + n)
    BY <1>0, <2>7, CutsJoin
  <2> QED BY <2>5, <2>6, <2>7, <2>8
<1> QED BY <1>3, <1>4

LEMMA ReadExact ==
  ASSUME BlockConstants, NEW S, NEW s \in Seq(S), Len(s) = block_size * Blocks,
         NEW a \in Nat, NEW n \in Nat \ {0}, a + n <= Len(s)
  PROVE  device_read(s, a, n) = Cut(s, a, a + n)
<1>1. PICK c \in a .. a + n :
        /\ ReadHead(s, [start |-> a, count |-> n, buf |-> <<>>]) = ReadTo(s, a, n, c)
        /\ c = a + n \/ c % block_size = 0
  BY ReadHeadIs
<1>2. PICK d \in a .. a + n :
        /\ ReadBlocks(s, ReadTo(s, a, n, c)) = ReadTo(s, a, n, d)
        /\ a + n - d < block_size
        /\ d = a + n \/ d % block_size = 0
  BY <1>1, ReadBlocksIs
<1>3. ReadTail(s, ReadTo(s, a, n, d)) = Cut(s, a, a + n)
  BY <1>2, ReadTailIs
<1> QED BY <1>1, <1>2, <1>3 DEF device_read

LEMMA OverOver ==
  ASSUME NEW S, NEW s \in Seq(S), NEW w \in Seq(S), NEW a \in Nat, a + Len(w) <= Len(s),
         NEW k \in Nat, NEW m \in Nat, k <= m, m <= Len(w)
  PROVE  Over(Over(s, a, Cut(w, 0, k)), a + k, Cut(w, k, m)) = Over(s, a, Cut(w, 0, m))
<1> DEFINE u == Cut(w, 0, k) v == Cut(w, k, m) z == Cut(w, 0, m)
           t == Over(s, a, u) x == Over(t, a + k, v) y == Over(s, a, z)
<1>0. Len(s) \in Nat /\ Len(w) \in Nat /\ k <= Len(w) /\ 0 <= k /\ 0 <= m /\ 0 \in Nat
  OBVIOUS
<1>1. u \in Seq(S) /\ Len(u) = k - 0 /\ \A i \in 1 .. k - 0 : u[i] = w[0 + i]
  <2>1. u \in Seq(S) /\ Len(u) = k - 0
    BY <1>0 DEF Cut
  <2>2. \A i \in 1 .. k - 0 : u[i] = w[0 + i]
    BY <1>0 DEF Cut
  <2> QED BY <2>1, <2>2
<1>2. v \in Seq(S) /\ Len(v) = m - k /\ \A i \in 1 .. m - k : v[i] = w[k + i]
  <2>1. v \in Seq(S) /\ Len(v) = m - k
    BY <1>0 DEF Cut
  <2>2. \A i \in 1 .. m - k : v[i] = w[k + i]
    BY <1>0 DEF Cut
  <2> QED BY <2>1, <2>2
<1>3. z \in Seq(S) /\ Len(z) = m - 0 /\ \A i \in 1 .. m - 0 : z[i] = w[0 + i]
  <2>1. z \in Seq(S) /\ Len(z) = m - 0
    BY <1>0 DEF Cut
  <2>2. \A i \in 1 .. m - 0 : z[i] = w[0 + i]
    BY <1>0 DEF Cut
  <2> QED BY <2>1, <2>2
<1> HIDE DEF u, v, z
<1>4. /\ u \in Seq(S) /\ Len(u) = k /\ a + Len(u) <= Len(s)
      /\ z \in Seq(S) /\ Len(z) = m /\ a + Len(z) <= Len(s)
  BY <1>0, <1>1, <1>3
<1>5. t \in Seq(S) /\ Len(t) = Len(s)
      /\ \A i \in 1 .. Len(s) : t[i] = IF i - a \in 1 .. Len(u) THEN u[i - a] ELSE s[i]
  BY <1>4, OverFacts
<1>6. y \in Seq(S) /\ Len(y) = Len(s)
      /\ \A i \in 1 .. Len(s) : y[i] = IF i - a \in 1 .. Len(z) THEN z[i - a] ELSE s[i]
  BY <1>4, OverFacts
<1> HIDE DEF t, y
<1>7. v \in Seq(S) /\ a + k \in Nat /\ (a + k) + Len(v) <= Len(t)
  BY <1>0, <1>2, <1>5
<1>8. x \in Seq(S) /\ Len(x) = Len(t)
      /\ \A i \in 1 .. Len(t) :
           x[i] = IF i - (a + k) \in 1 .. Len(v) THEN v[i - (a + k)] ELSE t[i]
  <2>1. t \in Seq(S)
    BY <1>5
  <2> QED BY <1>7, <2>1, OverFacts
<1> HIDE DEF x
<1>9. ASSUME NEW i \in 1 .. Len(s) PROVE x[i] = y[i]
  <2>1. CASE i - (a + k) \in 1 .. m - k
    <3>1. i - a \in 1 .. m - 0 /\ k + (i - (a + k)) = 0 + (i - a) /\ i - a \in 1 .. m
      BY <1>0, <2>1
    <3>2. x[i] = v[i - (a + k)] /\ y[i] = z[i - a]
      BY <1>2, <1>4, <1>5, <1>6, <1>8, <2>1, <3>1
    <3> QED BY <1>2, <1>3, <2>1, <3>1, <3>2
  <2>2. CASE i - a \in 1 .. k
    <3>1. i - a \in 1 .. k - 0 /\ i - a \in 1 .. m - 0 /\ i - a \in 1 .. m /\ i - (a + k) \notin 1 .. m - k
      BY <1>0, <2>2
    <3>2. x[i] = u[i - a] /\ y[i] = z[i - a]
      BY <1>2, <1>4, <1>5, <1>6, <1>8, <2>2, <3>1
    <3> QED BY <1>1, <1>3, <3>1, <3>2
  <2>3. CASE i - (a + k) \notin 1 .. m - k /\ i - a \notin 1 .. k
    <3>1. i - a \notin 1 .. m
      BY <1>0, <2>3
    <3> QED BY <1>2, <1>4, <1>5, <1>6, <1>8, <2>3, <3>1
  <2> QED BY <2>1, <2>2, <2>3
<1>10. x = y
  <2>1. x \in Seq(S) /\ y \in Seq(S) /\ Len(x) = Len(s) /\ Len(y) = Len(s)
    BY <1>5, <1>6, <1>8
  <2> QED BY <1>9, <2>1, Same
<1> QED BY <1>10 DEF u, v, z, t, x, y

LEMMA OverNone ==
  ASSUME NEW S, NEW s \in Seq(S), NEW w, NEW a \in Nat, Len(w) = 0
  PROVE  Over(s, a, w) = s
<1>1. \A i \in 1 .. Len(s) : i - a \notin 1 .. Len(w)
  OBVIOUS
<1>2. Over(s, a, w) = [i \in 1 .. Len(s) |-> s[i]]
  BY <1>1 DEF Over
<1> QED BY <1>2

LEMMA OverPart ==
  ASSUME NEW S, NEW t \in Seq(S), NEW w \in Seq(S), NEW p \in Nat, NEW z \in Nat, NEW r \in Nat,
         p + z <= Len(t), r + Len(w) <= z
  PROVE  /\ Over(Cut(t, p, p + z), r, w) \in Seq(S) /\ Len(Over(Cut(t, p, p + z), r, w)) = z
         /\ Over(t, p, Over(Cut(t, p, p + z), r, w)) = Over(t, p + r, w)
<1> DEFINE b == Cut(t, p, p + z) c == Over(b, r, w) x == Over(t, p, c) y == Over(t, p + r, w)
<1>0. Len(t) \in Nat /\ Len(w) \in Nat /\ p + z \in Nat /\ p <= p + z
  OBVIOUS
<1>2. b \in Seq(S) /\ Len(b) = (p + z) - p /\ \A i \in 1 .. (p + z) - p : b[i] = t[p + i]
  <2>1. b \in Seq(S) /\ Len(b) = (p + z) - p
    BY <1>0 DEF Cut
  <2>2. \A i \in 1 .. (p + z) - p : b[i] = t[p + i]
    BY <1>0 DEF Cut
  <2> QED BY <2>1, <2>2
<1> HIDE DEF b
<1>3. b \in Seq(S) /\ Len(b) = z /\ r + Len(w) <= Len(b)
  BY <1>0, <1>2
<1>5. /\ c \in Seq(S) /\ Len(c) = Len(b)
      /\ \A i \in 1 .. Len(b) : c[i] = IF i - r \in 1 .. Len(w) THEN w[i - r] ELSE b[i]
  <2>1. b \in Seq(S) /\ r + Len(w) <= Len(b)
    BY <1>3
  <2>2. c \in Seq(S) /\ Len(c) = Len(b)
    BY <2>1, OverType
  <2>3. \A i \in 1 .. Len(b) : c[i] = IF i - r \in 1 .. Len(w) THEN w[i - r] ELSE b[i]
    BY DEF Over
  <2> QED BY <2>2, <2>3
<1> HIDE DEF c
<1>6. c \in Seq(S) /\ Len(c) = z /\ p + Len(c) <= Len(t)
  BY <1>3, <1>5
<1>8. /\ x \in Seq(S) /\ Len(x) = Len(t)
      /\ \A i \in 1 .. Len(t) : x[i] = IF i - p \in 1 .. Len(c) THEN c[i - p] ELSE t[i]
  BY <1>6, OverFacts
<1>9. p + r \in Nat /\ (p + r) + Len(w) <= Len(t)
  BY <1>0
<1>10. /\ y \in Seq(S) /\ Len(y) = Len(t)
       /\ \A i \in 1 .. Len(t) : y[i] = IF i - (p + r) \in 1 .. Len(w) THEN w[i - (p + r)] ELSE t[i]
  BY <1>9, OverFacts
<1> HIDE DEF x, y
<1>11. ASSUME NEW i \in 1 .. Len(t) PROVE x[i] = y[i]
  <2>1. (i - p) - r = i - (p + r)
    BY <1>0
  <2>2. CASE i - p \in 1 .. z
    <3>1. c[i - p] = IF i - (p + r) \in 1 .. Len(w) THEN w[i - (p + r)] ELSE b[i - p]
      BY <1>3, <1>5, <2>1, <2>2
    <3>2. b[i - p] = t[i]
      <4>1. i - p \in 1 .. (p + z) - p /\ p + (i - p) = i
        BY <1>0, <2>2
      <4> QED BY <1>2, <4>1
    <3>3. x[i] = c[i - p]
      BY <1>6, <1>8, <2>2
    <3> QED BY <1>10, <3>1, <3>2, <3>3
  <2>3. CASE i - p \notin 1 .. z
    <3>1. i - (p + r) \notin 1 .. Len(w)
      BY <1>0, <2>3
    <3> QED BY <1>6, <1>8, <1>10, <2>3, <3>1
  <2> QED BY <2>2, <2>3
<1>12. x = y
  <2>1. x \in Seq(S) /\ y \in Seq(S) /\ Len(x) = Len(t) /\ Len(y) = Len(t)
    BY <1>8, <1>10
  <2> QED BY <1>11, <2>1, Same
<1> QED BY <1>6, <1>12 DEF b, c, x, y

LEMMA DevWriteIs ==
  ASSUME NEW S, NEW t \in Seq(S), NEW w \in Seq(S), NEW q \in Nat, NEW k \in Nat, NEW p \in Nat,
         p = q * block_size, (q + k) * block_size = p + Len(w), p + Len(w) <= Len(t)
  PROVE  DevWrite(t, q, k, w) = Over(t, p, w)
<1>1. Cut(t, 0, p) = SubSeq(t, 1, q * block_size)
  BY 0 + 1 = 1 DEF Cut
<1>2. Cut(t, p + Len(w), Len(t)) = SubSeq(t, (q + k) * block_size + 1, Len(t))
  BY Zenon DEF Cut
<1>3. DevWrite(t, q, k, w) = Cut(t, 0, p) \o w \o Cut(t, p + Len(w), Len(t))
  BY <1>1, <1>2, Zenon DEF DevWrite
<1> QED BY <1>3, Splice

LEMMA PatchedIs ==
  ASSUME BlockConstants, NEW S, NEW t \in Seq(S), NEW w \in Seq(S), NEW q \in Nat, NEW p \in Nat, NEW r \in Nat,
         p = q * block_size, (q + 1) * block_size = p + block_size,
         p + block_size <= Len(t), r + Len(w) <= block_size
  PROVE  DevWrite(t, q, 1, Patch(DevRead(t, q, 1), r, w)) = Over(t, p + r, w)
<1> DEFINE b == Cut(t, p, p + block_size) c == Over(b, r, w)
<1>0. /\ block_size \in Nat /\ p + block_size \in Nat /\ p <= p + block_size
  BY DEF BlockConstants
<1>1. DevRead(t, q, 1) = b
  BY Zenon DEF DevRead, Cut
<1>2. c \in Seq(S) /\ Len(c) = block_size /\ Over(t, p, c) = Over(t, p + r, w)
  BY <1>0, OverPart
<1>3. b \in Seq(S) /\ Len(b) = (p + block_size) - p
  BY <1>0 DEF Cut
<1> HIDE DEF b
<1>4. Patch(b, r, w) = c
  <2>1. Cut(b, 0, r) = SubSeq(b, 1, r)
    BY 0 + 1 = 1 DEF Cut
  <2>2. Patch(b, r, w) = Cut(b, 0, r) \o w \o Cut(b, r + Len(w), Len(b))
    BY <2>1, Zenon DEF Patch, Rest, Cut
  <2>3. r + Len(w) <= Len(b)
    BY <1>0, <1>3
  <2> QED BY <1>3, <2>2, <2>3, Splice
<1> HIDE DEF c
<1>5. DevWrite(t, q, 1, c) = Over(t, p, c)
  <2>1. (q + 1) * block_size = p + Len(c) /\ p + Len(c) <= Len(t)
    BY <1>2
  <2>2. c \in Seq(S) /\ 1 \in Nat
    BY <1>2
  <2> QED BY <2>1, <2>2, DevWriteIs
<1> QED BY <1>1, <1>2, <1>4, <1>5

(* The state of device_write after a piece: k bytes of w are written.      *)
WrittenTo(s, a, w, k) ==
  [start |-> a + k, buf |-> Cut(w, k, Len(w)), bytes |-> Over(s, a, Cut(w, 0, k))]

(* A piece written where the one before it ended.                          *)
LEMMA WriteGoesOn ==
  ASSUME NEW S, NEW s \in Seq(S), NEW w \in Seq(S), NEW a \in Nat, a + Len(w) <= Len(s),
         NEW k \in Nat, NEW l \in Nat, k + l <= Len(w)
  PROVE  LET r == WrittenTo(s, a, w, k) IN
         /\ r.bytes \in Seq(S) /\ Len(r.bytes) = Len(s) /\ Len(r.buf) = Len(w) - k
         /\ r.start = a + k /\ r.buf \in Seq(S)
         /\ Cut(r.buf, 0, l) \in Seq(S) /\ Len(Cut(r.buf, 0, l)) = l
         /\ [start |-> r.start + l, buf |-> Cut(r.buf, l, Len(r.buf)),
             bytes |-> Over(r.bytes, a + k, Cut(r.buf, 0, l))] = WrittenTo(s, a, w, k + l)
<1> DEFINE r == WrittenTo(s, a, w, k) n == Len(w)
<1>0. n \in Nat /\ Len(s) \in Nat /\ k <= n /\ 0 <= k /\ 0 \in Nat /\ l <= n - k /\ n - k \in Nat
      /\ k + l \in Nat /\ k <= k + l
  OBVIOUS
<1>1. r.start = a + k /\ r.buf = Cut(w, k, n) /\ r.bytes = Over(s, a, Cut(w, 0, k))
  BY DEF WrittenTo
<1> HIDE DEF r
<1>2. Cut(w, 0, k) \in Seq(S) /\ Len(Cut(w, 0, k)) = k - 0
  BY <1>0 DEF Cut
<1>3. a + Len(Cut(w, 0, k)) <= Len(s)
  BY <1>0, <1>2
<1>4. r.bytes \in Seq(S) /\ Len(r.bytes) = Len(s)
  BY <1>1, <1>2, <1>3, OverType
<1>5. r.buf \in Seq(S) /\ Len(r.buf) = n - k
  <2>1. Cut(w, k, n) \in Seq(S) /\ Len(Cut(w, k, n)) = n - k
    <3>1. n \in Nat /\ k <= n /\ n <= Len(w)
      BY <1>0
    <3> HIDE DEF n
    <3> QED BY <3>1 DEF Cut
  <2> QED BY <1>1, <2>1
<1>6. Cut(r.buf, 0, l) = Cut(w, k + 0, k + l)
  BY <1>0, <1>1, CutOfCut
<1>7. Cut(r.buf, l, n - k) = Cut(w, k + l, k + (n - k))
  <2>1. k + (n - k) <= n /\ n <= Len(w)
    BY <1>0
  <2> QED BY <1>0, <1>1, <2>1, CutOfCut
<1>8. k + 0 = k /\ k + (n - k) = n /\ (a + k) + l = a + (k + l) /\ (k + l) - k = l
  BY <1>0
<1>9. Cut(w, k, k + l) \in Seq(S) /\ Len(Cut(w, k, k + l)) = (k + l) - k
  BY <1>0 DEF Cut
<1>10. Over(r.bytes, a + k, Cut(w, k, k + l)) = Over(s, a, Cut(w, 0, k + l))
  BY <1>0, <1>1, OverOver
<1>11. [start |-> r.start + l, buf |-> Cut(r.buf, l, Len(r.buf)),
        bytes |-> Over(r.bytes, a + k, Cut(r.buf, 0, l))] = WrittenTo(s, a, w, k + l)
  BY <1>1, <1>5, <1>6, <1>7, <1>8, <1>10 DEF WrittenTo
<1> QED BY <1>1, <1>4, <1>5, <1>6, <1>8, <1>9, <1>11 DEF r

LEMMA WriteHeadIs ==
  ASSUME BlockConstants, NEW S, NEW s \in Seq(S), Len(s) = block_size * Blocks,
         NEW a \in Nat, NEW w \in Seq(S), Len(w) # 0, a + Len(w) <= Len(s)
  PROVE  \E k \in 0 .. Len(w) :
           /\ WriteHead([start |-> a, buf |-> w, bytes |-> s]) = WrittenTo(s, a, w, k)
           /\ k = Len(w) \/ (a + k) % block_size = 0
<1> DEFINE r0 == [start |-> a, buf |-> w, bytes |-> s] n == Len(w)
<1>0. block_size \in Nat \ {0} /\ Len(s) \in Nat /\ n \in Nat \ {0} /\ a < block_size * Blocks
  BY DEF BlockConstants
<1>1. r0 = WrittenTo(s, a, w, 0)
  <2>1. Cut(w, 0, n) = w /\ a + 0 = a
    BY CutAll
  <2>2. Cut(w, 0, 0) = <<>> /\ Len(<<>>) = 0
    BY <1>0, CutNone
  <2>3. Over(s, a, <<>>) = s
    BY <2>2, OverNone
  <2> QED BY <2>1, <2>2, <2>3 DEF WrittenTo
<1>2. PICK q \in Nat, p \in Nat, r \in 0 .. block_size - 1 :
        /\ q = a \div block_size /\ p = q * block_size /\ r = a % block_size /\ a = p + r
        /\ (q + 1) * block_size = p + block_size /\ p + block_size <= block_size * Blocks
  BY <1>0, BlockOf
<1>3. CASE r = 0
  <2>1. WriteHead(r0) = r0
    BY <1>2, <1>3 DEF WriteHead
  <2>2. 0 \in 0 .. n /\ (a + 0) % block_size = 0
    BY <1>0, <1>2, <1>3
  <2> QED BY <1>1, <2>1, <2>2
<1>4. CASE r # 0
  <2>1. PICK len \in 1 .. n : /\ len = HeadLen(a, n) /\ r + len <= block_size
                              /\ len = n \/ len = block_size - r
    BY <1>0, <1>2, HeadLenIs
  <2> DEFINE v == Cut(w, 0, len)
  <2>2. v = SubSeq(w, 1, len) /\ Rest(w, len) = Cut(w, len, n)
    BY 0 + 1 = 1 DEF Cut, Rest
  <2>3. WriteHead(r0) =
          [start |-> a + len, buf |-> Cut(w, len, n),
           bytes |-> DevWrite(s, q, 1, Patch(DevRead(s, q, 1), r, v))]
    BY <1>2, <1>4, <2>1, <2>2 DEF WriteHead
  <2>4. v \in Seq(S) /\ Len(v) = len - 0
    <3>1. 0 \in Nat /\ len \in Nat /\ 0 <= len /\ len <= Len(w)
      BY <1>0, <2>1
    <3> QED BY <3>1 DEF Cut
  <2> HIDE DEF v
  <2>5. r \in Nat /\ r + Len(v) <= block_size /\ p + block_size <= Len(s)
    BY <1>0, <1>2, <2>1, <2>4
  <2>6. DevWrite(s, q, 1, Patch(DevRead(s, q, 1), r, v)) = Over(s, p + r, v)
    <3>1. p = q * block_size /\ (q + 1) * block_size = p + block_size /\ v \in Seq(S)
      BY <1>2, <2>4
    <3> QED BY <2>5, <3>1, PatchedIs
  <2>7. WriteHead(r0) = WrittenTo(s, a, w, len)
    BY <1>2, <2>3, <2>6 DEF WrittenTo, v
  <2>8. len = n \/ (a + len) % block_size = 0
    <3>1. CASE len = block_size - r
      <4>1. a + len = (q + 1) * block_size /\ q + 1 \in Nat
        <5>1. a + len = p + block_size
          <6>1. a = p + r
            BY <1>2
          <6> QED BY <1>0, <3>1, <6>1
        <5>2. (q + 1) * block_size = p + block_size
          BY <1>2
        <5>3. q + 1 \in Nat
          OBVIOUS
        <5> QED BY <5>1, <5>2, <5>3, Zenon
      <4>2. ((q + 1) * block_size) % block_size = 0
        BY <1>0, <4>1, Multiple
      <4> QED BY <4>1, <4>2
    <3> QED BY <2>1, <3>1
  <2>9. len \in 0 .. n
    BY <2>1
  <2> QED BY <2>7, <2>8, <2>9
<1> QED BY <1>3, <1>4

LEMMA WriteBlocksIs ==
  ASSUME BlockConstants, NEW S, NEW s \in Seq(S), Len(s) = block_size * Blocks,
         NEW a \in Nat, NEW w \in Seq(S), a + Len(w) <= Len(s),
         NEW k \in 0 .. Len(w), k = Len(w) \/ (a + k) % block_size = 0
  PROVE  \E j \in 0 .. Len(w) :
           /\ WriteBlocks(WrittenTo(s, a, w, k)) = WrittenTo(s, a, w, j)
           /\ Len(w) - j < block_size
           /\ j = Len(w) \/ (a + j) % block_size = 0
<1> DEFINE n == Len(w) m == n - k r == WrittenTo(s, a, w, k)
<1>0. block_size \in Nat \ {0} /\ Len(s) \in Nat /\ n \in Nat /\ m \in Nat /\ k \in Nat /\ a + k \in Nat
  BY DEF BlockConstants
<1>1. PICK h \in Nat, l \in Nat, e \in 0 .. block_size - 1 :
        h = m \div block_size /\ l = h * block_size /\ e = m % block_size /\ m = l + e
  BY <1>0, Euclid
<1>2. k + l <= n /\ l <= m
  <2> HIDE DEF m
  <2>1. l <= m
    BY <1>0, <1>1
  <2> QED BY <1>0, <2>1 DEF m
<1>3. /\ r.bytes \in Seq(S) /\ Len(r.bytes) = Len(s) /\ Len(r.buf) = m
      /\ r.start = a + k
      /\ Cut(r.buf, 0, l) \in Seq(S) /\ Len(Cut(r.buf, 0, l)) = l
      /\ [start |-> r.start + l, buf |-> Cut(r.buf, l, Len(r.buf)),
          bytes |-> Over(r.bytes, a + k, Cut(r.buf, 0, l))] = WrittenTo(s, a, w, k + l)
  BY <1>0, <1>2, WriteGoesOn
<1> HIDE DEF r
<1>4. CASE h = 0
  <2>1. WriteBlocks(r) = r
    BY <1>1, <1>3, <1>4 DEF WriteBlocks
  <2>2. m < block_size
    <3>1. l = 0
      BY <1>0, <1>1, <1>4
    <3> QED BY <1>0, <1>1, <3>1
  <2> QED BY <2>1, <2>2 DEF r
<1>5. CASE h # 0
  <2>1. l >= block_size /\ m # 0 /\ k # n
    <3>1. h \in Nat \ {0}
      BY <1>5
    <3>2. h * block_size >= block_size
      BY <1>0, <3>1
    <3> QED BY <1>0, <1>1, <1>2, <3>2
  <2>2. (a + k) % block_size = 0
    BY <2>1
  <2>3. PICK q \in Nat : q = (a + k) \div block_size /\ a + k = q * block_size
    <3>1. PICK q \in Nat, p \in Nat, z \in 0 .. block_size - 1 :
            /\ q = (a + k) \div block_size /\ p = q * block_size /\ z = (a + k) % block_size
            /\ a + k = p + z
      BY <1>0, Euclid
    <3>2. a + k = p
      BY <2>2, <3>1
    <3> QED BY <3>1, <3>2
  <2>4. (q + h) * block_size = (a + k) + l
    <3>1. (q + h) * block_size = q * block_size + h * block_size
      BY <1>0, Distribute
    <3> QED BY <1>1, <2>3, <3>1
  <2> DEFINE v == Cut(r.buf, 0, l)
  <2>5. v = SubSeq(r.buf, 1, l) /\ Rest(r.buf, l) = Cut(r.buf, l, Len(r.buf))
    BY 0 + 1 = 1 DEF Cut, Rest
  <2>6. WriteBlocks(r) = [start |-> r.start + l, buf |-> Cut(r.buf, l, Len(r.buf)),
                            bytes |-> DevWrite(r.bytes, q, h, v)]
    BY <1>1, <1>3, <1>5, <2>3, <2>5 DEF WriteBlocks
  <2>7. v \in Seq(S) /\ Len(v) = l
    BY <1>3
  <2> HIDE DEF v
  <2>8. DevWrite(r.bytes, q, h, v) = Over(r.bytes, a + k, v)
    <3>1. (q + h) * block_size = (a + k) + Len(v) /\ (a + k) + Len(v) <= Len(r.bytes)
      BY <1>0, <1>2, <1>3, <2>4, <2>7
    <3>2. r.bytes \in Seq(S) /\ v \in Seq(S)
      BY <1>3, <2>7
    <3>3. a + k \in Nat /\ a + k = q * block_size
      BY <1>0, <2>3
    <3> QED BY <3>1, <3>2, <3>3, DevWriteIs
  <2>9. WriteBlocks(r) = WrittenTo(s, a, w, k + l)
    BY <1>3, <2>6, <2>8 DEF v
  <2>10. k + l \in 0 .. n /\ n - (k + l) < block_size
    <3>1. n - (k + l) = e
      <4>1. n = k + m
        BY <1>0
      <4> HIDE DEF m
      <4> QED BY <1>0, <1>1, <4>1
    <3>2. e < block_size /\ k + l \in Nat
      BY <1>0, <1>1
    <3> QED BY <1>0, <1>2, <3>1, <3>2
  <2>11. (a + (k + l)) % block_size = 0
    <3>1. q + h \in Nat
      OBVIOUS
    <3>2. ((q + h) * block_size) % block_size = 0
      BY <1>0, <3>1, Multiple
    <3>3. a + (k + l) = (a + k) + l
      BY <1>0, <1>1
    <3> QED BY <2>4, <3>2, <3>3
  <2> QED BY <2>9, <2>10, <2>11 DEF r
<1> QED BY <1>4, <1>5

LEMMA WriteTailIs ==
  ASSUME BlockConstants, NEW S, NEW s \in Seq(S), Len(s) = block_size * Blocks,
         NEW a \in Nat, NEW w \in Seq(S), a + Len(w) <= Len(s),
         NEW k \in 0 .. Len(w), Len(w) - k < block_size, k = Len(w) \/ (a + k) % block_size = 0
  PROVE  WriteTail(WrittenTo(s, a, w, k)) = Over(s, a, w)
<1> DEFINE n == Len(w) m == n - k r == WrittenTo(s, a, w, k)
<1>0. /\ block_size \in Nat \ {0} /\ Len(s) \in Nat /\ n \in Nat /\ m \in Nat /\ k \in Nat
      /\ a + k \in Nat /\ m < block_size /\ k + m = n
      /\ k + m <= Len(w)
  BY DEF BlockConstants
<1>1. /\ r.bytes \in Seq(S) /\ Len(r.bytes) = Len(s) /\ Len(r.buf) = m /\ r.start = a + k
      /\ r.buf \in Seq(S)
      /\ Over(r.bytes, a + k, Cut(r.buf, 0, m)) = WrittenTo(s, a, w, n).bytes
  <2>1. k \in Nat /\ m \in Nat /\ k + m <= Len(w)
    BY <1>0
  <2> HIDE DEF m
  <2>2. /\ r.bytes \in Seq(S) /\ Len(r.bytes) = Len(s) /\ Len(r.buf) = Len(w) - k
        /\ r.start = a + k /\ r.buf \in Seq(S)
        /\ [start |-> r.start + m, buf |-> Cut(r.buf, m, Len(r.buf)),
            bytes |-> Over(r.bytes, a + k, Cut(r.buf, 0, m))] = WrittenTo(s, a, w, k + m)
    BY <2>1, WriteGoesOn
  <2> HIDE DEF r
  <2>3. Over(r.bytes, a + k, Cut(r.buf, 0, m)) = WrittenTo(s, a, w, k + m).bytes
    BY <2>2
  <2>4. Len(r.buf) = m
    BY <2>2 DEF m
  <2> QED BY <1>0, <2>2, <2>3, <2>4
<1>2. WrittenTo(s, a, w, n).bytes = Over(s, a, w) /\ Cut(r.buf, 0, m) = r.buf
  <2>1. Cut(w, 0, n) = w
    BY CutAll
  <2>2. Cut(r.buf, 0, m) = r.buf
    BY <1>1, CutAll
  <2> QED BY <2>1, <2>2 DEF WrittenTo
<1> HIDE DEF r, m
<1>3. CASE r.buf = <<>>
  <2>1. WriteTail(r) = r.bytes
    BY <1>3 DEF WriteTail
  <2>2. Len(r.buf) = 0
    BY <1>3
  <2>3. Over(r.bytes, a + k, r.buf) = r.bytes
    BY <1>0, <1>1, <2>2, OverNone
  <2> QED BY <1>1, <1>2, <2>1, <2>3 DEF r
<1>4. CASE r.buf # <<>>
  <2>1. m # 0
    BY <1>1, <1>4
  <2>2. (a + k) % block_size = 0 /\ a + k < block_size * Blocks
    BY <1>0, <2>1
  <2>3. PICK q \in Nat, p \in Nat, z \in 0 .. block_size - 1 :
          /\ q = (a + k) \div block_size /\ p = q * block_size /\ z = (a + k) % block_size
          /\ a + k = p + z
          /\ (q + 1) * block_size = p + block_size /\ p + block_size <= block_size * Blocks
    <3>1. PICK u \in Nat : u = a + k
      BY <1>0
    <3>2. u < block_size * Blocks
      BY <2>2, <3>1
    <3> QED BY <3>1, <3>2, BlockOf
  <2>4. a + k = p /\ p + 0 = p
    BY <2>2, <2>3
  <2>5. WriteTail(r) = DevWrite(r.bytes, q, 1, Patch(DevRead(r.bytes, q, 1), 0, r.buf))
    BY <1>1, <1>4, <2>3 DEF WriteTail
  <2>6. DevWrite(r.bytes, q, 1, Patch(DevRead(r.bytes, q, 1), 0, r.buf)) =
          Over(r.bytes, p + 0, r.buf)
    <3>1. p = q * block_size /\ (q + 1) * block_size = p + block_size
      BY <2>3
    <3>2. PICK t \in Seq(S), b \in Seq(S) : t = r.bytes /\ b = r.buf
      BY <1>1
    <3>3. p + block_size <= Len(t) /\ 0 + Len(b) <= block_size /\ 0 \in Nat
      BY <1>0, <1>1, <2>3, <3>2
    <3>4. DevWrite(t, q, 1, Patch(DevRead(t, q, 1), 0, b)) = Over(t, p + 0, b)
      BY <3>1, <3>3, PatchedIs
    <3> QED BY <3>2, <3>4
  <2> QED BY <1>1, <1>2, <2>4, <2>5, <2>6 DEF r
<1> QED BY <1>3, <1>4

LEMMA WriteExact ==
  ASSUME BlockConstants, NEW S, NEW s \in Seq(S), Len(s) = block_size * Blocks,
         NEW a \in Nat, NEW w \in Seq(S), Len(w) # 0, a + Len(w) <= Len(s)
  PROVE  device_write(s, a, w) = Over(s, a, w)
<1>1. PICK k \in 0 .. Len(w) :
        /\ WriteHead([start |-> a, buf |-> w, bytes |-> s]) = WrittenTo(s, a, w, k)
        /\ k = Len(w) \/ (a + k) % block_size = 0
  BY WriteHeadIs
<1>2. PICK j \in 0 .. Len(w) :
        /\ WriteBlocks(WrittenTo(s, a, w, k)) = WrittenTo(s, a, w, j)
        /\ Len(w) - j < block_size
        /\ j = Len(w) \/ (a + j) % block_size = 0
  BY <1>1, WriteBlocksIs
<1>3. WriteTail(WrittenTo(s, a, w, j)) = Over(s, a, w)
  BY <1>2, WriteTailIs
<1> QED BY <1>1, <1>2, <1>3 DEF device_write

LEMMA RangeExact ==
  ASSUME BlockConstants, NEW r \in Ranges PROVE ReadsRange(r) /\ WritesRange(r)
<1> DEFINE N == block_size * Blocks
<1>0. N \in Nat
  BY DEF BlockConstants
<1>1. Image \in Seq(Nat) /\ Len(Image) = N /\ DOMAIN Image = 1 .. N
  <2>1. Image \in [1 .. N -> Nat]
    BY DEF Image
  <2> HIDE DEF N
  <2> QED BY <1>0, <2>1
<1>2. PICK a \in Nat, n \in Nat \ {0} : a = r[1] /\ n = r[2] /\ a + n <= Len(Image)
  BY <1>0, <1>1 DEF Ranges
<1>3. ReadsRange(r)
  <2>1. device_read(Image, a, n) = Cut(Image, a, a + n)
    BY <1>1, <1>2, ReadExact
  <2> QED BY <1>2, <2>1 DEF ReadsRange, Cut
<1>4. WritesRange(r)
  <2> DEFINE w == [i \in 1 .. n |-> 100 + i]
  <2>1. w \in Seq(Nat) /\ Len(w) = n
    OBVIOUS
  <2>2. \A i \in 1 .. n : w[i] = 100 + i
    OBVIOUS
  <2> HIDE DEF w
  <2>3. device_write(Image, a, w) = Over(Image, a, w)
    BY <1>1, <1>2, <2>1, WriteExact
  <2>4. \A i \in 1 .. N : (IF i - a \in 1 .. Len(w) THEN w[i - a] ELSE Image[i]) =
                          (IF i - a \in 1 .. n THEN 100 + i - a ELSE Image[i])
    <3> HIDE DEF N
    <3> QED BY <1>0, <1>2, <2>1, <2>2
  <2>5. Over(Image, a, w) =
          [i \in DOMAIN Image |-> IF i - a \in 1 .. n THEN 100 + i - a ELSE Image[i]]
    BY <1>1, <2>4 DEF Over
  <2> QED BY <1>2, <2>3, <2>5 DEF WritesRange, w
<1> QED BY <1>3, <1>4
=============================================================================
