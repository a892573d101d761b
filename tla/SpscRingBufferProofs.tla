------------------------ MODULE SpscRingBufferProofs ------------------------
(***************************************************************************)
(* Proofs about SpscRingBuffer, for any capacity, any size of the header   *)
(* and any lengths of messages.                                            *)
(***************************************************************************)
EXTENDS SpscRingBuffer, SequenceTheorems, FunctionTheorems, FiniteSetTheorems,
        WellFoundedInduction, TLAPS

(* Induction with the property as a set.                                   *)
LEMMA LeastNumber ==
  ASSUME NEW T, T \subseteq Nat, T # {}
  PROVE  \E n \in T : \A m \in T : n <= m
<1> DEFINE R == OpToRel(<, Nat)
<1>1. IsWellFoundedOn(R, Nat)
  BY NatLessThanWellFounded
<1>2. \A x, y \in Nat : <<y, x>> \in R <=> y < x
  BY DEF OpToRel
<1> HIDE DEF R
<1>3. PICK x \in T : \A y \in T : ~ (<<y, x>> \in R)
  BY <1>1, WFMin
<1>4. ASSUME NEW y \in T PROVE x <= y
  <2>1. x \in Nat /\ y \in Nat
    OBVIOUS
  <2>2. ~(y < x)
    BY <1>2, <1>3, <2>1, Zenon
  <2> QED BY <2>1, <2>2
<1> QED
  BY <1>4

LEMMA Induction ==
  ASSUME NEW T, 0 \in T, \A n \in Nat : n \in T => n + 1 \in T
  PROVE  Nat \subseteq T
<1> DEFINE D == Nat \ T
<1>1. SUFFICES ASSUME D # {} PROVE FALSE
  OBVIOUS
<1>2. PICK x \in D : \A y \in D : x <= y
  BY <1>1, LeastNumber
<1>3. x \in Nat \ {0}
  BY <1>2
<1>4. x - 1 \in Nat /\ (x - 1) + 1 = x
  BY <1>3
<1>5. x - 1 \notin D
  BY <1>2, <1>4
<1> QED
  BY <1>2, <1>4, <1>5
-----------------------------------------------------------------------------
(* Arithmetic of the indices.                                              *)

LEMMA SizeFacts ==
  /\ Size \in Nat /\ Size > 1 /\ Size - 1 = Capacity
  /\ HeaderLen \in Nat /\ HeaderLen > 0
  /\ Radix \in Nat /\ Radix > 1
  /\ Lengths \subseteq Nat
  /\ 0 \in Slots /\ 0 \in Byte
BY SizeAssumption DEF SizeAssumption, Size, Slots, Byte

LEMMA ModForm ==
  ASSUME NEW x \in Nat
  PROVE  /\ x < Size => x % Size = x
         /\ Size <= x /\ x < 2 * Size => x % Size = x - Size
BY SizeFacts

LEMMA SlotForm ==
  ASSUME NEW a \in Slots, NEW i \in 0..Size
  PROVE  /\ Slot(a, i) = IF a + i < Size THEN a + i ELSE a + i - Size
         /\ Slot(a, i) \in Slots
BY SizeFacts, ModForm DEF Slot, Slots

LEMMA ReadableForm ==
  ASSUME NEW h \in Slots, NEW t \in Slots
  PROVE  /\ Readable(h, t) = IF t < h THEN t + Size - h ELSE t - h
         /\ Readable(h, t) \in 0..Size - 1
BY SizeFacts, ModForm DEF Readable, Slots

LEMMA WritableForm ==
  ASSUME NEW h \in Slots, NEW t \in Slots
  PROVE  Writable(h, t) = Size - 1 - Readable(h, t)
<1>1. Writable(h, t) = IF t < h THEN h - t - 1 ELSE h + Size - t - 1
  BY SizeFacts, ModForm DEF Writable, Slots
<1>2. Readable(h, t) = IF t < h THEN t + Size - h ELSE t - h
  BY ReadableForm
<1> QED
  BY <1>1, <1>2, SizeFacts DEF Slots

(* Two steps along the ring are one.                                       *)
LEMMA SlotSlot ==
  ASSUME NEW a \in Slots, NEW i \in 0..Size, NEW j \in 0..Size, i + j <= Size
  PROVE  Slot(Slot(a, i), j) = Slot(a, i + j)
<1> DEFINE s == Slot(a, i)
<1>1. s \in Slots /\ s = IF a + i < Size THEN a + i ELSE a + i - Size
  BY SlotForm
<1>2. i + j \in 0..Size
  BY SizeFacts
<1>3. Slot(a, i + j) = IF a + (i + j) < Size THEN a + (i + j) ELSE a + (i + j) - Size
  BY <1>2, SlotForm
<1> HIDE DEF s
<1>4. Slot(s, j) = IF s + j < Size THEN s + j ELSE s + j - Size
  BY <1>1, SlotForm
<1>5. Slot(s, j) = Slot(a, i + j)
  BY <1>1, <1>3, <1>4, SizeFacts DEF Slots
<1> QED
  BY <1>5 DEF s

(* The slots less than a round apart differ.                               *)
LEMMA SlotInjective ==
  ASSUME NEW a \in Slots, NEW i \in 0..Size - 1, NEW j \in 0..Size - 1,
         Slot(a, i) = Slot(a, j)
  PROVE  i = j
<1>1. i \in 0..Size /\ j \in 0..Size
  BY SizeFacts
<1>2. /\ Slot(a, i) = IF a + i < Size THEN a + i ELSE a + i - Size
      /\ Slot(a, j) = IF a + j < Size THEN a + j ELSE a + j - Size
  BY <1>1, SlotForm
<1>3. (IF a + i < Size THEN a + i ELSE a + i - Size)
        = (IF a + j < Size THEN a + j ELSE a + j - Size)
  BY <1>2
<1> QED
  BY <1>3, SizeFacts DEF Slots

(* tail_ is Readable slots after head_.                                    *)
LEMMA TailFromHead ==
  ASSUME NEW h \in Slots, NEW t \in Slots
  PROVE  /\ Readable(h, t) \in 0..Size
         /\ t = Slot(h, Readable(h, t))
         /\ Readable(h, t) = 0 <=> h = t
<1> DEFINE r == Readable(h, t)
<1>1. r = (IF t < h THEN t + Size - h ELSE t - h) /\ r \in 0..Size - 1
  BY ReadableForm
<1> HIDE DEF r
<1>2. r \in 0..Size
  BY <1>1, SizeFacts
<1>3. Slot(h, r) = IF h + r < Size THEN h + r ELSE h + r - Size
  BY <1>2, SlotForm
<1>4. t = Slot(h, r) /\ (r = 0 <=> h = t)
  BY <1>1, <1>3, SizeFacts DEF Slots
<1> QED
  BY <1>2, <1>4 DEF r

(* What is readable after either index has moved on.                       *)
LEMMA ReadableAfterPush ==
  ASSUME NEW h \in Slots, NEW t \in Slots, NEW k \in 0..Writable(h, t)
  PROVE  /\ Slot(t, k) \in Slots
         /\ Readable(h, Slot(t, k)) = Readable(h, t) + k
<1>1. k \in 0..Size /\ k <= Size - 1 - Readable(h, t)
  BY ReadableForm, WritableForm, SizeFacts
<1> DEFINE s == Slot(t, k)
<1>2. s \in Slots /\ s = IF t + k < Size THEN t + k ELSE t + k - Size
  BY <1>1, SlotForm
<1>3. Readable(h, t) = IF t < h THEN t + Size - h ELSE t - h
  BY ReadableForm
<1> HIDE DEF s
<1>4. Readable(h, s) = IF s < h THEN s + Size - h ELSE s - h
  BY <1>2, ReadableForm
<1>5. Readable(h, s) = Readable(h, t) + k
  BY <1>1, <1>2, <1>3, <1>4, SizeFacts DEF Slots
<1> QED
  BY <1>2, <1>5 DEF s

LEMMA ReadableAfterPop ==
  ASSUME NEW h \in Slots, NEW t \in Slots, NEW k \in 0..Readable(h, t)
  PROVE  /\ Slot(h, k) \in Slots
         /\ Readable(Slot(h, k), t) = Readable(h, t) - k
<1>1. k \in 0..Size /\ k <= Readable(h, t)
  BY ReadableForm, SizeFacts
<1> DEFINE s == Slot(h, k)
<1>2. s \in Slots /\ s = IF h + k < Size THEN h + k ELSE h + k - Size
  BY <1>1, SlotForm
<1>3. Readable(h, t) = IF t < h THEN t + Size - h ELSE t - h
  BY ReadableForm
<1> HIDE DEF s
<1>4. Readable(s, t) = IF t < s THEN t + Size - s ELSE t - s
  BY <1>2, ReadableForm
<1>5. Readable(s, t) = Readable(h, t) - k
  BY <1>1, <1>2, <1>3, <1>4, SizeFacts DEF Slots
<1> QED
  BY <1>2, <1>5 DEF s
-----------------------------------------------------------------------------
(* The length header.                                                      *)

LEMMA DivisionByRadix ==
  ASSUME NEW x \in Nat
  PROVE  /\ x \div Radix \in Nat /\ x % Radix \in Byte
         /\ x = (x \div Radix) * Radix + (x % Radix)
BY SizeFacts DEF Byte

(* The two recursive functions exist.                                      *)
LEMMA ShiftedExists ==
  ASSUME NEW len \in Nat, NEW N \in Nat
  PROVE  \E f : f = [k \in 0..N |-> IF k = 0 THEN len ELSE f[k - 1] \div Radix]
<1> DEFINE Ok(f, n) == f = [k \in 0..n |-> IF k = 0 THEN len ELSE f[k - 1] \div Radix]
           T == {n \in Nat : \E f : Ok(f, n)}
<1>1. 0 \in T
  <2> DEFINE g == [k \in 0..0 |-> len]
  <2>1. Ok(g, 0)
    OBVIOUS
  <2> QED BY <2>1
<1>2. ASSUME NEW n \in Nat, n \in T PROVE n + 1 \in T
  <2>1. PICK f : Ok(f, n)
    BY <1>2
  <2> DEFINE g == [k \in 0..(n + 1) |-> IF k = n + 1 THEN f[n] \div Radix ELSE f[k]]
  <2>2. ASSUME NEW k \in 0..(n + 1)
        PROVE  g[k] = IF k = 0 THEN len ELSE g[k - 1] \div Radix
    <3>1. CASE k = n + 1
      BY <3>1
    <3>2. CASE k \in 0..n
      BY <3>2, <2>1
    <3>3. k = n + 1 \/ k \in 0..n
      OBVIOUS
    <3> QED BY <3>1, <3>2, <3>3
  <2>3. Ok(g, n + 1)
    BY <2>2
  <2> HIDE DEF g, Ok
  <2>4. n + 1 \in Nat /\ \E h : Ok(h, n + 1)
    BY <2>3
  <2> QED BY <2>4
<1> HIDE DEF T
<1>3. Nat \subseteq T
  BY <1>1, <1>2, Induction
<1> QED
  BY <1>3 DEF T

LEMMA GatheredExists ==
  ASSUME NEW b, NEW N \in Nat
  PROVE  \E f : f = [k \in 0..N |-> IF k = 0 THEN 0 ELSE f[k - 1] * Radix + b[k - 1]]
<1> DEFINE Ok(f, n) == f = [k \in 0..n |-> IF k = 0 THEN 0 ELSE f[k - 1] * Radix + b[k - 1]]
           T == {n \in Nat : \E f : Ok(f, n)}
<1>1. 0 \in T
  <2> DEFINE g == [k \in 0..0 |-> 0]
  <2>1. Ok(g, 0)
    OBVIOUS
  <2> QED BY <2>1
<1>2. ASSUME NEW n \in Nat, n \in T PROVE n + 1 \in T
  <2>1. PICK f : Ok(f, n)
    BY <1>2
  <2> DEFINE g == [k \in 0..(n + 1) |-> IF k = n + 1 THEN f[n] * Radix + b[n] ELSE f[k]]
  <2>2. ASSUME NEW k \in 0..(n + 1)
        PROVE  g[k] = IF k = 0 THEN 0 ELSE g[k - 1] * Radix + b[k - 1]
    <3>1. CASE k = n + 1
      BY <3>1
    <3>2. CASE k \in 0..n
      BY <3>2, <2>1
    <3>3. k = n + 1 \/ k \in 0..n
      OBVIOUS
    <3> QED BY <3>1, <3>2, <3>3
  <2>3. Ok(g, n + 1)
    BY <2>2
  <2> HIDE DEF g, Ok
  <2>4. n + 1 \in Nat /\ \E h : Ok(h, n + 1)
    BY <2>3
  <2> QED BY <2>4
<1> HIDE DEF T
<1>3. Nat \subseteq T
  BY <1>1, <1>2, Induction
<1> QED
  BY <1>3 DEF T

LEMMA ShiftedDef ==
  ASSUME NEW len \in Nat
  PROVE  /\ Shifted(len)[0] = len
         /\ \A k \in 1..HeaderLen : Shifted(len)[k] = Shifted(len)[k - 1] \div Radix
<1> DEFINE f == Shifted(len)
<1>1. f = [k \in 0..HeaderLen |-> IF k = 0 THEN len ELSE f[k - 1] \div Radix]
  BY ShiftedExists, SizeFacts, Zenon DEF Shifted
<1> HIDE DEF f
<1>2. \A k \in 0..HeaderLen : f[k] = IF k = 0 THEN len ELSE f[k - 1] \div Radix
  BY <1>1
<1>3. f[0] = len /\ \A k \in 1..HeaderLen : f[k] = f[k - 1] \div Radix
  BY <1>2, SizeFacts
<1> QED
  BY <1>3 DEF f

LEMMA GatheredDef ==
  ASSUME NEW b
  PROVE  /\ Gathered(b)[0] = 0
         /\ \A k \in 1..HeaderLen : Gathered(b)[k] = Gathered(b)[k - 1] * Radix + b[k - 1]
<1> DEFINE f == Gathered(b)
<1>1. f = [k \in 0..HeaderLen |-> IF k = 0 THEN 0 ELSE f[k - 1] * Radix + b[k - 1]]
  BY GatheredExists, SizeFacts, Zenon DEF Gathered
<1> HIDE DEF f
<1>2. \A k \in 0..HeaderLen : f[k] = IF k = 0 THEN 0 ELSE f[k - 1] * Radix + b[k - 1]
  BY <1>1
<1>3. f[0] = 0 /\ \A k \in 1..HeaderLen : f[k] = f[k - 1] * Radix + b[k - 1]
  BY <1>2, SizeFacts
<1> QED
  BY <1>3 DEF f

LEMMA ShiftedType ==
  ASSUME NEW len \in Nat
  PROVE  \A k \in 0..HeaderLen : Shifted(len)[k] \in Nat
<1> DEFINE f == Shifted(len)
           T == {k \in Nat : k <= HeaderLen => f[k] \in Nat}
<1>1. f[0] = len /\ \A k \in 1..HeaderLen : f[k] = f[k - 1] \div Radix
  BY ShiftedDef
<1> HIDE DEF f
<1>2. 0 \in T
  BY <1>1
<1>3. ASSUME NEW k \in Nat, k \in T PROVE k + 1 \in T
  <2>1. SUFFICES ASSUME k + 1 <= HeaderLen PROVE f[k + 1] \in Nat
    OBVIOUS
  <2>2. f[k] \in Nat
    BY <1>3, <2>1, SizeFacts
  <2>3. k + 1 \in 1..HeaderLen /\ (k + 1) - 1 = k
    BY <2>1, SizeFacts
  <2>4. f[k + 1] = f[k] \div Radix
    BY <1>1, <2>3
  <2> QED BY <2>2, <2>4, DivisionByRadix
<1> HIDE DEF T
<1>4. Nat \subseteq T
  BY <1>2, <1>3, Induction
<1>5. \A k \in 0..HeaderLen : f[k] \in Nat
  BY <1>4, SizeFacts DEF T
<1> QED
  BY <1>5 DEF f

LEMMA GatheredType ==
  ASSUME NEW b, \A i \in 0..HeaderLen - 1 : b[i] \in Nat
  PROVE  Gathered(b)[HeaderLen] \in Nat
<1> DEFINE f == Gathered(b)
           T == {k \in Nat : k <= HeaderLen => f[k] \in Nat}
<1>1. f[0] = 0 /\ \A k \in 1..HeaderLen : f[k] = f[k - 1] * Radix + b[k - 1]
  BY GatheredDef
<1> HIDE DEF f
<1>2. 0 \in T
  BY <1>1
<1>3. ASSUME NEW k \in Nat, k \in T PROVE k + 1 \in T
  <2>1. SUFFICES ASSUME k + 1 <= HeaderLen PROVE f[k + 1] \in Nat
    OBVIOUS
  <2>2. f[k] \in Nat
    BY <1>3, <2>1, SizeFacts
  <2>3. k + 1 \in 1..HeaderLen /\ (k + 1) - 1 = k /\ k \in 0..HeaderLen - 1
    BY <2>1, SizeFacts
  <2>4. f[k + 1] = f[k] * Radix + b[k]
    BY <1>1, <2>3
  <2> QED BY <2>2, <2>3, <2>4, SizeFacts
<1> HIDE DEF T
<1>4. Nat \subseteq T
  BY <1>2, <1>3, Induction
<1>5. f[HeaderLen] \in Nat
  BY <1>4, SizeFacts DEF T
<1> QED
  BY <1>5 DEF f

LEMMA HeaderByteType ==
  ASSUME NEW len \in Nat, NEW i \in 0..HeaderLen - 1
  PROVE  HeaderByte(len, i) \in Byte
<1>1. HeaderLen - 1 - i \in 0..HeaderLen
  BY SizeFacts
<1>2. Shifted(len)[HeaderLen - 1 - i] \in Nat
  BY <1>1, ShiftedType
<1> QED
  BY <1>2, DivisionByRadix DEF HeaderByte

LEMMA EncodedType ==
  ASSUME NEW m \in Seq(Byte), NEW k \in 1..HeaderLen + Len(m)
  PROVE  Encoded(m)[k] \in Byte
<1>1. Encoded(m)[k] = IF k <= HeaderLen THEN HeaderByte(Len(m), k - 1) ELSE m[k - HeaderLen]
  BY DEF Encoded
<1>2. Len(m) \in Nat
  BY LenProperties
<1>3. CASE k <= HeaderLen
  <2>1. k - 1 \in 0..HeaderLen - 1
    BY <1>3, SizeFacts
  <2> QED BY <1>1, <1>2, <1>3, <2>1, HeaderByteType
<1>4. CASE ~(k <= HeaderLen)
  <2>1. k - HeaderLen \in 1..Len(m)
    BY <1>2, <1>4, SizeFacts
  <2>2. m[k - HeaderLen] \in Byte
    BY <2>1, ElementOfSeq
  <2> QED BY <1>1, <1>4, <2>2
<1> QED
  BY <1>3, <1>4

(* Pop gets back the length that Push stored.  After k bytes it has the    *)
(* length without its HeaderLen - k lower bytes.                           *)
LEMMA HeaderRoundTrip ==
  ASSUME NEW len \in Nat, Shifted(len)[HeaderLen] = 0,
         NEW b, \A i \in 0..HeaderLen - 1 : b[i] = HeaderByte(len, i)
  PROVE  Gathered(b)[HeaderLen] = len
<1> DEFINE f == Shifted(len)
           g == Gathered(b)
           T == {k \in Nat : k <= HeaderLen => g[k] = f[HeaderLen - k]}
<1>1. f[0] = len /\ \A k \in 1..HeaderLen : f[k] = f[k - 1] \div Radix
  BY ShiftedDef
<1>2. \A k \in 0..HeaderLen : f[k] \in Nat
  BY ShiftedType
<1>3. g[0] = 0 /\ \A k \in 1..HeaderLen : g[k] = g[k - 1] * Radix + b[k - 1]
  BY GatheredDef
<1>4. \A i \in 0..HeaderLen - 1 : b[i] = f[HeaderLen - 1 - i] % Radix
  BY DEF HeaderByte
<1>5. f[HeaderLen] = 0
  OBVIOUS
<1> HIDE DEF f, g
<1>6. 0 \in T
  BY <1>3, <1>5, SizeFacts
<1>7. ASSUME NEW k \in Nat, k \in T PROVE k + 1 \in T
  <2>1. SUFFICES ASSUME k + 1 <= HeaderLen PROVE g[k + 1] = f[HeaderLen - (k + 1)]
    OBVIOUS
  <2> DEFINE n == HeaderLen - (k + 1)
  <2>2. /\ k + 1 \in 1..HeaderLen /\ (k + 1) - 1 = k /\ k \in 0..HeaderLen - 1
        /\ n \in 0..HeaderLen /\ HeaderLen - 1 - k = n
        /\ n + 1 \in 1..HeaderLen /\ (n + 1) - 1 = n /\ HeaderLen - k = n + 1
    BY <2>1, SizeFacts
  <2> HIDE DEF n
  <2>3. g[k] = f[n + 1]
    <3>1. k <= HeaderLen
      BY <2>1, SizeFacts
    <3> QED BY <1>7, <2>2, <3>1
  <2>4. g[k + 1] = g[k] * Radix + b[k] /\ b[k] = f[n] % Radix
    BY <1>3, <1>4, <2>2
  <2>5. f[n + 1] = f[n] \div Radix /\ f[n] \in Nat
    BY <1>1, <1>2, <2>2
  <2>6. f[n] = (f[n] \div Radix) * Radix + (f[n] % Radix)
    BY <2>5, DivisionByRadix
  <2>7. g[k + 1] = f[n]
    BY <2>3, <2>4, <2>5, <2>6
  <2> QED BY <2>7 DEF n
<1> HIDE DEF T
<1>8. Nat \subseteq T
  BY <1>6, <1>7, Induction
<1>9. g[HeaderLen] = f[0]
  BY <1>8, SizeFacts DEF T
<1> QED
  BY <1>1, <1>9 DEF g
-----------------------------------------------------------------------------
(* What Pop makes of a buffer, with the buffer as a parameter.             *)

DecodeOf(buf, a) == Gathered([i \in 0..HeaderLen - 1 |-> buf[Slot(a, i)]])[HeaderLen]
MessageOf(buf, a) == [k \in 1..DecodeOf(buf, a) |-> buf[Slot(a, HeaderLen + k - 1)]]

LEMMA DecodeOfType ==
  ASSUME NEW buf \in [Slots -> Byte], NEW a \in Slots
  PROVE  DecodeOf(buf, a) \in Nat
<1> DEFINE b == [i \in 0..HeaderLen - 1 |-> buf[Slot(a, i)]]
<1>1. ASSUME NEW i \in 0..HeaderLen - 1 PROVE b[i] \in Nat
  <2>1. Slot(a, i) \in Slots
    BY SizeFacts DEF Slot, Slots
  <2> QED BY <2>1, SizeFacts DEF Byte
<1> HIDE DEF b
<1>2. Gathered(b)[HeaderLen] \in Nat
  BY <1>1, GatheredType
<1> QED
  BY <1>2 DEF b, DecodeOf

(* A message is read from its own slots only.                              *)
LEMMA DecodeOfSame ==
  ASSUME NEW buf, NEW new, NEW a,
         \A i \in 0..HeaderLen - 1 : new[Slot(a, i)] = buf[Slot(a, i)]
  PROVE  DecodeOf(new, a) = DecodeOf(buf, a)
<1>1. [i \in 0..HeaderLen - 1 |-> new[Slot(a, i)]] = [i \in 0..HeaderLen - 1 |-> buf[Slot(a, i)]]
  OBVIOUS
<1> QED
  BY <1>1, Zenon DEF DecodeOf

LEMMA MessageOfSame ==
  ASSUME NEW buf \in [Slots -> Byte], NEW new, NEW a \in Slots,
         \A i \in 0..HeaderLen + DecodeOf(buf, a) - 1 : new[Slot(a, i)] = buf[Slot(a, i)]
  PROVE  /\ DecodeOf(new, a) = DecodeOf(buf, a)
         /\ MessageOf(new, a) = MessageOf(buf, a)
<1> DEFINE l == DecodeOf(buf, a)
<1>1. l \in Nat
  BY DecodeOfType
<1>2. \A i \in 0..HeaderLen + l - 1 : new[Slot(a, i)] = buf[Slot(a, i)]
  OBVIOUS
<1> HIDE DEF l
<1>3. \A i \in 0..HeaderLen - 1 : new[Slot(a, i)] = buf[Slot(a, i)]
  BY <1>1, <1>2, SizeFacts
<1>4. DecodeOf(new, a) = l
  BY <1>3, DecodeOfSame DEF l
<1>5. ASSUME NEW k \in 1..l
      PROVE  new[Slot(a, HeaderLen + k - 1)] = buf[Slot(a, HeaderLen + k - 1)]
  <2>1. HeaderLen + k - 1 \in 0..HeaderLen + l - 1
    BY <1>1, SizeFacts
  <2> QED BY <1>2, <2>1
<1>6. [k \in 1..l |-> new[Slot(a, HeaderLen + k - 1)]] = [k \in 1..l |-> buf[Slot(a, HeaderLen + k - 1)]]
  BY <1>5
<1>7. MessageOf(new, a) = [k \in 1..l |-> new[Slot(a, HeaderLen + k - 1)]]
  BY <1>4, Zenon DEF MessageOf
<1>8. MessageOf(buf, a) = [k \in 1..l |-> buf[Slot(a, HeaderLen + k - 1)]]
  BY Zenon DEF MessageOf, l
<1> QED
  BY <1>4, <1>6, <1>7, <1>8, Zenon DEF l
-----------------------------------------------------------------------------
(* The inductive invariant.                                                *)

Types ==
  /\ buffer \in [Slots -> Byte] /\ head \in Slots /\ tail \in Slots
  /\ push \in [data : Seq(Byte), tail : Slots, i : Nat]
  /\ pop \in [stage : {"idle", "header", "data"}, head : Slots, len : Nat, data : Seq(Byte)]
  /\ tag \in Byte /\ last \in Seq(Byte)

(* The running Push: it has room for its message at tail_, and has written *)
(* the first of its bytes there.                                           *)
Writing ==
  push # NoPush =>
    /\ push.tail = tail /\ push.data \in Messages /\ Len(push.data) # 0
    /\ HeaderLen + Len(push.data) <= Writable(head, tail)
    /\ push.i <= HeaderLen + Len(push.data)
    /\ \A j \in 0..push.i - 1 : buffer[Slot(tail, j)] = Encoded(push.data)[j + 1]

(* The running Pop: it is at a message, knows its length and has read the  *)
(* first of its bytes.                                                     *)
Reading ==
  /\ pop.stage # "idle" => pop.head = head /\ head # tail
  /\ pop.stage = "header" => pop.data = << >>
  /\ pop.stage = "data" =>
       /\ pop.len = DecodeLen(head)
       /\ Len(pop.data) <= pop.len
       /\ \A k \in 1..Len(pop.data) : pop.data[k] = buffer[Slot(head, HeaderLen + k - 1)]

(* B, as distances from h, are places from the first readable byte to the  *)
(* end at each of which a message starts, and each but the last leads to   *)
(* the next by the length of its message.                                  *)
Cuts(buf, h, t, B) ==
  /\ B \subseteq 0..Readable(h, t)
  /\ 0 \in B /\ Readable(h, t) \in B
  /\ \A b \in B : b # Readable(h, t) =>
       /\ b + HeaderLen + DecodeOf(buf, Slot(h, b)) \in B
       /\ MessageOf(buf, Slot(h, b)) \in Messages

Framed == \E B : Cuts(buffer, head, tail, B)

IInv == Types /\ Writing /\ Reading /\ Framed

LEMMA Names ==
  /\ \A a : DecodeLen(a) = DecodeOf(buffer, a)
  /\ \A a : MessageAt(a) = MessageOf(buffer, a)
  /\ \A a : DecodeLen(a)' = DecodeOf(buffer', a)
  /\ \A a : MessageAt(a)' = MessageOf(buffer', a)
BY DEF DecodeLen, MessageAt, DecodeOf, MessageOf

LEMMA MessagesType ==
  ASSUME NEW m \in Messages
  PROVE  m \in Seq(Byte) /\ Len(m) \in Lengths
<1>1. PICK b \in Byte, len \in Lengths : m = Payload(b, len)
  BY DEF Messages
<1>2. len \in Nat
  BY SizeFacts
<1>3. m = [k \in 1..len |-> b]
  BY <1>1 DEF Payload
<1>4. m \in Seq(Byte)
  BY <1>2, <1>3, SeqDef
<1>5. Len(m) = len
  BY <1>2, <1>3, <1>4, LenProperties
<1> QED
  BY <1>4, <1>5

(* Push writes outside the messages in the ring: they stay what they are.  *)
LEMMA CutsSame ==
  ASSUME NEW buf \in [Slots -> Byte], NEW new, NEW h \in Slots, NEW t \in Slots, NEW B,
         Cuts(buf, h, t, B),
         \A i \in 0..Readable(h, t) - 1 : new[Slot(h, i)] = buf[Slot(h, i)]
  PROVE  /\ \A b \in B : b # Readable(h, t) =>
               /\ DecodeOf(new, Slot(h, b)) = DecodeOf(buf, Slot(h, b))
               /\ MessageOf(new, Slot(h, b)) = MessageOf(buf, Slot(h, b))
         /\ Cuts(new, h, t, B)
<1> DEFINE R == Readable(h, t)
<1>0. R \in 0..Size - 1
  BY ReadableForm
<1>1. B \subseteq 0..R /\ \A b \in B : b # R => b + HeaderLen + DecodeOf(buf, Slot(h, b)) \in B
  BY DEF Cuts
<1>2. \A i \in 0..R - 1 : new[Slot(h, i)] = buf[Slot(h, i)]
  OBVIOUS
<1> HIDE DEF R
<1>3. ASSUME NEW b \in B, b # R
      PROVE  /\ DecodeOf(new, Slot(h, b)) = DecodeOf(buf, Slot(h, b))
             /\ MessageOf(new, Slot(h, b)) = MessageOf(buf, Slot(h, b))
  <2> DEFINE a == Slot(h, b)
             l == DecodeOf(buf, a)
  <2>1. b \in 0..Size /\ b \in 0..R
    BY <1>0, <1>1, SizeFacts
  <2>2. a \in Slots
    BY <2>1, SlotForm
  <2>3. b + HeaderLen + l \in B
    BY <1>1, <1>3, Zenon
  <2>4. l \in Nat
    BY <2>2, DecodeOfType
  <2> HIDE DEF l
  <2>5. b + HeaderLen + l <= R
    <3>1. b + HeaderLen + l \in 0..R
      BY <1>1, <2>3
    <3> QED BY <1>0, <3>1
  <2>6. ASSUME NEW i \in 0..HeaderLen + l - 1 PROVE new[Slot(a, i)] = buf[Slot(a, i)]
    <3>1. i \in 0..Size /\ b + i \in 0..R - 1 /\ b + i <= Size
      BY <1>0, <2>1, <2>4, <2>5, SizeFacts
    <3>2. Slot(a, i) = Slot(h, b + i)
      BY <2>1, <3>1, SlotSlot
    <3> QED BY <1>2, <3>1, <3>2
  <2> HIDE DEF a
  <2>7. DecodeOf(new, a) = DecodeOf(buf, a) /\ MessageOf(new, a) = MessageOf(buf, a)
    BY <2>2, <2>6, MessageOfSame DEF l
  <2> QED BY <2>7 DEF a
<1>4. \A b \in B : b # Readable(h, t) =>
        /\ DecodeOf(new, Slot(h, b)) = DecodeOf(buf, Slot(h, b))
        /\ MessageOf(new, Slot(h, b)) = MessageOf(buf, Slot(h, b))
  BY <1>3 DEF R
<1>5. Cuts(new, h, t, B)
  BY <1>4, Zenon DEF Cuts
<1> QED
  BY <1>4, <1>5

(* Push adds its message behind the others.                                *)
LEMMA CutsPush ==
  ASSUME NEW buf \in [Slots -> Byte], NEW h \in Slots, NEW t \in Slots, NEW B,
         Cuts(buf, h, t, B),
         NEW m \in Messages, HeaderLen + Len(m) <= Writable(h, t),
         \A j \in 0..HeaderLen + Len(m) - 1 : buf[Slot(t, j)] = Encoded(m)[j + 1]
  PROVE  /\ DecodeOf(buf, t) = Len(m) /\ MessageOf(buf, t) = m
         /\ Cuts(buf, h, Slot(t, HeaderLen + Len(m)), B \cup {Readable(h, t) + HeaderLen + Len(m)})
<1> DEFINE L == Len(m)
           R == Readable(h, t)
           u == Slot(t, HeaderLen + L)
<1>1. m \in Seq(Byte) /\ L \in Lengths /\ L \in Nat
  BY MessagesType, SizeFacts
<1>2. R \in 0..Size - 1 /\ HeaderLen + L <= Size - 1 - R
  BY ReadableForm, WritableForm
<1>3. ASSUME NEW i \in 0..HeaderLen - 1 PROVE buf[Slot(t, i)] = HeaderByte(L, i)
  <2>1. i \in 0..HeaderLen + L - 1 /\ i + 1 \in 1..HeaderLen + L /\ i + 1 <= HeaderLen /\ (i + 1) - 1 = i
    BY <1>1, SizeFacts
  <2>2. Encoded(m)[i + 1] = HeaderByte(L, i)
    BY <2>1 DEF Encoded
  <2> QED BY <2>1, <2>2
<1>4. ASSUME NEW k \in 1..L PROVE buf[Slot(t, HeaderLen + k - 1)] = m[k]
  <2>1. /\ HeaderLen + k - 1 \in 0..HeaderLen + L - 1 /\ (HeaderLen + k - 1) + 1 = HeaderLen + k
        /\ HeaderLen + k \in 1..HeaderLen + L /\ ~(HeaderLen + k <= HeaderLen)
        /\ (HeaderLen + k) - HeaderLen = k
    BY <1>1, SizeFacts
  <2>2. Encoded(m)[HeaderLen + k] = m[k]
    BY <2>1 DEF Encoded
  <2> QED BY <2>1, <2>2
<1> HIDE DEF L, R
<1>5. DecodeOf(buf, t) = L
  <2> DEFINE b == [i \in 0..HeaderLen - 1 |-> buf[Slot(t, i)]]
  <2>1. \A i \in 0..HeaderLen - 1 : b[i] = HeaderByte(L, i)
    BY <1>3
  <2>2. Shifted(L)[HeaderLen] = 0
    <3>1. HeaderLen + L <= Capacity
      BY <1>1, <1>2, SizeFacts
    <3> QED BY <1>1, <3>1, HeaderAssumption DEF HeaderAssumption
  <2> HIDE DEF b
  <2>3. Gathered(b)[HeaderLen] = L
    BY <1>1, <2>1, <2>2, HeaderRoundTrip
  <2> QED BY <2>3 DEF DecodeOf, b
<1>6. MessageOf(buf, t) = m
  <2>1. MessageOf(buf, t) = [k \in 1..L |-> buf[Slot(t, HeaderLen + k - 1)]]
    BY <1>5, Zenon DEF MessageOf
  <2>2. m = [k \in 1..L |-> m[k]]
    BY <1>1, LenProperties DEF L
  <2>3. [k \in 1..L |-> buf[Slot(t, HeaderLen + k - 1)]] = [k \in 1..L |-> m[k]]
    BY <1>4
  <2> QED BY <2>1, <2>2, <2>3, Zenon
<1>7. Cuts(buf, h, u, B \cup {R + HeaderLen + L})
  <2> DEFINE N == R + HeaderLen + L
             C == B \cup {N}
  <2>1. /\ B \subseteq 0..R /\ 0 \in B /\ R \in B
        /\ \A b \in B : b # R => /\ b + HeaderLen + DecodeOf(buf, Slot(h, b)) \in B
                                /\ MessageOf(buf, Slot(h, b)) \in Messages
    BY Zenon DEF Cuts, R
  <2>2. Readable(h, u) = N
    <3>1. HeaderLen + L \in 0..Writable(h, t)
      BY <1>1, SizeFacts DEF L
    <3>2. Readable(h, u) = R + (HeaderLen + L)
      BY <3>1, ReadableAfterPush DEF R
    <3> QED BY <1>1, <1>2, <3>2, SizeFacts
  <2>3. Slot(h, R) = t
    BY TailFromHead DEF R
  <2>4. N \in Nat /\ R \in Nat /\ R < N
    BY <1>1, <1>2, SizeFacts
  <2> HIDE DEF N
  <2>5. C \subseteq 0..N /\ 0 \in C /\ N \in C
    <3>1. 0..R \subseteq 0..N /\ N \in 0..N
      BY <2>4
    <3> QED BY <2>1, <3>1, Zenon
  <2>6. ASSUME NEW b \in C, b # N
        PROVE  /\ b + HeaderLen + DecodeOf(buf, Slot(h, b)) \in C
               /\ MessageOf(buf, Slot(h, b)) \in Messages
    <3>1. CASE b = R
      <4>1. DecodeOf(buf, Slot(h, b)) = L /\ MessageOf(buf, Slot(h, b)) = m
        BY <1>5, <1>6, <2>3, <3>1, Zenon
      <4> QED BY <3>1, <4>1 DEF N
    <3>2. CASE b # R
      BY <2>1, <2>6, <3>2, Zenon
    <3> QED BY <3>1, <3>2
  <2> HIDE DEF C, u
  <2>7. \A b \in C : b # Readable(h, u) =>
          /\ b + HeaderLen + DecodeOf(buf, Slot(h, b)) \in C
          /\ MessageOf(buf, Slot(h, b)) \in Messages
    BY <2>2, <2>6, Zenon
  <2>8. Cuts(buf, h, u, C)
    BY <2>2, <2>5, <2>7, Zenon DEF Cuts
  <2> QED BY <2>8 DEF C, N
<1> QED
  BY <1>5, <1>6, <1>7 DEF L, R

(* Pop takes away the first message.                                       *)
LEMMA CutsPop ==
  ASSUME NEW buf \in [Slots -> Byte], NEW h \in Slots, NEW t \in Slots, NEW B,
         Cuts(buf, h, t, B), h # t
  PROVE  /\ HeaderLen + DecodeOf(buf, h) \in 0..Readable(h, t)
         /\ MessageOf(buf, h) \in Messages
         /\ \E C : Cuts(buf, Slot(h, HeaderLen + DecodeOf(buf, h)), t, C)
<1> DEFINE R == Readable(h, t)
           K == HeaderLen + DecodeOf(buf, h)
           s == Slot(h, K)
           C == {n \in 0..R - K : n + K \in B}
<1>1. R \in 0..Size - 1 /\ R # 0
  BY ReadableForm, TailFromHead
<1>2. /\ B \subseteq 0..R /\ 0 \in B /\ R \in B
      /\ \A b \in B : b # R => /\ b + HeaderLen + DecodeOf(buf, Slot(h, b)) \in B
                              /\ MessageOf(buf, Slot(h, b)) \in Messages
  BY Zenon DEF Cuts
<1>3. Slot(h, 0) = h
  BY SlotForm, SizeFacts DEF Slots
<1>4. DecodeOf(buf, h) \in Nat
  BY DecodeOfType
<1>5. 0 + HeaderLen + DecodeOf(buf, h) \in B /\ MessageOf(buf, h) \in Messages
  BY <1>1, <1>2, <1>3
<1>6. K \in B /\ K \in 0..R /\ K > 0
  BY <1>1, <1>2, <1>4, <1>5, SizeFacts
<1> HIDE DEF K, R
<1>7. s \in Slots /\ Readable(s, t) = R - K
  BY <1>6, ReadableAfterPop DEF R
<1>8. C \subseteq 0..R - K /\ 0 \in C /\ R - K \in C
  BY <1>1, <1>2, <1>6
<1>9. ASSUME NEW n \in C, n # R - K
      PROVE  /\ n + HeaderLen + DecodeOf(buf, Slot(s, n)) \in C
             /\ MessageOf(buf, Slot(s, n)) \in Messages
  <2>1. n \in 0..R - K /\ n + K \in B /\ n + K # R
    BY <1>1, <1>6, <1>9
  <2>2. Slot(s, n) = Slot(h, n + K)
    <3>1. K \in 0..Size /\ n \in 0..Size /\ K + n <= Size /\ K + n = n + K
      BY <1>1, <1>6, <2>1, SizeFacts
    <3> QED BY <3>1, SlotSlot
  <2> DEFINE l == DecodeOf(buf, Slot(s, n))
  <2>3. (n + K) + HeaderLen + l \in B /\ MessageOf(buf, Slot(s, n)) \in Messages
    BY <1>2, <2>1, <2>2, Zenon
  <2>4. l \in Nat
    <3>1. n \in 0..Size
      BY <1>1, <1>6, <2>1, SizeFacts
    <3>2. Slot(s, n) \in Slots
      BY <1>7, <3>1, SlotForm
    <3> QED BY <3>2, DecodeOfType
  <2> HIDE DEF l
  <2>5. (n + HeaderLen + l) + K \in B
    <3>1. (n + HeaderLen + l) + K = (n + K) + HeaderLen + l
      BY <1>1, <1>6, <2>1, <2>4, SizeFacts
    <3> QED BY <2>3, <3>1
  <2>6. n + HeaderLen + l \in 0..R - K
    <3>1. (n + HeaderLen + l) + K \in 0..R
      BY <1>2, <2>5
    <3> QED BY <1>1, <1>6, <2>1, <2>4, <3>1, SizeFacts
  <2>7. n + HeaderLen + l \in C
    BY <2>5, <2>6
  <2> QED BY <2>3, <2>7 DEF l
<1> HIDE DEF C, s
<1>10. Cuts(buf, s, t, C)
  BY <1>7, <1>8, <1>9, Zenon DEF Cuts
<1>11. \E D : Cuts(buf, s, t, D)
  BY <1>10
<1> QED
  BY <1>5, <1>6, <1>11 DEF s, K, R
-----------------------------------------------------------------------------
(* The invariant holds at first, and every action keeps it.                *)

LEMMA InitInv ==
  ASSUME Init
  PROVE  IInv
<1> USE SizeFacts DEF Init
<1>1. << >> \in Seq(Byte) /\ Len(<< >>) = 0
  OBVIOUS
<1>2. Types
  BY <1>1 DEF Types, NoPush, NoPop
<1>3. Writing /\ Reading
  BY <1>2 DEF Writing, Reading, NoPop
<1>4. Framed
  <2>1. Readable(head, tail) = 0
    BY TailFromHead
  <2>2. Cuts(buffer, head, tail, {0})
    BY <2>1 DEF Cuts
  <2> QED BY <2>2 DEF Framed
<1> QED
  BY <1>2, <1>3, <1>4 DEF IInv

LEMMA PushBeginInv ==
  ASSUME IInv, NEW len \in Lengths, PushBegin(len)
  PROVE  IInv'
<1> USE DEF IInv, PushBegin
<1> DEFINE m == Payload(tag, len)
<1>1. len \in Nat /\ len # 0 /\ HeaderLen + len <= Writable(head, tail)
  BY SizeFacts, ReadableForm, WritableForm DEF LengthOk, Fits, Types
<1>2. m \in Messages
  BY DEF Messages, Types
<1>3. m \in Seq(Byte) /\ Len(m) = len
  <2>1. m = [k \in 1..len |-> tag]
    BY DEF Payload
  <2>2. m \in Seq(Byte)
    BY <1>2, MessagesType
  <2> QED BY <1>1, <2>1, <2>2, LenProperties
<1> HIDE DEF m
<1>4. push' = [data |-> m, tail |-> tail, i |-> 0]
  BY DEF m
<1>5. Types'
  <2>1. (tag + 1) % Radix \in Byte
    BY SizeFacts DEF Types, Byte
  <2> QED BY <1>3, <1>4, <2>1 DEF Types, NextTag
<1>6. Writing'
  <2>1. push'.tail = tail /\ push'.data = m /\ push'.i = 0
    BY <1>4
  <2>2. 0 <= HeaderLen + len /\ 0..0 - 1 = {}
    BY <1>1, SizeFacts
  <2> QED BY <1>1, <1>2, <1>3, <2>1, <2>2 DEF Writing
<1>7. Reading'
  BY Names DEF Reading
<1>8. Framed'
  BY DEF Framed
<1> QED
  BY <1>5, <1>6, <1>7, <1>8

(* The slots before tail_ and the slots that Push may write are apart.     *)
LEMMA WritesApart ==
  ASSUME NEW h \in Slots, NEW t \in Slots, NEW j \in 0..Writable(h, t) - 1,
         NEW i \in 0..Readable(h, t) - 1
  PROVE  Slot(t, j) # Slot(h, i)
<1> DEFINE R == Readable(h, t)
<1>1. R \in 0..Size - 1 /\ j \in 0..(Size - 1 - R) - 1
  BY ReadableForm, WritableForm
<1>2. t = Slot(h, R)
  BY TailFromHead
<1>3. i \in 0..R - 1
  OBVIOUS
<1> HIDE DEF R
<1>4. /\ R \in 0..Size /\ j \in 0..Size /\ R + j <= Size
      /\ R + j \in 0..Size - 1 /\ i \in 0..Size - 1 /\ R + j # i
  BY <1>1, <1>3, SizeFacts
<1>5. Slot(t, j) = Slot(h, R + j)
  BY <1>2, <1>4, SlotSlot
<1> QED
  BY <1>4, <1>5, SlotInjective

LEMMA PushByteInv ==
  ASSUME IInv, PushByte
  PROVE  /\ IInv'
         /\ \A i \in 0..Readable(head, tail) - 1 : buffer'[Slot(head, i)] = buffer[Slot(head, i)]
<1> USE DEF IInv, PushByte
<1> DEFINE m == push.data
           K == HeaderLen + Len(m)
           W == Writable(head, tail)
<1>1. /\ push.tail = tail /\ m \in Messages /\ Len(m) # 0 /\ K <= W
      /\ push.i \in Nat /\ push.i < K
      /\ \A j \in 0..push.i - 1 : buffer[Slot(tail, j)] = Encoded(m)[j + 1]
  BY DEF Writing, Pushing, Types
<1>2. head \in Slots /\ tail \in Slots /\ buffer \in [Slots -> Byte]
  BY DEF Types
<1>3. m \in Seq(Byte) /\ Len(m) \in Lengths /\ Len(m) \in Nat
  BY <1>1, MessagesType, SizeFacts
<1>4. K \in Nat /\ W \in 0..Size - 1
  <2>1. W = Size - 1 - Readable(head, tail) /\ Readable(head, tail) \in 0..Size - 1
    BY <1>2, ReadableForm, WritableForm
  <2> QED BY <1>3, <2>1, SizeFacts
<1>5. push.i \in 0..W - 1 /\ push.i \in 0..Size - 1 /\ push.i \in 0..Size /\ push.i + 1 \in 1..K
  <2> HIDE DEF K, W
  <2> QED BY <1>1, <1>4, SizeFacts
<1>6. Slot(tail, push.i) \in Slots
  BY <1>2, <1>5, SlotForm
<1>7. Encoded(m)[push.i + 1] \in Byte
  BY <1>3, <1>5, EncodedType
<1>8. buffer' = [buffer EXCEPT ![Slot(tail, push.i)] = Encoded(m)[push.i + 1]]
  BY <1>1
<1>9. push' = [data |-> m, tail |-> tail, i |-> push.i + 1]
  BY <1>1 DEF Types
<1> HIDE DEF m, K, W
<1>10. Types'
  <2>1. buffer' \in [Slots -> Byte]
    BY <1>2, <1>6, <1>7, <1>8
  <2>2. push' \in [data : Seq(Byte), tail : Slots, i : Nat]
    BY ONLY <1>2, <1>3, <1>5, <1>9
  <2> QED BY <2>1, <2>2 DEF Types
<1>11. \A j \in 0..push.i : buffer'[Slot(tail, j)] = Encoded(m)[j + 1]
  <2> SUFFICES ASSUME NEW j \in 0..push.i PROVE buffer'[Slot(tail, j)] = Encoded(m)[j + 1]
    OBVIOUS
  <2>1. j \in 0..Size - 1 /\ j \in 0..Size
    BY <1>5, SizeFacts
  <2>2. Slot(tail, j) \in Slots
    BY <1>2, <2>1, SlotForm
  <2>3. CASE j = push.i
    BY <1>2, <1>6, <1>8, <2>3
  <2>4. CASE j # push.i
    <3>1. j \in 0..push.i - 1
      BY <1>5, <2>4
    <3>2. Slot(tail, j) # Slot(tail, push.i)
      BY <1>2, <1>5, <2>1, <2>4, SlotInjective
    <3> QED BY <1>1, <1>2, <1>8, <2>2, <3>1, <3>2
  <2> QED BY <2>3, <2>4
<1>12. Writing'
  <2>1. push'.tail = tail' /\ push'.data = m /\ push'.i = push.i + 1
    BY <1>9
  <2>2. push.i + 1 <= K
    BY <1>1, <1>4, <1>5
  <2>3. \A j \in 0..(push.i + 1) - 1 : buffer'[Slot(tail, j)] = Encoded(m)[j + 1]
    BY <1>5, <1>11
  <2> QED BY <1>1, <2>1, <2>2, <2>3 DEF Writing, K, W
<1>13. \A i \in 0..Readable(head, tail) - 1 : buffer'[Slot(head, i)] = buffer[Slot(head, i)]
  <2> SUFFICES ASSUME NEW i \in 0..Readable(head, tail) - 1
               PROVE  buffer'[Slot(head, i)] = buffer[Slot(head, i)]
    OBVIOUS
  <2>1. i \in 0..Size
    BY <1>2, ReadableForm, SizeFacts
  <2>2. Slot(head, i) \in Slots
    BY <1>2, <2>1, SlotForm
  <2>3. Slot(tail, push.i) # Slot(head, i)
    BY <1>2, <1>5, WritesApart DEF W
  <2> QED BY <1>2, <1>8, <2>2, <2>3
<1>14. PICK B : Cuts(buffer, head, tail, B)
  BY DEF Framed
<1>15. Cuts(buffer', head, tail, B)
  BY <1>2, <1>13, <1>14, CutsSame
<1>16. Framed'
  BY <1>15 DEF Framed
<1>17. Reading'
  <2>1. CASE pop.stage # "data"
    BY <2>1 DEF Reading
  <2>2. CASE pop.stage = "data"
    <3> DEFINE l == DecodeOf(buffer, head)
               R == Readable(head, tail)
    <3>1. /\ pop.head = head /\ head # tail
          /\ pop.len = l /\ Len(pop.data) <= pop.len
          /\ \A k \in 1..Len(pop.data) : pop.data[k] = buffer[Slot(head, HeaderLen + k - 1)]
      BY <2>2, Names DEF Reading
    <3>2. HeaderLen + l \in 0..R
      BY <1>2, <1>14, <3>1, CutsPop
    <3>3. R \in 0..Size - 1
      BY <1>2, ReadableForm
    <3>4. l \in Nat /\ Len(pop.data) \in Nat
      BY <1>2, DecodeOfType, LenProperties DEF Types
    <3> HIDE DEF l, R
    <3>5. \A i \in 0..HeaderLen - 1 : buffer'[Slot(head, i)] = buffer[Slot(head, i)]
      <4>1. \A i \in 0..HeaderLen - 1 : i \in 0..R - 1
        BY <3>2, <3>3, <3>4, SizeFacts
      <4> QED BY <1>13, <4>1 DEF R
    <3>6. DecodeOf(buffer', head) = l
      BY <3>5, DecodeOfSame DEF l
    <3>7. ASSUME NEW k \in 1..Len(pop.data)
          PROVE  pop.data[k] = buffer'[Slot(head, HeaderLen + k - 1)]
      <4>1. HeaderLen + k - 1 \in 0..R - 1
        BY <3>1, <3>2, <3>3, <3>4, SizeFacts
      <4> QED BY <1>13, <3>1, <4>1 DEF R
    <3> QED BY <2>2, <3>1, <3>6, <3>7, Names DEF Reading
  <2> QED BY <2>1, <2>2
<1> QED
  BY <1>10, <1>12, <1>13, <1>16, <1>17

(* What PushEnd publishes.                                                 *)
LEMMA PushEndFacts ==
  ASSUME IInv, PushEnd
  PROVE  /\ push.data \in Messages /\ Len(push.data) \in Nat
         /\ HeaderLen + Len(push.data) \in 0..Writable(head, tail)
         /\ tail' = Slot(tail, HeaderLen + Len(push.data))
         /\ \A j \in 0..HeaderLen + Len(push.data) - 1 :
              buffer[Slot(tail, j)] = Encoded(push.data)[j + 1]
<1>1. /\ push.data \in Messages /\ push.tail = tail
      /\ HeaderLen + Len(push.data) <= Writable(head, tail)
      /\ push.i = HeaderLen + Len(push.data)
      /\ \A j \in 0..push.i - 1 : buffer[Slot(tail, j)] = Encoded(push.data)[j + 1]
  BY DEF IInv, Writing, PushEnd, Pushing
<1>2. Len(push.data) \in Nat
  BY <1>1, MessagesType, SizeFacts
<1>3. Writable(head, tail) \in Nat
  <2>1. head \in Slots /\ tail \in Slots
    BY DEF IInv, Types
  <2>2. /\ Readable(head, tail) \in 0..Size - 1
        /\ Writable(head, tail) = Size - 1 - Readable(head, tail)
    BY <2>1, ReadableForm, WritableForm
  <2> QED BY <2>2, SizeFacts
<1>4. HeaderLen + Len(push.data) \in 0..Writable(head, tail)
  BY <1>1, <1>2, <1>3, SizeFacts
<1>5. tail' = Slot(tail, HeaderLen + Len(push.data))
  BY <1>1 DEF PushEnd
<1>6. ASSUME NEW j \in 0..HeaderLen + Len(push.data) - 1
      PROVE  buffer[Slot(tail, j)] = Encoded(push.data)[j + 1]
  <2>1. j \in 0..push.i - 1
    BY <1>1, <1>2, SizeFacts
  <2> QED BY <1>1, <2>1
<1> QED
  BY ONLY <1>1, <1>2, <1>4, <1>5, <1>6

LEMMA PushEndInv ==
  ASSUME IInv, PushEnd
  PROVE  IInv'
<1> DEFINE m == push.data
           K == HeaderLen + Len(m)
<1>1. m \in Messages /\ Len(m) \in Nat /\ K \in 0..Writable(head, tail) /\ tail' = Slot(tail, K)
  BY PushEndFacts
<1>12. \A j \in 0..HeaderLen + Len(m) - 1 : buffer[Slot(tail, j)] = Encoded(m)[j + 1]
  BY PushEndFacts, Zenon
<1>2. head \in Slots /\ tail \in Slots /\ buffer \in [Slots -> Byte]
  BY DEF IInv, Types
<1> HIDE DEF m
<1>3. K \in Nat /\ K > 0 /\ K <= Writable(head, tail)
  BY <1>1, SizeFacts
<1>4. tail' \in Slots /\ Readable(head, tail') = Readable(head, tail) + K
  BY <1>1, <1>2, ReadableAfterPush
<1>5. head # tail'
  <2>1. Readable(head, tail) \in 0..Size - 1
    BY <1>2, ReadableForm
  <2>2. Readable(head, tail') # 0
    BY <1>3, <1>4, <2>1
  <2> QED BY <1>2, <1>4, <2>2, TailFromHead
<1>6. UNCHANGED <<buffer, head, pop, tag, last>> /\ push' = NoPush
  BY DEF PushEnd
<1>7. Types'
  BY <1>2, <1>4, <1>6, SizeFacts DEF IInv, Types, NoPush
<1>8. Writing'
  BY <1>6 DEF Writing
<1>9. Reading'
  BY <1>5, <1>6, Names DEF IInv, Reading
<1>10. PICK B : Cuts(buffer, head, tail, B)
  BY DEF IInv, Framed
<1>11. Cuts(buffer, head, tail', B \cup {Readable(head, tail) + HeaderLen + Len(m)})
  <2>1. Cuts(buffer, head, Slot(tail, HeaderLen + Len(m)), B \cup {Readable(head, tail) + HeaderLen + Len(m)})
    BY ONLY <1>12, <1>1, <1>2, <1>3, <1>10, CutsPush, Zenon
  <2> QED BY <1>1, <2>1
<1>13. Framed'
  BY <1>6, <1>11 DEF Framed
<1> QED
  BY <1>7, <1>8, <1>9, <1>13 DEF IInv

(* What a Pop that has begun finds at head_.                               *)
LEMMA PopFacts ==
  ASSUME IInv, pop.stage # "idle"
  PROVE  /\ pop.head = head /\ head # tail
         /\ DecodeLen(head) \in Nat
         /\ HeaderLen + DecodeLen(head) \in 0..Readable(head, tail)
         /\ MessageAt(head) \in Messages
         /\ \E C : Cuts(buffer, Slot(head, HeaderLen + DecodeLen(head)), tail, C)
<1>1. head \in Slots /\ tail \in Slots /\ buffer \in [Slots -> Byte]
  BY DEF IInv, Types
<1>2. pop.head = head /\ head # tail
  BY DEF IInv, Reading
<1>3. PICK B : Cuts(buffer, head, tail, B)
  BY DEF IInv, Framed
<1>4. DecodeLen(head) = DecodeOf(buffer, head) /\ MessageAt(head) = MessageOf(buffer, head)
  BY Names
<1>5. DecodeOf(buffer, head) \in Nat
  BY <1>1, DecodeOfType
<1>6. /\ HeaderLen + DecodeOf(buffer, head) \in 0..Readable(head, tail)
      /\ MessageOf(buffer, head) \in Messages
      /\ \E C : Cuts(buffer, Slot(head, HeaderLen + DecodeOf(buffer, head)), tail, C)
  BY <1>1, <1>2, <1>3, CutsPop
<1> QED
  BY <1>2, <1>4, <1>5, <1>6, Zenon

LEMMA PopStartInv ==
  ASSUME IInv, PopBegin \/ PopHeader \/ PopCorrupt
  PROVE  IInv'
<1>1. UNCHANGED <<buffer, head, tail, push, tag, last>>
  BY DEF PopBegin, PopHeader, PopCorrupt
<1>2. Writing' /\ Framed'
  BY <1>1 DEF IInv, Writing, Framed
<1>3. << >> \in Seq(Byte) /\ Len(<< >>) = 0
  OBVIOUS
<1>4. Types' /\ Reading'
  <2>1. CASE PopBegin
    <3>1. pop' = [stage |-> "header", head |-> head, len |-> 0, data |-> << >>]
      BY <2>1 DEF PopBegin, NoPop
    <3>2. Types'
      BY <1>1, <1>3, <3>1 DEF IInv, Types
    <3>3. Reading'
      <4>1. head # tail
        BY <2>1 DEF PopBegin
      <4>2. pop'.stage = "header" /\ pop'.head = head /\ pop'.data = << >>
        BY <3>1
      <4> QED BY <1>1, <4>1, <4>2 DEF Reading
    <3> QED BY <3>2, <3>3
  <2>2. CASE PopHeader
    <3> DEFINE l == DecodeLen(head)
    <3>1. pop.stage = "header"
      BY <2>2 DEF PopHeader
    <3>2. pop.head = head /\ head # tail /\ l \in Nat
      BY <3>1, PopFacts
    <3>3. pop' = [pop EXCEPT !.stage = "data", !.len = l]
      BY <2>2, <3>2 DEF PopHeader
    <3>4. l' = l
      BY <1>1, Names
    <3>5. pop.data = << >>
      BY <3>1 DEF IInv, Reading
    <3>6. pop' = [stage |-> "data", head |-> head, len |-> l, data |-> << >>]
      BY <3>2, <3>3, <3>5 DEF IInv, Types
    <3>7. DecodeLen(head)' = l
      BY <1>1, <3>4
    <3> HIDE DEF l
    <3>8. Types'
      BY <1>1, <1>3, <3>2, <3>6 DEF IInv, Types
    <3>9. Reading'
      BY <1>1, <1>3, <3>2, <3>6, <3>7 DEF Reading
    <3> QED BY <3>8, <3>9
  <2>3. CASE PopCorrupt
    <3>1. pop' = NoPop
      BY <2>3 DEF PopCorrupt
    <3>2. Types'
      BY <1>1, <1>3, <3>1, SizeFacts DEF IInv, Types, NoPop
    <3>3. Reading'
      BY <1>1, <3>1 DEF Reading, NoPop
    <3> QED BY <3>2, <3>3
  <2> QED BY <2>1, <2>2, <2>3
<1> QED
  BY <1>2, <1>4 DEF IInv

LEMMA PopByteInv ==
  ASSUME IInv, PopByte
  PROVE  IInv'
<1> DEFINE n == Len(pop.data)
           s == Slot(head, HeaderLen + n)
<1>1. UNCHANGED <<buffer, head, tail, push, tag, last>>
  BY DEF PopByte
<1>2. Writing' /\ Framed'
  BY <1>1 DEF IInv, Writing, Framed
<1>3. /\ pop.stage = "data" /\ n < pop.len /\ pop.len = DecodeLen(head)
      /\ \A k \in 1..n : pop.data[k] = buffer[Slot(head, HeaderLen + k - 1)]
  BY DEF PopByte, IInv, Reading
<1>4. /\ pop.head = head /\ head # tail /\ DecodeLen(head) \in Nat
      /\ HeaderLen + DecodeLen(head) \in 0..Readable(head, tail)
  BY <1>3, PopFacts
<1>5. /\ head \in Slots /\ tail \in Slots /\ buffer \in [Slots -> Byte]
      /\ pop \in [stage : {"idle", "header", "data"}, head : Slots, len : Nat, data : Seq(Byte)]
  BY DEF IInv, Types
<1>6. n \in Nat /\ pop.data \in Seq(Byte)
  BY <1>5, LenProperties
<1>7. s \in Slots
  <2>1. Readable(head, tail) \in 0..Size - 1
    BY <1>5, ReadableForm
  <2>2. HeaderLen + n \in 0..Size
    BY <1>3, <1>4, <1>6, <2>1, SizeFacts
  <2> QED BY <1>5, <2>2, SlotForm
<1>8. pop' = [pop EXCEPT !.data = Append(pop.data, buffer[s])]
  BY <1>4 DEF PopByte
<1> HIDE DEF s, n
<1>9. buffer[s] \in Byte
  BY <1>5, <1>7
<1>10. /\ Append(pop.data, buffer[s]) \in Seq(Byte)
       /\ Len(Append(pop.data, buffer[s])) = n + 1
       /\ \A k \in 1..n : Append(pop.data, buffer[s])[k] = pop.data[k]
       /\ Append(pop.data, buffer[s])[n + 1] = buffer[s]
  BY <1>6, <1>9, AppendProperties DEF n
<1> DEFINE d == Append(pop.data, buffer[s])
<1> HIDE DEF d
<1>11. pop' = [stage |-> "data", head |-> head, len |-> pop.len, data |-> d]
  BY ONLY <1>3, <1>4, <1>5, <1>8 DEF d
<1>12. Types'
  <2>1. pop' \in [stage : {"idle", "header", "data"}, head : Slots, len : Nat, data : Seq(Byte)]
    BY ONLY <1>5, <1>10, <1>11 DEF d
  <2> QED BY <1>1, <2>1 DEF IInv, Types
<1>13. ASSUME NEW k \in 1..n + 1
       PROVE  d[k] = buffer[Slot(head, HeaderLen + k - 1)]
  <2>1. CASE k = n + 1
    <3>1. HeaderLen + k - 1 = HeaderLen + n
      BY <1>6, <2>1, SizeFacts
    <3> QED BY <1>10, <2>1, <3>1 DEF d, s
  <2>2. CASE k \in 1..n
    BY <1>3, <1>10, <2>2 DEF d
  <2> QED BY <1>6, <2>1, <2>2
<1>14. Reading'
  <2>1. pop'.stage = "data" /\ pop'.head = head /\ pop'.len = DecodeLen(head) /\ pop'.data = d
    BY <1>3, <1>11
  <2>2. Len(d) = n + 1 /\ n + 1 <= DecodeLen(head)
    BY <1>3, <1>4, <1>6, <1>10 DEF d
  <2>3. DecodeLen(head)' = DecodeLen(head)
    BY <1>1, Names
  <2>4. \A k \in 1..Len(d) : d[k] = buffer[Slot(head, HeaderLen + k - 1)]
    BY <1>13, <2>2
  <2> QED BY <1>1, <1>4, <2>1, <2>2, <2>3, <2>4 DEF Reading
<1> QED
  BY <1>2, <1>12, <1>14 DEF IInv

(* What PopEnd returns.                                                    *)
LEMMA PopEndFacts ==
  ASSUME IInv, PopEnd
  PROVE  /\ pop.stage = "data" /\ pop.head = head /\ pop.len = DecodeLen(head)
         /\ head' = Slot(head, HeaderLen + DecodeLen(head))
         /\ pop.data = MessageAt(head)
<1>1. /\ pop.stage = "data" /\ Len(pop.data) = pop.len /\ pop.len = DecodeLen(head)
      /\ \A k \in 1..Len(pop.data) : pop.data[k] = buffer[Slot(head, HeaderLen + k - 1)]
  BY DEF PopEnd, IInv, Reading
<1>2. pop.head = head
  BY <1>1, PopFacts
<1>3. head' = Slot(head, HeaderLen + DecodeLen(head))
  BY <1>1, <1>2 DEF PopEnd
<1>4. pop.data = [k \in 1..DecodeLen(head) |-> pop.data[k]]
  <2>1. pop.data \in Seq(Byte)
    BY DEF IInv, Types
  <2> QED BY <1>1, <2>1, LenProperties
<1>5. \A k \in 1..DecodeLen(head) : pop.data[k] = buffer[Slot(head, HeaderLen + k - 1)]
  BY <1>1
<1>6. pop.data = MessageAt(head)
  BY <1>4, <1>5 DEF MessageAt
<1> QED
  BY <1>1, <1>2, <1>3, <1>6

LEMMA PopEndInv ==
  ASSUME IInv, PopEnd
  PROVE  IInv'
<1> DEFINE K == HeaderLen + DecodeLen(head)
<1>1. pop.stage = "data" /\ head' = Slot(head, K)
  BY PopEndFacts
<1>2. K \in 0..Readable(head, tail) /\ \E C : Cuts(buffer, Slot(head, K), tail, C)
  BY <1>1, PopFacts
<1> HIDE DEF K
<1>3. head \in Slots /\ tail \in Slots
  BY DEF IInv, Types
<1>4. UNCHANGED <<buffer, tail, push, tag>> /\ pop' = NoPop /\ last' = pop.data
  BY DEF PopEnd
<1>5. head' \in Slots /\ Readable(head', tail) = Readable(head, tail) - K
  BY <1>1, <1>2, <1>3, ReadableAfterPop
<1>6. Writable(head, tail) <= Writable(head', tail)
  <2>1. /\ Writable(head, tail) = Size - 1 - Readable(head, tail)
        /\ Readable(head, tail) \in 0..Size - 1
    BY <1>3, ReadableForm, WritableForm
  <2>2. Writable(head', tail) = Size - 1 - Readable(head', tail)
    BY <1>3, <1>5, WritableForm
  <2> QED BY <1>2, <1>5, <2>1, <2>2, SizeFacts
<1>7. Types'
  <2>1. << >> \in Seq(Byte)
    OBVIOUS
  <2>2. pop' \in [stage : {"idle", "header", "data"}, head : Slots, len : Nat, data : Seq(Byte)]
    BY <1>4, <2>1, SizeFacts DEF NoPop
  <2>3. last' \in Seq(Byte)
    BY <1>4 DEF IInv, Types
  <2> QED BY <1>4, <1>5, <2>2, <2>3 DEF IInv, Types
<1>8. Writing'
  <2>1. SUFFICES ASSUME push' # NoPush
                 PROVE  HeaderLen + Len(push.data) <= Writable(head', tail)
    BY <1>4 DEF IInv, Writing
  <2>2. push.data \in Messages /\ HeaderLen + Len(push.data) <= Writable(head, tail)
    BY <1>4, <2>1 DEF IInv, Writing
  <2>3. Len(push.data) \in Nat
    BY <2>2, MessagesType, SizeFacts
  <2>4. /\ Writable(head, tail) = Size - 1 - Readable(head, tail)
        /\ Readable(head, tail) \in 0..Size - 1
        /\ Writable(head', tail) = Size - 1 - Readable(head', tail)
        /\ Readable(head', tail) \in 0..Size - 1
    BY <1>3, <1>5, ReadableForm, WritableForm
  <2> QED BY <1>6, <2>2, <2>3, <2>4, SizeFacts
<1>9. Reading'
  BY <1>4 DEF Reading, NoPop
<1>10. Framed'
  BY <1>1, <1>2, <1>4 DEF Framed
<1> QED
  BY <1>7, <1>8, <1>9, <1>10 DEF IInv

LEMMA NextInv ==
  ASSUME IInv, [Next]_vars
  PROVE  IInv'
<1>1. CASE \E len \in Lengths : PushBegin(len)
  BY <1>1, PushBeginInv
<1>2. CASE UNCHANGED vars
  BY <1>2, Names DEF vars, IInv, Types, Writing, Reading, Framed
<1>3. CASE \E len \in Lengths : PushRefused(len)
  BY <1>2, <1>3 DEF PushRefused
<1>4. CASE PushByte
  BY <1>4, PushByteInv
<1>5. CASE PushEnd
  BY <1>5, PushEndInv
<1>6. CASE PopBegin \/ PopHeader \/ PopCorrupt
  BY <1>6, PopStartInv
<1>7. CASE PopByte
  BY <1>7, PopByteInv
<1>8. CASE PopEnd
  BY <1>8, PopEndInv
<1> QED
  BY <1>1, <1>2, <1>3, <1>4, <1>5, <1>6, <1>7, <1>8 DEF Next, PopStep

THEOREM Invariance == Spec => []IInv
<1>1. Init => IInv
  BY InitInv
<1>2. IInv /\ [Next]_vars => IInv'
  BY NextInv
<1> QED
  BY <1>1, <1>2, PTL DEF Spec

(* The types of buffer, indices and locals hold in every reachable state.  *)
THEOREM TypeCorrect == Spec => []TypeOK
<1>1. IInv => TypeOK
  BY DEF IInv, Types, TypeOK
<1> QED
  BY <1>1, Invariance, PTL

(* A Pop never reads beyond what Push has published, for any capacity and  *)
(* any lengths: the length it decodes at head_ is the one that was pushed. *)
THEOREM ReaderStaysWithin == Spec => []ReaderWithinPublished
<1>1. ASSUME IInv PROVE ReaderWithinPublished
  <2> SUFFICES ASSUME pop.stage = "data" PROVE HeaderLen + pop.len <= Readable(head, tail)
    BY DEF ReaderWithinPublished
  <2>1. pop.len = DecodeLen(head)
    BY <1>1 DEF IInv, Reading
  <2>2. HeaderLen + DecodeLen(head) \in 0..Readable(head, tail)
    BY <1>1, PopFacts
  <2>3. Readable(head, tail) \in 0..Size - 1
    BY <1>1, ReadableForm DEF IInv, Types
  <2> QED BY <2>1, <2>2, <2>3, SizeFacts
<1> QED
  BY <1>1, Invariance, PTL

(* A Push never writes a slot that the consumer may read, nor the slot     *)
(* that tells a full ring from an empty one, for any capacity and lengths. *)
THEOREM WriterStaysClear == Spec => []WriterClearOfReader
<1>1. ASSUME IInv PROVE WriterClearOfReader
  <2>1. SUFFICES ASSUME Pushing
                 PROVE  /\ WriteSlots \cap (ReadSlots \cup {Slot(head, Size - 1)}) = {}
                        /\ Cardinality(WriteSlots) = HeaderLen + Len(push.data)
    BY DEF WriterClearOfReader
  <2> DEFINE K == HeaderLen + Len(push.data)
             R == Readable(head, tail)
  <2>2. head \in Slots /\ tail \in Slots
    BY <1>1 DEF IInv, Types
  <2>3. push.tail = tail /\ push.data \in Messages /\ K <= Writable(head, tail)
    BY <1>1, <2>1 DEF IInv, Writing, Pushing
  <2>4. K \in Nat /\ K > 0
    BY <2>3, MessagesType, SizeFacts
  <2>5. R \in 0..Size - 1 /\ Writable(head, tail) = Size - 1 - R /\ tail = Slot(head, R)
    BY <2>2, ReadableForm, WritableForm, TailFromHead
  <2>6. WriteSlots = {Slot(tail, i) : i \in 0..K - 1}
    <3>1. HeaderLen + Len(push.data) - 1 = K - 1
      BY <2>3, MessagesType, SizeFacts
    <3> HIDE DEF K
    <3> QED BY <2>3, <3>1 DEF WriteSlots
  <2> HIDE DEF K, R
  <2>7. ASSUME NEW j \in 0..K - 1
        PROVE  /\ j \in 0..Size /\ R + j \in 0..Size - 1 /\ R + j < Size - 1
               /\ Slot(tail, j) = Slot(head, R + j)
    <3>1. j \in 0..Size /\ R \in 0..Size /\ R + j \in 0..Size - 1 /\ R + j < Size - 1 /\ R + j <= Size
      BY <2>3, <2>4, <2>5, SizeFacts
    <3>2. Slot(tail, j) = Slot(head, R + j)
      BY <2>2, <2>5, <3>1, SlotSlot
    <3> QED BY <3>1, <3>2
  <2>8. ASSUME NEW j \in 0..K - 1 PROVE Slot(tail, j) \notin ReadSlots \cup {Slot(head, Size - 1)}
    <3>1. ASSUME NEW i \in 0..R - 1 PROVE Slot(tail, j) # Slot(head, i)
      <4>1. i \in 0..Size - 1 /\ i # R + j
        BY <2>5, SizeFacts
      <4> QED BY <2>2, <2>7, <4>1, SlotInjective
    <3>2. Slot(tail, j) # Slot(head, Size - 1)
      <4>1. Size - 1 \in 0..Size - 1 /\ Size - 1 # R + j
        BY <2>7, SizeFacts
      <4> QED BY <2>2, <2>7, <4>1, SlotInjective
    <3> QED BY <3>1, <3>2 DEF ReadSlots, R
  <2>9. WriteSlots \cap (ReadSlots \cup {Slot(head, Size - 1)}) = {}
    BY <2>6, <2>8
  <2>10. Cardinality(WriteSlots) = K
    <3> DEFINE F == [i \in 0..K - 1 |-> Slot(tail, i)]
               I == 0..K - 1
    <3>1. F \in [I -> WriteSlots] /\ \A t \in WriteSlots : \E i \in I : F[i] = t
      BY <2>6
    <3>2. ASSUME NEW i \in I, NEW j \in I, F[i] = F[j] PROVE i = j
      <4>1. R + i \in 0..Size - 1 /\ R + j \in 0..Size - 1 /\ Slot(head, R + i) = Slot(head, R + j)
        BY <2>7, <3>2
      <4>2. R + i = R + j
        BY <2>2, <4>1, SlotInjective
      <4> QED BY <2>5, <4>2
    <3> HIDE DEF F, I
    <3>3. F \in Bijection(I, WriteSlots)
      BY <3>1, <3>2, Fun_IsBij
    <3>4. IsFiniteSet(I) /\ Cardinality(I) = K
      <4>1. 0 \in Int /\ K - 1 \in Int /\ ~(0 > K - 1) /\ (K - 1) - 0 + 1 = K
        BY <2>4
      <4>2. IsFiniteSet(0..K - 1) /\ Cardinality(0..K - 1) = IF 0 > K - 1 THEN 0 ELSE (K - 1) - 0 + 1
        BY <4>1, FS_Interval
      <4> QED BY <4>1, <4>2 DEF I
    <3>5. ExistsBijection(I, WriteSlots)
      BY <3>3 DEF ExistsBijection
    <3> QED BY <3>4, <3>5, FS_Bijection
  <2> QED BY <2>9, <2>10 DEF K
<1> QED
  BY <1>1, Invariance, PTL
-----------------------------------------------------------------------------
(* What the ring holds, with the buffer and tail_ as parameters.           *)

ParsedBody(buf, t, f, n) ==
  IF n = 0 THEN << >>
  ELSE LET h == Slot(t, Size - n)
           l == DecodeOf(buf, h)
       IN  IF l + HeaderLen > n THEN << << >> >>
           ELSE <<MessageOf(buf, h)>> \o f[n - l - HeaderLen]
ParsedOf(buf, t) == CHOOSE f : f = [n \in 0..Size |-> ParsedBody(buf, t, f, n)]

LEMMA ParsedBodySame ==
  ASSUME NEW buf \in [Slots -> Byte], NEW t \in Slots, NEW n \in 0..Size,
         NEW f, NEW g, \A k \in 0..n - 1 : f[k] = g[k]
  PROVE  ParsedBody(buf, t, f, n) = ParsedBody(buf, t, g, n)
<1>1. CASE n = 0
  BY <1>1 DEF ParsedBody
<1>2. CASE n # 0
  <2> DEFINE h == Slot(t, Size - n)
             l == DecodeOf(buf, h)
  <2>1. Size - n \in 0..Size
    BY SizeFacts
  <2>2. l \in Nat
    BY <2>1, SlotForm, DecodeOfType
  <2> HIDE DEF h, l
  <2>3. ~(l + HeaderLen > n) => n - l - HeaderLen \in 0..n - 1
    BY <1>2, <2>2, SizeFacts
  <2>4. ~(l + HeaderLen > n) => f[n - l - HeaderLen] = g[n - l - HeaderLen]
    BY <2>3
  <2> QED BY <1>2, <2>4, Zenon DEF ParsedBody, h, l
<1> QED
  BY <1>1, <1>2

LEMMA ParsedExists ==
  ASSUME NEW buf \in [Slots -> Byte], NEW t \in Slots
  PROVE  \E f : f = [n \in 0..Size |-> ParsedBody(buf, t, f, n)]
<1> DEFINE Ok(f, N) == f = [n \in 0..N |-> ParsedBody(buf, t, f, n)]
           T == {N \in Nat : N <= Size => \E f : Ok(f, N)}
<1>1. 0 \in T
  <2> DEFINE g == [n \in 0..0 |-> << >>]
  <2>1. \A n \in 0..0 : ParsedBody(buf, t, g, n) = << >>
    BY DEF ParsedBody
  <2>2. Ok(g, 0)
    BY <2>1
  <2> HIDE DEF g, Ok
  <2> QED BY <2>2
<1>2. ASSUME NEW N \in Nat, N \in T PROVE N + 1 \in T
  <2>1. SUFFICES ASSUME N + 1 <= Size PROVE \E g : Ok(g, N + 1)
    OBVIOUS
  <2>2. PICK f : Ok(f, N)
    <3>1. N <= Size
      BY <2>1, SizeFacts
    <3> QED BY <1>2, <3>1
  <2> DEFINE g == [n \in 0..(N + 1) |-> IF n = N + 1 THEN ParsedBody(buf, t, f, N + 1) ELSE f[n]]
  <2>3. \A k \in 0..N : f[k] = g[k]
    OBVIOUS
  <2>4. ASSUME NEW n \in 0..(N + 1) PROVE g[n] = ParsedBody(buf, t, g, n)
    <3>1. n \in 0..Size /\ \A k \in 0..n - 1 : k \in 0..N
      BY <2>1, SizeFacts
    <3>2. g[n] = ParsedBody(buf, t, f, n)
      <4>1. CASE n = N + 1
        BY <4>1
      <4>2. CASE n \in 0..N
        BY <2>2, <4>2
      <4>3. n = N + 1 \/ n \in 0..N
        OBVIOUS
      <4> QED BY <4>1, <4>2, <4>3
    <3> HIDE DEF g
    <3>3. \A k \in 0..n - 1 : f[k] = g[k]
      BY <2>3, <3>1
    <3>4. ParsedBody(buf, t, f, n) = ParsedBody(buf, t, g, n)
      BY <3>1, <3>3, ParsedBodySame
    <3> QED BY <3>2, <3>4
  <2>5. g = [n \in 0..(N + 1) |-> g[n]]
    OBVIOUS
  <2> HIDE DEF g
  <2>6. Ok(g, N + 1)
    BY <2>4, <2>5
  <2> HIDE DEF Ok
  <2> QED BY <2>6
<1> HIDE DEF T
<1>3. Nat \subseteq T
  BY <1>1, <1>2, Induction
<1>4. Size \in T /\ Size <= Size
  BY <1>3, SizeFacts
<1>5. \E f : Ok(f, Size)
  BY <1>4 DEF T
<1> QED
  BY <1>5

(* The recursion of Parsed.                                                *)
LEMMA ParsedDef ==
  ASSUME NEW buf \in [Slots -> Byte], NEW t \in Slots
  PROVE  /\ ParsedOf(buf, t)[0] = << >>
         /\ \A n \in 1..Size :
              DecodeOf(buf, Slot(t, Size - n)) + HeaderLen <= n =>
                ParsedOf(buf, t)[n]
                  = <<MessageOf(buf, Slot(t, Size - n))>>
                      \o ParsedOf(buf, t)[n - DecodeOf(buf, Slot(t, Size - n)) - HeaderLen]
<1> DEFINE f == ParsedOf(buf, t)
<1>1. f = [n \in 0..Size |-> ParsedBody(buf, t, f, n)]
  BY ParsedExists, Zenon DEF ParsedOf
<1> HIDE DEF f
<1>2. \A n \in 0..Size : f[n] = ParsedBody(buf, t, f, n)
  BY <1>1
<1>3. f[0] = << >>
  <2>1. f[0] = ParsedBody(buf, t, f, 0)
    BY <1>2, SizeFacts
  <2>2. ParsedBody(buf, t, f, 0) = << >>
    BY Zenon DEF ParsedBody
  <2> QED BY <2>1, <2>2
<1>4. ASSUME NEW n \in 1..Size, DecodeOf(buf, Slot(t, Size - n)) + HeaderLen <= n
      PROVE  f[n] = <<MessageOf(buf, Slot(t, Size - n))>>
                      \o f[n - DecodeOf(buf, Slot(t, Size - n)) - HeaderLen]
  <2> DEFINE h == Slot(t, Size - n)
             l == DecodeOf(buf, h)
  <2>1. Size - n \in 0..Size /\ n \in 0..Size /\ n # 0
    BY SizeFacts
  <2>2. l \in Nat
    BY <2>1, SlotForm, DecodeOfType
  <2>3. l + HeaderLen <= n
    BY <1>4
  <2> HIDE DEF h, l
  <2>4. ~(l + HeaderLen > n)
    BY <2>2, <2>3, SizeFacts
  <2>5. f[n] = <<MessageOf(buf, h)>> \o f[n - l - HeaderLen]
    BY <1>2, <2>1, <2>4, Zenon DEF ParsedBody, h, l
  <2> QED BY <2>5 DEF h, l
<1>5. \A n \in 1..Size :
        DecodeOf(buf, Slot(t, Size - n)) + HeaderLen <= n =>
          f[n] = <<MessageOf(buf, Slot(t, Size - n))>>
                   \o f[n - DecodeOf(buf, Slot(t, Size - n)) - HeaderLen]
  BY <1>4
<1> QED
  BY <1>3, <1>5 DEF f

LEMMA ContentsNames ==
  /\ Contents = ParsedOf(buffer, tail)[Readable(head, tail)]
  /\ Contents' = ParsedOf(buffer', tail')[Readable(head', tail')]
BY Zenon DEF Contents, Parsed, ParsedOf, ParsedBody, DecodeLen, DecodeOf, MessageAt, MessageOf

(* The place n bytes before t, when it is one of the R bytes from h on.    *)
LEMMA SlotBefore ==
  ASSUME NEW h \in Slots, NEW t \in Slots, NEW n \in 0..Readable(h, t)
  PROVE  Slot(t, Size - n) = Slot(h, Readable(h, t) - n)
<1> DEFINE R == Readable(h, t)
           b == R - n
           a == Slot(h, b)
<1>1. R \in 0..Size - 1 /\ t = Slot(h, R)
  BY ReadableForm, TailFromHead
<1> HIDE DEF R
<1>2. /\ n \in 0..R /\ n \in 0..Size /\ b \in 0..Size /\ b + n = R /\ b + n <= Size
      /\ Size - n \in 0..Size /\ n + (Size - n) = Size /\ n + (Size - n) <= Size
  BY <1>1, SizeFacts DEF R
<1> HIDE DEF b
<1>3. a \in Slots
  BY <1>2, SlotForm
<1>4. t = Slot(a, n)
  BY <1>1, <1>2, SlotSlot
<1> HIDE DEF a
<1>5. Slot(t, Size - n) = Slot(a, Size)
  <2>1. Slot(Slot(a, n), Size - n) = Slot(a, n + (Size - n))
    BY <1>2, <1>3, SlotSlot
  <2> QED BY <1>2, <1>4, <2>1
<1>6. Slot(a, Size) = a
  BY <1>3, SlotForm, SizeFacts DEF Slots
<1> QED
  BY <1>5, <1>6 DEF a, b, R

(* Induction from the end of the ring to its start, message by message.    *)
LEMMA CutsInduction ==
  ASSUME NEW buf \in [Slots -> Byte], NEW h \in Slots, NEW t \in Slots, NEW B,
         Cuts(buf, h, t, B),
         NEW T, 0 \in T,
         \A n \in 1..Readable(h, t) :
           /\ Readable(h, t) - n \in B
           /\ n - DecodeOf(buf, Slot(t, Size - n)) - HeaderLen \in T
           /\ DecodeOf(buf, Slot(t, Size - n)) + HeaderLen <= n
           /\ MessageOf(buf, Slot(t, Size - n)) \in Messages
           => n \in T
  PROVE  \A n \in 0..Readable(h, t) : Readable(h, t) - n \in B => n \in T
<1> DEFINE R == Readable(h, t)
           D == {n \in 0..R : R - n \in B /\ n \notin T}
<1>1. R \in 0..Size - 1
  BY ReadableForm
<1>2. /\ B \subseteq 0..R
      /\ \A b \in B : b # R => /\ b + HeaderLen + DecodeOf(buf, Slot(h, b)) \in B
                              /\ MessageOf(buf, Slot(h, b)) \in Messages
  BY Zenon DEF Cuts
<1>3. SUFFICES ASSUME D # {} PROVE FALSE
  OBVIOUS
<1>4. D \subseteq Nat
  BY <1>1
<1>5. PICK n \in D : \A m \in D : n <= m
  <2> HIDE DEF D
  <2> QED BY <1>3, <1>4, LeastNumber
<1> DEFINE a == Slot(t, Size - n)
           l == DecodeOf(buf, a)
           k == n - l - HeaderLen
<1>6. n \in 0..R /\ R - n \in B /\ n \notin T
  BY <1>5
<1>7. n # 0 /\ n \in 1..R /\ R - n # R
  BY <1>1, <1>6
<1>8. a = Slot(h, R - n)
  BY <1>6, SlotBefore
<1>9. a \in Slots /\ l \in Nat
  <2>1. Size - n \in 0..Size
    BY <1>1, <1>6, SizeFacts
  <2>2. a \in Slots
    BY <2>1, SlotForm
  <2> QED BY <2>2, DecodeOfType
<1>10. (R - n) + HeaderLen + l \in B /\ MessageOf(buf, a) \in Messages
  BY <1>2, <1>6, <1>7, <1>8, Zenon
<1>11. \A x \in 1..R :
         /\ R - x \in B
         /\ x - DecodeOf(buf, Slot(t, Size - x)) - HeaderLen \in T
         /\ DecodeOf(buf, Slot(t, Size - x)) + HeaderLen <= x
         /\ MessageOf(buf, Slot(t, Size - x)) \in Messages
         => x \in T
  OBVIOUS
<1> HIDE DEF R
<1>12. /\ l + HeaderLen <= n /\ k \in 0..R /\ k < n /\ R - k = (R - n) + HeaderLen + l
  <2>1. (R - n) + HeaderLen + l \in 0..R
    BY <1>2, <1>10
  <2> HIDE DEF l
  <2> QED BY <1>1, <1>6, <1>9, <2>1, SizeFacts
<1>13. k \notin D
  <2> HIDE DEF k, D
  <2> QED BY <1>1, <1>4, <1>5, <1>12
<1>14. k \in T
  <2>1. R - k \in B
    BY <1>10, <1>12
  <2> QED BY <1>12, <1>13, <2>1
<1>15. n \in T
  BY <1>6, <1>7, <1>10, <1>11, <1>12, <1>14, Zenon
<1> QED
  BY <1>6, <1>15

(* Between two cuts lie whole messages.                                    *)
LEMMA ParsedType ==
  ASSUME NEW buf \in [Slots -> Byte], NEW h \in Slots, NEW t \in Slots, NEW B,
         Cuts(buf, h, t, B), NEW n \in 0..Readable(h, t), Readable(h, t) - n \in B
  PROVE  ParsedOf(buf, t)[n] \in Seq(Messages)
<1> DEFINE f == ParsedOf(buf, t)
           R == Readable(h, t)
           T == {k \in Nat : f[k] \in Seq(Messages)}
<1>1. R \in 0..Size - 1
  BY ReadableForm
<1>2. f[0] = << >>
  BY ParsedDef
<1>3. 0 \in T
  <2>1. << >> \in Seq(Messages)
    OBVIOUS
  <2> HIDE DEF f
  <2> QED BY <1>2, <2>1
<1>4. ASSUME NEW k \in 1..R, k - DecodeOf(buf, Slot(t, Size - k)) - HeaderLen \in T,
             DecodeOf(buf, Slot(t, Size - k)) + HeaderLen <= k,
             MessageOf(buf, Slot(t, Size - k)) \in Messages
      PROVE  k \in T
  <2> DEFINE m == MessageOf(buf, Slot(t, Size - k))
             r == f[k - DecodeOf(buf, Slot(t, Size - k)) - HeaderLen]
  <2>1. k \in 1..Size /\ k \in Nat
    BY <1>1, SizeFacts
  <2>2. f[k] = <<m>> \o r
    BY <1>4, <2>1, ParsedDef
  <2>3. m \in Messages /\ r \in Seq(Messages)
    BY <1>4
  <2> HIDE DEF m, r
  <2>4. <<m>> \o r \in Seq(Messages)
    BY <2>3, ConcatProperties
  <2> QED BY <2>1, <2>2, <2>4
<1> HIDE DEF T
<1>5. n \in T
  BY <1>3, <1>4, CutsInduction
<1> QED
  BY <1>5 DEF T

(* What Push writes behind the messages leaves them as they are.           *)
LEMMA ParsedSame ==
  ASSUME NEW buf \in [Slots -> Byte], NEW new \in [Slots -> Byte],
         NEW h \in Slots, NEW t \in Slots, NEW B, Cuts(buf, h, t, B),
         \A i \in 0..Readable(h, t) - 1 : new[Slot(h, i)] = buf[Slot(h, i)]
  PROVE  ParsedOf(new, t)[Readable(h, t)] = ParsedOf(buf, t)[Readable(h, t)]
<1> DEFINE f == ParsedOf(buf, t)
           g == ParsedOf(new, t)
           R == Readable(h, t)
           T == {k \in Nat : g[k] = f[k]}
<1>1. R \in 0..Size - 1 /\ R \in 0..R /\ R - R = 0 /\ 0 \in B /\ B \subseteq 0..R
  BY ReadableForm, SizeFacts DEF Cuts
<1>2. \A b \in B : b # R =>
        /\ DecodeOf(new, Slot(h, b)) = DecodeOf(buf, Slot(h, b))
        /\ MessageOf(new, Slot(h, b)) = MessageOf(buf, Slot(h, b))
  BY CutsSame
<1>3. f[0] = << >> /\ g[0] = << >>
  BY ParsedDef
<1>4. 0 \in T
  BY <1>3
<1>5. ASSUME NEW k \in 1..R, R - k \in B,
             k - DecodeOf(buf, Slot(t, Size - k)) - HeaderLen \in T,
             DecodeOf(buf, Slot(t, Size - k)) + HeaderLen <= k,
             MessageOf(buf, Slot(t, Size - k)) \in Messages
      PROVE  k \in T
  <2> DEFINE a == Slot(t, Size - k)
             m == MessageOf(buf, a)
             i == k - DecodeOf(buf, a) - HeaderLen
  <2>1. k \in 1..Size /\ k \in Nat /\ k \in 0..R /\ R - k # R
    BY <1>1, SizeFacts
  <2>2. a = Slot(h, R - k)
    BY <2>1, SlotBefore
  <2>3. DecodeOf(new, a) = DecodeOf(buf, a) /\ MessageOf(new, a) = MessageOf(buf, a)
    BY <1>2, <1>5, <2>1, <2>2
  <2>4. f[k] = <<m>> \o f[i]
    BY <1>5, <2>1, ParsedDef
  <2>5. g[k] = <<m>> \o g[i]
    BY <1>5, <2>1, <2>3, ParsedDef
  <2>6. g[i] = f[i]
    BY <1>5
  <2> QED BY <2>1, <2>4, <2>5, <2>6
<1> HIDE DEF T
<1>6. R \in T
  BY <1>1, <1>4, <1>5, CutsInduction
<1> QED
  BY <1>6 DEF T

(* A message that Push publishes comes last.                               *)
LEMMA ParsedPush ==
  ASSUME NEW buf \in [Slots -> Byte], NEW h \in Slots, NEW t \in Slots, NEW B,
         Cuts(buf, h, t, B), NEW m \in Messages, HeaderLen + Len(m) <= Writable(h, t),
         DecodeOf(buf, t) = Len(m), MessageOf(buf, t) = m,
         NEW K, K = HeaderLen + Len(m)
  PROVE  ParsedOf(buf, Slot(t, K))[Readable(h, t) + K]
           = Append(ParsedOf(buf, t)[Readable(h, t)], m)
<1> DEFINE R == Readable(h, t)
           u == Slot(t, K)
           f == ParsedOf(buf, t)
           g == ParsedOf(buf, u)
           T == {n \in Nat : f[n] \in Seq(Messages) /\ g[n + K] = Append(f[n], m)}
<1>1. R \in 0..Size - 1 /\ R \in 0..R /\ R - R = 0 /\ 0 \in B /\ B \subseteq 0..R
  BY ReadableForm, SizeFacts DEF Cuts
<1>2. Len(m) \in Nat
  BY MessagesType, SizeFacts
<1>3. K \in Nat /\ K > 0 /\ K <= Size - 1 - R
  <2>1. Writable(h, t) = Size - 1 - R
    BY WritableForm
  <2> QED BY <1>2, <2>1, SizeFacts
<1>4. u \in Slots /\ Readable(h, u) = R + K
  <2>1. K \in 0..Writable(h, t)
    BY <1>3, WritableForm
  <2> QED BY <2>1, ReadableAfterPush
<1>5. f[0] = << >> /\ g[0] = << >>
  BY <1>4, ParsedDef
<1> HIDE DEF u, R, f, g
<1>6. g[K] = <<m>>
  <2>1. K \in 0..Readable(h, u) /\ K \in 1..Size /\ Readable(h, u) - K = R
    BY <1>1, <1>3, <1>4, SizeFacts
  <2>2. Slot(u, Size - K) = t
    <3>1. Slot(u, Size - K) = Slot(h, R)
      BY <1>4, <2>1, SlotBefore
    <3> QED BY <3>1, TailFromHead DEF R
  <2>3. DecodeOf(buf, Slot(u, Size - K)) = Len(m) /\ MessageOf(buf, Slot(u, Size - K)) = m
    BY <2>2, Zenon
  <2>4. Len(m) + HeaderLen <= K /\ K - Len(m) - HeaderLen = 0
    BY <1>2, SizeFacts
  <2>5. g[K] = <<m>> \o g[K - Len(m) - HeaderLen]
    BY <1>4, <2>1, <2>3, <2>4, ParsedDef DEF g
  <2>6. <<m>> \in Seq(Messages) /\ <<m>> \o << >> = <<m>>
    OBVIOUS
  <2> QED BY <1>5, <2>4, <2>5, <2>6
<1>7. 0 \in T
  <2>1. 0 + K = K /\ << >> \in Seq(Messages) /\ Append(<< >>, m) = <<m>>
    BY <1>3
  <2> QED BY <1>5, <1>6, <2>1
<1>8. ASSUME NEW k \in 1..R, R - k \in B,
             k - DecodeOf(buf, Slot(t, Size - k)) - HeaderLen \in T,
             DecodeOf(buf, Slot(t, Size - k)) + HeaderLen <= k,
             MessageOf(buf, Slot(t, Size - k)) \in Messages
      PROVE  k \in T
  <2> DEFINE a == Slot(t, Size - k)
             x == MessageOf(buf, a)
             l == DecodeOf(buf, a)
             i == k - l - HeaderLen
  <2>1. /\ k \in 1..Size /\ k \in Nat /\ k \in 0..R
        /\ k + K \in 1..Size /\ k + K \in 0..Readable(h, u) /\ Readable(h, u) - (k + K) = R - k
    BY <1>1, <1>3, <1>4, SizeFacts
  <2>2. Size - k \in 0..Size
    BY <2>1, SizeFacts
  <2>3. a \in Slots /\ l \in Nat
    BY <2>2, SlotForm, DecodeOfType
  <2>4. Slot(u, Size - (k + K)) = a
    <3>1. Slot(u, Size - (k + K)) = Slot(h, R - k)
      BY <1>4, <2>1, SlotBefore
    <3>2. a = Slot(h, R - k)
      BY <2>1, SlotBefore DEF R
    <3> QED BY <3>1, <3>2
  <2>5. f[k] = <<x>> \o f[i]
    BY <1>8, <2>1, ParsedDef DEF f
  <2>6. l + HeaderLen <= k + K /\ (k + K) - l - HeaderLen = i + K
    <3>1. l + HeaderLen <= k
      BY <1>8
    <3> HIDE DEF l
    <3> QED BY <1>3, <2>1, <2>3, <3>1, SizeFacts
  <2>7. g[k + K] = <<x>> \o g[i + K]
    <3>1. DecodeOf(buf, Slot(u, Size - (k + K))) = l /\ MessageOf(buf, Slot(u, Size - (k + K))) = x
      BY <2>4, Zenon
    <3>2. g[k + K] = <<x>> \o g[(k + K) - l - HeaderLen]
      <4> HIDE DEF l, x
      <4> QED BY <1>4, <2>1, <2>6, <3>1, ParsedDef DEF g
    <3> QED BY <2>6, <3>2
  <2>8. f[i] \in Seq(Messages) /\ g[i + K] = Append(f[i], m) /\ x \in Messages
    BY <1>8
  <2> HIDE DEF x, i
  <2>9. <<x>> \o f[i] \in Seq(Messages) /\ <<x>> \o Append(f[i], m) = Append(<<x>> \o f[i], m)
    BY <2>8
  <2> QED BY <2>1, <2>5, <2>7, <2>8, <2>9
<1> HIDE DEF T
<1>9. R \in T
  BY <1>1, <1>7, <1>8, CutsInduction DEF R
<1>10. g[R + K] = Append(f[R], m)
  BY <1>9 DEF T
<1> QED
  BY <1>10 DEF g, f, R, u

(* Pop takes the first message.                                            *)
LEMMA ParsedPop ==
  ASSUME NEW buf \in [Slots -> Byte], NEW h \in Slots, NEW t \in Slots, NEW B,
         Cuts(buf, h, t, B), h # t, NEW K, K = HeaderLen + DecodeOf(buf, h)
  PROVE  /\ ParsedOf(buf, t)[Readable(h, t)]
               = <<MessageOf(buf, h)>> \o ParsedOf(buf, t)[Readable(Slot(h, K), t)]
         /\ MessageOf(buf, h) \in Messages
         /\ ParsedOf(buf, t)[Readable(Slot(h, K), t)] \in Seq(Messages)
<1> DEFINE R == Readable(h, t)
           f == ParsedOf(buf, t)
           l == DecodeOf(buf, h)
           s == Slot(h, K)
<1>1. K \in 0..R /\ MessageOf(buf, h) \in Messages
  BY CutsPop
<1>2. PICK C : Cuts(buf, s, t, C)
  BY CutsPop
<1>3. R \in 0..Size - 1 /\ R # 0 /\ l \in Nat
  BY ReadableForm, TailFromHead, DecodeOfType
<1>4. s \in Slots /\ Readable(s, t) = R - K
  BY <1>1, ReadableAfterPop
<1>5. Slot(t, Size - R) = h
  <2>1. R \in 0..R /\ R - R = 0
    BY <1>3
  <2>2. Slot(t, Size - R) = Slot(h, 0)
    BY <2>1, SlotBefore
  <2>3. Slot(h, 0) = h
    BY SlotForm, SizeFacts DEF Slots
  <2> QED BY <2>2, <2>3
<1> HIDE DEF R
<1>6. R \in 1..Size /\ l + HeaderLen <= R /\ R - l - HeaderLen = R - K
  <2> HIDE DEF l
  <2>1. K = HeaderLen + l
    BY DEF l
  <2> QED BY <1>1, <1>3, <2>1, SizeFacts
<1>7. f[R] = <<MessageOf(buf, h)>> \o f[R - l - HeaderLen]
  BY <1>5, <1>6, ParsedDef
<1>8. f[Readable(s, t)] \in Seq(Messages)
  <2>1. Readable(s, t) \in 0..Readable(s, t) /\ Readable(s, t) - Readable(s, t) = 0 /\ 0 \in C
    BY <1>1, <1>2, <1>3, <1>4 DEF Cuts
  <2> QED BY <1>2, <1>4, <2>1, ParsedType
<1> QED
  BY <1>1, <1>4, <1>6, <1>7, <1>8 DEF R
-----------------------------------------------------------------------------
(* The refinement: PushEnd enqueues, PopEnd dequeues, and every other step *)
(* leaves the queue as it is.                                              *)

LEMMA RefineInit ==
  ASSUME Init
  PROVE  Fifo!FifoInit
<1>1. head \in Slots /\ tail \in Slots /\ head = tail /\ buffer \in [Slots -> Byte] /\ last = << >>
  BY SizeFacts DEF Init
<1>2. Readable(head, tail) = 0
  BY <1>1, TailFromHead
<1>3. Contents = << >>
  BY <1>1, <1>2, ContentsNames, ParsedDef
<1> QED
  BY <1>1, <1>3 DEF Fifo!FifoInit

LEMMA RefinePushByte ==
  ASSUME IInv, PushByte
  PROVE  UNCHANGED <<Contents, last>>
<1>1. UNCHANGED <<head, tail, last>>
  BY DEF PushByte
<1>2. /\ buffer \in [Slots -> Byte] /\ head \in Slots /\ tail \in Slots
      /\ buffer' \in [Slots -> Byte]
  BY PushByteInv DEF IInv, Types
<1>3. \A i \in 0..Readable(head, tail) - 1 : buffer'[Slot(head, i)] = buffer[Slot(head, i)]
  BY PushByteInv
<1>4. PICK B : Cuts(buffer, head, tail, B)
  BY DEF IInv, Framed
<1>5. ParsedOf(buffer', tail)[Readable(head, tail)] = ParsedOf(buffer, tail)[Readable(head, tail)]
  BY <1>2, <1>3, <1>4, ParsedSame
<1> QED
  BY <1>1, <1>5, ContentsNames

LEMMA RefinePushEnd ==
  ASSUME IInv, PushEnd
  PROVE  Fifo!Enqueue
<1> DEFINE m == push.data
           K == HeaderLen + Len(m)
<1>1. m \in Messages /\ Len(m) \in Nat /\ K \in 0..Writable(head, tail) /\ tail' = Slot(tail, K)
  BY PushEndFacts
<1>2. \A j \in 0..HeaderLen + Len(m) - 1 : buffer[Slot(tail, j)] = Encoded(m)[j + 1]
  BY PushEndFacts, Zenon
<1>3. UNCHANGED <<buffer, head, last>>
  BY DEF PushEnd
<1>4. buffer \in [Slots -> Byte] /\ head \in Slots /\ tail \in Slots
  BY DEF IInv, Types
<1>5. PICK B : Cuts(buffer, head, tail, B)
  BY DEF IInv, Framed
<1> HIDE DEF m
<1>6. HeaderLen + Len(m) <= Writable(head, tail)
  BY <1>1
<1>7. DecodeOf(buffer, tail) = Len(m) /\ MessageOf(buffer, tail) = m
  BY ONLY <1>1, <1>2, <1>4, <1>5, <1>6, CutsPush, Zenon
<1>8. ParsedOf(buffer, tail')[Readable(head, tail) + K] = Append(Contents, m)
  <2>1. ParsedOf(buffer, Slot(tail, K))[Readable(head, tail) + K]
          = Append(ParsedOf(buffer, tail)[Readable(head, tail)], m)
    BY <1>1, <1>4, <1>5, <1>6, <1>7, ParsedPush
  <2> QED BY <1>1, <2>1, ContentsNames
<1>9. Readable(head, tail') = Readable(head, tail) + K
  BY <1>1, <1>4, ReadableAfterPush
<1>10. Contents' = Append(Contents, m)
  BY <1>3, <1>8, <1>9, ContentsNames
<1> QED
  BY <1>1, <1>3, <1>10 DEF Fifo!Enqueue

LEMMA RefinePopEnd ==
  ASSUME IInv, PopEnd
  PROVE  Fifo!Dequeue
<1> DEFINE K == HeaderLen + DecodeLen(head)
           m == MessageAt(head)
           r == ParsedOf(buffer, tail)[Readable(Slot(head, K), tail)]
<1>1. pop.stage = "data" /\ head' = Slot(head, K) /\ pop.data = m
  BY PopEndFacts
<1>2. head # tail
  BY <1>1, PopFacts
<1>3. UNCHANGED <<buffer, tail>> /\ last' = m
  BY <1>1 DEF PopEnd
<1>4. buffer \in [Slots -> Byte] /\ head \in Slots /\ tail \in Slots
  BY DEF IInv, Types
<1>5. PICK B : Cuts(buffer, head, tail, B)
  BY DEF IInv, Framed
<1>6. K = HeaderLen + DecodeOf(buffer, head) /\ m = MessageOf(buffer, head)
  BY Names
<1> HIDE DEF K, m
<1>7. ParsedOf(buffer, tail)[Readable(head, tail)] = <<m>> \o r /\ m \in Messages /\ r \in Seq(Messages)
  BY <1>2, <1>4, <1>5, <1>6, ParsedPop
<1>8. Contents = <<m>> \o r /\ Contents' = r
  BY <1>1, <1>3, <1>7, ContentsNames
<1> HIDE DEF r
<1>9. <<m>> \o r # << >> /\ Head(<<m>> \o r) = m /\ Tail(<<m>> \o r) = r
  BY <1>7
<1> QED
  BY <1>3, <1>8, <1>9 DEF Fifo!Dequeue

LEMMA RefineNext ==
  ASSUME IInv, [Next]_vars
  PROVE  [Fifo!FifoNext]_<<Contents, last>>
<1>1. CASE PushByte
  BY <1>1, RefinePushByte
<1>2. CASE PushEnd
  BY <1>2, RefinePushEnd DEF Fifo!FifoNext
<1>3. CASE PopEnd
  BY <1>3, RefinePopEnd DEF Fifo!FifoNext
<1>4. CASE UNCHANGED <<buffer, head, tail, last>>
  BY <1>4, ContentsNames
<1>5. \/ PushByte \/ PushEnd \/ PopEnd
      \/ UNCHANGED <<buffer, head, tail, last>>
  BY DEF Next, PopStep, PushBegin, PushRefused, PopBegin, PopHeader, PopByte, PopCorrupt, vars
<1> QED
  BY <1>1, <1>2, <1>3, <1>4, <1>5

(* The byte ring implements a FIFO of whole messages, however the bytes of *)
(* Push and Pop interleave and wherever in the buffer a message lies.      *)
THEOREM RingIsFifo == Spec => ImplementsFifo
<1>1. Init => Fifo!FifoInit
  BY RefineInit
<1>2. IInv /\ [Next]_vars => [Fifo!FifoNext]_<<Contents, last>>
  BY RefineNext
<1> QED
  BY <1>1, <1>2, Invariance, PTL DEF Spec, ImplementsFifo, Fifo!FifoSpec
=============================================================================
