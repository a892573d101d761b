-------------------------- MODULE FrameStreamProofs --------------------------
(***************************************************************************)
(* Proofs about FrameStream, for any frames, any noise before them, any    *)
(* sizes of the buffers and any pieces in which the stream arrives.        *)
(***************************************************************************)
EXTENDS FrameStream, SequenceTheorems, WellFoundedInduction, TLAPS

(* Induction with the property as a set.                                   *)
LEMMA LeastNumber ==
  ASSUME NEW T, T \subseteq Nat, T # {}
  PROVE  \E n \in T : \A m \in T : n <= m
<1> DEFINE R == OpToRel(<, Nat)
<1>1. IsWellFoundedOn(R, Nat)
  BY NatLessThanWellFounded
<1>2. \A x, y \in Nat : <<y, x>> \in R <=> y < x
  BY DEF OpToRel
<1> HIDE DEF R
<1>3. PICK x \in T : \A y \in T : ~ (<<y, x>> \in R)
  BY <1>1, WFMin
<1>4. ASSUME NEW y \in T PROVE x <= y
  <2>1. x \in Nat /\ y \in Nat
    OBVIOUS
  <2>2. ~(y < x)
    BY <1>2, <1>3, <2>1, Zenon
  <2> QED BY <2>1, <2>2
<1> QED
  BY <1>4

LEMMA Induction ==
  ASSUME NEW T, 0 \in T, \A n \in Nat : n \in T => n + 1 \in T
  PROVE  Nat \subseteq T
<1> DEFINE D == Nat \ T
<1>1. SUFFICES ASSUME D # {} PROVE FALSE
  OBVIOUS
<1>2. PICK x \in D : \A y \in D : x <= y
  BY <1>1, LeastNumber
<1>3. x \in Nat \ {0}
  BY <1>2
<1>4. x - 1 \in Nat /\ (x - 1) + 1 = x
  BY <1>3
<1>5. x - 1 \notin D
  BY <1>2, <1>4
<1> QED
  BY <1>2, <1>4, <1>5
-----------------------------------------------------------------------------
(* The length field.                                                       *)

LEMMA CodecFacts ==
  /\ Base \in Nat /\ Base > 1 /\ LengthBytes \in Nat /\ LengthBytes > 0
  /\ MaxPayload \in Nat /\ Shifted(MaxPayload)[LengthBytes] = 0
  /\ Magic \in Seq(Byte) /\ Len(Magic) \in Nat /\ Len(Magic) > 0
  /\ Version \in Byte
  /\ HeaderSize \in Nat /\ HeaderSize = Len(Magic) + 2 + LengthBytes
BY CodecAssumption, EmptySeq, LenProperties DEF CodecAssumption, HeaderSize

LEMMA DivisionByBase ==
  ASSUME NEW x \in Nat
  PROVE  /\ x \div Base \in Nat /\ x % Base \in Byte
         /\ x = (x \div Base) * Base + (x % Base)
BY CodecFacts DEF Byte

LEMMA DivisionMonotone ==
  ASSUME NEW x \in Nat, NEW y \in Nat, x <= y
  PROVE  x \div Base <= y \div Base
<1> DEFINE a == x \div Base
           c == y \div Base
<1>1. /\ a \in Nat /\ x = a * Base + (x % Base) /\ x % Base \in 0..(Base - 1)
      /\ c \in Nat /\ y = c * Base + (y % Base) /\ y % Base \in 0..(Base - 1)
  BY DivisionByBase DEF Byte
<1> HIDE DEF a, c
<1>2. SUFFICES ASSUME c + 1 <= a PROVE FALSE
  BY <1>1 DEF a, c
<1>3. (c + 1) * Base <= a * Base /\ (c + 1) * Base = c * Base + Base
  <2>1. PICK d \in Nat : a = (c + 1) + d
    <3>1. a - (c + 1) \in Nat /\ a = (c + 1) + (a - (c + 1))
      BY <1>1, <1>2
    <3> QED BY <3>1
  <2>2. a * Base = (c + 1) * Base + d * Base /\ d * Base \in Nat /\ (c + 1) * Base \in Nat
    BY <1>1, <2>1, CodecFacts
  <2>3. (c + 1) * Base = c * Base + Base
    BY <1>1, CodecFacts
  <2> QED BY <2>2, <2>3
<1>4. c * Base \in Nat /\ a * Base \in Nat
  BY <1>1, CodecFacts
<1>5. y < (c + 1) * Base /\ a * Base <= x
  <2> DEFINE r == x % Base
             q == y % Base
             u == a * Base
             v == c * Base
  <2>1. r \in 0..(Base - 1) /\ q \in 0..(Base - 1) /\ x = u + r /\ y = v + q
    BY <1>1
  <2>2. u \in Nat /\ v \in Nat /\ (c + 1) * Base = v + Base
    BY <1>3, <1>4
  <2> HIDE DEF r, q, u, v
  <2>3. y < v + Base /\ u <= x
    BY <2>1, <2>2, CodecFacts
  <2> QED BY <2>2, <2>3 DEF u
<1> DEFINE u == a * Base
           w == (c + 1) * Base
<1>6. w <= u /\ y < w /\ u <= x /\ u \in Nat /\ w \in Nat
  BY <1>1, <1>3, <1>4, <1>5, CodecFacts
<1> HIDE DEF u, w
<1> QED
  BY <1>6

(* The two recursive functions exist.                                      *)
LEMMA ShiftedExists ==
  ASSUME NEW len \in Nat, NEW N \in Nat
  PROVE  \E f : f = [k \in 0..N |-> IF k = 0 THEN len ELSE f[k - 1] \div Base]
<1> DEFINE Ok(f, n) == f = [k \in 0..n |-> IF k = 0 THEN len ELSE f[k - 1] \div Base]
           T == {n \in Nat : \E f : Ok(f, n)}
<1>1. 0 \in T
  <2> DEFINE g == [k \in 0..0 |-> len]
  <2>1. Ok(g, 0)
    OBVIOUS
  <2> QED BY <2>1
<1>2. ASSUME NEW n \in Nat, n \in T PROVE n + 1 \in T
  <2>1. PICK f : Ok(f, n)
    BY <1>2
  <2> DEFINE g == [k \in 0..(n + 1) |-> IF k = n + 1 THEN f[n] \div Base ELSE f[k]]
  <2>2. ASSUME NEW k \in 0..(n + 1)
        PROVE  g[k] = IF k = 0 THEN len ELSE g[k - 1] \div Base
    <3>1. CASE k = n + 1
      BY <3>1
    <3>2. CASE k \in 0..n
      BY <3>2, <2>1
    <3>3. k = n + 1 \/ k \in 0..n
      OBVIOUS
    <3> QED BY <3>1, <3>2, <3>3
  <2>3. Ok(g, n + 1)
    BY <2>2
  <2> HIDE DEF g, Ok
  <2>4. n + 1 \in Nat /\ \E h : Ok(h, n + 1)
    BY <2>3
  <2> QED BY <2>4
<1> HIDE DEF T
<1>3. Nat \subseteq T
  BY <1>1, <1>2, Induction
<1> QED
  BY <1>3 DEF T

LEMMA GatheredExists ==
  ASSUME NEW b, NEW N \in Nat
  PROVE  \E f : f = [k \in 0..N |-> IF k = 0 THEN 0 ELSE f[k - 1] * Base + b[k]]
<1> DEFINE Ok(f, n) == f = [k \in 0..n |-> IF k = 0 THEN 0 ELSE f[k - 1] * Base + b[k]]
           T == {n \in Nat : \E f : Ok(f, n)}
<1>1. 0 \in T
  <2> DEFINE g == [k \in 0..0 |-> 0]
  <2>1. Ok(g, 0)
    OBVIOUS
  <2> QED BY <2>1
<1>2. ASSUME NEW n \in Nat, n \in T PROVE n + 1 \in T
  <2>1. PICK f : Ok(f, n)
    BY <1>2
  <2> DEFINE g == [k \in 0..(n + 1) |-> IF k = n + 1 THEN f[n] * Base + b[n + 1] ELSE f[k]]
  <2>2. ASSUME NEW k \in 0..(n + 1)
        PROVE  g[k] = IF k = 0 THEN 0 ELSE g[k - 1] * Base + b[k]
    <3>1. CASE k = n + 1
      BY <3>1
    <3>2. CASE k \in 0..n
      BY <3>2, <2>1
    <3>3. k = n + 1 \/ k \in 0..n
      OBVIOUS
    <3> QED BY <3>1, <3>2, <3>3
  <2>3. Ok(g, n + 1)
    BY <2>2
  <2> HIDE DEF g, Ok
  <2>4. n + 1 \in Nat /\ \E h : Ok(h, n + 1)
    BY <2>3
  <2> QED BY <2>4
<1> HIDE DEF T
<1>3. Nat \subseteq T
  BY <1>1, <1>2, Induction
<1> QED
  BY <1>3 DEF T

LEMMA ShiftedDef ==
  ASSUME NEW len \in Nat
  PROVE  /\ Shifted(len)[0] = len
         /\ \A k \in 1..LengthBytes : Shifted(len)[k] = Shifted(len)[k - 1] \div Base
<1> DEFINE f == Shifted(len)
<1>1. f = [k \in 0..LengthBytes |-> IF k = 0 THEN len ELSE f[k - 1] \div Base]
  BY ShiftedExists, CodecFacts, Zenon DEF Shifted
<1> HIDE DEF f
<1>2. \A k \in 0..LengthBytes : f[k] = IF k = 0 THEN len ELSE f[k - 1] \div Base
  BY <1>1
<1>3. f[0] = len /\ \A k \in 1..LengthBytes : f[k] = f[k - 1] \div Base
  BY <1>2, CodecFacts
<1> QED
  BY <1>3 DEF f

LEMMA GatheredDef ==
  ASSUME NEW b
  PROVE  /\ Gathered(b)[0] = 0
         /\ \A k \in 1..LengthBytes : Gathered(b)[k] = Gathered(b)[k - 1] * Base + b[k]
<1> DEFINE f == Gathered(b)
<1>1. f = [k \in 0..LengthBytes |-> IF k = 0 THEN 0 ELSE f[k - 1] * Base + b[k]]
  BY GatheredExists, CodecFacts, Zenon DEF Gathered
<1> HIDE DEF f
<1>2. \A k \in 0..LengthBytes : f[k] = IF k = 0 THEN 0 ELSE f[k - 1] * Base + b[k]
  BY <1>1
<1>3. f[0] = 0 /\ \A k \in 1..LengthBytes : f[k] = f[k - 1] * Base + b[k]
  BY <1>2, CodecFacts
<1> QED
  BY <1>3 DEF f

LEMMA ShiftedType ==
  ASSUME NEW len \in Nat
  PROVE  \A k \in 0..LengthBytes : Shifted(len)[k] \in Nat
<1> DEFINE f == Shifted(len)
           T == {k \in Nat : k <= LengthBytes => f[k] \in Nat}
<1>1. f[0] = len /\ \A k \in 1..LengthBytes : f[k] = f[k - 1] \div Base
  BY ShiftedDef
<1> HIDE DEF f
<1>2. 0 \in T
  BY <1>1
<1>3. ASSUME NEW k \in Nat, k \in T PROVE k + 1 \in T
  <2>1. SUFFICES ASSUME k + 1 <= LengthBytes PROVE f[k + 1] \in Nat
    OBVIOUS
  <2>2. f[k] \in Nat
    BY <1>3, <2>1, CodecFacts
  <2>3. k + 1 \in 1..LengthBytes /\ (k + 1) - 1 = k
    BY <2>1, CodecFacts
  <2>4. f[k + 1] = f[k] \div Base
    BY <1>1, <2>3
  <2> QED BY <2>2, <2>4, DivisionByBase
<1> HIDE DEF T
<1>4. Nat \subseteq T
  BY <1>2, <1>3, Induction
<1>5. \A k \in 0..LengthBytes : f[k] \in Nat
  BY <1>4, CodecFacts DEF T
<1> QED
  BY <1>5 DEF f

LEMMA GatheredType ==
  ASSUME NEW b, \A i \in 1..LengthBytes : b[i] \in Nat
  PROVE  Gathered(b)[LengthBytes] \in Nat
<1> DEFINE f == Gathered(b)
           T == {k \in Nat : k <= LengthBytes => f[k] \in Nat}
<1>1. f[0] = 0 /\ \A k \in 1..LengthBytes : f[k] = f[k - 1] * Base + b[k]
  BY GatheredDef
<1> HIDE DEF f
<1>2. 0 \in T
  BY <1>1
<1>3. ASSUME NEW k \in Nat, k \in T PROVE k + 1 \in T
  <2>1. SUFFICES ASSUME k + 1 <= LengthBytes PROVE f[k + 1] \in Nat
    OBVIOUS
  <2>2. f[k] \in Nat
    BY <1>3, <2>1, CodecFacts
  <2>3. k + 1 \in 1..LengthBytes /\ (k + 1) - 1 = k
    BY <2>1, CodecFacts
  <2>4. f[k + 1] = f[k] * Base + b[k + 1] /\ b[k + 1] \in Nat
    BY <1>1, <2>3
  <2>5. f[k] * Base \in Nat
    BY <2>2, CodecFacts
  <2> QED BY <2>4, <2>5
<1> HIDE DEF T
<1>4. Nat \subseteq T
  BY <1>2, <1>3, Induction
<1>5. f[LengthBytes] \in Nat
  BY <1>4, CodecFacts DEF T
<1> QED
  BY <1>5 DEF f

(* A number that is not larger has no more bytes.                          *)
LEMMA ShiftedMonotone ==
  ASSUME NEW m \in Nat, NEW n \in Nat, m <= n
  PROVE  Shifted(m)[LengthBytes] <= Shifted(n)[LengthBytes]
<1> DEFINE f == Shifted(m)
           g == Shifted(n)
           T == {k \in Nat : k <= LengthBytes => f[k] <= g[k]}
<1>1. f[0] = m /\ \A k \in 1..LengthBytes : f[k] = f[k - 1] \div Base
  BY ShiftedDef
<1>2. g[0] = n /\ \A k \in 1..LengthBytes : g[k] = g[k - 1] \div Base
  BY ShiftedDef
<1>3. \A k \in 0..LengthBytes : f[k] \in Nat /\ g[k] \in Nat
  BY ShiftedType
<1> HIDE DEF f, g
<1>4. 0 \in T
  BY <1>1, <1>2
<1>5. ASSUME NEW k \in Nat, k \in T PROVE k + 1 \in T
  <2>1. SUFFICES ASSUME k + 1 <= LengthBytes PROVE f[k + 1] <= g[k + 1]
    OBVIOUS
  <2>2. k \in 0..LengthBytes /\ k + 1 \in 1..LengthBytes /\ (k + 1) - 1 = k
    BY <2>1, CodecFacts
  <2>3. f[k] <= g[k] /\ f[k] \in Nat /\ g[k] \in Nat
    BY <1>3, <1>5, <2>2
  <2>4. f[k + 1] = f[k] \div Base /\ g[k + 1] = g[k] \div Base
    BY <1>1, <1>2, <2>2
  <2> QED BY <2>3, <2>4, DivisionMonotone
<1> HIDE DEF T
<1>6. Nat \subseteq T
  BY <1>4, <1>5, Induction
<1>7. f[LengthBytes] <= g[LengthBytes]
  BY <1>6, CodecFacts DEF T
<1> QED
  BY <1>7 DEF f, g

LEMMA BigEndianType ==
  ASSUME NEW n \in Nat
  PROVE  BigEndian(n) \in Seq(Byte) /\ Len(BigEndian(n)) = LengthBytes
<1>1. ASSUME NEW i \in 1..LengthBytes
      PROVE  Shifted(n)[LengthBytes - i] % Base \in Byte
  <2>1. LengthBytes - i \in 0..LengthBytes
    BY CodecFacts
  <2>2. Shifted(n)[LengthBytes - i] \in Nat
    BY <2>1, ShiftedType
  <2> QED BY <2>2, DivisionByBase
<1>2. BigEndian(n) \in [1..LengthBytes -> Byte]
  BY <1>1 DEF BigEndian
<1>3. BigEndian(n) \in Seq(Byte)
  BY <1>2, CodecFacts, SeqDef
<1> QED BY <1>2, <1>3, CodecFacts, LenProperties

(* The decoder gets back a length that is within kMaxPayloadSize.  After k *)
(* bytes it has the length without its LengthBytes - k lower bytes.        *)
LEMMA LengthRoundTrip ==
  ASSUME NEW n \in 0..MaxPayload
  PROVE  Gathered(BigEndian(n))[LengthBytes] = n
<1> DEFINE f == Shifted(n)
           b == BigEndian(n)
           g == Gathered(b)
           T == {k \in Nat : k <= LengthBytes => g[k] = f[LengthBytes - k]}
<1>0. n \in Nat /\ n <= MaxPayload
  BY CodecFacts
<1>1. f[0] = n /\ \A k \in 1..LengthBytes : f[k] = f[k - 1] \div Base
  BY <1>0, ShiftedDef
<1>2. \A k \in 0..LengthBytes : f[k] \in Nat
  BY <1>0, ShiftedType
<1>3. g[0] = 0 /\ \A k \in 1..LengthBytes : g[k] = g[k - 1] * Base + b[k]
  BY GatheredDef
<1>4. \A i \in 1..LengthBytes : b[i] = f[LengthBytes - i] % Base
  BY DEF BigEndian
<1>5. f[LengthBytes] = 0
  <2>1. f[LengthBytes] <= Shifted(MaxPayload)[LengthBytes]
    BY <1>0, CodecFacts, ShiftedMonotone
  <2>2. f[LengthBytes] \in Nat
    BY <1>2, CodecFacts
  <2> HIDE DEF f
  <2> QED BY <2>1, <2>2, CodecFacts
<1> HIDE DEF f, g, b
<1>6. 0 \in T
  BY <1>3, <1>5, CodecFacts
<1>7. ASSUME NEW k \in Nat, k \in T PROVE k + 1 \in T
  <2>1. SUFFICES ASSUME k + 1 <= LengthBytes PROVE g[k + 1] = f[LengthBytes - (k + 1)]
    OBVIOUS
  <2> DEFINE j == LengthBytes - (k + 1)
  <2>2. /\ k + 1 \in 1..LengthBytes /\ (k + 1) - 1 = k /\ k <= LengthBytes
        /\ j \in 0..LengthBytes /\ LengthBytes - (k + 1) = j
        /\ j + 1 \in 1..LengthBytes /\ (j + 1) - 1 = j /\ LengthBytes - k = j + 1
    BY <2>1, CodecFacts
  <2> HIDE DEF j
  <2>3. g[k] = f[j + 1]
    BY <1>7, <2>2
  <2>4. g[k + 1] = g[k] * Base + b[k + 1] /\ b[k + 1] = f[j] % Base
    BY <1>3, <1>4, <2>2
  <2>5. f[j + 1] = f[j] \div Base /\ f[j] \in Nat
    BY <1>1, <1>2, <2>2
  <2>6. f[j] = (f[j] \div Base) * Base + (f[j] % Base)
    BY <2>5, DivisionByBase
  <2>7. g[k + 1] = f[j]
    BY <2>3, <2>4, <2>5, <2>6
  <2> QED BY <2>7 DEF j
<1> HIDE DEF T
<1>8. Nat \subseteq T
  BY <1>6, <1>7, Induction
<1>9. g[LengthBytes] = f[0]
  <2>1. LengthBytes \in T /\ LengthBytes - LengthBytes = 0
    BY <1>8, CodecFacts
  <2> QED BY <2>1, CodecFacts DEF T
<1> QED
  BY <1>1, <1>9 DEF f, g, b
-----------------------------------------------------------------------------
(* Sequences.                                                              *)

(* What is left of s behind its first k elements.                          *)
Drop(s, k) == SubSeq(s, k + 1, Len(s))

LEMMA SliceProps ==
  ASSUME NEW S, NEW s \in Seq(S), NEW m \in Nat, NEW n \in Nat,
         1 <= m, n <= Len(s), m <= n + 1
  PROVE  /\ SubSeq(s, m, n) \in Seq(S) /\ Len(SubSeq(s, m, n)) = (n - m) + 1
         /\ \A i \in 1..((n - m) + 1) : SubSeq(s, m, n)[i] = s[(m - 1) + i]
<1>1. Len(s) \in Nat /\ m \in Int /\ n \in Int
  BY LenProperties
<1>2. \A i \in m..n : s[i] \in S
  <2> TAKE i \in m..n
  <2>1. i \in 1..Len(s)
    BY <1>1
  <2> QED BY <2>1, ElementOfSeq
<1>3. /\ SubSeq(s, m, n) \in Seq(S)
      /\ Len(SubSeq(s, m, n)) = IF m <= n THEN n - m + 1 ELSE 0
      /\ \A i \in 1..(n - m + 1) : SubSeq(s, m, n)[i] = s[m + i - 1]
  BY <1>1, <1>2, SubSeqProperties
<1>4. Len(SubSeq(s, m, n)) = (n - m) + 1
  BY <1>3
<1>5. ASSUME NEW i \in 1..((n - m) + 1) PROVE SubSeq(s, m, n)[i] = s[(m - 1) + i]
  <2>1. m + i - 1 = (m - 1) + i /\ i \in 1..(n - m + 1)
    BY <1>1
  <2> QED BY <1>3, <2>1
<1> QED BY <1>3, <1>4, <1>5

LEMMA DropProps ==
  ASSUME NEW S, NEW s \in Seq(S), NEW k \in 0..Len(s)
  PROVE  /\ Drop(s, k) \in Seq(S) /\ Len(Drop(s, k)) = Len(s) - k
         /\ \A i \in 1..(Len(s) - k) : Drop(s, k)[i] = s[k + i]
<1>1. /\ Len(s) \in Nat /\ k \in Nat /\ k + 1 \in Nat /\ 1 <= k + 1 /\ k + 1 <= Len(s) + 1
      /\ (Len(s) - (k + 1)) + 1 = Len(s) - k /\ (k + 1) - 1 = k
  BY LenProperties
<1> DEFINE m == k + 1
           n == Len(s)
<1>2. m \in Nat /\ n \in Nat /\ 1 <= m /\ n <= Len(s) /\ m <= n + 1
  BY <1>1
<1>3. (n - m) + 1 = Len(s) - k /\ m - 1 = k /\ Drop(s, k) = SubSeq(s, m, n)
  BY <1>1 DEF Drop
<1> HIDE DEF m, n
<1>4. /\ SubSeq(s, m, n) \in Seq(S) /\ Len(SubSeq(s, m, n)) = (n - m) + 1
      /\ \A i \in 1..((n - m) + 1) : SubSeq(s, m, n)[i] = s[(m - 1) + i]
  BY <1>2, SliceProps
<1> QED BY <1>3, <1>4

LEMMA TakeProps ==
  ASSUME NEW S, NEW s \in Seq(S), NEW k \in 0..Len(s)
  PROVE  /\ SubSeq(s, 1, k) \in Seq(S) /\ Len(SubSeq(s, 1, k)) = k
         /\ \A i \in 1..k : SubSeq(s, 1, k)[i] = s[i]
<1>1. /\ Len(s) \in Nat /\ k \in Nat /\ 1 \in Nat /\ 1 <= k + 1 /\ k <= Len(s)
      /\ (k - 1) + 1 = k
  BY LenProperties
<1>2. \A i \in 1..k : (1 - 1) + i = i
  BY <1>1
<1> QED BY <1>1, <1>2, SliceProps

LEMMA TakeDrop ==
  ASSUME NEW S, NEW s \in Seq(S), NEW k \in 0..Len(s)
  PROVE  SubSeq(s, 1, k) \o Drop(s, k) = s
<1>1. Len(s) \in Nat /\ k \in Nat
  BY LenProperties
<1> DEFINE a == SubSeq(s, 1, k)
           b == Drop(s, k)
<1>2. a \in Seq(S) /\ Len(a) = k /\ \A i \in 1..k : a[i] = s[i]
  BY TakeProps
<1>3. b \in Seq(S) /\ Len(b) = Len(s) - k /\ \A i \in 1..(Len(s) - k) : b[i] = s[k + i]
  BY DropProps
<1> HIDE DEF a, b
<1>4. /\ a \o b \in Seq(S) /\ Len(a \o b) = Len(a) + Len(b)
      /\ \A i \in 1..Len(a) + Len(b) : (a \o b)[i] = IF i <= Len(a) THEN a[i] ELSE b[i - Len(a)]
  BY <1>2, <1>3, ConcatProperties
<1>5. Len(a \o b) = Len(s)
  BY <1>1, <1>2, <1>3, <1>4
<1>6. ASSUME NEW i \in 1..Len(s) PROVE (a \o b)[i] = s[i]
  <2>1. CASE i <= k
    BY <1>1, <1>2, <1>3, <1>4, <2>1
  <2>2. CASE ~(i <= k)
    <3>1. i - k \in 1..(Len(s) - k) /\ k + (i - k) = i
      BY <1>1, <2>2
    <3>2. b[i - k] = s[i]
      BY <1>3, <3>1
    <3> QED BY <1>1, <1>2, <1>3, <1>4, <2>2, <3>2
  <2> QED BY <2>1, <2>2
<1>7. a \o b = s
  BY <1>4, <1>5, <1>6, SeqEqual
<1> QED BY <1>7 DEF a, b

(* Where a concatenation is cut within its first part.                     *)
LEMMA SliceOfFirst ==
  ASSUME NEW S, NEW s \in Seq(S), NEW z \in Seq(S), NEW m \in Nat, NEW n \in Nat,
         1 <= m, n <= Len(s), m <= n + 1
  PROVE  SubSeq(s \o z, m, n) = SubSeq(s, m, n)
<1> DEFINE c == s \o z
           a == SubSeq(c, m, n)
           b == SubSeq(s, m, n)
<1>1. Len(s) \in Nat /\ Len(z) \in Nat
  BY LenProperties
<1>2. /\ c \in Seq(S) /\ Len(c) = Len(s) + Len(z)
      /\ \A i \in 1..Len(s) + Len(z) : c[i] = IF i <= Len(s) THEN s[i] ELSE z[i - Len(s)]
  BY ConcatProperties
<1>3. b \in Seq(S) /\ Len(b) = (n - m) + 1 /\ \A i \in 1..((n - m) + 1) : b[i] = s[(m - 1) + i]
  BY SliceProps
<1> HIDE DEF b, c
<1>4. n <= Len(c)
  BY <1>1, <1>2
<1>5. a \in Seq(S) /\ Len(a) = (n - m) + 1 /\ \A i \in 1..((n - m) + 1) : a[i] = c[(m - 1) + i]
  BY <1>2, <1>4, SliceProps
<1> HIDE DEF a
<1>6. ASSUME NEW i \in 1..Len(a) PROVE a[i] = b[i]
  <2>1. i \in 1..((n - m) + 1)
    BY <1>5
  <2> DEFINE j == (m - 1) + i
  <2>2. j \in 1..Len(s) + Len(z) /\ j <= Len(s)
    BY <1>1, <2>1
  <2>3. a[i] = c[j] /\ b[i] = s[j]
    BY <1>3, <1>5, <2>1
  <2> HIDE DEF j
  <2> QED BY <1>2, <2>2, <2>3
<1>7. a = b
  BY <1>3, <1>5, <1>6, SeqEqual
<1> QED BY <1>7 DEF a, b, c

LEMMA DropOfFirst ==
  ASSUME NEW S, NEW s \in Seq(S), NEW z \in Seq(S), NEW k \in 0..Len(s)
  PROVE  Drop(s \o z, k) = Drop(s, k) \o z
<1> DEFINE c == s \o z
           d == Drop(s, k)
           a == Drop(c, k)
           b == d \o z
<1>1. Len(s) \in Nat /\ Len(z) \in Nat /\ k \in Nat
  BY LenProperties
<1>2. /\ c \in Seq(S) /\ Len(c) = Len(s) + Len(z)
      /\ \A i \in 1..Len(s) + Len(z) : c[i] = IF i <= Len(s) THEN s[i] ELSE z[i - Len(s)]
  BY ConcatProperties
<1>3. d \in Seq(S) /\ Len(d) = Len(s) - k /\ \A i \in 1..(Len(s) - k) : d[i] = s[k + i]
  BY DropProps
<1> HIDE DEF c, d
<1>4. /\ b \in Seq(S) /\ Len(b) = Len(d) + Len(z)
      /\ \A i \in 1..Len(d) + Len(z) : b[i] = IF i <= Len(d) THEN d[i] ELSE z[i - Len(d)]
  BY <1>3, ConcatProperties
<1>5. k \in 0..Len(c)
  BY <1>1, <1>2
<1>6. a \in Seq(S) /\ Len(a) = Len(c) - k /\ \A i \in 1..(Len(c) - k) : a[i] = c[k + i]
  <2>1. c \in Seq(S)
    BY <1>2
  <2> QED BY ONLY <1>5, <2>1, DropProps
<1> HIDE DEF a, b
<1>7. Len(a) = Len(b)
  BY <1>1, <1>2, <1>3, <1>4, <1>6
<1>8. ASSUME NEW i \in 1..Len(a) PROVE a[i] = b[i]
  <2>1. i \in Nat /\ 1 <= i /\ i <= (Len(s) + Len(z)) - k
    BY <1>1, <1>2, <1>6
  <2>2. k + i \in 1..Len(s) + Len(z) /\ i \in 1..Len(d) + Len(z)
    BY <1>1, <1>3, <2>1
  <2>3. a[i] = c[k + i]
    BY <1>2, <1>6, <2>1
  <2>4. CASE i <= Len(s) - k
    <3>1. k + i <= Len(s) /\ i \in 1..(Len(s) - k)
      BY <1>1, <2>1, <2>4
    <3>2. a[i] = s[k + i] /\ b[i] = d[i]
      BY <1>2, <1>3, <1>4, <2>2, <2>3, <2>4, <3>1
    <3> QED BY <1>3, <3>1, <3>2
  <2>5. CASE ~(i <= Len(s) - k)
    <3>1. ~(k + i <= Len(s)) /\ (k + i) - Len(s) = i - (Len(s) - k)
      BY <1>1, <2>1, <2>5
    <3>2. a[i] = z[(k + i) - Len(s)] /\ b[i] = z[i - (Len(s) - k)]
      BY <1>2, <1>3, <1>4, <2>2, <2>3, <2>5, <3>1
    <3> QED BY <3>1, <3>2
  <2> QED BY <2>4, <2>5
<1>9. a = b
  BY <1>4, <1>6, <1>7, <1>8, SeqEqual
<1> QED BY <1>9 DEF a, b, c, d

LEMMA DropDrop ==
  ASSUME NEW S, NEW s \in Seq(S), NEW j \in Nat, NEW k \in Nat, j + k <= Len(s)
  PROVE  Drop(Drop(s, j), k) = Drop(s, j + k)
<1> DEFINE d == Drop(s, j)
           a == Drop(d, k)
           b == Drop(s, j + k)
<1>1. Len(s) \in Nat /\ j \in 0..Len(s) /\ j + k \in 0..Len(s)
  BY LenProperties
<1>2. d \in Seq(S) /\ Len(d) = Len(s) - j /\ \A i \in 1..(Len(s) - j) : d[i] = s[j + i]
  BY <1>1, DropProps
<1>3. /\ b \in Seq(S) /\ Len(b) = Len(s) - (j + k)
      /\ \A i \in 1..(Len(s) - (j + k)) : b[i] = s[(j + k) + i]
  BY <1>1, DropProps
<1> HIDE DEF d, b
<1>4. k \in 0..Len(d)
  BY <1>1, <1>2
<1>5. a \in Seq(S) /\ Len(a) = Len(d) - k /\ \A i \in 1..(Len(d) - k) : a[i] = d[k + i]
  BY <1>2, <1>4, DropProps
<1> HIDE DEF a
<1>6. Len(a) = Len(b)
  BY <1>1, <1>2, <1>3, <1>5
<1>7. ASSUME NEW i \in 1..Len(a) PROVE a[i] = b[i]
  <2>1. /\ i \in 1..(Len(d) - k) /\ k + i \in 1..(Len(s) - j) /\ i \in 1..(Len(s) - (j + k))
        /\ j + (k + i) = (j + k) + i
    BY <1>1, <1>2, <1>5
  <2>2. a[i] = d[k + i] /\ d[k + i] = s[j + (k + i)] /\ b[i] = s[(j + k) + i]
    BY <1>2, <1>3, <1>5, <2>1
  <2> QED BY <2>1, <2>2
<1>8. a = b
  BY <1>3, <1>5, <1>6, <1>7, SeqEqual
<1> QED BY <1>8 DEF a, b, d

(* Behind the first part comes the second.                                 *)
LEMMA DropFirst ==
  ASSUME NEW S, NEW s \in Seq(S), NEW z \in Seq(S)
  PROVE  Drop(s \o z, Len(s)) = z
<1>1. Len(s) \in Nat /\ Len(s) \in 0..Len(s)
  BY LenProperties
<1>2. Drop(s \o z, Len(s)) = Drop(s, Len(s)) \o z
  BY <1>1, DropOfFirst
<1>3. Drop(s, Len(s)) = << >>
  <2>1. Len(s) \in Int /\ Len(s) + 1 \in Int /\ Len(s) < Len(s) + 1
    BY <1>1
  <2> QED BY <2>1, SubSeqEmpty DEF Drop
<1> QED BY <1>2, <1>3, ConcatEmptySeq

LEMMA TakeFirst ==
  ASSUME NEW S, NEW s \in Seq(S), NEW z \in Seq(S)
  PROVE  SubSeq(s \o z, 1, Len(s)) = s
<1>1. Len(s) \in Nat
  BY LenProperties
<1>2. SubSeq(s \o z, 1, Len(s)) = SubSeq(s, 1, Len(s))
  BY <1>1, SliceOfFirst
<1> QED BY <1>2, SubSeqFull

(* A sequence is a prefix of its continuations and of nothing else.        *)
LEMMA PrefixForm ==
  ASSUME NEW S, NEW s \in Seq(S), NEW t \in Seq(S)
  PROVE  IsPrefix(s, t) <=> \E u \in Seq(S) : t = s \o u
<1>1. Len(s) \in Nat /\ Len(t) \in Nat
  BY LenProperties
<1>2. ASSUME IsPrefix(s, t) PROVE \E u \in Seq(S) : t = s \o u
  <2>1. Len(s) \in 0..Len(t) /\ SubSeq(s, 1, Len(s)) = SubSeq(t, 1, Len(s))
    BY <1>1, <1>2 DEF IsPrefix
  <2>2. SubSeq(t, 1, Len(s)) = s
    BY <2>1, SubSeqFull
  <2>3. SubSeq(t, 1, Len(s)) \o Drop(t, Len(s)) = t /\ Drop(t, Len(s)) \in Seq(S)
    BY <2>1, TakeDrop, DropProps
  <2> QED BY <2>2, <2>3
<1>3. ASSUME NEW u \in Seq(S), t = s \o u PROVE IsPrefix(s, t)
  <2>1. Len(u) \in Nat /\ Len(s \o u) = Len(s) + Len(u)
    BY LenProperties, ConcatProperties
  <2>2. SubSeq(t, 1, Len(s)) = s /\ SubSeq(s, 1, Len(s)) = s
    BY <1>3, TakeFirst, SubSeqFull
  <2> QED BY <1>1, <1>3, <2>1, <2>2 DEF IsPrefix
<1> QED BY <1>2, <1>3
-----------------------------------------------------------------------------
(* Headers.                                                                *)

Frame == [type : Byte, payload : Seq(Byte)]

LEMMA BytesAssociate ==
  \A a, b, c \in Seq(Byte) : (a \o b) \o c = a \o (b \o c)
BY ConcatAssociative

LEMMA FramesAssociate ==
  \A a, b, c \in Seq(Frame) : (a \o b) \o c = a \o (b \o c)
BY ConcatAssociative

LEMMA HeaderFields ==
  ASSUME NEW s \in Seq(Byte), Len(s) >= HeaderSize
  PROVE  LengthOf(s) \in Nat /\ TypeOf(s) \in Byte
<1>1. Len(s) \in Nat
  BY LenProperties
<1> DEFINE m == HeaderSize - LengthBytes + 1
           d == SubSeq(s, m, HeaderSize)
<1>2. /\ m \in Nat /\ 1 <= m /\ m <= HeaderSize + 1 /\ (HeaderSize - m) + 1 = LengthBytes
      /\ HeaderSize <= Len(s)
  BY <1>1, CodecFacts
<1> HIDE DEF m
<1>3. d \in Seq(Byte) /\ Len(d) = LengthBytes
  BY <1>2, CodecFacts, SliceProps
<1> HIDE DEF d
<1>4. \A i \in 1..LengthBytes : d[i] \in Nat
  <2> TAKE i \in 1..LengthBytes
  <2>1. d[i] \in Byte
    BY <1>3, ElementOfSeq
  <2> QED BY <2>1, CodecFacts DEF Byte
<1>5. LengthOf(s) \in Nat
  BY <1>4, GatheredType DEF LengthOf, d, m
<1>6. Len(Magic) + 2 \in 1..Len(s)
  BY <1>1, CodecFacts
<1> QED BY <1>5, <1>6, ElementOfSeq DEF TypeOf

LEMMA CompleteFrame ==
  ASSUME NEW s \in Seq(Byte), Complete(s)
  PROVE  /\ HeaderSize + LengthOf(s) \in 1..Len(s) /\ LengthOf(s) \in Nat
         /\ FrameAt(s) \in Frame /\ Len(FrameAt(s).payload) = LengthOf(s)
         /\ Len(s) >= HeaderSize
<1>1. Len(s) \in Nat /\ Len(s) >= HeaderSize /\ Len(s) >= HeaderSize + LengthOf(s)
  BY LenProperties DEF Complete, Headed
<1>2. LengthOf(s) \in Nat /\ TypeOf(s) \in Byte
  BY <1>1, HeaderFields
<1> DEFINE l == LengthOf(s)
           m == HeaderSize + 1
           n == HeaderSize + l
           p == SubSeq(s, m, n)
<1>3. m \in Nat /\ n \in Nat /\ 1 <= m /\ n <= Len(s) /\ m <= n + 1 /\ (n - m) + 1 = l
  <2>1. HeaderSize \in Nat
    BY CodecFacts
  <2> QED BY <1>1, <1>2, <2>1
<1>4. FrameAt(s) = [type |-> TypeOf(s), payload |-> p]
  BY DEF FrameAt
<1> HIDE DEF m, n
<1>5. p \in Seq(Byte) /\ Len(p) = (n - m) + 1
  BY <1>3, SliceProps
<1> HIDE DEF p
<1>6. FrameAt(s) \in Frame /\ Len(FrameAt(s).payload) = LengthOf(s)
  BY <1>2, <1>3, <1>4, <1>5 DEF Frame
<1>7. n \in 1..Len(s)
  BY <1>1, <1>2, <1>3, CodecFacts DEF n
<1> QED BY <1>1, <1>2, <1>6, <1>7 DEF n

LEMMA Decodes ==
  ASSUME NEW s \in Seq(Byte)
  PROVE  IF Complete(s)
           THEN TryDecode(s).consumed # 0 /\ TryDecode(s).consumed = HeaderSize + LengthOf(s)
                /\ TryDecode(s).frame = FrameAt(s)
           ELSE TryDecode(s).consumed = 0
<1>1. CASE Complete(s)
  <2>1. HeaderSize + LengthOf(s) # 0
    BY <1>1, CompleteFrame
  <2> QED BY <1>1, <2>1 DEF TryDecode
<1>2. CASE ~Complete(s)
  BY <1>2 DEF TryDecode
<1> QED BY <1>1, <1>2
-----------------------------------------------------------------------------
(* FramesIn is a function: what it says of a sequence it says by way of    *)
(* shorter ones.                                                           *)

Found(f, s) ==
  IF Len(s) < HeaderSize THEN << >>
  ELSE IF ~Headed(s) THEN f[Tail(s)]
  ELSE IF TryDecode(s).consumed = 0 THEN << >>
  ELSE <<TryDecode(s).frame>> \o f[SubSeq(s, TryDecode(s).consumed + 1, Len(s))]

Finders == [Seq(Byte) -> Seq(Frame)]

(* The four cases, in terms of the header.                                 *)
LEMMA FoundCases ==
  ASSUME NEW f, NEW s \in Seq(Byte)
  PROVE  /\ Len(s) < HeaderSize => Found(f, s) = << >>
         /\ Len(s) >= HeaderSize /\ ~Headed(s) => Found(f, s) = f[Drop(s, 1)]
         /\ Headed(s) /\ ~Complete(s) => Found(f, s) = << >>
         /\ Complete(s) =>
              Found(f, s) = <<FrameAt(s)>> \o f[Drop(s, HeaderSize + LengthOf(s))]
<1>1. Len(s) \in Nat
  BY LenProperties
<1>2. Headed(s) => ~(Len(s) < HeaderSize)
  BY <1>1, CodecFacts DEF Headed
<1>3. Complete(s) => Headed(s)
  BY DEF Complete
<1>4. Len(s) >= HeaderSize => ~(Len(s) < HeaderSize) /\ Tail(s) = Drop(s, 1)
  <2> HAVE Len(s) >= HeaderSize
  <2>1. s # << >>
    BY <1>1, CodecFacts, EmptySeq
  <2>2. Tail(s) = SubSeq(s, 2, Len(s))
    BY <2>1, TailIsSubSeq
  <2> QED BY <1>1, <2>2, CodecFacts DEF Drop
<1>5. ASSUME Complete(s)
      PROVE  Found(f, s) = <<FrameAt(s)>> \o f[Drop(s, HeaderSize + LengthOf(s))]
  BY <1>2, <1>3, <1>5, Decodes DEF Found, Drop
<1>6. ASSUME Headed(s), ~Complete(s) PROVE Found(f, s) = << >>
  BY <1>2, <1>6, Decodes DEF Found
<1>7. ASSUME Len(s) >= HeaderSize, ~Headed(s) PROVE Found(f, s) = f[Drop(s, 1)]
  BY <1>4, <1>7 DEF Found
<1>8. ASSUME Len(s) < HeaderSize PROVE Found(f, s) = << >>
  BY <1>8 DEF Found
<1> QED BY <1>5, <1>6, <1>7, <1>8, Zenon

(* What is left to look at is shorter.                                     *)
LEMMA LeftIsShorter ==
  ASSUME NEW s \in Seq(Byte)
  PROVE  /\ Len(s) >= HeaderSize =>
              Drop(s, 1) \in Seq(Byte) /\ Len(Drop(s, 1)) < Len(s)
         /\ Complete(s) => LET r == Drop(s, HeaderSize + LengthOf(s))
                           IN  r \in Seq(Byte) /\ Len(r) < Len(s)
<1>1. Len(s) \in Nat
  BY LenProperties
<1>2. ASSUME NEW k \in 1..Len(s)
      PROVE  Drop(s, k) \in Seq(Byte) /\ Len(Drop(s, k)) < Len(s)
  <2>1. k \in 0..Len(s) /\ Len(s) - k < Len(s)
    BY <1>1
  <2> QED BY <2>1, DropProps
<1>3. Len(s) >= HeaderSize => 1 \in 1..Len(s)
  BY <1>1, CodecFacts
<1>4. Complete(s) => HeaderSize + LengthOf(s) \in 1..Len(s)
  BY CompleteFrame
<1> QED BY <1>2, <1>3, <1>4

LEMMA FoundType ==
  ASSUME NEW f \in Finders, NEW s \in Seq(Byte)
  PROVE  Found(f, s) \in Seq(Frame)
<1>1. << >> \in Seq(Frame)
  BY EmptySeq
<1>2. \A r \in Seq(Byte) : f[r] \in Seq(Frame)
  BY DEF Finders
<1>3. CASE Len(s) < HeaderSize
  BY <1>1, <1>3, FoundCases
<1>4. CASE Len(s) >= HeaderSize /\ ~Headed(s)
  BY <1>2, <1>4, FoundCases, LeftIsShorter
<1>5. CASE Headed(s) /\ ~Complete(s)
  BY <1>1, <1>5, FoundCases
<1>6. CASE Complete(s)
  <2> DEFINE r == Drop(s, HeaderSize + LengthOf(s))
             a == FrameAt(s)
  <2>1. f[r] \in Seq(Frame) /\ a \in Frame
    BY <1>2, <1>6, LeftIsShorter, CompleteFrame
  <2>2. Found(f, s) = <<a>> \o f[r]
    BY <1>6, FoundCases
  <2> HIDE DEF r, a
  <2>3. <<a>> \in Seq(Frame)
    BY <2>1
  <2>4. <<a>> \o f[r] \in Seq(Frame)
    BY <2>1, <2>3, ConcatProperties
  <2> QED BY <2>2, <2>4
<1>7. Len(s) < HeaderSize \/ Len(s) >= HeaderSize
  BY LenProperties, CodecFacts
<1> QED BY <1>3, <1>4, <1>5, <1>6, <1>7

LEMMA FoundAgrees ==
  ASSUME NEW f, NEW g, NEW s \in Seq(Byte),
         \A r \in Seq(Byte) : Len(r) < Len(s) => f[r] = g[r]
  PROVE  Found(f, s) = Found(g, s)
<1>1. CASE Len(s) < HeaderSize
  BY <1>1, FoundCases
<1>2. CASE Len(s) >= HeaderSize /\ ~Headed(s)
  <2>1. f[Drop(s, 1)] = g[Drop(s, 1)]
    BY <1>2, LeftIsShorter
  <2>2. Found(f, s) = f[Drop(s, 1)] /\ Found(g, s) = g[Drop(s, 1)]
    BY <1>2, FoundCases
  <2> QED BY <2>1, <2>2
<1>3. CASE Headed(s) /\ ~Complete(s)
  BY <1>3, FoundCases
<1>4. CASE Complete(s)
  <2> DEFINE r == Drop(s, HeaderSize + LengthOf(s))
  <2>1. f[r] = g[r]
    BY <1>4, LeftIsShorter
  <2>2. Found(f, s) = <<FrameAt(s)>> \o f[r] /\ Found(g, s) = <<FrameAt(s)>> \o g[r]
    BY <1>4, FoundCases
  <2> QED BY <2>1, <2>2
<1>5. Len(s) < HeaderSize \/ Len(s) >= HeaderSize
  BY LenProperties, CodecFacts
<1> QED BY <1>1, <1>2, <1>3, <1>4, <1>5

(* f is right about the sequences of at most n bytes.                      *)
RightUpTo(f, n) == \A s \in Seq(Byte) : Len(s) <= n => f[s] = Found(f, s)

LEMMA RightExists ==
  ASSUME NEW N \in Nat
  PROVE  \E f \in Finders : RightUpTo(f, N)
<1> DEFINE T == {n \in Nat : \E f \in Finders : RightUpTo(f, n)}
<1>1. 0 \in T
  <2> DEFINE g == [s \in Seq(Byte) |-> << >>]
  <2>1. g \in Finders
    BY EmptySeq DEF Finders
  <2>2. ASSUME NEW s \in Seq(Byte), Len(s) <= 0 PROVE g[s] = Found(g, s)
    <3>1. Len(s) < HeaderSize
      BY <2>2, LenProperties, CodecFacts
    <3>2. Found(g, s) = << >>
      BY <3>1, FoundCases
    <3> QED BY <3>2
  <2> HIDE DEF g
  <2>3. RightUpTo(g, 0)
    BY <2>2 DEF RightUpTo
  <2> QED BY <2>1, <2>3
<1>2. ASSUME NEW n \in Nat, n \in T PROVE n + 1 \in T
  <2>1. PICK f \in Finders : RightUpTo(f, n)
    BY <1>2
  <2> DEFINE g == [s \in Seq(Byte) |-> IF Len(s) = n + 1 THEN Found(f, s) ELSE f[s]]
  <2>2. g \in Finders
    BY FoundType DEF Finders
  <2>3. \A s \in Seq(Byte) : g[s] = IF Len(s) = n + 1 THEN Found(f, s) ELSE f[s]
    OBVIOUS
  <2> HIDE DEF g
  <2>4. ASSUME NEW s \in Seq(Byte), Len(s) <= n + 1 PROVE g[s] = Found(g, s)
    <3>1. ASSUME NEW r \in Seq(Byte), Len(r) < Len(s) PROVE f[r] = g[r]
      <4>1. Len(r) # n + 1
        BY <2>4, <3>1, LenProperties
      <4> QED BY <2>3, <4>1
    <3>2. Found(f, s) = Found(g, s)
      BY <3>1, FoundAgrees
    <3>3. Len(s) # n + 1 => Len(s) <= n
      BY <2>4, LenProperties
    <3>4. Len(s) # n + 1 => f[s] = Found(f, s)
      BY <2>1, <3>3 DEF RightUpTo
    <3> QED BY <2>3, <3>2, <3>4
  <2>5. RightUpTo(g, n + 1)
    BY <2>4 DEF RightUpTo
  <2> QED BY <2>2, <2>5
<1> HIDE DEF T
<1>3. Nat \subseteq T
  BY <1>1, <1>2, Induction
<1> QED BY <1>3 DEF T

LEMMA RightAgree ==
  ASSUME NEW N \in Nat, NEW f, NEW g, RightUpTo(f, N), RightUpTo(g, N)
  PROVE  \A s \in Seq(Byte) : Len(s) <= N => f[s] = g[s]
<1> DEFINE T == {n \in Nat : n <= N => \A s \in Seq(Byte) : Len(s) <= n => f[s] = g[s]}
<1>1. ASSUME NEW n \in Nat, n <= N, NEW s \in Seq(Byte), Len(s) <= n,
             \A r \in Seq(Byte) : Len(r) < Len(s) => f[r] = g[r]
      PROVE  f[s] = g[s]
  <2>1. Len(s) <= N
    BY <1>1, LenProperties
  <2>2. f[s] = Found(f, s) /\ g[s] = Found(g, s)
    BY <2>1 DEF RightUpTo
  <2>3. Found(f, s) = Found(g, s)
    BY <1>1, FoundAgrees
  <2> QED BY <2>2, <2>3
<1>2. 0 \in T
  <2>1. ASSUME NEW s \in Seq(Byte), Len(s) <= 0 PROVE f[s] = g[s]
    <3>1. \A r \in Seq(Byte) : ~(Len(r) < Len(s))
      BY <2>1, LenProperties
    <3> QED BY <1>1, <2>1, <3>1
  <2> QED BY <2>1
<1>3. ASSUME NEW n \in Nat, n \in T PROVE n + 1 \in T
  <2>1. ASSUME n + 1 <= N, NEW s \in Seq(Byte), Len(s) <= n + 1 PROVE f[s] = g[s]
    <3>1. ASSUME NEW r \in Seq(Byte), Len(r) < Len(s) PROVE f[r] = g[r]
      <4>1. Len(r) <= n /\ n <= N
        BY <2>1, <3>1, LenProperties
      <4> QED BY <1>3, <4>1
    <3> QED BY <1>1, <2>1, <3>1
  <2> QED BY <2>1
<1> HIDE DEF T
<1>4. Nat \subseteq T
  BY <1>2, <1>3, Induction
<1> QED BY <1>4 DEF T

LEMMA FinderExists ==
  \E f : f = [s \in Seq(Byte) |-> Found(f, s)]
<1> DEFINE W(n) == CHOOSE f \in Finders : RightUpTo(f, n)
           h == [s \in Seq(Byte) |-> W(Len(s))[s]]
<1>1. ASSUME NEW n \in Nat PROVE RightUpTo(W(n), n)
  BY RightExists
<1>2. \A s \in Seq(Byte) : h[s] = W(Len(s))[s]
  OBVIOUS
<1>3. DOMAIN h = Seq(Byte) /\ h = [s \in Seq(Byte) |-> h[s]]
  OBVIOUS
<1> HIDE DEF W, h
<1>4. ASSUME NEW s \in Seq(Byte) PROVE h[s] = Found(h, s)
  <2> DEFINE n == Len(s)
             f == W(n)
  <2>1. n \in Nat
    BY LenProperties
  <2>2. RightUpTo(f, n)
    BY <1>1, <2>1
  <2>3. ASSUME NEW r \in Seq(Byte), Len(r) < n PROVE f[r] = h[r]
    <3> DEFINE m == Len(r)
               g == W(m)
    <3>1. m \in Nat /\ m < n
      BY <2>3, LenProperties
    <3>2. RightUpTo(g, m)
      BY <1>1, <3>1
    <3>3. h[r] = g[r]
      BY <1>2
    <3> HIDE DEF f, n, g
    <3>4. RightUpTo(f, m)
      <4>1. \A t \in Seq(Byte) : Len(t) <= m => Len(t) <= n
        BY <2>1, <3>1, LenProperties
      <4> QED BY <2>2, <4>1 DEF RightUpTo
    <3>5. Len(r) <= m
      BY <3>1
    <3>6. f[r] = g[r]
      BY <3>1, <3>2, <3>4, <3>5, RightAgree
    <3> QED BY <3>3, <3>6
  <2>4. h[s] = f[s]
    BY <1>2
  <2>5. f[s] = Found(f, s)
    BY <2>1, <2>2 DEF RightUpTo
  <2> HIDE DEF f
  <2>6. Found(f, s) = Found(h, s)
    BY <2>3, FoundAgrees DEF n
  <2> QED BY <2>4, <2>5, <2>6
<1>5. h = [s \in Seq(Byte) |-> Found(h, s)]
  BY <1>3, <1>4
<1> QED BY <1>5

LEMMA FramesInDef ==
  ASSUME NEW s \in Seq(Byte)
  PROVE  FramesIn[s] = Found(FramesIn, s)
<1>1. FramesIn = CHOOSE f : f = [r \in Seq(Byte) |-> Found(f, r)]
  BY DEF FramesIn, Found
<1> DEFINE Q(f) == f = [r \in Seq(Byte) |-> Found(f, r)]
<1>2. \E f : Q(f)
  BY FinderExists
<1> HIDE DEF Q
<1>3. Q(CHOOSE f : Q(f))
  BY <1>2, Zenon
<1>4. Q(FramesIn)
  BY <1>1, <1>3 DEF Q
<1>5. FramesIn = [r \in Seq(Byte) |-> Found(FramesIn, r)]
  BY <1>4 DEF Q
<1> QED BY <1>5

LEMMA FramesInType ==
  ASSUME NEW s \in Seq(Byte)
  PROVE  FramesIn[s] \in Seq(Frame)
<1> DEFINE n == Len(s)
<1>1. n \in Nat
  BY LenProperties
<1>2. PICK f \in Finders : RightUpTo(f, n)
  BY <1>1, RightExists
<1>3. RightUpTo(FramesIn, n)
  BY FramesInDef DEF RightUpTo
<1>4. FramesIn[s] = f[s]
  <2>1. Len(s) <= n
    BY <1>1
  <2> HIDE DEF n
  <2> QED BY <1>1, <1>2, <1>3, <2>1, RightAgree
<1> QED BY <1>4 DEF Finders

(* The four cases of FramesIn.                                             *)
LEMMA FramesInCases ==
  ASSUME NEW s \in Seq(Byte)
  PROVE  /\ Len(s) < HeaderSize => FramesIn[s] = << >>
         /\ Len(s) >= HeaderSize /\ ~Headed(s) => FramesIn[s] = FramesIn[Drop(s, 1)]
         /\ Headed(s) /\ ~Complete(s) => FramesIn[s] = << >>
         /\ Complete(s) =>
              FramesIn[s] = <<FrameAt(s)>> \o FramesIn[Drop(s, HeaderSize + LengthOf(s))]
<1>1. FramesIn[s] = Found(FramesIn, s)
  BY FramesInDef
<1> QED BY <1>1, FoundCases
-----------------------------------------------------------------------------
(* What is at the start of a buffer stays there when more is appended.     *)

LEMMA SliceOfDrop ==
  ASSUME NEW S, NEW s \in Seq(S), NEW j \in Nat, NEW n \in Nat, j + n <= Len(s)
  PROVE  SubSeq(Drop(s, j), 1, n) = SubSeq(s, j + 1, j + n)
<1> DEFINE d == Drop(s, j)
           a == SubSeq(d, 1, n)
           m == j + 1
           e == j + n
           b == SubSeq(s, m, e)
<1>1. Len(s) \in Nat /\ j \in 0..Len(s)
  BY LenProperties
<1>2. d \in Seq(S) /\ Len(d) = Len(s) - j /\ \A i \in 1..(Len(s) - j) : d[i] = s[j + i]
  BY <1>1, DropProps
<1> HIDE DEF d
<1>3. n \in 0..Len(d)
  BY <1>1, <1>2
<1>4. a \in Seq(S) /\ Len(a) = n /\ \A i \in 1..n : a[i] = d[i]
  BY <1>2, <1>3, TakeProps
<1>5. m \in Nat /\ e \in Nat /\ 1 <= m /\ e <= Len(s) /\ m <= e + 1 /\ (e - m) + 1 = n /\ m - 1 = j
  BY <1>1
<1> HIDE DEF a, m, e
<1>6. b \in Seq(S) /\ Len(b) = (e - m) + 1 /\ \A i \in 1..((e - m) + 1) : b[i] = s[(m - 1) + i]
  BY <1>5, SliceProps
<1> HIDE DEF b
<1>7. ASSUME NEW i \in 1..Len(a) PROVE a[i] = b[i]
  <2>1. i \in 1..n /\ i \in 1..(Len(s) - j)
    BY <1>1, <1>4
  <2>2. a[i] = d[i] /\ d[i] = s[j + i] /\ b[i] = s[j + i]
    BY <1>2, <1>4, <1>5, <1>6, <2>1
  <2> QED BY <2>2
<1>8. a = b
  BY <1>4, <1>5, <1>6, <1>7, SeqEqual
<1> QED BY <1>8 DEF a, b, d, m, e

LEMMA MagicOfFirst ==
  ASSUME NEW s \in Seq(Byte), NEW z \in Seq(Byte), NEW i \in Nat,
         1 <= i, i + Len(Magic) <= Len(s) + 1
  PROVE  MagicAt(s \o z, i) <=> MagicAt(s, i)
<1> DEFINE n == i + Len(Magic) - 1
<1>1. Len(s) \in Nat
  BY LenProperties
<1>2. n \in Nat /\ n <= Len(s) /\ i <= n + 1
  BY <1>1, CodecFacts
<1> HIDE DEF n
<1>3. SubSeq(s \o z, i, n) = SubSeq(s, i, n)
  BY <1>2, SliceOfFirst
<1> QED BY <1>3 DEF MagicAt, n

LEMMA MagicOfDrop ==
  ASSUME NEW s \in Seq(Byte), NEW j \in Nat, j + Len(Magic) <= Len(s)
  PROVE  MagicAt(Drop(s, j), 1) <=> MagicAt(s, j + 1)
<1> DEFINE n == Len(Magic)
<1>1. n \in Nat /\ 1 + Len(Magic) - 1 = n /\ (j + 1) + Len(Magic) - 1 = j + n
  BY CodecFacts
<1>2. SubSeq(Drop(s, j), 1, n) = SubSeq(s, j + 1, j + n)
  BY <1>1, SliceOfDrop
<1> QED BY <1>1, <1>2 DEF MagicAt

LEMMA HeaderOfFirst ==
  ASSUME NEW s \in Seq(Byte), NEW z \in Seq(Byte), Len(s) >= HeaderSize
  PROVE  /\ LengthOf(s \o z) = LengthOf(s) /\ TypeOf(s \o z) = TypeOf(s)
         /\ VersionOf(s \o z) = VersionOf(s) /\ (Headed(s \o z) <=> Headed(s))
<1> DEFINE c == s \o z
           m == HeaderSize - LengthBytes + 1
<1>1. Len(s) \in Nat /\ Len(z) \in Nat
  BY LenProperties
<1>2. /\ c \in Seq(Byte) /\ Len(c) = Len(s) + Len(z)
      /\ \A i \in 1..Len(s) + Len(z) : c[i] = IF i <= Len(s) THEN s[i] ELSE z[i - Len(s)]
  BY ConcatProperties
<1>3. m \in Nat /\ 1 <= m /\ HeaderSize <= Len(s) /\ m <= HeaderSize + 1
  BY <1>1, CodecFacts
<1> HIDE DEF m
<1>4. SubSeq(c, m, HeaderSize) = SubSeq(s, m, HeaderSize)
  BY <1>3, CodecFacts, SliceOfFirst
<1>5. LengthOf(c) = LengthOf(s)
  BY <1>4 DEF LengthOf, m
<1>6. MagicAt(c, 1) <=> MagicAt(s, 1)
  <2>1. 1 + Len(Magic) <= Len(s) + 1
    BY <1>1, <1>3, CodecFacts
  <2> QED BY <2>1, MagicOfFirst
<1> HIDE DEF c
<1>7. /\ Len(Magic) + 1 \in 1..Len(s) + Len(z) /\ Len(Magic) + 1 <= Len(s)
      /\ Len(Magic) + 2 \in 1..Len(s) + Len(z) /\ Len(Magic) + 2 <= Len(s)
  BY <1>1, <1>3, CodecFacts
<1>8. VersionOf(c) = VersionOf(s) /\ TypeOf(c) = TypeOf(s)
  BY <1>2, <1>7 DEF VersionOf, TypeOf
<1>9. Len(c) >= HeaderSize
  BY <1>1, <1>2, <1>3, CodecFacts
<1>10. Headed(c) <=> Headed(s)
  BY <1>5, <1>6, <1>8, <1>9 DEF Headed
<1> QED BY <1>5, <1>8, <1>10 DEF c

LEMMA CompleteOfFirst ==
  ASSUME NEW s \in Seq(Byte), NEW z \in Seq(Byte), Complete(s)
  PROVE  /\ Complete(s \o z) /\ FrameAt(s \o z) = FrameAt(s) /\ LengthOf(s \o z) = LengthOf(s)
<1> DEFINE l == LengthOf(s)
<1>1. /\ HeaderSize + l \in 1..Len(s) /\ l \in Nat /\ Len(s) >= HeaderSize /\ Headed(s)
  BY CompleteFrame DEF Complete
<1>2. Len(s) \in Nat /\ Len(z) \in Nat /\ Len(s \o z) = Len(s) + Len(z)
  BY LenProperties, ConcatProperties
<1>3. LengthOf(s \o z) = l /\ TypeOf(s \o z) = TypeOf(s) /\ Headed(s \o z)
  BY <1>1, HeaderOfFirst
<1> HIDE DEF l
<1>4. Complete(s \o z)
  BY <1>1, <1>2, <1>3, CodecFacts DEF Complete
<1> DEFINE m == HeaderSize + 1
           n == HeaderSize + l
<1>5. m \in Nat /\ n \in Nat /\ 1 <= m /\ n <= Len(s) /\ m <= n + 1
  BY <1>1, <1>2, CodecFacts
<1> HIDE DEF m, n
<1>6. SubSeq(s \o z, m, n) = SubSeq(s, m, n)
  BY <1>5, SliceOfFirst
<1>7. FrameAt(s \o z) = FrameAt(s)
  BY <1>3, <1>6 DEF FrameAt, m, n, l
<1> QED BY <1>3, <1>4, <1>7 DEF l

(* Bytes at which no magic starts, whatever comes behind them, may be      *)
(* dropped.                                                                *)
LEMMA SkipNoMagic ==
  ASSUME NEW s \in Seq(Byte), NEW z \in Seq(Byte), NEW k \in 0..Len(s),
         \A i \in 1..k : i + Len(Magic) <= Len(s) + 1 /\ ~MagicAt(s, i)
  PROVE  FramesIn[s \o z] = FramesIn[Drop(s, k) \o z]
<1> DEFINE c == s \o z
           T == {j \in Nat : j <= k => FramesIn[c] = FramesIn[Drop(c, j)]}
<1>1. Len(s) \in Nat /\ Len(z) \in Nat /\ k \in Nat /\ k <= Len(s)
  BY LenProperties
<1>2. c \in Seq(Byte) /\ Len(c) = Len(s) + Len(z)
  BY ConcatProperties
<1>3. \A i \in 1..k : i + Len(Magic) <= Len(c) + 1 /\ ~MagicAt(c, i)
  <2> TAKE i \in 1..k
  <2>1. i \in Nat /\ 1 <= i /\ i + Len(Magic) <= Len(s) + 1 /\ ~MagicAt(s, i)
    BY <1>1
  <2>2. ~MagicAt(c, i)
    BY <2>1, MagicOfFirst
  <2> QED BY <1>1, <1>2, <2>1, <2>2, CodecFacts
<1>4. Drop(c, k) = Drop(s, k) \o z
  BY DropOfFirst
<1> HIDE DEF c
<1>5. 0 \in T
  <2>1. Drop(c, 0) = c
    BY <1>2, SubSeqFull DEF Drop
  <2> QED BY <2>1
<1>6. ASSUME NEW j \in Nat, j \in T PROVE j + 1 \in T
  <2>1. SUFFICES ASSUME j + 1 <= k PROVE FramesIn[c] = FramesIn[Drop(c, j + 1)]
    OBVIOUS
  <2>2. FramesIn[c] = FramesIn[Drop(c, j)]
    BY <1>1, <1>6, <2>1
  <2> DEFINE r == Drop(c, j)
             q == Drop(c, j + 1)
  <2>3. /\ j \in 0..Len(c) /\ j + 1 \in 0..Len(c) /\ j + 1 \in 1..k
        /\ (Len(c) - j) - 1 = Len(c) - (j + 1) /\ Len(c) - j >= 1 /\ Len(c) \in Nat
    BY <1>1, <1>2, <2>1
  <2>4. /\ r \in Seq(Byte) /\ Len(r) = Len(c) - j
        /\ q \in Seq(Byte) /\ Len(q) = Len(c) - (j + 1)
    BY <1>2, <2>3, DropProps
  <2>5. q = Drop(r, 1)
    <3>1. j + 1 <= Len(c)
      BY <2>3
    <3> QED BY <1>2, <3>1, DropDrop
  <2>6. ~MagicAt(r, 1)
    <3>1. j + 1 + Len(Magic) <= Len(c) + 1 /\ ~MagicAt(c, j + 1)
      BY <1>3, <2>3
    <3>2. j + Len(Magic) <= Len(c)
      BY <2>3, <3>1, CodecFacts
    <3> QED BY <1>2, <3>1, <3>2, MagicOfDrop
  <2> HIDE DEF r, q
  <2>7. CASE Len(r) < HeaderSize
    <3>1. Len(q) < HeaderSize
      BY <2>3, <2>4, <2>7, CodecFacts
    <3> QED BY <2>2, <2>4, <2>7, <3>1, FramesInCases DEF r, q
  <2>8. CASE Len(r) >= HeaderSize
    <3>1. ~Headed(r)
      BY <2>6 DEF Headed
    <3>2. FramesIn[r] = FramesIn[Drop(r, 1)]
      BY <2>4, <2>8, <3>1, FramesInCases
    <3> QED BY <2>2, <2>5, <3>2 DEF r, q
  <2>9. Len(r) < HeaderSize \/ Len(r) >= HeaderSize
    BY <2>3, <2>4, CodecFacts
  <2> QED BY <2>7, <2>8, <2>9
<1> HIDE DEF T
<1>7. Nat \subseteq T
  BY <1>5, <1>6, Induction
<1>8. FramesIn[c] = FramesIn[Drop(c, k)]
  <2>1. k \in T
    BY <1>1, <1>7
  <2> QED BY <1>1, <2>1 DEF T
<1> QED BY <1>4, <1>8 DEF c

(* What SendFrame puts on the stream for a frame.                          *)
LEMMA EncodeForm ==
  ASSUME NEW f \in Frame
  PROVE  /\ Encode(f) \in Seq(Byte)
         /\ Len(Encode(f)) = HeaderSize + Len(f.payload) /\ Len(f.payload) \in Nat
         /\ EncodeHeaderToBuffer(f) \in Seq(Byte) /\ Len(EncodeHeaderToBuffer(f)) = HeaderSize
         /\ f.type \in Byte /\ f.payload \in Seq(Byte)
<1>1. f.type \in Byte /\ f.payload \in Seq(Byte)
  BY DEF Frame
<1>2. Len(f.payload) \in Nat
  BY <1>1, LenProperties
<1> DEFINE p == f.payload
           v == <<Version, f.type>>
           e == BigEndian(Len(p))
           h == (Magic \o v) \o e
<1>3. v \in Seq(Byte) /\ Len(v) = 2
  BY <1>1, CodecFacts
<1>4. e \in Seq(Byte) /\ Len(e) = LengthBytes
  BY <1>2, BigEndianType
<1>5. EncodeHeaderToBuffer(f) = h /\ Encode(f) = h \o p
  BY DEF EncodeHeaderToBuffer, Encode
<1> HIDE DEF v, e, p
<1>6. Magic \o v \in Seq(Byte) /\ Len(Magic \o v) = Len(Magic) + 2
  <2>1. Magic \in Seq(Byte) /\ v \in Seq(Byte)
    BY <1>3, CodecFacts
  <2>2. Magic \o v \in Seq(Byte) /\ Len(Magic \o v) = Len(Magic) + Len(v)
    BY ONLY <2>1, ConcatProperties
  <2> QED BY <1>3, <2>2
<1>7. h \in Seq(Byte) /\ Len(h) = (Len(Magic) + 2) + LengthBytes
  <2> DEFINE w == Magic \o v
  <2>1. w \in Seq(Byte) /\ Len(w) = Len(Magic) + 2 /\ h = w \o e
    BY <1>6
  <2> HIDE DEF w, h
  <2>2. w \o e \in Seq(Byte) /\ Len(w \o e) = Len(w) + Len(e)
    BY ONLY <1>4, <2>1, ConcatProperties
  <2> QED BY <1>4, <2>1, <2>2
<1>8. Len(h) = HeaderSize
  BY <1>7, CodecFacts
<1> HIDE DEF h
<1>9. h \o p \in Seq(Byte) /\ Len(h \o p) = HeaderSize + Len(p)
  BY <1>1, <1>7, <1>8, ConcatProperties DEF p
<1> QED BY <1>1, <1>2, <1>5, <1>7, <1>8, <1>9 DEF p

(* The decoder finds that frame at the start of what it was put before.    *)
LEMMA EncodedIsFound ==
  ASSUME NEW f \in Frame, Len(f.payload) <= MaxPayload, NEW x \in Seq(Byte)
  PROVE  FramesIn[Encode(f) \o x] = <<f>> \o FramesIn[x]
<1> DEFINE p == f.payload
           l == Len(p)
           v == <<Version, f.type>>
           e == BigEndian(l)
           h == (Magic \o v) \o e
           s == h \o p
           M == Len(Magic)
<1>1. /\ s = Encode(f) /\ h = EncodeHeaderToBuffer(f) /\ s \in Seq(Byte)
      /\ h \in Seq(Byte) /\ Len(h) = HeaderSize /\ Len(s) = HeaderSize + l
      /\ l \in Nat /\ f.type \in Byte /\ p \in Seq(Byte)
  BY EncodeForm DEF EncodeHeaderToBuffer, Encode
<1>2. v \in Seq(Byte) /\ Len(v) = 2 /\ v[1] = Version /\ v[2] = f.type
  BY <1>1, CodecFacts
<1>3. e \in Seq(Byte) /\ Len(e) = LengthBytes
  BY <1>1, BigEndianType
<1>4. Gathered(e)[LengthBytes] = l
  <2>1. l \in 0..MaxPayload
    BY <1>1, CodecFacts
  <2> HIDE DEF l
  <2> QED BY <2>1, LengthRoundTrip
<1> HIDE DEF v, e, l
<1>5. /\ Magic \o v \in Seq(Byte) /\ Len(Magic \o v) = M + 2
      /\ \A i \in 1..M + 2 : (Magic \o v)[i] = IF i <= M THEN Magic[i] ELSE v[i - M]
  <2>1. Magic \in Seq(Byte) /\ v \in Seq(Byte)
    BY <1>2, CodecFacts
  <2>2. /\ Magic \o v \in Seq(Byte) /\ Len(Magic \o v) = Len(Magic) + Len(v)
        /\ \A i \in 1..Len(Magic) + Len(v) :
             (Magic \o v)[i] = IF i <= Len(Magic) THEN Magic[i] ELSE v[i - Len(Magic)]
    BY ONLY <2>1, ConcatProperties
  <2> QED BY <1>2, <2>2
<1> DEFINE w == Magic \o v
<1> HIDE DEF w
<1>6. w \in Seq(Byte) /\ Len(w) = M + 2 /\ h = w \o e
  BY <1>5 DEF w
<1>7. SubSeq(w, 1, M) = Magic
  BY <1>2, CodecFacts, TakeFirst DEF w
<1>8. w[M + 1] = Version /\ w[M + 2] = f.type
  BY <1>2, <1>5, CodecFacts DEF w
<1> HIDE DEF h
<1>9. SubSeq(h, 1, M) = Magic
  <2>1. SubSeq(w \o e, 1, M) = SubSeq(w, 1, M)
    BY <1>3, <1>6, CodecFacts, SliceOfFirst
  <2> QED BY <1>6, <1>7, <2>1
<1>10. h[M + 1] = Version /\ h[M + 2] = f.type
  <2>1. \A i \in 1..Len(w) + Len(e) : (w \o e)[i] = IF i <= Len(w) THEN w[i] ELSE e[i - Len(w)]
    BY <1>3, <1>6, ConcatProperties
  <2>2. M + 1 \in 1..Len(w) + Len(e) /\ M + 2 \in 1..Len(w) + Len(e)
    BY <1>3, <1>6, CodecFacts
  <2> QED BY <1>6, <1>8, <2>1, <2>2, CodecFacts
<1>11. SubSeq(h, HeaderSize - LengthBytes + 1, HeaderSize) = e
  <2>1. Drop(w \o e, Len(w)) = e
    BY <1>3, <1>6, DropFirst
  <2>2. Len(w) + 1 = HeaderSize - LengthBytes + 1 /\ Len(h) = HeaderSize
    BY <1>1, <1>6, CodecFacts
  <2> QED BY <1>6, <2>1, <2>2 DEF Drop
<1>12. /\ LengthOf(h) = l /\ TypeOf(h) = f.type /\ VersionOf(h) = Version
  BY <1>4, <1>10, <1>11 DEF LengthOf, TypeOf, VersionOf
<1>13. Headed(h)
  <2>1. MagicAt(h, 1)
    BY <1>9, CodecFacts DEF MagicAt
  <2>2. l <= MaxPayload /\ Len(h) >= HeaderSize
    BY <1>1, CodecFacts DEF l
  <2> QED BY <1>12, <2>1, <2>2 DEF Headed
<1>14. LengthOf(s) = l /\ TypeOf(s) = f.type /\ Headed(s)
  <2>1. Len(h) >= HeaderSize
    BY <1>1, CodecFacts
  <2> QED BY <1>1, <1>12, <1>13, <2>1, HeaderOfFirst
<1>15. Complete(s)
  BY <1>1, <1>14, CodecFacts DEF Complete
<1>16. SubSeq(s, HeaderSize + 1, HeaderSize + l) = p
  <2>1. Drop(h \o p, Len(h)) = p
    BY <1>1, DropFirst
  <2> QED BY <1>1, <2>1 DEF Drop
<1>17. FrameAt(s) = f
  <2>1. FrameAt(s) = [type |-> f.type, payload |-> p]
    BY <1>14, <1>16 DEF FrameAt
  <2> QED BY <2>1 DEF Frame
<1> HIDE DEF s
<1>18. Complete(s \o x) /\ FrameAt(s \o x) = f /\ LengthOf(s \o x) = l
  BY <1>1, <1>14, <1>15, <1>17, CompleteOfFirst
<1>19. s \o x \in Seq(Byte)
  BY <1>1, ConcatProperties
<1>20. Drop(s \o x, HeaderSize + l) = x
  BY <1>1, DropFirst
<1>21. FramesIn[s \o x] = <<f>> \o FramesIn[x]
  BY <1>18, <1>19, <1>20, FramesInCases
<1> QED BY <1>1, <1>21
-----------------------------------------------------------------------------
(* The bytes of several frames.                                            *)

Joined(q, N) ==
  CHOOSE f : f = [i \in 1..N |-> IF i = 1 THEN q[i] ELSE f[i - 1] \o q[i]]

LEMMA JoinedExists ==
  ASSUME NEW q, NEW N \in Nat
  PROVE  \E f : f = [i \in 1..N |-> IF i = 1 THEN q[i] ELSE f[i - 1] \o q[i]]
<1> DEFINE Ok(f, n) == f = [i \in 1..n |-> IF i = 1 THEN q[i] ELSE f[i - 1] \o q[i]]
           T == {n \in Nat : \E f : Ok(f, n)}
<1>1. 0 \in T
  <2> DEFINE g == [i \in 1..0 |-> q[i]]
  <2>1. Ok(g, 0)
    OBVIOUS
  <2> QED BY <2>1
<1>2. ASSUME NEW n \in Nat, n \in T PROVE n + 1 \in T
  <2>1. PICK f : Ok(f, n)
    BY <1>2
  <2>7. \A i \in 1..n : f[i] = IF i = 1 THEN q[i] ELSE f[i - 1] \o q[i]
    BY <2>1
  <2> DEFINE last == IF n = 0 THEN q[1] ELSE f[n] \o q[n + 1]
             g == [i \in 1..(n + 1) |-> IF i = n + 1 THEN last ELSE f[i]]
  <2>2. ASSUME NEW i \in 1..(n + 1)
        PROVE  g[i] = IF i = 1 THEN q[i] ELSE g[i - 1] \o q[i]
    <3>1. CASE i = n + 1
      <4>1. CASE n = 0
        BY <3>1, <4>1
      <4>2. CASE n # 0
        <5>1. i - 1 = n /\ n \in 1..(n + 1) /\ n # n + 1 /\ i # 1
          BY <3>1, <4>2
        <5>2. g[i] = f[n] \o q[n + 1] /\ g[i - 1] = f[n]
          BY <3>1, <4>2, <5>1
        <5> QED BY <3>1, <5>1, <5>2
      <4> QED BY <4>1, <4>2
    <3>2. CASE i \in 1..n
      <4>0. g[i] = f[i]
        BY <3>2
      <4>1. g[i] = f[i] /\ f[i] = IF i = 1 THEN q[i] ELSE f[i - 1] \o q[i]
        BY <3>2, <2>7, <4>0
      <4>2. i # 1 => i - 1 \in 1..n /\ i - 1 \in 1..(n + 1) /\ i - 1 # n + 1
        BY <3>2
      <4> QED BY <4>1, <4>2
    <3>3. i = n + 1 \/ i \in 1..n
      OBVIOUS
    <3> QED BY <3>1, <3>2, <3>3
  <2>3. Ok(g, n + 1)
    BY <2>2
  <2> HIDE DEF g, Ok
  <2>4. n + 1 \in Nat /\ \E h : Ok(h, n + 1)
    BY <2>3
  <2> QED BY <2>4
<1> HIDE DEF T
<1>3. Nat \subseteq T
  BY <1>1, <1>2, Induction
<1> QED BY <1>3 DEF T

LEMMA JoinedDef ==
  ASSUME NEW q, NEW N \in Nat
  PROVE  \A i \in 1..N : Joined(q, N)[i] = IF i = 1 THEN q[i] ELSE Joined(q, N)[i - 1] \o q[i]
<1> DEFINE f == Joined(q, N)
<1>1. f = [i \in 1..N |-> IF i = 1 THEN q[i] ELSE f[i - 1] \o q[i]]
  BY JoinedExists, Zenon DEF Joined
<1> HIDE DEF f
<1>2. \A i \in 1..N : f[i] = IF i = 1 THEN q[i] ELSE f[i - 1] \o q[i]
  BY <1>1
<1> QED BY <1>2 DEF f

Encodings(a) == [k \in 1..Len(a) |-> Encode(a[k])]

LEMMA EncodingsForm ==
  ASSUME NEW a \in Seq(Frame)
  PROVE  /\ Encodings(a) \in Seq(Seq(Byte)) /\ Len(Encodings(a)) = Len(a) /\ Len(a) \in Nat
         /\ \A k \in 1..Len(a) : Encodings(a)[k] = Encode(a[k])
<1> DEFINE n == Len(a)
           q == Encodings(a)
<1>1. n \in Nat
  BY LenProperties
<1>2. ASSUME NEW k \in 1..n PROVE q[k] = Encode(a[k]) /\ q[k] \in Seq(Byte)
  <2>1. a[k] \in Frame
    BY ElementOfSeq
  <2>2. Encode(a[k]) \in Seq(Byte)
    BY <2>1, EncodeForm
  <2> QED BY <2>2 DEF Encodings
<1>3. q = [k \in 1..n |-> q[k]]
  BY DEF Encodings
<1> HIDE DEF n, q
<1>4. q \in [1..n -> Seq(Byte)]
  BY <1>2, <1>3
<1>5. q \in Seq(Seq(Byte))
  BY <1>1, <1>4, SeqDef
<1>6. Len(q) = n
  BY <1>1, <1>4
<1> QED BY <1>1, <1>2, <1>5, <1>6 DEF n, q

LEMMA BytesForm ==
  ASSUME NEW a \in Seq(Frame)
  PROVE  Bytes(a) = IF Len(a) = 0 THEN << >> ELSE Joined(Encodings(a), Len(a))[Len(a)]
<1> DEFINE q == Encodings(a)
           n == Len(a)
<1>1. Len(q) = n /\ q \in Seq(Seq(Byte)) /\ n \in Nat
  BY EncodingsForm
<1>2. Bytes(a) = FlattenSeq(q)
  BY DEF Bytes, Encodings
<1> HIDE DEF q, n
<1>3. Len(q) = 0 => q = << >>
  BY <1>1, EmptySeq
<1>4. FlattenSeq(q) = IF Len(q) = 0 THEN q ELSE Joined(q, Len(q))[Len(q)]
  BY DEF FlattenSeq, Joined
<1> QED BY <1>1, <1>2, <1>3, <1>4 DEF q, n

LEMMA BytesEmpty ==
  Bytes(<< >>) = << >>
<1>1. << >> \in Seq(Frame) /\ Len(<< >>) = 0
  BY EmptySeq
<1> QED BY <1>1, BytesForm

(* One frame more.                                                         *)
LEMMA BytesAppend ==
  ASSUME NEW a \in Seq(Frame), NEW f \in Frame
  PROVE  Bytes(Append(a, f)) = Bytes(a) \o Encode(f)
<1> DEFINE n == Len(a)
           b == Append(a, f)
           q == Encodings(a)
           r == Encodings(b)
           g == Joined(q, n)
           h == Joined(r, n + 1)
           T == {i \in Nat : i \in 1..n => g[i] = h[i]}
<1>1. n \in Nat /\ n + 1 \in Nat
  BY LenProperties
<1>2. b \in Seq(Frame) /\ Len(b) = n + 1 /\ b[n + 1] = f /\ \A k \in 1..n : b[k] = a[k]
  BY <1>1, AppendProperties
<1>3. \A k \in 1..n : q[k] = Encode(a[k])
  BY EncodingsForm
<1>4. \A k \in 1..(n + 1) : r[k] = Encode(b[k])
  BY <1>2, EncodingsForm
<1>5. /\ \A k \in 1..n : r[k] = q[k]
      /\ r[n + 1] = Encode(f)
  BY <1>1, <1>2, <1>3, <1>4
<1>6. Bytes(a) = IF n = 0 THEN << >> ELSE g[n]
  BY BytesForm
<1>7. Bytes(b) = h[n + 1]
  <2>1. Bytes(b) = IF Len(b) = 0 THEN << >> ELSE Joined(Encodings(b), Len(b))[Len(b)]
    BY <1>2, BytesForm
  <2> QED BY <1>1, <1>2, <2>1
<1> HIDE DEF q, r, b
<1>8. \A i \in 1..n : g[i] = IF i = 1 THEN q[i] ELSE g[i - 1] \o q[i]
  BY <1>1, JoinedDef
<1>9. \A i \in 1..(n + 1) : h[i] = IF i = 1 THEN r[i] ELSE h[i - 1] \o r[i]
  BY <1>1, JoinedDef
<1> HIDE DEF g, h
<1>10. 0 \in T
  OBVIOUS
<1>11. ASSUME NEW i \in Nat, i \in T PROVE i + 1 \in T
  <2>1. SUFFICES ASSUME i + 1 \in 1..n PROVE g[i + 1] = h[i + 1]
    OBVIOUS
  <2>2. i + 1 \in 1..(n + 1) /\ (i + 1) - 1 = i /\ r[i + 1] = q[i + 1]
    BY <1>1, <1>5, <2>1
  <2>3. g[i + 1] = IF i + 1 = 1 THEN q[i + 1] ELSE g[i] \o q[i + 1]
    BY <1>8, <2>1, <2>2
  <2>4. h[i + 1] = IF i + 1 = 1 THEN r[i + 1] ELSE h[i] \o r[i + 1]
    BY <1>9, <2>2
  <2>5. i + 1 # 1 => g[i] = h[i]
    BY <1>11, <2>1
  <2> QED BY <2>2, <2>3, <2>4, <2>5
<1> HIDE DEF T
<1>12. Nat \subseteq T
  BY <1>10, <1>11, Induction
<1>13. h[n + 1] = IF n + 1 = 1 THEN r[n + 1] ELSE h[n] \o r[n + 1]
  <2>1. n + 1 \in 1..(n + 1) /\ (n + 1) - 1 = n
    BY <1>1
  <2> QED BY <1>9, <2>1
<1>14. CASE n = 0
  <2>1. Bytes(b) = Encode(f) /\ Bytes(a) = << >>
    BY <1>5, <1>6, <1>7, <1>13, <1>14
  <2>2. Encode(f) \in Seq(Byte)
    BY EncodeForm
  <2> QED BY <2>1, <2>2, ConcatEmptySeq DEF b
<1>15. CASE n # 0
  <2>1. n \in 1..n /\ n \in T
    BY <1>1, <1>12, <1>15
  <2>2. g[n] = h[n]
    BY <2>1 DEF T
  <2>3. n + 1 # 1
    BY <1>1, <1>15
  <2> QED BY <1>5, <1>6, <1>7, <1>13, <1>15, <2>2, <2>3 DEF b
<1> QED BY <1>14, <1>15

(* A sequence of frames is empty or has a last one.                        *)
LEMMA LastFrame ==
  ASSUME NEW a \in Seq(Frame), NEW n \in Nat, Len(a) = n + 1
  PROVE  \E c \in Seq(Frame), f \in Frame : a = Append(c, f) /\ Len(c) = n /\ f = a[n + 1]
<1> DEFINE c == SubSeq(a, 1, n)
           f == a[n + 1]
<1>1. n \in 0..Len(a) /\ n + 1 \in 1..Len(a)
  OBVIOUS
<1>2. c \in Seq(Frame) /\ Len(c) = n /\ \A i \in 1..n : c[i] = a[i]
  BY <1>1, TakeProps
<1>3. f \in Frame
  BY <1>1, ElementOfSeq
<1> HIDE DEF c, f
<1>4. /\ Append(c, f) \in Seq(Frame) /\ Len(Append(c, f)) = n + 1
      /\ Append(c, f)[n + 1] = f /\ \A i \in 1..n : Append(c, f)[i] = c[i]
  BY <1>2, <1>3, AppendProperties
<1>5. ASSUME NEW i \in 1..Len(a) PROVE a[i] = Append(c, f)[i]
  <2>1. i = n + 1 \/ i \in 1..n
    OBVIOUS
  <2> QED BY <1>2, <1>4, <2>1 DEF f
<1>6. a = Append(c, f)
  BY <1>4, <1>5, SeqEqual
<1> QED BY <1>2, <1>3, <1>6 DEF f

LEMMA BytesType ==
  ASSUME NEW a \in Seq(Frame)
  PROVE  Bytes(a) \in Seq(Byte)
<1> DEFINE T == {n \in Nat : \A c \in Seq(Frame) : Len(c) = n => Bytes(c) \in Seq(Byte)}
<1>1. 0 \in T
  <2>1. ASSUME NEW c \in Seq(Frame), Len(c) = 0 PROVE Bytes(c) \in Seq(Byte)
    <3>1. c = << >>
      BY <2>1, EmptySeq
    <3> QED BY <3>1, BytesEmpty, EmptySeq
  <2> QED BY <2>1
<1>2. ASSUME NEW n \in Nat, n \in T PROVE n + 1 \in T
  <2>1. ASSUME NEW c \in Seq(Frame), Len(c) = n + 1 PROVE Bytes(c) \in Seq(Byte)
    <3>1. PICK d \in Seq(Frame), f \in Frame : c = Append(d, f) /\ Len(d) = n
      BY <2>1, LastFrame
    <3>2. Bytes(d) \in Seq(Byte) /\ Encode(f) \in Seq(Byte)
      BY <1>2, <3>1, EncodeForm
    <3>3. Bytes(c) = Bytes(d) \o Encode(f)
      BY <3>1, BytesAppend
    <3> QED BY <3>2, <3>3, ConcatProperties
  <2> QED BY <2>1
<1> HIDE DEF T
<1>3. Nat \subseteq T
  BY <1>1, <1>2, Induction
<1>4. Len(a) \in T
  BY <1>3, LenProperties
<1> QED BY <1>4 DEF T

(* From a stream of whole frames the decoder takes exactly those frames.   *)
LEMMA StreamIsDecoded ==
  ASSUME NEW a \in Seq(Frame), NEW x \in Seq(Byte),
         \A i \in 1..Len(a) : Len(a[i].payload) <= MaxPayload
  PROVE  FramesIn[Bytes(a) \o x] = a \o FramesIn[x]
<1> DEFINE P(c) == \A i \in 1..Len(c) : Len(c[i].payload) <= MaxPayload
           T == {n \in Nat : \A c \in Seq(Frame), y \in Seq(Byte) : Len(c) = n /\ P(c) =>
                               FramesIn[Bytes(c) \o y] = c \o FramesIn[y]}
<1>1. 0 \in T
  <2>1. ASSUME NEW c \in Seq(Frame), NEW y \in Seq(Byte), Len(c) = 0
        PROVE  FramesIn[Bytes(c) \o y] = c \o FramesIn[y]
    <3>1. c = << >>
      BY <2>1, EmptySeq
    <3>2. Bytes(c) \o y = y
      BY <3>1, BytesEmpty, ConcatEmptySeq
    <3>3. FramesIn[y] \in Seq(Frame)
      BY FramesInType
    <3>4. c \o FramesIn[y] = FramesIn[y]
      BY <3>1, <3>3, ConcatEmptySeq
    <3> QED BY <3>2, <3>4
  <2> QED BY <2>1
<1>2. ASSUME NEW n \in Nat, n \in T PROVE n + 1 \in T
  <2>1. ASSUME NEW c \in Seq(Frame), NEW y \in Seq(Byte), Len(c) = n + 1, P(c)
        PROVE  FramesIn[Bytes(c) \o y] = c \o FramesIn[y]
    <3>1. PICK d \in Seq(Frame), f \in Frame : c = Append(d, f) /\ Len(d) = n /\ f = c[n + 1]
      BY <2>1, LastFrame
    <3>2. P(d) /\ Len(f.payload) <= MaxPayload
      <4>1. \A i \in 1..n : c[i] = d[i]
        BY <3>1, AppendProperties
      <4>2. n + 1 \in 1..Len(c) /\ \A i \in 1..n : i \in 1..Len(c)
        BY <2>1
      <4> QED BY <2>1, <3>1, <4>1, <4>2
    <3> DEFINE u == Bytes(d)
               e == Encode(f)
               g == FramesIn[y]
    <3>3. u \in Seq(Byte) /\ e \in Seq(Byte) /\ g \in Seq(Frame) /\ <<f>> \in Seq(Frame)
      BY BytesType, EncodeForm, FramesInType
    <3>4. Bytes(c) = u \o e
      BY <3>1, BytesAppend
    <3>5. FramesIn[e \o y] = <<f>> \o g
      BY <3>2, EncodedIsFound
    <3> HIDE DEF u, e
    <3>6. e \o y \in Seq(Byte)
      BY <3>3, ConcatProperties
    <3>7. FramesIn[u \o (e \o y)] = d \o FramesIn[e \o y]
      BY <1>2, <3>1, <3>2, <3>6 DEF u
    <3>8. (u \o e) \o y = u \o (e \o y)
      <4>1. u \in Seq(Byte) /\ e \in Seq(Byte) /\ y \in Seq(Byte)
        BY <3>3
      <4>2. \A q, r \in Seq(Byte) : (u \o q) \o r = u \o (q \o r)
        BY ONLY <4>1, BytesAssociate, Zenon
      <4>3. \A r \in Seq(Byte) : (u \o e) \o r = u \o (e \o r)
        BY ONLY <4>1, <4>2, Zenon
      <4> QED BY ONLY <4>1, <4>3, Zenon
    <3> HIDE DEF g
    <3>9. c = d \o <<f>>
      BY <3>1, AppendIsConcat
    <3>10. (d \o <<f>>) \o g = d \o (<<f>> \o g)
      <4> DEFINE v == <<f>>
      <4>1. d \in Seq(Frame) /\ v \in Seq(Frame) /\ g \in Seq(Frame)
        BY <3>3
      <4> HIDE DEF v
      <4>2. (d \o v) \o g = d \o (v \o g)
        BY ONLY <4>1, FramesAssociate, Zenon
      <4> QED BY ONLY <4>2, Zenon DEF v
    <3> QED BY <3>4, <3>5, <3>7, <3>8, <3>9, <3>10 DEF g
  <2> HIDE DEF P
  <2> QED BY <2>1
<1>3. P(a)
  OBVIOUS
<1> HIDE DEF T, P
<1>4. Nat \subseteq T
  BY <1>1, <1>2, Induction
<1>5. Len(a) \in T
  BY <1>4, LenProperties
<1> QED BY <1>3, <1>5 DEF T
-----------------------------------------------------------------------------
(* What is left of a frame, and suffixes.                                  *)

LEMMA RestOfFrame ==
  ASSUME NEW f \in Frame, NEW k \in Nat, k <= Len(Encode(f))
  PROVE  RemainingHeader(f, k) \o RemainingPayload(f, k) = Drop(Encode(f), k)
<1> DEFINE h == EncodeHeaderToBuffer(f)
           p == f.payload
<1>1. /\ h \in Seq(Byte) /\ p \in Seq(Byte) /\ Len(h) = HeaderSize /\ Len(p) \in Nat
      /\ k \in Nat /\ k <= HeaderSize + Len(p) /\ Encode(f) = h \o p
  <2>1. /\ h \in Seq(Byte) /\ p \in Seq(Byte) /\ Len(h) = HeaderSize /\ Len(p) \in Nat
        /\ Len(Encode(f)) = HeaderSize + Len(p)
    BY EncodeForm
  <2>2. k \in Nat /\ k <= HeaderSize + Len(p)
    BY <2>1, CodecFacts
  <2> QED BY <2>1, <2>2 DEF Encode
<1>2. Len(h \o p) = HeaderSize + Len(p) /\ h \o p \in Seq(Byte)
  <2> HIDE DEF h, p
  <2>1. h \in Seq(Byte) /\ p \in Seq(Byte)
    BY <1>1
  <2>2. Len(h \o p) = Len(h) + Len(p) /\ h \o p \in Seq(Byte)
    BY ONLY <2>1, ConcatProperties
  <2> QED BY <1>1, <2>2
<1>3. CASE k < HeaderSize
  <2>1. HeaderSize - (HeaderSize - k) + 1 = k + 1 /\ ~(k > HeaderSize) /\ k \in 0..Len(h)
    BY <1>1, <1>3, CodecFacts
  <2>2. RemainingHeader(f, k) = Drop(h, k)
    BY <1>1, <1>3, <2>1 DEF RemainingHeader, Drop
  <2>3. RemainingPayload(f, k) = SubSeq(p, 1, Len(p))
    BY <2>1 DEF RemainingPayload
  <2>4. SubSeq(p, 1, Len(p)) = p
    BY <1>1, SubSeqFull
  <2> HIDE DEF h, p
  <2>5. Drop(h \o p, k) = Drop(h, k) \o p
    BY <1>1, <2>1, DropOfFirst
  <2> QED BY <1>1, <2>2, <2>3, <2>4, <2>5
<1>4. CASE ~(k < HeaderSize)
  <2> DEFINE j == k - HeaderSize
  <2>1. /\ j \in Nat /\ j \in 0..Len(p) /\ HeaderSize + j = k /\ HeaderSize \in Nat
        /\ HeaderSize - 0 + 1 = HeaderSize + 1 /\ HeaderSize < HeaderSize + 1
        /\ (IF k > HeaderSize THEN k - HeaderSize ELSE 0) = j
    BY <1>1, <1>4, CodecFacts
  <2>2. RemainingHeader(f, k) = << >>
    <3>1. RemainingHeader(f, k) = SubSeq(h, HeaderSize + 1, HeaderSize)
      BY <1>4, <2>1 DEF RemainingHeader
    <3> QED BY <2>1, <3>1, SubSeqEmpty
  <2>3. RemainingPayload(f, k) = Drop(p, j)
    BY <2>1 DEF RemainingPayload, Drop
  <2> HIDE DEF h, p, j
  <2>4. Drop(h \o p, HeaderSize) = p
    BY <1>1, DropFirst
  <2>5. HeaderSize + j <= Len(h \o p)
    BY <1>1, <1>2, <2>1
  <2>6. Drop(Drop(h \o p, HeaderSize), j) = Drop(h \o p, HeaderSize + j)
    <3> DEFINE c == h \o p
    <3>1. c \in Seq(Byte) /\ j \in Nat /\ HeaderSize \in Nat /\ HeaderSize + j <= Len(c)
      BY <1>2, <2>1, <2>5
    <3> HIDE DEF c
    <3>2. Drop(Drop(c, HeaderSize), j) = Drop(c, HeaderSize + j)
      BY ONLY <3>1, DropDrop
    <3> QED BY <3>2 DEF c
  <2>7. Drop(p, j) \in Seq(Byte)
    BY <1>1, <2>1, DropProps
  <2>8. << >> \o Drop(p, j) = Drop(p, j)
    BY <2>7, ConcatEmptySeq
  <2> QED BY <1>1, <2>1, <2>2, <2>3, <2>4, <2>6, <2>8
<1> QED BY <1>3, <1>4

LEMMA RemainingHeaderType ==
  ASSUME NEW f \in Frame, NEW k \in Nat, k <= Len(Encode(f))
  PROVE  RemainingHeader(f, k) \in Seq(Byte)
<1> DEFINE h == EncodeHeaderToBuffer(f)
           left == IF k < HeaderSize THEN HeaderSize - k ELSE 0
           m == HeaderSize - left + 1
<1>1. h \in Seq(Byte) /\ Len(h) = HeaderSize /\ HeaderSize \in Nat
  BY EncodeForm, CodecFacts
<1>2. m \in Nat /\ 1 <= m /\ m <= HeaderSize + 1
  BY <1>1
<1>3. RemainingHeader(f, k) = SubSeq(h, m, HeaderSize)
  BY DEF RemainingHeader
<1> HIDE DEF m, h
<1>4. SubSeq(h, m, HeaderSize) \in Seq(Byte)
  BY <1>1, <1>2, SliceProps
<1> QED BY <1>3, <1>4

LEMMA ReverseForm ==
  ASSUME NEW S, NEW s \in Seq(S)
  PROVE  /\ Reverse(s) \in Seq(S) /\ Len(Reverse(s)) = Len(s)
         /\ \A i \in 1..Len(s) : Reverse(s)[i] = s[(Len(s) - i) + 1]
<1> DEFINE n == Len(s)
           r == Reverse(s)
<1>1. n \in Nat
  BY LenProperties
<1>2. r = [i \in 1..n |-> s[(n - i) + 1]]
  BY DEF Reverse
<1>3. \A i \in 1..n : s[(n - i) + 1] \in S
  <2> TAKE i \in 1..n
  <2>1. (n - i) + 1 \in 1..n
    BY <1>1
  <2> QED BY <2>1, ElementOfSeq
<1> HIDE DEF n, r
<1>4. r \in [1..n -> S]
  BY <1>2, <1>3
<1>5. r \in Seq(S)
  BY <1>1, <1>4, SeqDef
<1>6. Len(r) = n
  BY <1>1, <1>4
<1>7. \A i \in 1..n : r[i] = s[(n - i) + 1]
  BY <1>2
<1> QED BY <1>5, <1>6, <1>7 DEF n, r

LEMMA DropIsSuffix ==
  ASSUME NEW S, NEW s \in Seq(S), NEW k \in 0..Len(s)
  PROVE  IsSuffix(Drop(s, k), s)
<1> DEFINE d == Drop(s, k)
           n == Len(s) - k
           a == Reverse(d)
           b == Reverse(s)
           c == SubSeq(b, 1, n)
<1>1. Len(s) \in Nat /\ n \in Nat /\ n \in 0..Len(s)
  BY LenProperties
<1>2. d \in Seq(S) /\ Len(d) = n /\ \A i \in 1..n : d[i] = s[k + i]
  BY DropProps
<1> HIDE DEF d
<1>3. a \in Seq(S) /\ Len(a) = n /\ \A i \in 1..n : a[i] = d[(n - i) + 1]
  <2>1. d \in Seq(S) /\ Len(d) = n
    BY <1>2
  <2> HIDE DEF n
  <2>2. /\ a \in Seq(S) /\ Len(a) = Len(d)
        /\ \A i \in 1..Len(d) : a[i] = d[(Len(d) - i) + 1]
    BY ONLY <2>1, ReverseForm
  <2> QED BY ONLY <2>1, <2>2, Zenon
<1>4. b \in Seq(S) /\ Len(b) = Len(s) /\ \A i \in 1..Len(s) : b[i] = s[(Len(s) - i) + 1]
  BY ReverseForm
<1> HIDE DEF a, b
<1>5. c \in Seq(S) /\ Len(c) = n /\ \A i \in 1..n : c[i] = b[i]
  BY <1>1, <1>4, TakeProps
<1> HIDE DEF c
<1>6. ASSUME NEW i \in 1..Len(a) PROVE a[i] = c[i]
  <2> DEFINE j == (n - i) + 1
  <2>1. i \in 1..n /\ i \in 1..Len(s) /\ j \in 1..n /\ k + j = (Len(s) - i) + 1
    BY <1>1, <1>3
  <2>2. a[i] = d[j]
    BY <1>3, <2>1
  <2>3. c[i] = s[k + j]
    BY <1>4, <1>5, <2>1
  <2> HIDE DEF j
  <2> QED BY <1>2, <2>1, <2>2, <2>3
<1>7. a = c
  BY <1>3, <1>5, <1>6, SeqEqual
<1>8. SubSeq(a, 1, Len(a)) = a
  BY <1>3, SubSeqFull
<1>9. Len(a) <= Len(b)
  BY <1>1, <1>3, <1>4
<1> QED BY <1>3, <1>7, <1>8, <1>9 DEF IsSuffix, IsPrefix, a, b, c, d

(* Two beginnings of one sequence.                                         *)
LEMMA PrefixesCompare ==
  ASSUME NEW S, NEW s \in Seq(S), NEW t \in Seq(S), NEW u \in Seq(S), NEW v \in Seq(S),
         s \o u = t \o v
  PROVE  IsPrefix(s, t) \/ IsPrefix(t, s)
<1>1. Len(s) \in Nat /\ Len(t) \in Nat
  BY LenProperties
<1>2. SubSeq(s, 1, Len(s)) = s /\ SubSeq(t, 1, Len(t)) = t
  BY SubSeqFull
<1>3. SubSeq(s \o u, 1, Len(s)) = s /\ SubSeq(t \o v, 1, Len(t)) = t
  BY TakeFirst
<1>4. CASE Len(s) <= Len(t)
  <2>1. SubSeq(t \o v, 1, Len(s)) = SubSeq(t, 1, Len(s))
    BY <1>1, <1>4, SliceOfFirst
  <2> QED BY <1>2, <1>3, <1>4, <2>1 DEF IsPrefix
<1>5. CASE Len(t) <= Len(s)
  <2>1. SubSeq(s \o u, 1, Len(t)) = SubSeq(s, 1, Len(t))
    BY <1>1, <1>5, SliceOfFirst
  <2> QED BY <1>2, <1>3, <1>5, <2>1 DEF IsPrefix
<1> QED BY <1>1, <1>4, <1>5
-----------------------------------------------------------------------------
(* The writer.                                                             *)

WriterTypeOK ==
  /\ noise \in Seq(Byte) /\ writeBuf \in Seq(Byte) /\ sent \in Seq(Byte)
  /\ accepted \in Seq(Frame)
  /\ taken \in Nat /\ taken <= Len(sent)

WriterInv == WriterTypeOK /\ StreamIntact /\ BufferBound

LEMMA FramesAreFrames ==
  Frames \subseteq Frame
BY WriterAssumption DEF WriterAssumption, Frame

LEMMA WriterInitInv ==
  WriterInit => WriterInv
<1> SUFFICES ASSUME WriterInit PROVE WriterInv
  OBVIOUS
<1>1. noise \in Seq(Byte)
  BY WriterAssumption DEF WriterInit, WriterAssumption
<1>2. << >> \in Seq(Byte) /\ << >> \in Seq(Frame) /\ Len(<< >>) = 0 /\ Len(noise) \in Nat
  BY <1>1, EmptySeq, LenProperties
<1>3. WriterTypeOK
  BY <1>1, <1>2 DEF WriterInit, WriterTypeOK
<1>4. noise \o << >> = noise
  BY <1>1, ConcatEmptySeq
<1>5. StreamIntact
  BY <1>4, BytesEmpty DEF WriterInit, StreamIntact
<1>6. BufferBound
  BY <1>2, WriterAssumption DEF WriterInit, WriterAssumption, BufferBound
<1> QED BY <1>3, <1>5, <1>6 DEF WriterInv

(* As much as the kernel has room for.                                     *)
LEMMA RoomBound ==
  ASSUME WriterTypeOK, NEW n \in Nat
  PROVE  Min2(Room, n) \in 0..n
<1>1. Len(sent) \in Nat /\ Window \in Nat /\ taken \in Nat /\ taken <= Len(sent)
  BY LenProperties, WriterAssumption DEF WriterTypeOK, WriterAssumption
<1>2. Room \in Nat
  BY <1>1 DEF Room, Unread
<1> HIDE DEF Room
<1> QED BY <1>2 DEF Min2

(* A part of c is sent, and the rest of it is kept.                        *)
LEMMA SentAdvances ==
  \A r, c \in Seq(Byte) : \A k \in 0..Len(c) :
    /\ SubSeq(c, 1, k) \in Seq(Byte)
    /\ Drop(c, k) \in Seq(Byte) /\ Len(Drop(c, k)) = Len(c) - k
    /\ (r \o SubSeq(c, 1, k)) \o Drop(c, k) = r \o c
<1> TAKE r, c \in Seq(Byte)
<1> TAKE k \in 0..Len(c)
<1> DEFINE a == SubSeq(c, 1, k)
           b == Drop(c, k)
<1>1. a \in Seq(Byte) /\ b \in Seq(Byte) /\ Len(b) = Len(c) - k
  BY TakeProps, DropProps
<1>2. a \o b = c
  BY TakeDrop
<1> HIDE DEF a, b
<1>3. (r \o a) \o b = r \o (a \o b)
  BY <1>1, BytesAssociate, Zenon
<1>4. (r \o a) \o b = r \o c
  BY ONLY <1>2, <1>3, Zenon
<1> QED BY ONLY <1>1, <1>4, Zenon DEF a, b

(* What every step of the writer leaves alone, and how it extends the      *)
(* stream.                                                                 *)
Extends ==
  /\ noise' = noise /\ taken' = taken
  /\ \E x \in Seq(Byte) : sent' = sent \o x

LEMMA TypeAfterSend ==
  ASSUME WriterTypeOK, NEW x \in Seq(Byte), sent' = sent \o x, noise' = noise,
         taken' = taken, writeBuf' \in Seq(Byte), accepted' \in Seq(Frame)
  PROVE  WriterTypeOK' /\ Extends
<1>1. Len(sent) \in Nat /\ Len(x) \in Nat
  BY LenProperties DEF WriterTypeOK
<1>2. sent \o x \in Seq(Byte) /\ Len(sent \o x) = Len(sent) + Len(x)
  BY ConcatProperties DEF WriterTypeOK
<1>3. taken \in Nat /\ taken <= Len(sent) + Len(x)
  BY <1>1 DEF WriterTypeOK
<1>4. WriterTypeOK'
  BY <1>2, <1>3 DEF WriterTypeOK
<1>5. Extends
  BY DEF Extends
<1> QED BY <1>4, <1>5

LEMMA StreamGrows ==
  ASSUME NEW f \in Frame, accepted \in Seq(Frame), noise \in Seq(Byte)
  PROVE  /\ Append(accepted, f) \in Seq(Frame) /\ Last(Append(accepted, f)) = f
         /\ noise \o Bytes(Append(accepted, f)) = (noise \o Bytes(accepted)) \o Encode(f)
         /\ Encode(f) \in Seq(Byte) /\ noise \o Bytes(accepted) \in Seq(Byte)
<1> DEFINE b == Bytes(accepted)
           e == Encode(f)
<1>1. b \in Seq(Byte) /\ e \in Seq(Byte)
  BY BytesType, EncodeForm
<1>2. Bytes(Append(accepted, f)) = b \o e
  BY BytesAppend
<1> HIDE DEF b, e
<1>3. noise \in Seq(Byte) /\ b \in Seq(Byte) /\ e \in Seq(Byte)
  BY <1>1
<1>4. (noise \o b) \o e = noise \o (b \o e)
  BY ONLY <1>3, BytesAssociate, Zenon
<1>5. noise \o b \in Seq(Byte)
  BY ONLY <1>3, ConcatProperties
<1>6. Append(accepted, f) \in Seq(Frame) /\ Last(Append(accepted, f)) = f
  BY AppendProperties DEF Last
<1> QED BY <1>1, <1>2, <1>4, <1>5, <1>6 DEF b, e

LEMMA IntactAfterSend ==
  ASSUME WriterTypeOK, StreamIntact, ~closed, closed' = closed, noise' = noise,
         NEW f \in Frame, accepted' = Append(accepted, f),
         sent' \o writeBuf' = (sent \o writeBuf) \o Encode(f)
  PROVE  StreamIntact'
<1>1. noise \o Bytes(Append(accepted, f)) = (noise \o Bytes(accepted)) \o Encode(f)
  <2>1. accepted \in Seq(Frame) /\ noise \in Seq(Byte)
    BY DEF WriterTypeOK
  <2> QED BY ONLY <2>1, f \in Frame, StreamGrows
<1>2. sent \o writeBuf = noise \o Bytes(accepted)
  BY DEF StreamIntact
<1>3. sent' \o writeBuf' = noise' \o Bytes(accepted')
  BY <1>1, <1>2, Zenon
<1>4. ~closed'
  OBVIOUS
<1> QED BY ONLY <1>3, <1>4 DEF StreamIntact

LEMMA BufferedSendInv ==
  ASSUME WriterInv, NEW f \in Frames, BufferedSend(f)
  PROVE  WriterInv' /\ Extends
<1> DEFINE e == Encode(f)
           c == writeBuf \o e
           k == Min2(Room, Len(c))
           x == SubSeq(c, 1, k)
<1>1. f \in Frame /\ WriterTypeOK /\ StreamIntact /\ ~closed
  BY FramesAreFrames DEF WriterInv, BufferedSend, Called
<1>2. /\ noise \in Seq(Byte) /\ writeBuf \in Seq(Byte) /\ sent \in Seq(Byte)
      /\ accepted \in Seq(Frame)
  BY <1>1 DEF WriterTypeOK
<1>3. /\ sent' = sent \o x /\ writeBuf' = Drop(c, k)
      /\ accepted' = Append(accepted, f) /\ closed' = closed /\ noise' = noise /\ taken' = taken
  BY DEF BufferedSend, Returns, Drop
<1>4. Len(writeBuf) + Len(e) <= MaxBuffer
  BY DEF BufferedSend, WithinLimit
<1>5. e \in Seq(Byte)
  BY <1>1, EncodeForm
<1> HIDE DEF e
<1>6. /\ c \in Seq(Byte) /\ Len(c) = Len(writeBuf) + Len(e)
      /\ Len(c) \in Nat /\ Len(writeBuf) \in Nat /\ Len(e) \in Nat
  BY ONLY <1>2, <1>5, ConcatProperties, LenProperties
<1>7. c = writeBuf \o e
  OBVIOUS
<1> HIDE DEF c
<1>8. k \in 0..Len(c)
  BY <1>1, <1>6, RoomBound
<1> HIDE DEF k
<1>9. /\ x \in Seq(Byte) /\ Drop(c, k) \in Seq(Byte) /\ Len(Drop(c, k)) = Len(c) - k
      /\ (sent \o x) \o Drop(c, k) = (sent \o writeBuf) \o e
  <2>1. sent \in Seq(Byte) /\ c \in Seq(Byte)
    BY <1>2, <1>6
  <2>2. /\ x \in Seq(Byte) /\ Drop(c, k) \in Seq(Byte) /\ Len(Drop(c, k)) = Len(c) - k
        /\ (sent \o x) \o Drop(c, k) = sent \o c
    BY ONLY <1>8, <2>1, SentAdvances, Zenon DEF x
  <2>3. sent \in Seq(Byte) /\ writeBuf \in Seq(Byte) /\ e \in Seq(Byte)
    BY <1>2, <1>5
  <2>4. (sent \o writeBuf) \o e = sent \o (writeBuf \o e)
    BY ONLY <2>3, BytesAssociate, Zenon
  <2> QED BY ONLY <1>7, <2>2, <2>4, Zenon
<1>10. Append(accepted, f) \in Seq(Frame)
  BY ONLY <1>1, <1>2, AppendProperties
<1> HIDE DEF x
<1>11. WriterTypeOK' /\ Extends
  BY ONLY <1>1, <1>3, <1>9, <1>10, TypeAfterSend
<1>12. StreamIntact'
  <2>1. sent' \o writeBuf' = (sent \o writeBuf) \o Encode(f)
    BY ONLY <1>3, <1>9, Zenon DEF e
  <2> QED BY ONLY <1>1, <1>3, <2>1, IntactAfterSend
<1>13. BufferBound'
  <2>1. Len(writeBuf') <= MaxBuffer /\ Len(writeBuf') \in Nat /\ MaxBuffer \in Nat
    BY <1>3, <1>4, <1>6, <1>8, <1>9, WriterAssumption DEF WriterAssumption
  <2>2. ~(Len(writeBuf') > MaxBuffer)
    BY <2>1
  <2> QED BY ONLY <2>2 DEF BufferBound
<1> QED BY <1>11, <1>12, <1>13 DEF WriterInv

LEMMA DirectSendInv ==
  ASSUME WriterInv, NEW f \in Frames, DirectSend(f)
  PROVE  WriterInv' /\ Extends
<1> DEFINE e == Encode(f)
           k == Min2(Room, Len(e))
           x == SubSeq(e, 1, k)
           y == Drop(e, k)
<1>1. f \in Frame /\ WriterTypeOK /\ StreamIntact /\ ~closed
  BY FramesAreFrames DEF WriterInv, DirectSend, Called
<1>2. /\ noise \in Seq(Byte) /\ writeBuf \in Seq(Byte) /\ sent \in Seq(Byte)
      /\ accepted \in Seq(Frame)
  BY <1>1 DEF WriterTypeOK
<1>3. writeBuf = << >> /\ zeroCopy
  BY DEF DirectSend, Buffered
<1>4. /\ sent' = sent \o x
      /\ writeBuf' = (writeBuf \o RemainingHeader(f, k)) \o RemainingPayload(f, k)
      /\ accepted' = Append(accepted, f) /\ closed' = closed /\ noise' = noise /\ taken' = taken
      /\ zeroCopy' = zeroCopy
  BY DEF DirectSend, Returns
<1>5. e \in Seq(Byte) /\ Len(e) \in Nat
  BY <1>1, EncodeForm, LenProperties
<1>6. k \in 0..Len(e)
  <2> HIDE DEF e
  <2> QED BY <1>1, <1>5, RoomBound
<1> HIDE DEF k
<1>7. RemainingHeader(f, k) \o RemainingPayload(f, k) = y /\ RemainingHeader(f, k) \in Seq(Byte)
  <2>1. k \in Nat /\ k <= Len(Encode(f))
    BY <1>5, <1>6
  <2>2. RemainingHeader(f, k) \o RemainingPayload(f, k) = y
    BY ONLY <1>1, <2>1, RestOfFrame
  <2>3. RemainingHeader(f, k) \in Seq(Byte)
    BY ONLY <1>1, <2>1, RemainingHeaderType
  <2> QED BY <2>2, <2>3
<1> HIDE DEF e
<1>8. x \in Seq(Byte) /\ y \in Seq(Byte)
  BY <1>5, <1>6, TakeProps, DropProps
<1>9. x \o y = e
  BY <1>5, <1>6, TakeDrop
<1>10. IsSuffix(y, e)
  BY <1>5, <1>6, DropIsSuffix
<1> HIDE DEF x, y
<1>11. writeBuf' = y
  <2>1. << >> \o RemainingHeader(f, k) = RemainingHeader(f, k)
    BY ONLY <1>7, ConcatEmptySeq
  <2> QED BY ONLY <1>3, <1>4, <1>7, <2>1, Zenon
<1>12. Append(accepted, f) \in Seq(Frame) /\ Last(Append(accepted, f)) = f
  BY ONLY <1>1, <1>2, StreamGrows
<1>13. writeBuf' \in Seq(Byte)
  BY ONLY <1>8, <1>11
<1>14. WriterTypeOK' /\ Extends
  BY ONLY <1>1, <1>4, <1>8, <1>12, <1>13, TypeAfterSend
<1>15. StreamIntact'
  <2>1. (sent \o x) \o y = sent \o (x \o y)
    <3>1. sent \in Seq(Byte) /\ x \in Seq(Byte) /\ y \in Seq(Byte)
      BY <1>2, <1>8
    <3> QED BY ONLY <3>1, BytesAssociate, Zenon
  <2>2. sent \o << >> = sent
    BY ONLY <1>2, ConcatEmptySeq
  <2>3. sent' \o writeBuf' = (sent \o writeBuf) \o Encode(f)
    BY ONLY <1>3, <1>4, <1>9, <1>11, <2>1, <2>2, Zenon DEF e
  <2> QED BY ONLY <1>1, <1>4, <2>3, IntactAfterSend
<1>16. BufferBound'
  <2>1. zeroCopy' /\ IsSuffix(writeBuf', Encode(Last(accepted')))
    BY ONLY <1>3, <1>4, <1>10, <1>11, <1>12, Zenon DEF e
  <2> QED BY ONLY <2>1 DEF BufferBound
<1> QED BY <1>14, <1>15, <1>16 DEF WriterInv

(* A closed connection sent part of what it should have, or part of the    *)
(* frame that failed as well.                                              *)
LEMMA SendErrorInv ==
  ASSUME WriterInv, NEW f \in Frames, SendError(f)
  PROVE  WriterInv' /\ Extends
<1> DEFINE e == Encode(f)
           c == writeBuf \o e
           t == noise \o Bytes(accepted)
<1>1. f \in Frame /\ WriterTypeOK /\ StreamIntact /\ ~closed
  BY FramesAreFrames DEF WriterInv, SendError, Called
<1>2. /\ noise \in Seq(Byte) /\ writeBuf \in Seq(Byte) /\ sent \in Seq(Byte)
      /\ accepted \in Seq(Frame)
  BY <1>1 DEF WriterTypeOK
<1>3. accepted' = accepted /\ closed' = TRUE /\ noise' = noise /\ taken' = taken
  BY DEF SendError, Returns
<1>4. \/ \E k \in {0, Min2(Room, Len(c))} : sent' = sent \o SubSeq(c, 1, k) /\ writeBuf' = c
      \/ sent' = sent /\ writeBuf' = writeBuf
  BY DEF SendError
<1>5. e \in Seq(Byte) /\ t \in Seq(Byte)
  BY <1>1, <1>2, StreamGrows
<1>6. sent \o writeBuf = t
  BY <1>1 DEF StreamIntact
<1>7. BufferBound'
  BY <1>3 DEF BufferBound
<1> HIDE DEF e, t
<1>8. c \in Seq(Byte) /\ Len(c) \in Nat
  BY ONLY <1>2, <1>5, ConcatProperties, LenProperties
<1>9. CASE sent' = sent /\ writeBuf' = writeBuf
  <2>1. sent \o << >> = sent /\ << >> \in Seq(Byte)
    BY ONLY <1>2, ConcatEmptySeq, EmptySeq
  <2>2. WriterTypeOK' /\ Extends
    <3>1. sent' = sent \o << >> /\ writeBuf' \in Seq(Byte) /\ accepted' \in Seq(Frame)
      BY <1>2, <1>3, <1>9, <2>1
    <3> QED BY ONLY <1>1, <1>3, <2>1, <3>1, TypeAfterSend
  <2>3. IsPrefix(sent, t)
    BY <1>2, <1>5, <1>6, PrefixForm
  <2>4. StreamIntact'
    BY <1>3, <1>9, <2>3 DEF StreamIntact, t
  <2> QED BY <1>7, <2>2, <2>4 DEF WriterInv
<1>10. ASSUME NEW k \in {0, Min2(Room, Len(c))}, sent' = sent \o SubSeq(c, 1, k), writeBuf' = c
       PROVE  WriterInv' /\ Extends
  <2> DEFINE x == SubSeq(c, 1, k)
             y == Drop(c, k)
  <2>1. c = writeBuf \o e
    OBVIOUS
  <2> HIDE DEF c
  <2>2. k \in 0..Len(c)
    BY <1>1, <1>8, <1>10, RoomBound
  <2>3. x \in Seq(Byte) /\ y \in Seq(Byte) /\ (sent \o x) \o y = (sent \o writeBuf) \o e
    <3>1. sent \in Seq(Byte) /\ c \in Seq(Byte)
      BY <1>2, <1>8
    <3>2. x \in Seq(Byte) /\ y \in Seq(Byte) /\ (sent \o x) \o y = sent \o c
      BY ONLY <2>2, <3>1, SentAdvances, Zenon DEF x, y
    <3>3. sent \in Seq(Byte) /\ writeBuf \in Seq(Byte) /\ e \in Seq(Byte)
      BY <1>2, <1>5
    <3>4. (sent \o writeBuf) \o e = sent \o (writeBuf \o e)
      BY ONLY <3>3, BytesAssociate, Zenon
    <3> QED BY ONLY <2>1, <3>2, <3>4, Zenon
  <2> HIDE DEF x, y
  <2>4. sent' = sent \o x /\ writeBuf' = c
    BY <1>10 DEF x
  <2>5. WriterTypeOK' /\ Extends
    <3>1. writeBuf' \in Seq(Byte) /\ accepted' \in Seq(Frame)
      BY <1>2, <1>3, <1>8, <2>4
    <3> QED BY ONLY <1>1, <1>3, <2>3, <2>4, <3>1, TypeAfterSend
  <2>6. IsPrefix(sent \o x, t) \/ IsPrefix(t, sent \o x)
    <3> DEFINE a == sent \o x
    <3>1. a \in Seq(Byte)
      BY ONLY <1>2, <2>3, ConcatProperties
    <3>2. a \o y = t \o e
      BY ONLY <1>6, <2>3, Zenon
    <3> HIDE DEF a
    <3>3. IsPrefix(a, t) \/ IsPrefix(t, a)
      BY ONLY <1>5, <2>3, <3>1, <3>2, PrefixesCompare
    <3> QED BY <3>3 DEF a
  <2>7. StreamIntact'
    BY <1>3, <2>4, <2>6 DEF StreamIntact, t
  <2> QED BY <1>7, <2>5, <2>7 DEF WriterInv
<1> QED BY <1>4, <1>9, <1>10

LEMMA CloseInv ==
  ASSUME WriterInv, Close
  PROVE  WriterInv' /\ Extends
<1> DEFINE t == noise \o Bytes(accepted)
<1>1. WriterTypeOK /\ StreamIntact /\ ~closed
  BY DEF WriterInv, Close
<1>2. noise \in Seq(Byte) /\ writeBuf \in Seq(Byte) /\ sent \in Seq(Byte) /\ accepted \in Seq(Frame)
  BY <1>1 DEF WriterTypeOK
<1>3. /\ closed' = TRUE /\ sent' = sent /\ writeBuf' = writeBuf /\ accepted' = accepted
      /\ noise' = noise /\ taken' = taken
  BY DEF Close
<1>4. t \in Seq(Byte)
  <2>1. Bytes(accepted) \in Seq(Byte)
    BY <1>2, BytesType
  <2> QED BY <1>2, <2>1, ConcatProperties
<1>5. sent \o writeBuf = t
  BY <1>1 DEF StreamIntact
<1> HIDE DEF t
<1>6. IsPrefix(sent, t)
  BY <1>2, <1>4, <1>5, PrefixForm
<1>7. StreamIntact'
  BY <1>3, <1>6 DEF StreamIntact, t
<1>8. BufferBound'
  BY <1>3 DEF BufferBound
<1>9. sent \o << >> = sent /\ << >> \in Seq(Byte)
  BY ONLY <1>2, ConcatEmptySeq, EmptySeq
<1>10. WriterTypeOK' /\ Extends
  <2>1. sent' = sent \o << >> /\ writeBuf' \in Seq(Byte) /\ accepted' \in Seq(Frame)
    BY <1>2, <1>3, <1>9
  <2> QED BY ONLY <1>1, <1>3, <1>9, <2>1, TypeAfterSend
<1> QED BY <1>7, <1>8, <1>10 DEF WriterInv

(* Nothing of the writer's changes, or only what the other end received.   *)
LEMMA WriterRests ==
  ASSUME WriterInv, UNCHANGED <<zeroCopy, noise, writeBuf, closed, sent, accepted>>,
         taken' \in Nat, taken' <= Len(sent)
  PROVE  WriterInv'
<1>1. WriterTypeOK'
  BY DEF WriterInv, WriterTypeOK
<1>2. StreamIntact'
  BY DEF WriterInv, StreamIntact
<1>3. BufferBound'
  BY DEF WriterInv, BufferBound
<1> QED BY <1>1, <1>2, <1>3 DEF WriterInv
-----------------------------------------------------------------------------
(* The reader.  The decoder owes nothing but what is in its buffer: the    *)
(* frames of the stream it was given, however that goes on, are those it   *)
(* has returned and those of its buffer, if that goes on so.               *)

Received == SubSeq(sent, 1, parsed)

ReaderTypeOK ==
  /\ codecBuf \in Seq(Byte) /\ decoded \in Seq(Frame) /\ readBuf \in Seq(Byte)
  /\ parsed \in Nat /\ parsed <= taken
  /\ readBuf = SubSeq(sent, parsed + 1, taken)

NothingLost ==
  \A z \in Seq(Byte) : FramesIn[Received \o z] = decoded \o FramesIn[codecBuf \o z]

(* What the states after the search for the magic know of the buffer.      *)
ParserKnows ==
  /\ parseState = "header" => Len(codecBuf) >= Len(Magic) /\ MagicAt(codecBuf, 1)
  /\ parseState = "payload" =>
       /\ Headed(codecBuf)
       /\ partial = [type |-> TypeOf(codecBuf), length |-> LengthOf(codecBuf)]

(* Outside its loop the decoder has returned all that its buffer holds.    *)
NothingLeft == rdPc # "parse" => FramesIn[codecBuf] = << >>

ReaderInv == ReaderTypeOK /\ NothingLost /\ ParserKnows /\ NothingLeft

(* The stream was extended.                                                *)
LEMMA ReaderAfterWriter ==
  ASSUME WriterTypeOK, ReaderInv, Extends, UNCHANGED <<codecVars, rdPc, readBuf, parsed>>
  PROVE  ReaderInv'
<1>1. PICK x \in Seq(Byte) : sent' = sent \o x
  BY DEF Extends
<1>2. /\ sent \in Seq(Byte) /\ Len(sent) \in Nat
      /\ taken \in Nat /\ taken <= Len(sent) /\ taken' = taken
  BY LenProperties DEF WriterTypeOK, Extends
<1>3. parsed \in Nat /\ parsed <= taken /\ readBuf = SubSeq(sent, parsed + 1, taken)
  BY DEF ReaderInv, ReaderTypeOK
<1> DEFINE m == parsed + 1
<1>4. m \in Nat /\ 1 <= m /\ m <= taken + 1 /\ parsed <= Len(sent) /\ 1 <= parsed + 1
  BY <1>2, <1>3
<1>5. SubSeq(sent \o x, m, taken) = SubSeq(sent, m, taken)
  <2> HIDE DEF m
  <2> QED BY <1>2, <1>4, SliceOfFirst
<1>6. SubSeq(sent \o x, 1, parsed) = SubSeq(sent, 1, parsed)
  BY <1>2, <1>3, <1>4, SliceOfFirst
<1>7. Received' = Received
  BY <1>1, <1>6 DEF Received
<1>8. /\ codecBuf' = codecBuf /\ decoded' = decoded
      /\ parseState' = parseState /\ partial' = partial
      /\ rdPc' = rdPc /\ readBuf' = readBuf /\ parsed' = parsed
  BY DEF codecVars
<1>9. ReaderTypeOK'
  <2>1. readBuf' = SubSeq(sent', parsed' + 1, taken')
    BY <1>1, <1>2, <1>3, <1>5, <1>8
  <2> QED BY <1>2, <1>8, <2>1 DEF ReaderInv, ReaderTypeOK
<1>10. NothingLost'
  BY <1>7, <1>8 DEF ReaderInv, NothingLost
<1>11. ParserKnows'
  BY <1>8 DEF ReaderInv, ParserKnows
<1>12. NothingLeft'
  BY <1>8 DEF ReaderInv, NothingLeft
<1> QED BY <1>9, <1>10, <1>11, <1>12 DEF ReaderInv

(* One turn of the decoder.                                                *)
LEMMA ReaderAfterParse ==
  ASSUME ReaderInv, UNCHANGED <<sent, taken, readBuf, parsed>>,
         codecBuf' \in Seq(Byte), decoded' \in Seq(Frame),
         \A z \in Seq(Byte) :
           decoded \o FramesIn[codecBuf \o z] = decoded' \o FramesIn[codecBuf' \o z],
         ParserKnows', NothingLeft'
  PROVE  ReaderInv'
<1>1. ReaderTypeOK'
  BY DEF ReaderInv, ReaderTypeOK
<1>2. Received' = Received
  BY DEF Received
<1>3. NothingLost'
  <2>1. \A z \in Seq(Byte) : FramesIn[Received \o z] = decoded \o FramesIn[codecBuf \o z]
    BY DEF ReaderInv, NothingLost
  <2>2. \A z \in Seq(Byte) : FramesIn[Received' \o z] = decoded' \o FramesIn[codecBuf' \o z]
    BY <1>2, <2>1, Zenon
  <2> QED BY ONLY <2>2, Zenon DEF NothingLost
<1> QED BY <1>1, <1>3 DEF ReaderInv

(* Nothing was returned, and the buffer has lost nothing that matters.     *)
LEMMA ReaderAfterSkip ==
  ASSUME ReaderInv, UNCHANGED <<sent, taken, readBuf, parsed, decoded>>,
         codecBuf' \in Seq(Byte),
         \A z \in Seq(Byte) : FramesIn[codecBuf \o z] = FramesIn[codecBuf' \o z],
         ParserKnows', NothingLeft'
  PROVE  ReaderInv'
<1>1. decoded' \in Seq(Frame)
  BY DEF ReaderInv, ReaderTypeOK
<1>2. \A z \in Seq(Byte) :
        decoded \o FramesIn[codecBuf \o z] = decoded' \o FramesIn[codecBuf' \o z]
  <2>1. decoded' = decoded
    OBVIOUS
  <2> QED BY <2>1, Zenon
<1> QED BY <1>1, <1>2, ReaderAfterParse

LEMMA SyncMagicInv ==
  ASSUME ReaderInv, SyncMagic, UNCHANGED <<sent, taken, readBuf, parsed>>, rdPc' = "parse"
  PROVE  ReaderInv'
<1> DEFINE s == codecBuf
           M == Len(Magic)
           i == CHOOSE j \in MagicPlaces : \A h \in MagicPlaces : j <= h
           k == i - 1
<1>1. s \in Seq(Byte) /\ Len(s) \in Nat /\ M \in Nat /\ M > 0
  BY LenProperties, CodecFacts DEF ReaderInv, ReaderTypeOK
<1>2. MagicPlaces \subseteq Nat /\ MagicPlaces # {}
  BY DEF MagicPlaces, SyncMagic
<1>3. i \in MagicPlaces /\ \A h \in MagicPlaces : i <= h
  <2>1. \E j \in MagicPlaces : \A h \in MagicPlaces : j <= h
    BY <1>2, LeastNumber
  <2> QED BY <2>1, Zenon
<1>4. /\ codecBuf' = Drop(s, k) /\ parseState' = "header" /\ decoded' = decoded
  BY DEF SyncMagic, Without, Drop
<1> HIDE DEF i
<1>5. /\ i \in 1..(Len(s) - M + 1) /\ MagicAt(s, i)
  BY <1>3 DEF MagicPlaces
<1>6. /\ k \in Nat /\ k \in 0..Len(s) /\ k + M <= Len(s) /\ k + 1 = i /\ Len(s) - k >= M
  BY <1>1, <1>5
<1>7. \A j \in 1..k : j + M <= Len(s) + 1 /\ ~MagicAt(s, j)
  <2> TAKE j \in 1..k
  <2>1. /\ j \in 1..(Len(s) - M + 1) /\ j + M <= Len(s) + 1 /\ ~(i <= j)
    BY <1>1, <1>5, <1>6
  <2>2. j \notin MagicPlaces
    BY <1>3, <2>1
  <2> QED BY <2>1, <2>2 DEF MagicPlaces
<1> HIDE DEF k
<1>8. \A z \in Seq(Byte) : FramesIn[s \o z] = FramesIn[Drop(s, k) \o z]
  BY <1>1, <1>6, <1>7, SkipNoMagic
<1>9. Drop(s, k) \in Seq(Byte) /\ Len(Drop(s, k)) = Len(s) - k
  BY <1>1, <1>6, DropProps
<1>10. MagicAt(Drop(s, k), 1)
  BY <1>1, <1>5, <1>6, MagicOfDrop
<1>11. ParserKnows'
  BY <1>4, <1>6, <1>9, <1>10 DEF ParserKnows
<1>12. NothingLeft'
  BY DEF NothingLeft
<1>13. /\ codecBuf' \in Seq(Byte)
       /\ \A z \in Seq(Byte) : FramesIn[codecBuf \o z] = FramesIn[codecBuf' \o z]
  BY <1>4, <1>8, <1>9, Zenon
<1> QED BY <1>4, <1>11, <1>12, <1>13, ReaderAfterSkip

LEMMA SyncMagicFailsInv ==
  ASSUME ReaderInv, SyncMagicFails, UNCHANGED <<sent, taken, readBuf, parsed>>
  PROVE  ReaderInv'
<1> DEFINE s == codecBuf
           M == Len(Magic)
           k == IF Len(s) > Kept THEN Len(s) - Kept ELSE 0
<1>1. s \in Seq(Byte) /\ Len(s) \in Nat /\ M \in Nat /\ M > 0
  BY LenProperties, CodecFacts DEF ReaderInv, ReaderTypeOK
<1>2. /\ k \in Nat /\ k \in 0..Len(s) /\ Len(s) - k < HeaderSize
      /\ \A j \in 1..k : j \in 1..(Len(s) - M + 1) /\ j + M <= Len(s) + 1
  BY <1>1, CodecFacts DEF Kept
<1>3. codecBuf' = Drop(s, k) /\ parseState' = "magic" /\ decoded' = decoded
  <2>1. Drop(s, 0) = s
    BY <1>1, SubSeqFull DEF Drop
  <2> QED BY <2>1 DEF SyncMagicFails, Without, Drop
<1>4. \A j \in 1..k : ~MagicAt(s, j)
  BY <1>2 DEF SyncMagicFails, MagicPlaces
<1> HIDE DEF k
<1>5. \A z \in Seq(Byte) : FramesIn[s \o z] = FramesIn[Drop(s, k) \o z]
  BY <1>1, <1>2, <1>4, SkipNoMagic
<1>6. Drop(s, k) \in Seq(Byte) /\ Len(Drop(s, k)) = Len(s) - k
  BY <1>1, <1>2, DropProps
<1>7. FramesIn[Drop(s, k)] = << >>
  BY <1>2, <1>6, FramesInCases
<1>8. ParserKnows'
  BY <1>3 DEF ParserKnows
<1>9. NothingLeft'
  BY <1>3, <1>7 DEF NothingLeft
<1>10. /\ codecBuf' \in Seq(Byte)
       /\ \A z \in Seq(Byte) : FramesIn[codecBuf \o z] = FramesIn[codecBuf' \o z]
  BY <1>3, <1>5, <1>6, Zenon
<1> QED BY <1>3, <1>8, <1>9, <1>10, ReaderAfterSkip

LEMMA ParseHeaderInv ==
  ASSUME ReaderInv, ParseHeader, UNCHANGED <<sent, taken, readBuf, parsed>>, rdPc' = "parse"
  PROVE  ReaderInv'
<1>1. /\ codecBuf' = codecBuf /\ decoded' = decoded /\ parseState' = "payload"
      /\ partial' = [type |-> TypeOf(codecBuf), length |-> LengthOf(codecBuf)]
  BY DEF ParseHeader
<1>2. Headed(codecBuf)
  BY DEF ParseHeader, HeaderFits, HeaderValid, ReaderInv, ParserKnows, Headed
<1>3. ParserKnows'
  BY <1>1, <1>2 DEF ParserKnows
<1>4. NothingLeft'
  BY DEF NothingLeft
<1>5. codecBuf' \in Seq(Byte)
  BY <1>1 DEF ReaderInv, ReaderTypeOK
<1>6. \A z \in Seq(Byte) : FramesIn[codecBuf \o z] = FramesIn[codecBuf' \o z]
  BY <1>1, Zenon
<1> QED BY <1>1, <1>3, <1>4, <1>5, <1>6, ReaderAfterSkip

LEMMA ParseHeaderBadInv ==
  ASSUME ReaderInv, ParseHeaderBad, UNCHANGED <<sent, taken, readBuf, parsed>>, rdPc' = "parse"
  PROVE  ReaderInv'
<1> DEFINE s == codecBuf
<1>1. s \in Seq(Byte) /\ Len(s) \in Nat
  BY LenProperties DEF ReaderInv, ReaderTypeOK
<1>2. /\ codecBuf' = Drop(s, 1) /\ decoded' = decoded /\ parseState' = "magic"
      /\ Len(s) >= HeaderSize /\ ~Headed(s)
  BY DEF ParseHeaderBad, Without, Drop, HeaderFits, HeaderValid, Headed
<1>3. 1 \in 0..Len(s)
  BY <1>1, <1>2, CodecFacts
<1>4. Drop(s, 1) \in Seq(Byte)
  BY <1>1, <1>3, DropProps
<1>5. ASSUME NEW z \in Seq(Byte) PROVE FramesIn[s \o z] = FramesIn[Drop(s, 1) \o z]
  <2> DEFINE c == s \o z
  <2>1. c \in Seq(Byte) /\ Len(c) = Len(s) + Len(z) /\ Len(z) \in Nat
    BY <1>1, ConcatProperties, LenProperties
  <2>2. ~Headed(c)
    BY <1>1, <1>2, HeaderOfFirst
  <2>3. Drop(c, 1) = Drop(s, 1) \o z
    BY <1>1, <1>3, DropOfFirst
  <2> HIDE DEF c
  <2>4. Len(c) >= HeaderSize
    BY <1>1, <1>2, <2>1, CodecFacts
  <2>5. FramesIn[c] = FramesIn[Drop(c, 1)]
    BY <2>1, <2>2, <2>4, FramesInCases
  <2> QED BY <2>3, <2>5 DEF c
<1>6. ParserKnows'
  BY <1>2 DEF ParserKnows
<1>7. NothingLeft'
  BY DEF NothingLeft
<1>8. /\ codecBuf' \in Seq(Byte)
      /\ \A z \in Seq(Byte) : FramesIn[codecBuf \o z] = FramesIn[codecBuf' \o z]
  BY <1>2, <1>4, <1>5, Zenon
<1> QED BY <1>2, <1>6, <1>7, <1>8, ReaderAfterSkip

LEMMA ParseWaitsInv ==
  ASSUME ReaderInv, ParseHeaderWaits \/ ParsePayloadWaits,
         UNCHANGED <<sent, taken, readBuf, parsed>>
  PROVE  ReaderInv'
<1> DEFINE s == codecBuf
<1>1. s \in Seq(Byte) /\ Len(s) \in Nat
  BY LenProperties DEF ReaderInv, ReaderTypeOK
<1>2. /\ codecBuf' = codecBuf /\ decoded' = decoded
      /\ parseState' = parseState /\ partial' = partial
  BY DEF ParseHeaderWaits, ParsePayloadWaits, codecVars
<1>3. FramesIn[s] = << >>
  <2>1. CASE ParseHeaderWaits
    <3>1. Len(s) < HeaderSize
      BY <1>1, <2>1, CodecFacts DEF ParseHeaderWaits, HeaderFits
    <3> QED BY <1>1, <3>1, FramesInCases
  <2>2. CASE ParsePayloadWaits
    <3>1. Headed(s) /\ partial.length = LengthOf(s)
      BY <2>2 DEF ParsePayloadWaits, ReaderInv, ParserKnows
    <3>2. ~Complete(s)
      BY <2>2, <3>1 DEF ParsePayloadWaits, PayloadFits, Complete
    <3> QED BY <1>1, <3>1, <3>2, FramesInCases
  <2> QED BY <2>1, <2>2
<1>4. ParserKnows'
  BY <1>2 DEF ReaderInv, ParserKnows
<1>5. NothingLeft'
  BY <1>2, <1>3 DEF NothingLeft
<1>6. codecBuf' \in Seq(Byte)
  BY <1>1, <1>2
<1>7. \A z \in Seq(Byte) : FramesIn[codecBuf \o z] = FramesIn[codecBuf' \o z]
  BY <1>2, Zenon
<1> QED BY <1>2, <1>4, <1>5, <1>6, <1>7, ReaderAfterSkip

LEMMA ParsePayloadInv ==
  ASSUME ReaderInv, ParsePayload, UNCHANGED <<sent, taken, readBuf, parsed>>, rdPc' = "parse"
  PROVE  ReaderInv'
<1> DEFINE s == codecBuf
           a == FrameAt(s)
           n == HeaderSize + LengthOf(s)
<1>1. s \in Seq(Byte) /\ decoded \in Seq(Frame)
  BY DEF ReaderInv, ReaderTypeOK
<1>2. /\ Headed(s) /\ partial = [type |-> TypeOf(s), length |-> LengthOf(s)]
  BY DEF ParsePayload, ReaderInv, ParserKnows
<1>3. partial.type = TypeOf(s) /\ partial.length = LengthOf(s)
  BY <1>2
<1>4. Complete(s)
  BY <1>2, <1>3 DEF ParsePayload, PayloadFits, Complete
<1>5. /\ codecBuf' = Drop(s, n) /\ decoded' = Append(decoded, a) /\ parseState' = "magic"
  BY <1>3 DEF ParsePayload, Without, Drop, FrameAt
<1>6. n \in 0..Len(s) /\ a \in Frame
  BY <1>1, <1>4, CompleteFrame
<1>7. Drop(s, n) \in Seq(Byte)
  <2> HIDE DEF n
  <2> QED BY <1>1, <1>6, DropProps
<1>8. /\ Append(decoded, a) \in Seq(Frame) /\ Append(decoded, a) = decoded \o <<a>>
      /\ <<a>> \in Seq(Frame)
  <2> HIDE DEF a
  <2> QED BY <1>1, <1>6, AppendProperties, AppendIsConcat
<1>9. ASSUME NEW z \in Seq(Byte)
      PROVE  decoded \o FramesIn[s \o z] = Append(decoded, a) \o FramesIn[Drop(s, n) \o z]
  <2> DEFINE c == s \o z
             r == Drop(s, n) \o z
             g == FramesIn[r]
  <2>1. c \in Seq(Byte)
    BY <1>1, ConcatProperties
  <2>2. Complete(c) /\ FrameAt(c) = a /\ LengthOf(c) = LengthOf(s)
    BY <1>1, <1>4, CompleteOfFirst
  <2>3. Drop(c, n) = r
    <3> HIDE DEF n
    <3> QED BY <1>1, <1>6, DropOfFirst
  <2>4. r \in Seq(Byte)
    <3> HIDE DEF n
    <3> QED BY <1>7, ConcatProperties
  <2> HIDE DEF c, r
  <2>5. FramesIn[c] = <<FrameAt(c)>> \o FramesIn[Drop(c, HeaderSize + LengthOf(c))]
    BY <2>1, <2>2, FramesInCases
  <2>6. FramesIn[c] = <<a>> \o g
    BY <2>2, <2>3, <2>5
  <2>7. g \in Seq(Frame)
    BY <2>4, FramesInType
  <2> HIDE DEF g, a
  <2>8. decoded \in Seq(Frame) /\ <<a>> \in Seq(Frame) /\ g \in Seq(Frame)
    BY <1>1, <1>8, <2>7
  <2>9. (decoded \o <<a>>) \o g = decoded \o (<<a>> \o g)
    BY ONLY <2>8, FramesAssociate, Zenon
  <2>10. decoded \o FramesIn[c] = Append(decoded, a) \o g
    BY ONLY <1>8, <2>6, <2>9, Zenon
  <2> QED BY ONLY <2>10, Zenon DEF c, r, g
<1>10. ParserKnows'
  BY <1>5 DEF ParserKnows
<1>11. NothingLeft'
  BY DEF NothingLeft
<1> HIDE DEF a, n
<1>12. /\ codecBuf' \in Seq(Byte) /\ decoded' \in Seq(Frame)
       /\ \A z \in Seq(Byte) :
            decoded \o FramesIn[codecBuf \o z] = decoded' \o FramesIn[codecBuf' \o z]
  BY <1>5, <1>7, <1>8, <1>9, Zenon
<1> QED BY <1>10, <1>11, <1>12, ReaderAfterParse

LEMMA OnReadParseInv ==
  ASSUME ReaderInv, OnReadParse
  PROVE  ReaderInv'
<1>1. UNCHANGED <<sent, taken, readBuf, parsed>>
  BY DEF OnReadParse, writerVars
<1>2. CASE ParseStep /\ rdPc' = "parse"
  BY <1>1, <1>2, SyncMagicInv, ParseHeaderInv, ParseHeaderBadInv, ParsePayloadInv DEF ParseStep
<1>3. CASE ParseReturns
  BY <1>1, <1>3, SyncMagicFailsInv, ParseWaitsInv DEF ParseReturns
<1> QED BY <1>2, <1>3 DEF OnReadParse

LEMMA RecvAgainInv ==
  ASSUME WriterTypeOK, ReaderInv, RecvAgain
  PROVE  ReaderInv'
<1> DEFINE a == Received
           b == readBuf
           s == codecBuf
<1>1. sent \in Seq(Byte) /\ Len(sent) \in Nat /\ taken \in Nat /\ taken <= Len(sent)
  BY LenProperties DEF WriterTypeOK
<1>2. /\ s \in Seq(Byte) /\ b \in Seq(Byte) /\ decoded \in Seq(Frame)
      /\ parsed \in Nat /\ parsed <= taken /\ b = SubSeq(sent, parsed + 1, taken)
  BY DEF ReaderInv, ReaderTypeOK
<1>3. /\ codecBuf' = s \o b /\ decoded' = decoded /\ parseState' = parseState
      /\ partial' = partial /\ parsed' = taken /\ readBuf' = << >> /\ rdPc' = "parse"
      /\ sent' = sent /\ taken' = taken
  BY DEF RecvAgain, AppendData, writerVars
<1>4. SubSeq(sent, 1, taken) = a \o b
  <2>1. 1 \in 1..(Len(sent) + 1) /\ parsed \in (1 - 1)..Len(sent) /\ taken \in parsed..Len(sent)
    BY <1>1, <1>2
  <2>2. SubSeq(sent, 1, parsed) \o SubSeq(sent, parsed + 1, taken) = SubSeq(sent, 1, taken)
    BY ONLY <1>1, <2>1, ConcatAdjacentSubSeq
  <2> QED BY <1>2, <2>2 DEF Received
<1>5. a \in Seq(Byte)
  <2>1. parsed \in 0..Len(sent)
    BY <1>1, <1>2
  <2> QED BY <1>1, <2>1, TakeProps DEF Received
<1>6. Received' = a \o b
  BY <1>3, <1>4 DEF Received
<1>7. s \o b \in Seq(Byte)
  <2>1. s \in Seq(Byte) /\ b \in Seq(Byte)
    BY <1>2
  <2> QED BY ONLY <2>1, ConcatProperties
<1>8. ReaderTypeOK'
  <2>1. SubSeq(sent, taken + 1, taken) = << >> /\ << >> \in Seq(Byte)
    <3>1. taken + 1 \in Int /\ taken \in Int /\ taken < taken + 1
      BY <1>1
    <3> QED BY <3>1, SubSeqEmpty, EmptySeq
  <2>2. taken <= taken
    BY <1>1
  <2> HIDE DEF s, b
  <2> QED BY <1>1, <1>2, <1>3, <1>7, <2>1, <2>2 DEF ReaderTypeOK
<1>9. NothingLost'
  <2>1. \A z \in Seq(Byte) : FramesIn[a \o z] = decoded \o FramesIn[s \o z]
    BY DEF ReaderInv, NothingLost
  <2> HIDE DEF a, b, s
  <2>2. ASSUME NEW z \in Seq(Byte)
        PROVE  FramesIn[(a \o b) \o z] = decoded \o FramesIn[(s \o b) \o z]
    <3>1. a \in Seq(Byte) /\ b \in Seq(Byte) /\ z \in Seq(Byte)
      BY <1>2, <1>5
    <3>2. s \in Seq(Byte) /\ b \in Seq(Byte) /\ z \in Seq(Byte)
      BY <1>2
    <3>3. (a \o b) \o z = a \o (b \o z)
      BY ONLY <3>1, BytesAssociate, Zenon
    <3>4. (s \o b) \o z = s \o (b \o z)
      BY ONLY <3>2, BytesAssociate, Zenon
    <3>5. b \o z \in Seq(Byte)
      BY ONLY <3>2, ConcatProperties
    <3>6. FramesIn[a \o (b \o z)] = decoded \o FramesIn[s \o (b \o z)]
      BY ONLY <2>1, <3>5, Zenon
    <3> QED BY ONLY <3>3, <3>4, <3>6, Zenon
  <2>3. \A z \in Seq(Byte) : FramesIn[Received' \o z] = decoded' \o FramesIn[codecBuf' \o z]
    BY ONLY <1>3, <1>6, <2>2, Zenon
  <2> QED BY ONLY <2>3, Zenon DEF NothingLost
<1>10. ParserKnows'
  <2>1. Len(s) \in Nat /\ Len(b) \in Nat /\ Len(s \o b) = Len(s) + Len(b)
    BY <1>2, LenProperties, ConcatProperties
  <2>2. ASSUME parseState = "header" PROVE Len(s \o b) >= Len(Magic) /\ MagicAt(s \o b, 1)
    <3>1. Len(s) >= Len(Magic) /\ MagicAt(s, 1)
      BY <2>2 DEF ReaderInv, ParserKnows
    <3>2. 1 \in Nat /\ 1 <= 1 /\ 1 + Len(Magic) <= Len(s) + 1 /\ Len(s) + Len(b) >= Len(Magic)
      BY <2>1, <3>1, CodecFacts
    <3> QED BY <1>2, <2>1, <3>1, <3>2, MagicOfFirst
  <2>3. ASSUME parseState = "payload"
        PROVE  /\ Headed(s \o b)
               /\ partial = [type |-> TypeOf(s \o b), length |-> LengthOf(s \o b)]
    <3>1. Headed(s) /\ partial = [type |-> TypeOf(s), length |-> LengthOf(s)]
      BY <2>3 DEF ReaderInv, ParserKnows
    <3>2. Len(s) >= HeaderSize
      BY <3>1 DEF Headed
    <3> QED BY <1>2, <3>1, <3>2, HeaderOfFirst
  <2> HIDE DEF s, b
  <2> QED BY <1>3, <2>2, <2>3 DEF ParserKnows
<1>11. NothingLeft'
  BY <1>3 DEF NothingLeft
<1> QED BY <1>8, <1>9, <1>10, <1>11 DEF ReaderInv

LEMMA RecvInv ==
  ASSUME WriterInv, ReaderInv, NEW k \in Arrivals, Recv(k)
  PROVE  WriterInv' /\ ReaderInv'
<1>1. sent \in Seq(Byte) /\ Len(sent) \in Nat /\ taken \in Nat /\ taken <= Len(sent)
  BY LenProperties DEF WriterInv, WriterTypeOK
<1>2. parsed \in Nat /\ parsed <= taken /\ readBuf = SubSeq(sent, parsed + 1, taken)
  BY DEF ReaderInv, ReaderTypeOK
<1>3. k \in Nat /\ 0 < k /\ taken + k <= Len(sent)
  <2>1. k \in Pieces \cup {Unread} /\ 0 < k /\ k <= Unread /\ Unread \in Nat
    BY <1>1 DEF Arrivals, Unread
  <2>2. k \in Nat
    BY <2>1, PiecesAssumption DEF PiecesAssumption
  <2> QED BY <1>1, <2>1, <2>2 DEF Unread
<1>4. /\ UNCHANGED <<zeroCopy, noise, writeBuf, closed, sent, accepted, codecVars, rdPc, parsed>>
      /\ taken' = taken + k /\ readBuf' = readBuf \o SubSeq(sent, taken + 1, taken + k)
  BY DEF Recv
<1>5. WriterInv'
  <2>1. taken' \in Nat /\ taken' <= Len(sent)
    BY <1>1, <1>3, <1>4
  <2> QED BY <1>4, <2>1, WriterRests
<1> DEFINE m == parsed + 1
           n == taken + k
<1>6. /\ m \in Nat /\ n \in Nat /\ 1 <= m /\ n <= Len(sent) /\ m <= n + 1
      /\ m \in 1..(Len(sent) + 1) /\ taken \in (m - 1)..Len(sent) /\ n \in taken..Len(sent)
  BY <1>1, <1>2, <1>3
<1>7. readBuf' = SubSeq(sent, m, taken) \o SubSeq(sent, taken + 1, n)
  BY <1>2, <1>4
<1> HIDE DEF m, n
<1>8. readBuf' = SubSeq(sent, m, n) /\ SubSeq(sent, m, n) \in Seq(Byte)
  <2>1. SubSeq(sent, m, taken) \o SubSeq(sent, taken + 1, n) = SubSeq(sent, m, n)
    BY ONLY <1>1, <1>6, ConcatAdjacentSubSeq
  <2>2. SubSeq(sent, m, n) \in Seq(Byte)
    BY <1>1, <1>6, SliceProps
  <2> QED BY <1>7, <2>1, <2>2, Zenon
<1>9. ReaderTypeOK'
  <2>1. readBuf' = SubSeq(sent', parsed' + 1, taken')
    BY <1>4, <1>8 DEF m, n
  <2>2. parsed' \in Nat /\ parsed' <= taken'
    BY <1>1, <1>2, <1>3, <1>4
  <2>3. codecBuf' \in Seq(Byte) /\ decoded' \in Seq(Frame) /\ readBuf' \in Seq(Byte)
    BY <1>4, <1>8 DEF codecVars, ReaderInv, ReaderTypeOK
  <2> QED BY <2>1, <2>2, <2>3 DEF ReaderTypeOK
<1>10. Received' = Received
  BY <1>4 DEF Received
<1>11. /\ codecBuf' = codecBuf /\ decoded' = decoded
       /\ parseState' = parseState /\ partial' = partial /\ rdPc' = rdPc
  BY <1>4 DEF codecVars
<1>12. NothingLost'
  BY <1>10, <1>11 DEF ReaderInv, NothingLost
<1>13. ParserKnows'
  BY <1>11 DEF ReaderInv, ParserKnows
<1>14. NothingLeft'
  BY <1>11 DEF ReaderInv, NothingLeft
<1> QED BY <1>5, <1>9, <1>12, <1>13, <1>14 DEF ReaderInv

(* The state is the same, but for where the reading thread is.             *)
LEMMA ReaderMoves ==
  ASSUME WriterInv, ReaderInv, UNCHANGED <<writerVars, codecVars, readBuf, parsed>>,
         rdPc' = rdPc \/ rdPc # "parse"
  PROVE  WriterInv' /\ ReaderInv'
<1>1. /\ UNCHANGED <<zeroCopy, noise, writeBuf, closed, sent, accepted>> /\ taken' = taken
      /\ codecBuf' = codecBuf /\ decoded' = decoded /\ parseState' = parseState
      /\ partial' = partial /\ readBuf' = readBuf /\ parsed' = parsed
  BY DEF writerVars, codecVars
<1>2. WriterInv'
  <2>1. taken' \in Nat /\ taken' <= Len(sent)
    BY <1>1 DEF WriterInv, WriterTypeOK
  <2> QED BY <1>1, <2>1, WriterRests
<1>3. ReaderTypeOK'
  BY <1>1 DEF ReaderInv, ReaderTypeOK
<1>4. Received' = Received
  BY <1>1 DEF Received
<1>5. NothingLost'
  BY <1>1, <1>4 DEF ReaderInv, NothingLost
<1>6. ParserKnows'
  BY <1>1 DEF ReaderInv, ParserKnows
<1>7. NothingLeft'
  BY <1>1 DEF ReaderInv, NothingLeft
<1> QED BY <1>2, <1>3, <1>5, <1>6, <1>7 DEF ReaderInv

LEMMA EmptyHoldsNoFrame ==
  FramesIn[<< >>] = << >>
<1>1. << >> \in Seq(Byte) /\ Len(<< >>) = 0
  BY EmptySeq
<1>2. Len(<< >>) < HeaderSize
  BY <1>1, CodecFacts
<1> QED BY <1>1, <1>2, FramesInCases

LEMMA ReaderInitInv ==
  ASSUME Init, WriterTypeOK
  PROVE  ReaderInv
<1>1. /\ codecBuf = << >> /\ decoded = << >> /\ readBuf = << >> /\ parsed = 0 /\ taken = 0
      /\ parseState = "magic" /\ sent \in Seq(Byte)
  BY DEF Init, WriterInit, CodecInit, WriterTypeOK
<1>2. << >> \in Seq(Byte) /\ << >> \in Seq(Frame)
  BY EmptySeq
<1>3. SubSeq(sent, 0 + 1, 0) = << >> /\ SubSeq(sent, 1, 0) = << >>
  BY SubSeqEmpty
<1>4. ReaderTypeOK
  BY <1>1, <1>2, <1>3 DEF ReaderTypeOK
<1>5. Received = << >>
  BY <1>1, <1>3 DEF Received
<1>6. ASSUME NEW z \in Seq(Byte)
      PROVE  FramesIn[Received \o z] = decoded \o FramesIn[codecBuf \o z]
  <2>1. << >> \o z = z
    BY ConcatEmptySeq
  <2>2. FramesIn[z] \in Seq(Frame)
    BY FramesInType
  <2>3. << >> \o FramesIn[z] = FramesIn[z]
    BY <2>2, ConcatEmptySeq
  <2> QED BY ONLY <1>1, <1>5, <2>1, <2>3, Zenon
<1>7. NothingLost
  BY <1>6, Zenon DEF NothingLost
<1>8. ParserKnows
  BY <1>1 DEF ParserKnows
<1>9. NothingLeft
  BY <1>1, EmptyHoldsNoFrame DEF NothingLeft
<1> QED BY <1>4, <1>7, <1>8, <1>9 DEF ReaderInv
-----------------------------------------------------------------------------
Inv == WriterInv /\ ReaderInv

(* The inductive invariant holds: the writer extends the stream by whole   *)
(* frames only, and the decoder owes only what its buffer holds.           *)
THEOREM StreamInvHolds == Spec => []Inv
<1>1. Init => Inv
  <2> SUFFICES ASSUME Init PROVE Inv
    OBVIOUS
  <2>1. WriterInv
    BY WriterInitInv DEF Init
  <2>2. ReaderInv
    BY <2>1, ReaderInitInv DEF WriterInv
  <2> QED BY <2>1, <2>2 DEF Inv
<1>2. Inv /\ [Next]_vars => Inv'
  <2> SUFFICES ASSUME Inv, [Next]_vars PROVE Inv'
    OBVIOUS
  <2>1. WriterInv /\ ReaderInv /\ WriterTypeOK
    BY DEF Inv, WriterInv
  <2>2. CASE Writer
    <3>1. UNCHANGED <<codecVars, rdPc, readBuf, parsed>>
      BY <2>2 DEF Writer
    <3>2. ASSUME WriterInv' /\ Extends PROVE Inv'
      <4>1. ReaderInv'
        BY <2>1, <3>1, <3>2, ReaderAfterWriter
      <4> QED BY <3>2, <4>1 DEF Inv
    <3>3. CASE Close
      BY <2>1, <3>2, <3>3, CloseInv
    <3>4. ASSUME NEW f \in Frames, SendFrame(f) PROVE Inv'
      <4>1. CASE BufferedRefused(f)
        <5>1. UNCHANGED <<writerVars, codecVars, readBuf, parsed>> /\ rdPc' = rdPc
          BY <3>1, <4>1 DEF BufferedRefused
        <5> QED BY <2>1, <5>1, ReaderMoves DEF Inv
      <4>2. CASE BufferedSend(f)
        BY <2>1, <3>2, <4>2, BufferedSendInv
      <4>3. CASE DirectSend(f)
        BY <2>1, <3>2, <4>3, DirectSendInv
      <4>4. CASE SendError(f)
        BY <2>1, <3>2, <4>4, SendErrorInv
      <4> QED BY <3>4, <4>1, <4>2, <4>3, <4>4 DEF SendFrame
    <3> QED BY <2>2, <3>3, <3>4 DEF Writer
  <2>3. CASE OnRead
    <3>1. UNCHANGED <<writerVars, codecVars, readBuf, parsed>> /\ rdPc # "parse"
      BY <2>3 DEF OnRead
    <3> QED BY <2>1, <3>1, ReaderMoves DEF Inv
  <2>4. ASSUME NEW k \in Arrivals, Recv(k) PROVE Inv'
    BY <2>1, <2>4, RecvInv DEF Inv
  <2>5. ASSUME UNCHANGED writerVars PROVE WriterInv'
    <3>1. /\ UNCHANGED <<zeroCopy, noise, writeBuf, closed, sent, accepted>> /\ taken' = taken
      BY <2>5 DEF writerVars
    <3>2. taken' \in Nat /\ taken' <= Len(sent)
      BY <2>1, <3>1 DEF WriterTypeOK
    <3> QED BY <2>1, <3>1, <3>2, WriterRests
  <2>6. CASE RecvAgain
    <3>1. UNCHANGED writerVars
      BY <2>6 DEF RecvAgain
    <3> QED BY <2>1, <2>5, <2>6, <3>1, RecvAgainInv DEF Inv
  <2>7. CASE RecvEnd \/ RecvFails \/ ReaderCloses
    <3>1. UNCHANGED <<writerVars, codecVars, readBuf, parsed>>
          /\ (rdPc' = rdPc \/ rdPc # "parse")
      BY <2>7 DEF RecvEnd, RecvFails, ReaderCloses
    <3> QED BY <2>1, <3>1, ReaderMoves DEF Inv
  <2>8. CASE OnReadParse
    <3>1. UNCHANGED writerVars
      BY <2>8 DEF OnReadParse
    <3> QED BY <2>1, <2>5, <2>8, <3>1, OnReadParseInv DEF Inv
  <2>9. CASE UNCHANGED vars
    <3>1. UNCHANGED <<writerVars, codecVars, readBuf, parsed>> /\ rdPc' = rdPc
      BY <2>9 DEF vars
    <3> QED BY <2>1, <3>1, ReaderMoves DEF Inv
  <2> QED BY <2>2, <2>3, <2>4, <2>6, <2>7, <2>8, <2>9 DEF Next, Reader
<1> QED BY <1>1, <1>2, PTL DEF Spec

(* What SendFrame has sent and what it has buffered are together the       *)
(* frames it accepted, whole and in order, on both of its paths, for any   *)
(* frames and any room in the kernel's buffer.                             *)
THEOREM FramingSurvives == Spec => []StreamIntact
<1>1. Inv => StreamIntact
  BY DEF Inv, WriterInv
<1> QED BY <1>1, StreamInvHolds, PTL

(* The write buffer exceeds its limit only by what writev left of the last *)
(* frame that was accepted.                                                *)
THEOREM WriteBufferIsBounded == Spec => []BufferBound
<1>1. Inv => BufferBound
  BY DEF Inv, WriterInv
<1> QED BY <1>1, StreamInvHolds, PTL

(* At every return of OnRead the streaming decoder has found exactly the   *)
(* frames of the stream so far, in whatever pieces it was fed.             *)
THEOREM DecoderIsComplete == Spec => []DecodesAllReceived
<1>1. Inv => DecodesAllReceived
  <2> SUFFICES ASSUME Inv, rdPc = "wait" PROVE decoded = FramesIn[SubSeq(sent, 1, parsed)]
    BY DEF DecodesAllReceived
  <2> DEFINE a == Received
  <2>1. /\ sent \in Seq(Byte) /\ Len(sent) \in Nat /\ parsed \in 0..Len(sent)
        /\ codecBuf \in Seq(Byte) /\ decoded \in Seq(Frame)
    BY LenProperties DEF Inv, WriterInv, WriterTypeOK, ReaderInv, ReaderTypeOK
  <2>2. a \in Seq(Byte)
    BY <2>1, TakeProps DEF Received
  <2>3. \A z \in Seq(Byte) : FramesIn[a \o z] = decoded \o FramesIn[codecBuf \o z]
    BY DEF Inv, ReaderInv, NothingLost
  <2>4. FramesIn[codecBuf] = << >>
    BY DEF Inv, ReaderInv, NothingLeft
  <2> HIDE DEF a
  <2>5. a \o << >> = a /\ codecBuf \o << >> = codecBuf /\ decoded \o << >> = decoded
    BY <2>1, <2>2, ConcatEmptySeq
  <2>6. << >> \in Seq(Byte)
    BY EmptySeq
  <2>7. FramesIn[a] = decoded
    BY ONLY <2>3, <2>4, <2>5, <2>6, Zenon
  <2> QED BY <2>7 DEF a, Received
<1> QED BY <1>1, StreamInvHolds, PTL

(* Both ends of a stream that is not closed, or of one that is.            *)
LEMMA StreamMeets ==
  ASSUME Inv, noise = << >>
  PROVE  \E y \in Seq(Byte), u \in Seq(Byte) :
           /\ Received \o y = Bytes(accepted) \o u
           /\ closed \/ u = << >>
<1> DEFINE a == Received
           d == Drop(sent, parsed)
           t == Bytes(accepted)
<1>1. /\ sent \in Seq(Byte) /\ writeBuf \in Seq(Byte) /\ Len(sent) \in Nat
      /\ parsed \in 0..Len(sent) /\ accepted \in Seq(Frame)
  BY LenProperties DEF Inv, WriterInv, WriterTypeOK, ReaderInv, ReaderTypeOK
<1>2. a \in Seq(Byte) /\ d \in Seq(Byte) /\ a \o d = sent
  BY <1>1, TakeProps, DropProps, TakeDrop DEF Received
<1>3. t \in Seq(Byte)
  BY <1>1, BytesType
<1>4. noise \o t = t /\ t \o << >> = t /\ << >> \in Seq(Byte)
  BY <1>3, ConcatEmptySeq, EmptySeq
<1>5. /\ ~closed => sent \o writeBuf = t
      /\ closed => IsPrefix(sent, t) \/ IsPrefix(t, sent)
  BY <1>4 DEF Inv, WriterInv, StreamIntact
<1> HIDE DEF a, d, t
<1>6. ASSUME NEW w \in Seq(Byte), sent \o w = t
      PROVE  \E y \in Seq(Byte) : a \o y = t \o << >>
  <2>1. a \in Seq(Byte) /\ d \in Seq(Byte) /\ w \in Seq(Byte)
    BY <1>2
  <2>2. (a \o d) \o w = a \o (d \o w)
    BY ONLY <2>1, BytesAssociate, Zenon
  <2>3. d \o w \in Seq(Byte)
    BY ONLY <2>1, ConcatProperties
  <2>4. a \o (d \o w) = t \o << >>
    BY ONLY <1>2, <1>4, <1>6, <2>2, Zenon
  <2> QED BY ONLY <2>3, <2>4, Zenon
<1>7. CASE ~closed \/ IsPrefix(sent, t)
  <2>1. \E w \in Seq(Byte) : sent \o w = t
    <3>1. CASE ~closed
      BY <1>1, <1>5, <3>1
    <3>2. CASE IsPrefix(sent, t)
      <4>1. \E w \in Seq(Byte) : t = sent \o w
        BY <1>1, <1>3, <3>2, PrefixForm
      <4> QED BY <4>1
    <3> QED BY <1>7, <3>1, <3>2
  <2>2. \E y \in Seq(Byte) : a \o y = t \o << >>
    BY <1>6, <2>1, Zenon
  <2> QED BY <1>4, <2>2, Zenon DEF a, t
<1>8. CASE closed /\ IsPrefix(t, sent)
  <2>1. \E u \in Seq(Byte) : sent = t \o u
    BY <1>1, <1>3, <1>8, PrefixForm
  <2>2. \E u \in Seq(Byte) : a \o d = t \o u
    BY ONLY <1>2, <2>1, Zenon
  <2> QED BY <1>2, <1>8, <2>2, Zenon DEF a, t
<1> QED BY <1>5, <1>7, <1>8

(* Two connections of this code lose, invent and reorder no frame, as long *)
(* as the payloads are within kMaxPayloadSize.                             *)
THEOREM AcceptedIsDecoded == Spec => []DecodedIsAccepted
<1>1. Inv => DecodedIsAccepted
  <2> SUFFICES ASSUME Inv, noise = << >>,
                      ToSet(accepted) \subseteq {f \in Frames : Sendable(f)}
               PROVE  IsPrefix(decoded, accepted) \/ (closed /\ IsPrefix(accepted, decoded))
    BY DEF DecodedIsAccepted
  <2>1. accepted \in Seq(Frame) /\ decoded \in Seq(Frame) /\ codecBuf \in Seq(Byte)
    BY DEF Inv, WriterInv, WriterTypeOK, ReaderInv, ReaderTypeOK
  <2>2. \A i \in 1..Len(accepted) : Len(accepted[i].payload) <= MaxPayload
    <3> TAKE i \in 1..Len(accepted)
    <3>1. i \in DOMAIN accepted
      BY <2>1, LenProperties
    <3>2. accepted[i] \in ToSet(accepted)
      BY <3>1 DEF ToSet
    <3> QED BY <3>2 DEF Sendable
  <2>3. PICK y \in Seq(Byte), u \in Seq(Byte) :
          /\ Received \o y = Bytes(accepted) \o u
          /\ closed \/ u = << >>
    BY StreamMeets
  <2> DEFINE g == FramesIn[codecBuf \o y]
             h == FramesIn[u]
  <2>4. FramesIn[Received \o y] = decoded \o g
    BY DEF Inv, ReaderInv, NothingLost
  <2>5. FramesIn[Bytes(accepted) \o u] = accepted \o h
    BY ONLY <2>1, <2>2, u \in Seq(Byte), StreamIsDecoded
  <2>6. g \in Seq(Frame)
    <3>1. codecBuf \o y \in Seq(Byte)
      BY ONLY <2>1, y \in Seq(Byte), ConcatProperties
    <3> QED BY <3>1, FramesInType
  <2>7. h \in Seq(Frame)
    BY FramesInType
  <2>8. u = << >> => h = << >>
    BY EmptyHoldsNoFrame
  <2>9. decoded \o g = accepted \o h
    BY ONLY <2>3, <2>4, <2>5, Zenon
  <2> HIDE DEF g, h
  <2>10. CASE u = << >>
    <3>1. accepted \o << >> = accepted
      BY ONLY <2>1, ConcatEmptySeq
    <3>2. accepted = decoded \o g
      BY ONLY <2>8, <2>9, <2>10, <3>1, Zenon
    <3>3. IsPrefix(decoded, accepted)
      BY ONLY <2>1, <2>6, <3>2, PrefixForm
    <3> QED BY <3>3
  <2>11. CASE closed
    <3>1. IsPrefix(decoded, accepted) \/ IsPrefix(accepted, decoded)
      BY ONLY <2>1, <2>6, <2>7, <2>9, PrefixesCompare
    <3> QED BY <2>11, <3>1
  <2> QED BY <2>3, <2>10, <2>11
<1> QED BY <1>1, StreamInvHolds, PTL
=============================================================================
