------------------------ MODULE BrokerDeliveryProofs ------------------------
(***************************************************************************)
(* Proofs about BrokerDelivery, for any subscribers, groups, connections,  *)
(* batch sizes and number of messages.                                     *)
(***************************************************************************)
EXTENDS BrokerDelivery, TopicManagerProofs

Increasing(q) == \A i, j \in 1..Len(q) : i < j => q[i] < q[j]

LEMMA ConcatElems ==
  ASSUME NEW S, NEW s \in Seq(S), NEW t \in Seq(S)
  PROVE  Elems(s \o t) = Elems(s) \cup Elems(t)
<1> DEFINE u == s \o t
<1>1. /\ Len(s) \in Nat /\ Len(t) \in Nat /\ Len(u) = Len(s) + Len(t)
      /\ \A i \in 1..Len(u) : u[i] = IF i <= Len(s) THEN s[i] ELSE t[i - Len(s)]
  BY ConcatProperties
<1> HIDE DEF u
<1>2. ASSUME NEW i \in 1..Len(u)
      PROVE  u[i] \in Elems(s) \cup Elems(t)
  <2>1. CASE i <= Len(s)
    BY <1>1, <2>1 DEF Elems
  <2>2. CASE ~(i <= Len(s))
    <3>1. i - Len(s) \in 1..Len(t) /\ u[i] = t[i - Len(s)]
      BY <1>1, <2>2
    <3> QED BY <3>1 DEF Elems
  <2> QED BY <2>1, <2>2
<1>3. ASSUME NEW i \in 1..Len(s)
      PROVE  s[i] \in Elems(u)
  <2>1. i \in 1..Len(u) /\ u[i] = s[i]
    BY <1>1
  <2> QED BY <2>1 DEF Elems
<1>4. ASSUME NEW i \in 1..Len(t)
      PROVE  t[i] \in Elems(u)
  <2> DEFINE k == Len(s) + i
  <2>1. k \in 1..Len(u) /\ ~(k <= Len(s)) /\ k - Len(s) = i
    BY <1>1
  <2>2. u[k] = t[i]
    BY <1>1, <2>1
  <2> QED BY <2>1, <2>2 DEF Elems
<1>5. Elems(u) = Elems(s) \cup Elems(t)
  BY <1>2, <1>3, <1>4 DEF Elems
<1> QED BY <1>5 DEF u

LEMMA ConcatIncreasing ==
  ASSUME NEW s \in Seq(Nat), NEW t \in Seq(Nat), Increasing(s), Increasing(t),
         \A x \in Elems(s) : \A y \in Elems(t) : x < y
  PROVE  Increasing(s \o t)
<1> DEFINE u == s \o t
<1>1. /\ Len(s) \in Nat /\ Len(t) \in Nat /\ Len(u) = Len(s) + Len(t)
      /\ \A i \in 1..Len(u) : u[i] = IF i <= Len(s) THEN s[i] ELSE t[i - Len(s)]
  BY ConcatProperties
<1> HIDE DEF u
<1>2. ASSUME NEW i \in 1..Len(u), NEW j \in 1..Len(u), i < j
      PROVE  u[i] < u[j]
  <2>1. CASE j <= Len(s)
    <3>1. i \in 1..Len(s) /\ j \in 1..Len(s) /\ u[i] = s[i] /\ u[j] = s[j]
      BY <1>1, <1>2, <2>1
    <3> QED BY <1>2, <3>1 DEF Increasing
  <2>2. CASE i <= Len(s) /\ ~(j <= Len(s))
    <3>1. i \in 1..Len(s) /\ j - Len(s) \in 1..Len(t)
      BY <1>1, <2>2
    <3>2. u[i] = s[i] /\ u[j] = t[j - Len(s)]
      BY <1>1, <2>2
    <3> QED BY <3>1, <3>2 DEF Elems
  <2>3. CASE ~(i <= Len(s))
    <3> DEFINE a == i - Len(s)
               b == j - Len(s)
    <3>1. a \in 1..Len(t) /\ b \in 1..Len(t) /\ a < b /\ ~(j <= Len(s))
      BY <1>1, <1>2, <2>3
    <3>2. u[i] = t[a] /\ u[j] = t[b]
      BY <1>1, <2>3, <3>1
    <3> HIDE DEF a, b
    <3> QED BY <3>1, <3>2 DEF Increasing
  <2> QED BY <2>1, <2>2, <2>3
<1>3. Increasing(u)
  BY <1>2 DEF Increasing
<1> QED BY <1>3 DEF u

(* The n-th element of an increasing sequence is the n-th of its elements. *)
LEMMA IncreasingRank ==
  ASSUME NEW N \in Nat, NEW s \in Seq(1..N), Increasing(s), NEW n \in 1..Len(s)
  PROVE  Rank(Elems(s), s[n]) = n
<1>1. Len(s) \in Nat /\ n \in Nat /\ \A i \in 1..Len(s) : s[i] \in 1..N /\ s[i] \in Int
  OBVIOUS
<1> DEFINE D == 1..n
           R == {s[i] : i \in D}
           f == [i \in D |-> s[i]]
<1>2. ASSUME NEW i \in 1..Len(s)
      PROVE  s[i] <= s[n] <=> i <= n
  BY <1>1 DEF Increasing
<1>3. D \subseteq 1..Len(s) /\ \A i \in 1..Len(s) : i \in D <=> i <= n
  BY <1>1
<1>4. {j \in Elems(s) : j <= s[n]} = R
  <2> HIDE DEF D
  <2> QED BY <1>2, <1>3 DEF Elems
<1>5. f \in Bijection(D, R)
  <2>1. f \in [D -> R] /\ \A y \in R : \E i \in D : f[i] = y
    OBVIOUS
  <2>2. ASSUME NEW i \in D, NEW j \in D, f[i] = f[j]
        PROVE  i = j
    <3>1. i \in 1..Len(s) /\ j \in 1..Len(s) /\ s[i] = s[j] /\ i \in Int /\ j \in Int
      BY <1>3, <2>2
    <3>2. ~(i < j) /\ ~(j < i)
      BY <1>1, <3>1 DEF Increasing
    <3> QED BY <3>1, <3>2
  <2> HIDE DEF f, D, R
  <2> QED BY <2>1, <2>2 DEF Bijection, Injection, Surjection, IsInjective
<1>6. ExistsBijection(D, R)
  <2> HIDE DEF f, D, R
  <2> QED BY <1>5 DEF ExistsBijection
<1>7. IsFiniteSet(D) /\ Cardinality(D) = n
  BY <1>1, FS_Interval
<1>8. Cardinality(R) = n
  <2> HIDE DEF D, R
  <2> QED BY <1>6, <1>7, FS_Bijection
<1> QED BY <1>4, <1>8 DEF Rank

(* Two increasing sequences with the same elements are the same.           *)
LEMMA IncreasingUnique ==
  ASSUME NEW N \in Nat, NEW s \in Seq(1..N), NEW t \in Seq(1..N),
         Increasing(s), Increasing(t), Elems(s) = Elems(t)
  PROVE  s = t
<1> DEFINE E == Elems(s)
<1>1. E \in SUBSET (1..N) /\ E = Elems(t)
  <2>1. \A n \in 1..Len(s) : s[n] \in 1..N
    OBVIOUS
  <2>2. {s[n] : n \in 1..Len(s)} \subseteq 1..N
    BY <2>1, Zenon
  <2> QED BY <2>2 DEF Elems
<1>2. /\ \A n \in 1..Len(s) : s[n] \in E /\ Rank(E, s[n]) = n
      /\ \A n \in 1..Len(t) : t[n] \in E /\ Rank(E, t[n]) = n
  <2>1. ASSUME NEW n \in 1..Len(s)
        PROVE  s[n] \in E /\ Rank(E, s[n]) = n
    BY IncreasingRank DEF Elems
  <2>2. ASSUME NEW n \in 1..Len(t)
        PROVE  t[n] \in E /\ Rank(E, t[n]) = n
    <3>1. Rank(Elems(t), t[n]) = n /\ t[n] \in Elems(t)
      <4>1. Rank(Elems(t), t[n]) = n
        BY IncreasingRank
      <4> QED BY <4>1 DEF Elems
    <3> QED BY <1>1, <3>1
  <2> QED BY <2>1, <2>2
<1>3. /\ \A x \in E : \E n \in 1..Len(s) : s[n] = x
      /\ \A x \in E : \E n \in 1..Len(t) : t[n] = x
  BY <1>1 DEF Elems
<1> HIDE DEF E
<1>4. ASSUME NEW x \in E, NEW y \in E, Rank(E, x) = Rank(E, y)
      PROVE  x = y
  <2>1. x \in Nat /\ y \in Nat
    BY <1>1
  <2>2. \A k \in E : Rank(E, k) \in Nat
    <3>1. \A k \in E : Rank(E, k) \in 1..Cardinality(E)
      BY <1>1, RankProps
    <3> QED BY <3>1
  <2>3. \A k, l \in E : k < l => Rank(E, k) < Rank(E, l)
    BY <1>1, RankProps
  <2>4. ~(x < y) /\ ~(y < x)
    BY <1>4, <2>2, <2>3
  <2> QED BY <2>1, <2>4
<1>5. ASSUME NEW n \in 1..Len(s)
      PROVE  n \in 1..Len(t) /\ t[n] = s[n]
  <2>1. PICK m \in 1..Len(t) : t[m] = s[n]
    BY <1>2, <1>3
  <2>2. m = n
    BY <1>2, <2>1
  <2> QED BY <2>1, <2>2
<1>6. ASSUME NEW n \in 1..Len(t)
      PROVE  n \in 1..Len(s)
  <2>1. PICK m \in 1..Len(s) : s[m] = t[n]
    BY <1>2, <1>3
  <2>2. m = n
    BY <1>2, <2>1
  <2> QED BY <2>1, <2>2
<1>7. Len(s) \in Nat /\ Len(t) \in Nat
  OBVIOUS
<1>8. Len(s) = Len(t)
  <2>1. Len(s) # 0 => Len(s) <= Len(t)
    BY <1>5, <1>7
  <2>2. Len(t) # 0 => Len(t) <= Len(s)
    BY <1>6, <1>7
  <2> QED BY <1>7, <2>1, <2>2
<1> QED BY <1>5, <1>8, SeqEqual
-----------------------------------------------------------------------------
(* The ids of a topic, in the ring buffer and in message_log together, are *)
(* increasing and below the next one.                                      *)
All == log \o ring

StoreInv ==
  /\ nextId \in Nat \ {0}
  /\ ring \in Seq(Nat) /\ log \in Seq(Nat)
  /\ Increasing(All) /\ Elems(All) \subseteq 1..nextId - 1
  /\ due \subseteq 1..nextId - 1
  /\ since \in [Receivers -> Nat] /\ \A r \in Receivers : since[r] <= nextId
  /\ got \in [Receivers -> Seq(Nat)]
  /\ lost \subseteq Receivers \X (1..nextId - 1)

(* Delivered in terms of sets: what a receiver got is increasing too, so   *)
(* that it is determined by its elements.                                  *)
GotInv ==
  BatchPush => \A r \in Receiving :
    /\ Increasing(got[r])
    /\ Elems(got[r]) = {i \in Elems(All) : Owed(r, i)}

IInv == TableInv /\ StoreInv /\ GotInv /\ RegisteredIsStored

(* The accepted messages of a request have increasing ids.                 *)
LEMMA IdsProps ==
  ASSUME NEW n \in Nat, NEW A \in SUBSET (1..n), nextId \in Nat \ {0}
  PROVE  /\ Ids(n, A) \in Seq(Nat) /\ Increasing(Ids(n, A))
         /\ Elems(Ids(n, A)) = {nextId + k - 1 : k \in A}
<1> DEFINE q == [k \in 1..n |-> nextId + k - 1]
           r == Kept(q, A)
<1>1. q \in Seq(Nat) /\ Len(q) = n /\ \A k \in 1..n : q[k] = nextId + k - 1
  <2>1. \A k \in 1..n : nextId + k - 1 \in Nat
    OBVIOUS
  <2>2. q \in Seq(Nat) /\ Len(q) = n
    <3>1. q \in [1..n -> Nat]
      BY <2>1
    <3>2. q \in Seq(Nat)
      BY <3>1, SeqDef
    <3>3. DOMAIN q = 1..n /\ DOMAIN q = 1..Len(q) /\ Len(q) \in Nat
      BY <3>2, LenProperties
    <3> HIDE DEF q
    <3> QED BY <3>2, <3>3
  <2> QED BY <2>2
<1> HIDE DEF q
<1>2. A \in SUBSET (1..Len(q))
  BY <1>1
<1>3. /\ r \in Seq(Nat) /\ Len(r) = Cardinality(A) /\ Elems(r) = {q[k] : k \in A}
      /\ \A m \in 1..Len(r) : PlaceOf(A, m) \in A /\ r[m] = q[PlaceOf(A, m)]
      /\ \A m, l \in 1..Len(r) : m < l => PlaceOf(A, m) < PlaceOf(A, l)
  <2>1. /\ r \in Seq(Nat) /\ Len(r) = Cardinality(A)
        /\ \A m \in 1..Cardinality(A) : PlaceOf(A, m) \in A /\ r[m] = q[PlaceOf(A, m)]
        /\ \A m, l \in 1..Cardinality(A) : m < l => PlaceOf(A, m) < PlaceOf(A, l)
    BY <1>1, <1>2, KeptProps
  <2>2. Elems(r) = {q[k] : k \in A}
    BY <1>1, <1>2, KeptElems
  <2> HIDE DEF r
  <2> QED BY <2>1, <2>2
<1> HIDE DEF r
<1>4. {q[k] : k \in A} = {nextId + k - 1 : k \in A}
  BY <1>1
<1>5. ASSUME NEW i \in 1..Len(r), NEW j \in 1..Len(r), i < j
      PROVE  r[i] < r[j]
  <2> DEFINE a == PlaceOf(A, i)
             b == PlaceOf(A, j)
  <2>1. a \in 1..n /\ b \in 1..n /\ a < b /\ r[i] = q[a] /\ r[j] = q[b]
    BY <1>3, <1>5
  <2> HIDE DEF a, b
  <2>2. r[i] = nextId + a - 1 /\ r[j] = nextId + b - 1
    BY <1>1, <2>1
  <2> QED BY <2>1, <2>2
<1>6. r \in Seq(Nat) /\ Increasing(r) /\ Elems(r) = {nextId + k - 1 : k \in A}
  BY <1>3, <1>4, <1>5 DEF Increasing
<1> QED BY <1>6 DEF r, q, Ids

(* Kept leaves an increasing sequence increasing.                          *)
LEMMA KeptIncreasing ==
  ASSUME NEW q \in Seq(Nat), NEW K \in SUBSET (1..Len(q)), Increasing(q)
  PROVE  Increasing(Kept(q, K))
<1> DEFINE r == Kept(q, K)
<1>1. /\ Len(r) = Cardinality(K)
      /\ \A m \in 1..Len(r) : PlaceOf(K, m) \in K /\ r[m] = q[PlaceOf(K, m)]
      /\ \A m, l \in 1..Len(r) : m < l => PlaceOf(K, m) < PlaceOf(K, l)
  BY KeptProps
<1> HIDE DEF r
<1>2. ASSUME NEW i \in 1..Len(r), NEW j \in 1..Len(r), i < j
      PROVE  r[i] < r[j]
  <2> DEFINE a == PlaceOf(K, i)
             b == PlaceOf(K, j)
  <2>1. a \in 1..Len(q) /\ b \in 1..Len(q) /\ a < b /\ r[i] = q[a] /\ r[j] = q[b]
    BY <1>1, <1>2
  <2> HIDE DEF a, b
  <2> QED BY <2>1 DEF Increasing
<1> QED BY <1>2 DEF Increasing, r

(* The invariant gives Delivered.                                          *)
LEMMA GotInvDelivered ==
  ASSUME IInv
  PROVE  Delivered
<1>1. All \in Seq(Nat) /\ Increasing(All) /\ Elems(All) \subseteq 1..nextId - 1
  BY ConcatProperties DEF IInv, StoreInv, All
<1>2. ASSUME BatchPush, NEW r \in Receiving
      PROVE  got[r] = Kept(All, {k \in 1..Len(All) : Owed(r, All[k])})
  <2> DEFINE K == {k \in 1..Len(All) : Owed(r, All[k])}
             q == Kept(All, K)
             N == nextId - 1
  <2>1. r \in Receivers
    <3>1. \A k \in 1..Len(subs) : subs[k].id \in Subscribers
      <4>1. \A k \in 1..Len(subs) : subs[k] \in Entries
        BY DEF IInv, TableInv, TableType
      <4> QED BY <4>1 DEF Entries
    <3>2. DOMAIN groups \subseteq Groups
      BY DEF IInv, TableInv, TableType
    <3> QED BY <3>1, <3>2 DEF Receiving, Receivers
  <2>2. /\ got[r] \in Seq(Nat) /\ Increasing(got[r])
        /\ Elems(got[r]) = {i \in Elems(All) : Owed(r, i)}
    BY <1>2, <2>1 DEF IInv, StoreInv, GotInv
  <2>3. K \in SUBSET (1..Len(All))
    OBVIOUS
  <2>4. {All[k] : k \in K} = {i \in Elems(All) : Owed(r, i)}
    BY DEF Elems
  <2> HIDE DEF K
  <2>5. q \in Seq(Nat) /\ Increasing(q) /\ Elems(q) = Elems(got[r])
    <3>1. q \in Seq(Nat)
      BY <1>1, <2>3, KeptProps
    <3>2. Increasing(q)
      BY <1>1, <2>3, KeptIncreasing
    <3>3. Elems(q) = {All[k] : k \in K}
      BY <1>1, <2>3, KeptElems
    <3> QED BY <2>2, <2>4, <3>1, <3>2, <3>3
  <2>6. N \in Nat /\ Elems(q) \subseteq 1..N /\ Elems(got[r]) \subseteq 1..N
    <3>1. N \in Nat
      BY DEF IInv, StoreInv
    <3> QED BY <1>1, <2>2, <2>5, <3>1
  <2> HIDE DEF q, N
  <2>7. q \in Seq(1..N) /\ got[r] \in Seq(1..N)
    <3>1. \A k \in 1..Len(q) : q[k] \in 1..N
      BY <2>6 DEF Elems
    <3>2. \A k \in 1..Len(got[r]) : got[r][k] \in 1..N
      BY <2>6 DEF Elems
    <3>3. q \in [1..Len(q) -> 1..N] /\ Len(q) \in Nat
      BY <2>5, <3>1
    <3>4. got[r] \in [1..Len(got[r]) -> 1..N] /\ Len(got[r]) \in Nat
      BY <2>2, <3>2
    <3>5. q \in Seq(1..N)
      BY <3>3, SeqDef
    <3>6. got[r] \in Seq(1..N)
      BY <3>4, SeqDef
    <3> QED BY <3>5, <3>6
  <2>8. got[r] = q
    BY <2>2, <2>5, <2>6, <2>7, IncreasingUnique
  <2> QED BY <2>8 DEF q, K
<1> QED BY <1>2 DEF Delivered, All
-----------------------------------------------------------------------------
(* The receivers are subscribers and groups.                               *)
LEMMA ReceivingIn ==
  ASSUME TableType
  PROVE  Receiving \subseteq Receivers
<1>1. \A k \in 1..Len(subs) : subs[k] \in Entries
  BY DEF TableType
<1>2. \A k \in 1..Len(subs) : subs[k].id \in Subscribers
  BY <1>1 DEF Entries
<1>3. DOMAIN groups \subseteq Groups
  BY DEF TableType
<1> QED BY <1>2, <1>3 DEF Receiving, Receivers

LEMMA ReceivingShrinks ==
  ASSUME Elems(subs') \subseteq Elems(subs), DOMAIN groups' \subseteq DOMAIN groups
  PROVE  Receiving' \subseteq Receiving
<1>1. ASSUME NEW k \in 1..Len(subs')
      PROVE  \E j \in 1..Len(subs) : subs'[k].id = subs[j].id
  <2>1. PICK j \in 1..Len(subs) : subs'[k] = subs[j]
    BY DEF Elems
  <2> QED BY <2>1
<1> QED BY <1>1 DEF Receiving

LEMMA Below ==
  ASSUME NEW a \in Nat \ {0}, NEW b \in Nat \ {0}, a <= b
  PROVE  /\ \A x \in 1..a - 1 : x \in 1..b - 1
         /\ \A x \in a..b - 1 : x \in 1..b - 1
OBVIOUS

(* What a publish adds: ids that are greater than all before.              *)
LEMMA StorePublishStep ==
  ASSUME IInv, NEW n \in Nat, NEW A \in SUBSET (1..n), StorePublish(n, A)
  PROVE  /\ nextId' \in Nat \ {0} /\ nextId <= nextId'
         /\ ring' \in Seq(Nat) /\ log' \in Seq(Nat)
         /\ Increasing(All') /\ Elems(All') \subseteq 1..nextId' - 1
         /\ Elems(All') = Elems(All) \cup Elems(Ids(n, A))
         /\ Ids(n, A) \in Seq(Nat) /\ Increasing(Ids(n, A))
         /\ Elems(Ids(n, A)) \subseteq nextId..nextId' - 1
         /\ Elems(Ids(n, A)) = {nextId + k - 1 : k \in A}
<1> DEFINE ids == Ids(n, A)
<1>1. /\ nextId \in Nat \ {0} /\ ring \in Seq(Nat) /\ log \in Seq(Nat)
      /\ Increasing(All) /\ Elems(All) \subseteq 1..nextId - 1
  BY DEF IInv, StoreInv
<1>2. nextId' = nextId + n /\ ring' = ring \o ids /\ log' = log
  BY DEF StorePublish
<1>3. /\ ids \in Seq(Nat) /\ Increasing(ids)
      /\ Elems(ids) = {nextId + k - 1 : k \in A}
  BY <1>1, IdsProps
<1> HIDE DEF ids
<1>4. Elems(ids) \subseteq nextId..nextId' - 1
  <2>1. \A k \in A : nextId + k - 1 \in nextId..nextId' - 1
    BY <1>1, <1>2
  <2> QED BY <1>3, <2>1
<1>5. All \in Seq(Nat) /\ All' = All \o ids
  <2>1. log \o (ring \o ids) = (log \o ring) \o ids
    <3>1. log \in Seq(Nat) /\ ring \in Seq(Nat) /\ ids \in Seq(Nat)
      BY <1>1, <1>3
    <3> QED BY ONLY <3>1, ConcatAssociative
  <2>2. log \o ring \in Seq(Nat)
    BY <1>1, ConcatProperties
  <2> QED BY <1>2, <2>1, <2>2 DEF All
<1>6. ring' \in Seq(Nat) /\ log' \in Seq(Nat)
  BY <1>1, <1>2, <1>3, ConcatProperties
<1>7. Elems(All') = Elems(All) \cup Elems(ids)
  BY <1>3, <1>5, ConcatElems
<1>8. \A x \in Elems(All) : \A y \in Elems(ids) : x < y
  <2>1. \A x \in 1..nextId - 1 : \A y \in nextId..nextId' - 1 : x < y
    BY <1>1, <1>2
  <2> QED BY <1>1, <1>4, <2>1
<1>9. Increasing(All')
  BY <1>1, <1>3, <1>5, <1>8, ConcatIncreasing
<1>10. nextId' \in Nat \ {0} /\ nextId <= nextId' /\ Elems(All') \subseteq 1..nextId' - 1
  <2>1. nextId' \in Nat \ {0} /\ nextId <= nextId'
    BY <1>1, <1>2
  <2>2. /\ \A x \in 1..nextId - 1 : x \in 1..nextId' - 1
        /\ \A x \in nextId..nextId' - 1 : x \in 1..nextId' - 1
    BY <1>1, <2>1, Below
  <2> QED BY <1>1, <1>4, <1>7, <2>1, <2>2
<1> QED BY <1>3, <1>4, <1>6, <1>7, <1>9, <1>10 DEF ids

LEMMA HandlePublishStep ==
  ASSUME IInv, NEW n \in Nat, NEW A \in SUBSET (1..n), HandlePublish(n, A)
  PROVE  IInv'
<1> DEFINE ids == Ids(n, A)
<1>1. StorePublish(n, A) /\ UNCHANGED since /\ due' = due \cup {nextId + k - 1 : k \in A}
  BY DEF HandlePublish
<1>2. /\ nextId' \in Nat \ {0} /\ nextId <= nextId'
      /\ ring' \in Seq(Nat) /\ log' \in Seq(Nat)
      /\ Increasing(All') /\ Elems(All') \subseteq 1..nextId' - 1
      /\ Elems(All') = Elems(All) \cup Elems(ids)
      /\ ids \in Seq(Nat) /\ Increasing(ids)
      /\ Elems(ids) \subseteq nextId..nextId' - 1
      /\ Elems(ids) = {nextId + k - 1 : k \in A}
  BY <1>1, StorePublishStep
<1>3. /\ nextId \in Nat \ {0} /\ Elems(All) \subseteq 1..nextId - 1 /\ due \subseteq 1..nextId - 1
      /\ since \in [Receivers -> Nat] /\ \A r \in Receivers : since[r] <= nextId
      /\ got \in [Receivers -> Seq(Nat)] /\ lost \subseteq Receivers \X (1..nextId - 1)
  BY DEF IInv, StoreInv
<1>4. Receiving \subseteq Receivers
  BY ReceivingIn DEF IInv, TableInv
<1>5. \E F \in SUBSET Receiving :
        /\ TableInv' /\ Receiving' = Receiving /\ registered' = registered
        /\ got' \in [Receivers -> Seq(Nat)] /\ lost' = lost \cup (F \X Elems(ids))
        /\ BatchPush => \A r \in Receiving :
             got'[r] = IF r \in F THEN got[r] ELSE got[r] \o ids
  <2>1. CASE A = {}
    <3>1. UNCHANGED <<tableVars, got, lost>>
      BY <2>1 DEF HandlePublish
    <3>2. TableInv'
      BY <3>1 DEF tableVars, IInv, TableInv, TableType, TableSound, RoundsSound
    <3>3. ids = << >>
      <4>1. Elems(ids) = {}
        BY <1>2, <2>1
      <4>2. Len(ids) \in Nat /\ (ids # << >> => Len(ids) # 0)
        BY <1>2, EmptySeq
      <4>3. Len(ids) # 0 => ids[1] \in Elems(ids)
        BY <4>2 DEF Elems
      <4> QED BY <4>1, <4>2, <4>3
    <3>4. \A r \in Receiving : got[r] \o ids = got[r]
      BY <1>3, <1>4, <3>3, ConcatEmptySeq
    <3>5. {} \in SUBSET Receiving /\ lost' = lost \cup ({} \X Elems(ids))
      BY <3>1
    <3>6. Receiving' = Receiving /\ registered' = registered
      BY <3>1 DEF tableVars, Receiving
    <3> QED BY <1>3, <3>1, <3>2, <3>4, <3>5, <3>6
  <2>2. CASE A # {}
    <3>1. PICK F \in SUBSET Receiving : Push(ids, F)
      BY <2>2 DEF HandlePublish
    <3>2. TableInv' /\ UNCHANGED subs /\ DOMAIN groups' = DOMAIN groups
      BY <3>1, SelectNextStep DEF Push, IInv
    <3>3. registered' = registered
      BY <3>1 DEF Push, SelectNext
    <3>4. got' = [r \in Receivers |->
                   IF r \in Receiving \ F THEN got[r] \o Pushed(ids, r) ELSE got[r]]
      BY <3>1 DEF Push
    <3>5. \A r \in Receivers : got[r] \o Pushed(ids, r) \in Seq(Nat)
      <4> HIDE DEF ids
      <4>1. \A r \in Receivers : Pushed(ids, r) \in Seq(Nat)
        <5>1. SubSeq(ids, 1, 1) \in Seq(Nat)
          <6>1. ids # << >>
            <7>1. Elems(ids) # {}
              BY <1>2, <2>2
            <7> QED BY <7>1 DEF Elems
          <6> QED BY <1>2, <6>1, EmptySeq, SubSeqProperties
        <5> QED BY <1>2, <5>1 DEF Pushed
      <4> QED BY <1>3, <4>1, ConcatProperties
    <3>6. got' \in [Receivers -> Seq(Nat)]
      BY <1>3, <3>4, <3>5
    <3>7. BatchPush => \A r \in Receiving :
                         got'[r] = IF r \in F THEN got[r] ELSE got[r] \o ids
      BY <1>4, <3>4 DEF Pushed
    <3>8. lost' = lost \cup (F \X Elems(ids))
      BY <3>1 DEF Push, Elems
    <3>9. Receiving' = Receiving
      BY <3>2 DEF Receiving
    <3> QED BY <3>2, <3>3, <3>6, <3>7, <3>8, <3>9
  <2> QED BY <2>1, <2>2
<1> HIDE DEF ids
<1>5a. PICK F \in SUBSET Receiving :
         /\ TableInv' /\ Receiving' = Receiving /\ registered' = registered
         /\ got' \in [Receivers -> Seq(Nat)] /\ lost' = lost \cup (F \X Elems(ids))
         /\ BatchPush => \A r \in Receiving :
              got'[r] = IF r \in F THEN got[r] ELSE got[r] \o ids
  BY <1>5 DEF ids
<1>6. StoreInv'
  <2>0. /\ \A x \in 1..nextId - 1 : x \in 1..nextId' - 1
        /\ \A x \in nextId..nextId' - 1 : x \in 1..nextId' - 1
    BY <1>2, <1>3, Below
  <2>1. due' \subseteq 1..nextId' - 1
    BY <1>1, <1>2, <1>3, <2>0
  <2>2. \A r \in Receivers : since'[r] <= nextId'
    BY <1>1, <1>2, <1>3
  <2>3. lost' \subseteq Receivers \X (1..nextId' - 1)
    <3>1. F \X Elems(ids) \subseteq Receivers \X (1..nextId' - 1)
      BY <1>2, <1>4, <2>0
    <3>2. lost \subseteq Receivers \X (1..nextId' - 1)
      BY <1>3, <2>0
    <3> QED BY <1>5a, <3>1, <3>2
  <2> QED BY <1>1, <1>2, <1>3, <1>5a, <2>1, <2>2, <2>3 DEF StoreInv
<1>7. GotInv'
  <2> SUFFICES ASSUME BatchPush, NEW r \in Receiving
               PROVE  /\ Increasing(got'[r])
                      /\ Elems(got'[r]) = {i \in Elems(All') : Owed(r, i)'}
    BY <1>5a DEF GotInv
  <2>1. /\ Increasing(got[r]) /\ got[r] \in Seq(Nat)
        /\ Elems(got[r]) = {i \in Elems(All) : Owed(r, i)}
    BY <1>3, <1>4 DEF IInv, GotInv
  <2>2. /\ \A x \in Elems(All) : \A y \in Elems(ids) : x < y
        /\ \A y \in Elems(ids) : /\ y >= since[r] /\ y \notin Elems(All)
                                 /\ <<r, y>> \notin lost
    <3>1. \A x \in 1..nextId - 1 : \A y \in nextId..nextId' - 1 : x < y
      BY <1>2, <1>3
    <3>2. \A y \in nextId..nextId' - 1 : y >= since[r] /\ y \notin 1..nextId - 1
      BY <1>2, <1>3, <1>4
    <3> QED BY <1>2, <1>3, <3>1, <3>2
  <2>3. due' = due \cup Elems(ids) /\ since' = since
    BY <1>1, <1>2
  <2>4. \A i \in Elems(All) : Owed(r, i)' <=> Owed(r, i)
    <3> SUFFICES ASSUME NEW i \in Elems(All) PROVE Owed(r, i)' <=> Owed(r, i)
      OBVIOUS
    <3>1. i \notin Elems(ids)
      BY <2>2
    <3>2. <<r, i>> \in lost' <=> <<r, i>> \in lost
      BY <1>5a, <3>1
    <3> QED BY <2>3, <3>1, <3>2 DEF Owed
  <2>5. \A i \in Elems(ids) : Owed(r, i)' <=> r \notin F
    <3> SUFFICES ASSUME NEW i \in Elems(ids) PROVE Owed(r, i)' <=> r \notin F
      OBVIOUS
    <3>1. <<r, i>> \in lost' <=> r \in F
      BY <1>5a, <2>2
    <3> QED BY <2>2, <2>3, <3>1 DEF Owed
  <2>6. CASE r \in F
    <3>1. got'[r] = got[r]
      BY <1>5a, <2>6
    <3> QED BY <1>2, <2>1, <2>4, <2>5, <2>6, <3>1
  <2>7. CASE r \notin F
    <3>1. got'[r] = got[r] \o ids
      BY <1>5a, <2>7
    <3>2. Increasing(got[r] \o ids)
      BY <1>2, <2>1, <2>2, ConcatIncreasing
    <3>3. Elems(got[r] \o ids) = Elems(got[r]) \cup Elems(ids)
      BY <1>2, <2>1, ConcatElems
    <3> QED BY <1>2, <2>1, <2>4, <2>5, <2>7, <3>1, <3>2, <3>3
  <2> QED BY <2>6, <2>7
<1>8. RegisteredIsStored'
  BY <1>1, <1>5a DEF StorePublish, RegisteredIsStored
<1> QED BY <1>5a, <1>6, <1>7, <1>8 DEF IInv

LEMMA PublishLocalStep ==
  ASSUME IInv, NEW A \in SUBSET {1}, PublishLocal(A)
  PROVE  IInv'
<1> DEFINE ids == Ids(1, A)
<1>1. StorePublish(1, A) /\ UNCHANGED <<tableVars, since, due, got, lost>>
  BY DEF PublishLocal, history
<1>2. /\ nextId' \in Nat \ {0} /\ nextId <= nextId'
      /\ ring' \in Seq(Nat) /\ log' \in Seq(Nat)
      /\ Increasing(All') /\ Elems(All') \subseteq 1..nextId' - 1
      /\ Elems(All') = Elems(All) \cup Elems(ids)
      /\ Elems(ids) \subseteq nextId..nextId' - 1
  <2>1. A \in SUBSET (1..1)
    OBVIOUS
  <2> QED BY <1>1, <2>1, StorePublishStep
<1> HIDE DEF ids
<1>3. /\ nextId \in Nat \ {0} /\ Elems(All) \subseteq 1..nextId - 1 /\ due \subseteq 1..nextId - 1
      /\ since \in [Receivers -> Nat] /\ \A r \in Receivers : since[r] <= nextId
      /\ got \in [Receivers -> Seq(Nat)] /\ lost \subseteq Receivers \X (1..nextId - 1)
  BY DEF IInv, StoreInv
<1>4. TableInv' /\ Receiving' = Receiving
  BY <1>1 DEF tableVars, Receiving, IInv, TableInv, TableType, TableSound, RoundsSound
<1>5. StoreInv'
  <2>1. due' \subseteq 1..nextId' - 1
    BY <1>1, <1>2, <1>3, Below
  <2>2. \A r \in Receivers : since'[r] <= nextId'
    BY <1>1, <1>2, <1>3
  <2>3. lost' \subseteq Receivers \X (1..nextId' - 1)
    <3>1. \A x \in 1..nextId - 1 : x \in 1..nextId' - 1
      BY <1>2, <1>3, Below
    <3> QED BY <1>1, <1>3, <3>1
  <2> QED BY <1>1, <1>2, <1>3, <2>1, <2>2, <2>3 DEF StoreInv
<1>6. GotInv'
  <2>1. \A y \in Elems(ids) : y \notin due
    <3>1. \A y \in nextId..nextId' - 1 : y \notin 1..nextId - 1
      BY <1>2, <1>3
    <3> QED BY <1>2, <1>3, <3>1
  <2>2. UNCHANGED <<since, due, got, lost>>
    BY <1>1
  <2> QED BY <1>2, <1>4, <2>1, <2>2 DEF IInv, GotInv, Owed
<1>7. RegisteredIsStored'
  BY <1>1 DEF StorePublish, RegisteredIsStored
<1> QED BY <1>4, <1>5, <1>6, <1>7 DEF IInv

(* Nothing new for anybody, and perhaps fewer receivers.                   *)
LEMMA QuietStep ==
  ASSUME IInv, Receiving' \subseteq Receiving, UNCHANGED <<nextId, ring, log, due>>,
         since' \in [Receivers -> Nat], \A r \in Receivers : since'[r] <= nextId,
         got' \in [Receivers -> Seq(Nat)],
         lost' \subseteq lost,
         \A r \in Receiving' :
           /\ since'[r] = since[r] /\ got'[r] = got[r]
           /\ \A i \in Nat : <<r, i>> \in lost' <=> <<r, i>> \in lost
  PROVE  StoreInv' /\ GotInv'
<1>1. All' = All
  BY DEF All
<1>2. StoreInv'
  BY <1>1 DEF IInv, StoreInv
<1>3. Elems(All) \subseteq Nat
  BY DEF IInv, StoreInv
<1>4. ASSUME NEW r \in Receiving', NEW i \in Elems(All)
      PROVE  Owed(r, i)' <=> Owed(r, i)
  BY <1>3 DEF Owed
<1>5. GotInv'
  BY <1>1, <1>4 DEF IInv, GotInv
<1> QED BY <1>2, <1>5

LEMMA LeavesStep ==
  ASSUME IInv, TableInv', Elems(subs') \subseteq Elems(subs),
         DOMAIN groups' \subseteq DOMAIN groups, registered' = registered, Leaves
  PROVE  IInv'
<1>1. /\ since' = [r \in Receivers |-> IF r \in Receiving' THEN since[r] ELSE 1]
      /\ got' = [r \in Receivers |-> IF r \in Receiving' THEN got[r] ELSE << >>]
      /\ lost' = {p \in lost : p[1] \in Receiving'}
      /\ UNCHANGED <<inStore, nextId, ring, log, due>>
  BY DEF Leaves, storeVars
<1>2. Receiving' \subseteq Receiving /\ Receiving' \subseteq Receivers
  <2>1. Receiving' \subseteq Receiving
    BY ReceivingShrinks
  <2> QED BY <2>1, ReceivingIn DEF IInv, TableInv
<1>3. /\ nextId \in Nat \ {0} /\ since \in [Receivers -> Nat]
      /\ \A r \in Receivers : since[r] <= nextId
      /\ got \in [Receivers -> Seq(Nat)]
  BY DEF IInv, StoreInv
<1>4. << >> \in Seq(Nat)
  OBVIOUS
<1>5. /\ since' \in [Receivers -> Nat] /\ \A r \in Receivers : since'[r] <= nextId
  BY <1>1, <1>3
<1>6. got' \in [Receivers -> Seq(Nat)]
  BY <1>1, <1>3, <1>4
<1>7. /\ lost' \subseteq lost
      /\ \A r \in Receiving' :
           /\ since'[r] = since[r] /\ got'[r] = got[r]
           /\ \A i \in Nat : <<r, i>> \in lost' <=> <<r, i>> \in lost
  BY <1>1, <1>2
<1>8. StoreInv' /\ GotInv'
  BY <1>1, <1>2, <1>5, <1>6, <1>7, QuietStep
<1>9. RegisteredIsStored'
  BY <1>1 DEF IInv, RegisteredIsStored
<1> QED BY <1>8, <1>9 DEF IInv

(* A new receiver starts with nothing, and nothing is older than it.       *)
LEMMA StartsStep ==
  ASSUME IInv, NEW r \in Receivers, Starts(r), UNCHANGED <<nextId, ring, log>>,
         Receiving' \subseteq Receiving \cup {r}
  PROVE  StoreInv' /\ GotInv'
<1>1. /\ since' = [since EXCEPT ![r] = nextId]
      /\ got' = [got EXCEPT ![r] = << >>] /\ UNCHANGED <<due, lost>>
  BY DEF Starts
<1>2. /\ nextId \in Nat \ {0} /\ since \in [Receivers -> Nat]
      /\ \A t \in Receivers : since[t] <= nextId
      /\ got \in [Receivers -> Seq(Nat)]
      /\ Elems(All) \subseteq 1..nextId - 1
  BY DEF IInv, StoreInv
<1>3. All' = All
  BY DEF All
<1>4. /\ since'[r] = nextId /\ got'[r] = << >>
      /\ \A t \in Receivers : t # r => since'[t] = since[t] /\ got'[t] = got[t]
  BY <1>1, <1>2
<1>5. StoreInv'
  <2>1. since' \in [Receivers -> Nat] /\ \A t \in Receivers : since'[t] <= nextId'
    BY <1>1, <1>2
  <2>2. << >> \in Seq(Nat)
    OBVIOUS
  <2>3. got' \in [Receivers -> Seq(Nat)]
    BY <1>1, <1>2, <2>2
  <2> QED BY <1>1, <1>3, <2>1, <2>3 DEF IInv, StoreInv
<1>6. Increasing(<< >>) /\ Elems(<< >>) = {}
  <2>1. Len(<< >>) = 0
    OBVIOUS
  <2>2. 1..Len(<< >>) = {}
    BY <2>1
  <2> QED BY <2>2 DEF Increasing, Elems
<1>7. {i \in Elems(All) : Owed(r, i)'} = {}
  <2>1. \A i \in 1..nextId - 1 : ~(i >= nextId)
    BY <1>2
  <2> QED BY <1>2, <1>4, <2>1 DEF Owed
<1>8. GotInv'
  <2> SUFFICES ASSUME BatchPush, NEW t \in Receiving'
               PROVE  /\ Increasing(got'[t])
                      /\ Elems(got'[t]) = {i \in Elems(All) : Owed(t, i)'}
    BY <1>1, <1>3 DEF GotInv
  <2>1. CASE t = r
    BY <1>4, <1>6, <1>7, <2>1
  <2>2. CASE t # r
    <3>1. t \in Receiving /\ t \in Receivers
      BY <2>2, ReceivingIn DEF IInv, TableInv
    <3>2. since'[t] = since[t] /\ got'[t] = got[t]
      BY <1>4, <2>2, <3>1
    <3>3. \A i \in Elems(All) : Owed(t, i)' <=> Owed(t, i)
      BY <1>1, <3>2 DEF Owed
    <3> QED BY <3>1, <3>2, <3>3 DEF IInv, GotInv
  <2> QED BY <2>1, <2>2
<1> QED BY <1>5, <1>8

LEMMA HandleSubscribeStep ==
  ASSUME IInv, NEW s \in Subscribers, NEW c \in Conns, HandleSubscribe(s, c)
  PROVE  IInv'
<1>1. SubscribeBroadcast(s, c) /\ TableInv'
  BY SubscribeBroadcastStep DEF HandleSubscribe, IInv
<1>2. CASE HasId(subs, s)
  <2>1. UNCHANGED <<inStore, nextId, ring, log, since, due, got, lost, subs, groups>>
    BY <1>1, <1>2 DEF HandleSubscribe, SubscribeBroadcast, storeVars, history
  <2>2. Receiving' = Receiving
    BY <2>1 DEF Receiving
  <2>3. StoreInv' /\ GotInv'
    BY <2>1, <2>2 DEF IInv, StoreInv, GotInv, All, Owed
  <2>4. subs # << >>
    BY <1>2 DEF HasId
  <2>5. registered
    BY <2>4 DEF IInv, TableInv, TableSound
  <2>6. RegisteredIsStored'
    BY <2>1, <2>5 DEF IInv, RegisteredIsStored
  <2> QED BY <1>1, <2>3, <2>6 DEF IInv
<1>3. CASE ~HasId(subs, s)
  <2>1. inStore' /\ UNCHANGED <<nextId, ring, log>> /\ Starts(s)
    BY <1>3 DEF HandleSubscribe, StoreCreateTopic
  <2>2. subs' = Append(subs, Entry(s, c)) /\ groups' = groups
    BY <1>1, <1>3 DEF SubscribeBroadcast
  <2>3. Receiving' \subseteq Receiving \cup {s}
    <3>1. ASSUME NEW k \in 1..Len(subs')
          PROVE  subs'[k].id = s \/ \E j \in 1..Len(subs) : subs'[k].id = subs[j].id
      <4>1. Entry(s, c) \in Entries /\ Entry(s, c).id = s /\ subs \in Seq(Entries)
        BY DEF Entry, Entries, IInv, TableInv, TableType
      <4>2. CASE k \in 1..Len(subs)
        <5>1. subs'[k] = subs[k]
          BY <2>2, <4>1, <4>2, AppendProperties
        <5> QED BY <4>2, <5>1
      <4>3. CASE k = Len(subs) + 1
        <5>1. subs'[k] = Entry(s, c)
          BY <2>2, <4>1, <4>3, AppendProperties
        <5> QED BY <4>1, <5>1
      <4>4. Len(subs') = Len(subs) + 1 /\ Len(subs) \in Nat
        BY <2>2, <4>1, AppendProperties
      <4> QED BY <4>2, <4>3, <4>4
    <3> QED BY <2>2, <3>1 DEF Receiving
  <2>4. StoreInv' /\ GotInv'
    BY <2>1, <2>3, StartsStep DEF Receivers
  <2>5. RegisteredIsStored'
    BY <2>1 DEF RegisteredIsStored
  <2> QED BY <1>1, <2>4, <2>5 DEF IInv
<1> QED BY <1>2, <1>3

LEMMA HandleSubscribeGroupStep ==
  ASSUME IInv, NEW s \in Subscribers, NEW c \in Conns, NEW g \in Groups,
         HandleSubscribeGroup(s, c, g)
  PROVE  IInv'
<1>1. SubscribeGroup(s, c, g) /\ TableInv' /\ subs' = subs
  BY SubscribeGroupStep DEF HandleSubscribeGroup, IInv, SubscribeGroup
<1>2. CASE g \notin DOMAIN groups
  <2>1. inStore' /\ UNCHANGED <<nextId, ring, log>> /\ Starts(g)
    BY <1>2 DEF HandleSubscribeGroup, StoreCreateTopic
  <2>2. DOMAIN groups' = DOMAIN groups \cup {g}
    BY <1>1, <1>2 DEF SubscribeGroup, WithGroup
  <2>3. Receiving' \subseteq Receiving \cup {g}
    BY <1>1, <2>2 DEF Receiving
  <2>4. StoreInv' /\ GotInv'
    BY <2>1, <2>3, StartsStep DEF Receivers
  <2>5. RegisteredIsStored'
    BY <2>1 DEF RegisteredIsStored
  <2> QED BY <1>1, <2>4, <2>5 DEF IInv
<1>3. CASE g \in DOMAIN groups
  <2>1. /\ UNCHANGED <<nextId, ring, log, since, due, got, lost>>
        /\ inStore' \/ inStore' = inStore
    BY <1>3 DEF HandleSubscribeGroup, StoreCreateTopic, storeVars, history
  <2>2. DOMAIN groups' = DOMAIN groups
    BY <1>1, <1>3 DEF SubscribeGroup, WithGroup
  <2>3. Receiving' = Receiving
    BY <1>1, <2>2 DEF Receiving
  <2>4. StoreInv' /\ GotInv'
    BY <2>1, <2>3 DEF IInv, StoreInv, GotInv, All, Owed
  <2>5. registered
    BY <1>3 DEF IInv, TableInv, TableSound
  <2>6. RegisteredIsStored'
    BY <2>1, <2>5 DEF IInv, RegisteredIsStored
  <2> QED BY <1>1, <2>4, <2>6 DEF IInv
<1> QED BY <1>2, <1>3

LEMMA HandlePullStep ==
  ASSUME IInv, HandlePull
  PROVE  IInv'
<1>1. /\ inStore /\ log' = log \o ring /\ ring' = << >>
      /\ UNCHANGED <<registered, subs, groups, round, inStore, nextId, since, due, got, lost>>
  BY DEF HandlePull, tableVars, history
<1>2. log \in Seq(Nat) /\ ring \in Seq(Nat)
  BY DEF IInv, StoreInv
<1>3. log' \in Seq(Nat) /\ All' = All
  BY <1>1, <1>2, ConcatProperties, ConcatEmptySeq DEF All
<1>4. ring' \in Seq(Nat)
  BY <1>1
<1>5. TableInv' /\ Receiving' = Receiving
  BY <1>1 DEF IInv, TableInv, TableType, TableSound, RoundsSound, Receiving
<1>6. StoreInv' /\ GotInv'
  BY <1>1, <1>3, <1>4, <1>5 DEF IInv, StoreInv, GotInv, Owed
<1>7. RegisteredIsStored'
  BY <1>1 DEF RegisteredIsStored
<1> QED BY <1>5, <1>6, <1>7 DEF IInv

(* An empty topic: nobody missed anything.                                 *)
EmptyStore ==
  /\ nextId = 1 /\ ring = << >> /\ log = << >>
  /\ since = [r \in Receivers |-> 1] /\ due = {} /\ got = [r \in Receivers |-> << >>]
  /\ lost = {}

LEMMA EmptyTopic == EmptyStore /\ TableInv => StoreInv /\ GotInv
<1> SUFFICES ASSUME EmptyStore, TableInv PROVE StoreInv /\ GotInv
  OBVIOUS
<1>0. Receiving \subseteq Receivers
  BY ReceivingIn DEF TableInv
<1>1. << >> \in Seq(Nat) /\ Len(<< >>) = 0 /\ << >> \o << >> = << >>
  OBVIOUS
<1>2. Increasing(<< >>) /\ Elems(<< >>) = {}
  <2>1. 1..Len(<< >>) = {}
    BY <1>1
  <2> QED BY <2>1 DEF Increasing, Elems
<1>3. All = << >>
  BY <1>1 DEF All, EmptyStore
<1>4. StoreInv
  BY <1>1, <1>2, <1>3 DEF EmptyStore, StoreInv
<1>5. GotInv
  <2>1. \A r \in Receiving : got[r] = << >>
    BY <1>0 DEF EmptyStore
  <2> QED BY <1>2, <1>3, <2>1 DEF GotInv
<1> QED BY <1>4, <1>5

LEMMA Initially == Init => IInv
<1> SUFFICES ASSUME Init PROVE IInv
  OBVIOUS
<1>1. TableInv
  BY TableStarts DEF Init
<1>2. EmptyStore
  BY DEF Init, EmptyStore
<1>3. StoreInv /\ GotInv
  BY <1>1, <1>2, EmptyTopic
<1>4. RegisteredIsStored
  BY DEF Init, TableInit, RegisteredIsStored
<1> QED BY <1>1, <1>3, <1>4 DEF IInv

LEMMA DeletedStep ==
  ASSUME StoreDeleted, TableInv'
  PROVE  StoreInv' /\ GotInv'
<1>1. EmptyStore'
  BY DEF StoreDeleted, EmptyStore, Receivers
<1> QED BY <1>1, EmptyTopic, PTL

LEMMA Preserved == IInv /\ [Next]_vars => IInv'
<1> SUFFICES ASSUME IInv, [Next]_vars PROVE IInv'
  OBVIOUS
<1>1. ASSUME NEW n \in 1..MaxBatch, NEW A \in SUBSET (1..n), HandlePublish(n, A)
      PROVE  IInv'
  <2>1. n \in Nat
    BY DeliveryAssumption DEF DeliveryAssumption
  <2> QED BY <1>1, <2>1, HandlePublishStep
<1>2. ASSUME NEW A \in SUBSET {1}, PublishLocal(A)
      PROVE  IInv'
  BY <1>2, PublishLocalStep
<1>3. ASSUME NEW s \in Subscribers, HandleUnsubscribe(s)
      PROVE  IInv'
  <2>0. TableInv /\ Leaves
    BY <1>3 DEF HandleUnsubscribe, IInv
  <2>1. CASE UnsubscribeBroadcast(s)
    <3>1. TableInv' /\ Elems(subs') \subseteq Elems(subs) /\ UNCHANGED groups
      BY <2>0, <2>1, UnsubscribeBroadcastStep
    <3>2. DOMAIN groups' \subseteq DOMAIN groups /\ registered' = registered
      BY <2>1, <3>1 DEF UnsubscribeBroadcast
    <3> QED BY <2>0, <3>1, <3>2, LeavesStep
  <2>2. ASSUME NEW g \in Groups, UnsubscribeGroup(s, g)
        PROVE  IInv'
    <3>1. TableInv' /\ UNCHANGED subs /\ DOMAIN groups' \subseteq DOMAIN groups
      BY <2>0, <2>2, UnsubscribeGroupStep
    <3>2. Elems(subs') \subseteq Elems(subs) /\ registered' = registered
      BY <2>2, <3>1 DEF UnsubscribeGroup
    <3> QED BY <2>0, <3>1, <3>2, LeavesStep
  <2> QED BY <1>3, <2>1, <2>2 DEF HandleUnsubscribe
<1>4. ASSUME NEW s \in Subscribers, NEW c \in Conns, HandleSubscribe(s, c)
      PROVE  IInv'
  BY <1>4, HandleSubscribeStep
<1>5. ASSUME NEW s \in Subscribers, NEW c \in Conns, NEW g \in Groups,
             HandleSubscribeGroup(s, c, g)
      PROVE  IInv'
  BY <1>5, HandleSubscribeGroupStep
<1>6. ASSUME NEW c \in Conns, OnConnectionClosed(c)
      PROVE  IInv'
  <2>1. TableInv /\ Leaves /\ UnsubscribeByConnId(c)
    BY <1>6 DEF OnConnectionClosed, IInv
  <2>2. /\ TableInv' /\ Elems(subs') \subseteq Elems(subs)
        /\ DOMAIN groups' \subseteq DOMAIN groups
    BY <2>1, UnsubscribeByConnIdStep
  <2>3. registered' = registered
    BY <2>1 DEF UnsubscribeByConnId
  <2> QED BY <2>1, <2>2, <2>3, LeavesStep
<1>7. CASE HandlePull
  BY <1>7, HandlePullStep
<1>8. CASE HandleDeleteTopic
  <2>1. TableInv' /\ StoreDeleted
    BY <1>8, UnregisterTopicStep DEF HandleDeleteTopic
  <2>2. RegisteredIsStored'
    BY <1>8 DEF HandleDeleteTopic, UnregisterTopic, StoreDeleted, RegisteredIsStored
  <2> QED BY <2>1, <2>2, DeletedStep DEF IInv
<1>9. CASE HandleCleanupTopic
  <2>1. TableInv' /\ StoreDeleted
    BY <1>9 DEF HandleCleanupTopic, tableVars, IInv, TableInv, TableType, TableSound, RoundsSound
  <2>2. RegisteredIsStored'
    BY <1>9 DEF HandleCleanupTopic, RegisteredIsStored
  <2> QED BY <2>1, <2>2, DeletedStep DEF IInv
<1>10. CASE UNCHANGED vars
  BY <1>10 DEF vars, tableVars, storeVars, history, Owed, IInv, TableInv, TableType, TableSound, RoundsSound,
               StoreInv, GotInv, RegisteredIsStored, All, Receiving
<1> QED BY <1>1, <1>2, <1>3, <1>4, <1>5, <1>6, <1>7, <1>8, <1>9, <1>10 DEF Next
-----------------------------------------------------------------------------
(* The invariant holds of every behaviour of the handlers.                 *)
THEOREM IInvHolds == Spec => []IInv
BY Initially, Preserved, PTL DEF Spec

(* No subscriber occurs twice, no group is empty, and only a registered    *)
(* topic has subscribers: TableSound, for every table that Subscribe,      *)
(* Unsubscribe and UnsubscribeByConnId can produce.                        *)
THEOREM TableStaysSound == Spec => []TableSound
<1>1. IInv => TableSound
  BY DEF IInv, TableInv
<1> QED BY <1>1, IInvHolds, PTL

(* SelectNextMember is fair from any index, also one that members who left *)
(* have put beyond the end of the list.                                    *)
THEOREM RoundRobinIsFair == Spec => []RoundRobinFair
<1>1. IInv => RoundRobinFair
  BY TableInvFair DEF IInv
<1> QED BY <1>1, IInvHolds, PTL

(* The table and the store agree on which topics there are.                *)
THEOREM RegisteredStaysStored == Spec => []RegisteredIsStored
<1>1. IInv => RegisteredIsStored
  BY DEF IInv
<1> QED BY <1>1, IInvHolds, PTL

(* Every receiver got what the topic holds since it subscribed, in the     *)
(* order of the ids and each once, but for the pushes to it that failed.   *)
THEOREM DeliveredHolds == Spec => []Delivered
<1>1. IInv => Delivered
  BY GotInvDelivered
<1> QED BY <1>1, IInvHolds, PTL
=============================================================================
