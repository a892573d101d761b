------------------------- MODULE TopicManagerProofs -------------------------
(***************************************************************************)
(* What the methods of TopicManager do to a sound subscription table, for  *)
(* any subscribers, groups and connections: lemmas, one per method, that   *)
(* BrokerDeliveryProofs and BrokerRoutingProofs use.                       *)
(***************************************************************************)
EXTENDS TopicManager, SequenceTheorems, FiniteSetTheorems, TLAPS

(* How many places of K there are up to k.                                 *)
Rank(K, k) == Cardinality({j \in K : j <= k})

(* The ranks of the places of K are 1..Cardinality(K), in their order.     *)
LEMMA RankProps ==
  ASSUME NEW N \in Nat, NEW K \in SUBSET (1..N)
  PROVE  /\ IsFiniteSet(K) /\ Cardinality(K) \in Nat
         /\ \A k \in K : Rank(K, k) \in 1..Cardinality(K)
         /\ \A k, l \in K : k < l => Rank(K, k) < Rank(K, l)
         /\ \A n \in 1..Cardinality(K) : \E k \in K : Rank(K, k) = n
<1> DEFINE upTo(k) == {j \in K : j <= k}
<1>0. \A k \in K : k \in Int
  OBVIOUS
<1>1. IsFiniteSet(1..N)
  BY FS_Interval
<1>2. IsFiniteSet(K) /\ Cardinality(K) \in Nat
  BY <1>1, FS_Subset, FS_CardinalityType
<1>3. \A k \in K : /\ IsFiniteSet(upTo(k)) /\ Cardinality(upTo(k)) \in Nat
                   /\ Cardinality(upTo(k)) <= Cardinality(K)
  <2> TAKE k \in K
  <2>1. upTo(k) \in SUBSET K
    OBVIOUS
  <2> QED BY <1>2, <2>1, FS_Subset, FS_CardinalityType
<1>4. \A k \in K : Cardinality(upTo(k)) # 0
  <2> TAKE k \in K
  <2>1. k \in upTo(k)
    OBVIOUS
  <2> QED BY <1>3, <2>1, FS_EmptySet
<1>5. ASSUME NEW k \in K, NEW l \in K, k < l
      PROVE  Cardinality(upTo(k)) < Cardinality(upTo(l))
  <2>0. l <= l /\ ~(l <= k) /\ \A j \in K : j <= k => j <= l
    BY <1>0, <1>5
  <2>1. upTo(k) \subseteq upTo(l) /\ l \in upTo(l) /\ l \notin upTo(k)
    BY <2>0
  <2>2. upTo(k) # upTo(l)
    BY <2>1
  <2> HIDE DEF upTo
  <2> QED BY <1>3, <2>1, <2>2, FS_Subset
<1> DEFINE rank == [k \in K |-> Cardinality(upTo(k))]
           T == 1..Cardinality(K)
<1>6. rank \in [K -> T]
  <2>1. \A k \in K : Cardinality(upTo(k)) \in T
    BY <1>2, <1>3, <1>4
  <2> QED BY <2>1
<1>7. rank \in Injection(K, T)
  <2>1. ASSUME NEW a \in K, NEW b \in K, rank[a] = rank[b]
        PROVE  a = b
    <3>1. a \in Nat /\ b \in Nat
      OBVIOUS
    <3>2. ~(a < b) /\ ~(b < a)
      BY <1>3, <1>5, <2>1
    <3> QED BY <3>1, <3>2
  <2> HIDE DEF rank, T
  <2> QED BY <1>6, <2>1 DEF Injection, IsInjective
<1>8. IsFiniteSet(T) /\ Cardinality(T) = Cardinality(K)
  BY <1>2, FS_Interval
<1>9. rank \in Surjection(K, T)
  <2> HIDE DEF T, rank
  <2> QED BY <1>2, <1>7, <1>8, FS_Injection
<1>10. \A n \in T : \E k \in K : rank[k] = n
  BY <1>9 DEF Surjection
<1> QED BY <1>2, <1>3, <1>4, <1>5, <1>10 DEF Rank

(* PlaceOf(K, 1), PlaceOf(K, 2), ... are the places of K in their order.   *)
LEMMA PlaceProps ==
  ASSUME NEW N \in Nat, NEW K \in SUBSET (1..N)
  PROVE  /\ IsFiniteSet(K) /\ Cardinality(K) \in Nat
         /\ \A n \in 1..Cardinality(K) : PlaceOf(K, n) \in K
         /\ \A m, n \in 1..Cardinality(K) : m < n => PlaceOf(K, m) < PlaceOf(K, n)
         /\ \A k \in K : \E n \in 1..Cardinality(K) : PlaceOf(K, n) = k
<1>0. /\ \A k \in K : k \in Nat /\ Rank(K, k) \in 1..Cardinality(K)
      /\ \A k, l \in K : k < l => Rank(K, k) < Rank(K, l)
      /\ Cardinality(K) \in Nat
      /\ \A n \in 1..Cardinality(K) : \E k \in K : Rank(K, k) = n
  <2>1. \A k \in K : k \in Nat
    OBVIOUS
  <2> QED BY <2>1, RankProps
<1>1. ASSUME NEW n \in 1..Cardinality(K)
      PROVE  PlaceOf(K, n) \in K /\ Rank(K, PlaceOf(K, n)) = n
  <2>1. \E k \in K : Cardinality({j \in K : j <= k}) = n
    BY <1>0 DEF Rank
  <2> QED BY <2>1 DEF PlaceOf, Rank
<1>2. ASSUME NEW k \in K, NEW l \in K, Rank(K, k) = Rank(K, l)
      PROVE  k = l
  <2>1. k \in Nat /\ l \in Nat /\ Rank(K, k) \in Nat
    BY <1>0
  <2>2. ~(k < l) /\ ~(l < k)
    BY <1>0, <1>2, <2>1
  <2> QED BY <2>1, <2>2
<1>3. ASSUME NEW m \in 1..Cardinality(K), NEW n \in 1..Cardinality(K), m < n
      PROVE  PlaceOf(K, m) < PlaceOf(K, n)
  <2> DEFINE k == PlaceOf(K, m)
             l == PlaceOf(K, n)
  <2>1. k \in K /\ l \in K /\ Rank(K, k) = m /\ Rank(K, l) = n
    BY <1>1
  <2> HIDE DEF k, l
  <2>2. k \in Nat /\ l \in Nat /\ m \in Nat /\ n \in Nat
    BY <2>1
  <2>3. ~(l < k) /\ k # l
    BY <1>0, <1>3, <2>1, <2>2
  <2>4. k < l
    BY <2>2, <2>3
  <2> QED BY <2>4 DEF k, l
<1>4. ASSUME NEW k \in K
      PROVE  \E n \in 1..Cardinality(K) : PlaceOf(K, n) = k
  <2>1. Rank(K, k) \in 1..Cardinality(K)
    BY <1>0
  <2>2. PlaceOf(K, Rank(K, k)) = k
    BY <1>1, <1>2, <2>1
  <2> QED BY <2>1, <2>2
<1> QED BY <1>1, <1>3, <1>4, RankProps

(* Kept(q, K) has the elements of q at K, in their order, and no others.   *)
LEMMA KeptProps ==
  ASSUME NEW S, NEW q \in Seq(S), NEW K \in SUBSET (1..Len(q))
  PROVE  /\ Kept(q, K) \in Seq(S)
         /\ Len(Kept(q, K)) = Cardinality(K) /\ Cardinality(K) \in Nat
         /\ \A n \in 1..Cardinality(K) :
              PlaceOf(K, n) \in K /\ Kept(q, K)[n] = q[PlaceOf(K, n)]
         /\ \A m, n \in 1..Cardinality(K) : m < n => PlaceOf(K, m) < PlaceOf(K, n)
         /\ \A k \in K : \E n \in 1..Cardinality(K) : Kept(q, K)[n] = q[k]
<1>1. Len(q) \in Nat /\ \A k \in K : q[k] \in S
  OBVIOUS
<1>2. /\ Cardinality(K) \in Nat
      /\ \A n \in 1..Cardinality(K) : PlaceOf(K, n) \in K
      /\ \A m, n \in 1..Cardinality(K) : m < n => PlaceOf(K, m) < PlaceOf(K, n)
      /\ \A k \in K : \E n \in 1..Cardinality(K) : PlaceOf(K, n) = k
  BY <1>1, PlaceProps
<1>3. \A n \in 1..Cardinality(K) : q[PlaceOf(K, n)] \in S
  BY <1>1, <1>2
<1>4. Kept(q, K) \in Seq(S) /\ Len(Kept(q, K)) = Cardinality(K)
  BY <1>2, <1>3, IsASeq DEF Kept
<1>5. \A n \in 1..Cardinality(K) : Kept(q, K)[n] = q[PlaceOf(K, n)]
  BY DEF Kept
<1> QED BY <1>2, <1>4, <1>5

(* Nothing changes when every place is kept.                               *)
LEMMA KeptAll ==
  ASSUME NEW S, NEW q \in Seq(S)
  PROVE  Kept(q, 1..Len(q)) = q
<1> DEFINE K == 1..Len(q)
<1>1. Len(q) \in Nat /\ K \in SUBSET (1..Len(q))
  OBVIOUS
<1>2. Cardinality(K) = Len(q)
  <2> DEFINE n == Len(q)
  <2>1. n \in Nat
    BY <1>1
  <2> HIDE DEF n
  <2>2. Cardinality(1..n) = n
    BY <2>1, FS_Interval
  <2> QED BY <2>2 DEF n
<1>3. ASSUME NEW n \in K
      PROVE  Rank(K, n) = n
  <2>1. {j \in K : j <= n} = 1..n /\ n \in Nat /\ n >= 1
    BY <1>1
  <2>2. Cardinality(1..n) = n
    BY <2>1, FS_Interval
  <2> QED BY <2>1, <2>2 DEF Rank
<1>4. ASSUME NEW n \in K
      PROVE  PlaceOf(K, n) = n
  <2>1. \E k \in K : Rank(K, k) = n
    BY <1>3
  <2>2. PlaceOf(K, n) \in K /\ Rank(K, PlaceOf(K, n)) = n
    BY <2>1 DEF PlaceOf, Rank
  <2> QED BY <1>3, <2>2
<1>5. Kept(q, K) = [n \in 1..Len(q) |-> q[n]]
  BY <1>2, <1>4 DEF Kept
<1> QED BY <1>5

(* The elements of a sequence.                                             *)
Elems(q) == {q[k] : k \in 1..Len(q)}

LEMMA KeptElems ==
  ASSUME NEW S, NEW q \in Seq(S), NEW K \in SUBSET (1..Len(q))
  PROVE  Elems(Kept(q, K)) = {q[k] : k \in K}
<1> DEFINE r == Kept(q, K)
<1>1. /\ Len(r) = Cardinality(K)
      /\ \A n \in 1..Len(r) : PlaceOf(K, n) \in K /\ r[n] = q[PlaceOf(K, n)]
      /\ \A k \in K : \E n \in 1..Len(r) : r[n] = q[k]
  BY KeptProps
<1> HIDE DEF r
<1>2. ASSUME NEW n \in 1..Len(r)
      PROVE  r[n] \in {q[k] : k \in K}
  BY <1>1
<1>3. ASSUME NEW k \in K
      PROVE  q[k] \in {r[n] : n \in 1..Len(r)}
  BY <1>1
<1>4. Elems(r) = {q[k] : k \in K}
  BY <1>2, <1>3 DEF Elems
<1> QED BY <1>4 DEF r

(* What erase(remove_if(...)) leaves is part of what was there, and no     *)
(* subscriber occurs twice if none did before.                             *)
LEMMA DropProps ==
  ASSUME NEW q \in Seq(Entries), NEW K \in SUBSET (1..Len(q))
  PROVE  /\ Kept(q, K) \in Seq(Entries)
         /\ Elems(Kept(q, K)) = {q[k] : k \in K}
         /\ Elems(Kept(q, K)) \subseteq Elems(q)
         /\ Unique(q) => Unique(Kept(q, K))
         /\ Kept(q, K) = << >> <=> K = {}
<1> DEFINE r == Kept(q, K)
           C == Cardinality(K)
<1>1. /\ r \in Seq(Entries) /\ Len(r) = C /\ C \in Nat
      /\ \A n \in 1..C : PlaceOf(K, n) \in K /\ r[n] = q[PlaceOf(K, n)]
      /\ \A m, n \in 1..C : m < n => PlaceOf(K, m) < PlaceOf(K, n)
      /\ \A k \in K : \E n \in 1..C : r[n] = q[k]
  BY KeptProps
<1>2. Elems(r) = {q[k] : k \in K}
  BY KeptElems
<1> HIDE DEF r, C
<1>3. Elems(r) \subseteq Elems(q)
  BY <1>2 DEF Elems
<1>4. ASSUME Unique(q), NEW i \in 1..C, NEW j \in 1..C, r[i].id = r[j].id
      PROVE  i = j
  <2> DEFINE k == PlaceOf(K, i)
             l == PlaceOf(K, j)
  <2>1. k \in K /\ l \in K /\ r[i] = q[k] /\ r[j] = q[l]
    BY <1>1
  <2>2. k \in 1..Len(q) /\ l \in 1..Len(q)
    BY <2>1
  <2>3. k = l
    BY <1>4, <2>1, <2>2 DEF Unique
  <2>4. ~(i < j) /\ ~(j < i)
    BY <1>1, <2>2, <2>3
  <2> QED BY <2>4
<1>5. r = << >> <=> K = {}
  <2>1. r = << >> <=> C = 0
    BY <1>1, EmptySeq
  <2>2. C = 0 => K = {}
    BY <1>1
  <2>3. K = {} => C = 0
    BY FS_EmptySet DEF C
  <2> QED BY <2>1, <2>2, <2>3
<1>6. Unique(q) => Unique(r)
  BY <1>1, <1>4 DEF Unique
<1> QED BY <1>1, <1>2, <1>3, <1>5, <1>6 DEF r
-----------------------------------------------------------------------------
(* The index that comes a turn or more after a, counted from 0 and less    *)
(* than twice the length.                                                  *)
Wrap(x, len) == IF x < len THEN x ELSE x - len

LEMMA ModDiv ==
  ASSUME NEW L \in Nat \ {0}, NEW r \in Nat
  PROVE  r % L \in 0..L - 1 /\ r \div L \in Nat /\ r % L = r - L * (r \div L)
<1>1. r % L \in 0..L - 1
  OBVIOUS
<1>2. r \div L \in Nat
  OBVIOUS
<1>3. r % L = r - L * (r \div L)
  BY Z3
<1> QED BY <1>1, <1>2, <1>3

LEMMA ModUnique ==
  ASSUME NEW L \in Nat \ {0}, NEW q \in Int, NEW m \in 0..L - 1,
         NEW r \in Nat, r = L * q + m
  PROVE  r % L = m
OBVIOUS

(* One turn further, also from an index beyond the end of the list.        *)
LEMMA WrapNext ==
  ASSUME NEW L \in Nat \ {0}, NEW r \in Nat
  PROVE  (r + 1) % L = Wrap((r % L) + 1, L)
<1> DEFINE q == r \div L
           m == r % L
<1>1. m \in 0..L - 1 /\ q \in Nat /\ m = r - L * q
  BY ModDiv
<1> HIDE DEF q, m
<1>2. CASE m + 1 < L
  <2> DEFINE x == r + 1
             n == m + 1
  <2>1. x \in Nat /\ n \in 0..L - 1 /\ x = L * q + n /\ q \in Int
    BY <1>1, <1>2
  <2> HIDE DEF x, n
  <2>2. x % L = n
    BY <2>1, ModUnique
  <2> QED BY <1>1, <1>2, <2>2 DEF Wrap, m, x, n
<1>3. CASE m + 1 = L
  <2>1. r + 1 = L * (q + 1) + 0 /\ 0 \in 0..L - 1 /\ r + 1 \in Nat
    BY <1>1, <1>3
  <2>2. (r + 1) % L = 0
    BY <1>1, <2>1, ModUnique
  <2> QED BY <1>1, <1>3, <2>2 DEF Wrap, m
<1> QED BY <1>1, <1>2, <1>3
-----------------------------------------------------------------------------
(* The types of the subscription table.                                    *)
TableType ==
  /\ subs \in Seq(Entries)
  /\ DOMAIN groups \in SUBSET Groups
  /\ groups \in [DOMAIN groups -> [members : Seq(Entries), rr : Nat]]
  /\ round \in [Groups -> Seq(Subscribers)]

(* The selections of a round are those of consecutive members, from some   *)
(* place a on, and the index is at the member after the last of them.      *)
Turns(q, rr, rd) ==
  /\ Len(rd) <= Len(q)
  /\ rd # << >> =>
       \E a \in 0..Len(q) - 1 :
         /\ rr = Wrap(a + Len(rd), Len(q))
         /\ \A i \in 1..Len(rd) : rd[i] = q[Wrap(a + i - 1, Len(q)) + 1].id

RoundsSound ==
  \A g \in Groups :
    IF g \in DOMAIN groups THEN Turns(groups[g].members, groups[g].rr, round[g])
                           ELSE round[g] = << >>

TableInv == TableType /\ TableSound /\ RoundsSound

(* One more entry, of a subscriber that is not there yet.                  *)
LEMMA AppendEntry ==
  ASSUME NEW q \in Seq(Entries), NEW s \in Subscribers, NEW c \in Conns,
         Unique(q), ~HasId(q, s)
  PROVE  /\ Append(q, Entry(s, c)) \in Seq(Entries)
         /\ Unique(Append(q, Entry(s, c)))
         /\ Append(q, Entry(s, c)) # << >>
<1> DEFINE e == Entry(s, c)
           r == Append(q, e)
<1>1. e \in Entries /\ e.id = s
  BY DEF Entry, Entries
<1> HIDE DEF e
<1>2. /\ r \in Seq(Entries) /\ r # << >> /\ Len(r) = Len(q) + 1 /\ Len(q) \in Nat
      /\ \A k \in 1..Len(q) : r[k] = q[k]
  BY <1>1, AppendProperties
<1>3. r[Len(q) + 1] = e
  BY <1>1, AppendProperties
<1> HIDE DEF r
<1>4. \A k \in 1..Len(r) : k \in 1..Len(q) \/ k = Len(q) + 1
  BY <1>2
<1>5. \A k \in 1..Len(q) : q[k].id # s
  BY DEF HasId
<1>6. \A i, j \in 1..Len(r) : r[i].id = r[j].id => i = j
  BY <1>1, <1>2, <1>3, <1>4, <1>5 DEF Unique
<1>7. Unique(r)
  BY <1>6 DEF Unique
<1> QED BY <1>2, <1>7 DEF e, r

(* A round that has just begun.                                            *)
LEMMA NoTurns ==
  ASSUME NEW q \in Seq(Entries), NEW rr
  PROVE  Turns(q, rr, << >>)
BY DEF Turns

LEMMA TableStarts == TableInit => TableInv
<1> SUFFICES ASSUME TableInit PROVE TableInv
  OBVIOUS
<1>1. DOMAIN groups = {} /\ groups \in [{} -> [members : Seq(Entries), rr : Nat]]
  BY DEF TableInit
<1>2. << >> \in Seq(Entries) /\ << >> \in Seq(Subscribers) /\ Len(<< >>) = 0
  OBVIOUS
<1>3. round = [g \in Groups |-> << >>] /\ subs = << >>
  BY DEF TableInit, NoRound
<1>4. TableType
  BY <1>1, <1>2, <1>3 DEF TableType
<1>5. TableSound
  BY <1>1, <1>2, <1>3 DEF TableSound, Unique
<1> QED BY <1>1, <1>3, <1>4, <1>5 DEF TableInv, RoundsSound

(* Subscribe adds the id only where it is missing.                         *)
LEMMA SubscribeBroadcastStep ==
  ASSUME TableInv, NEW s \in Subscribers, NEW c \in Conns, SubscribeBroadcast(s, c)
  PROVE  TableInv'
<1>1. subs' \in Seq(Entries) /\ Unique(subs')
  BY AppendEntry DEF TableInv, TableType, TableSound, SubscribeBroadcast
<1>2. UNCHANGED <<groups, round>> /\ registered'
  BY DEF SubscribeBroadcast, RegisterTopic
<1>3. TableType'
  BY <1>1, <1>2 DEF TableInv, TableType
<1>4. TableSound'
  BY <1>1, <1>2 DEF TableInv, TableSound
<1>5. RoundsSound'
  BY <1>2 DEF TableInv, RoundsSound
<1> QED BY <1>3, <1>4, <1>5 DEF TableInv

(* A group whose members change begins a new round; the others go on.      *)
LEMMA GroupChanges ==
  ASSUME TableInv, NEW g \in Groups, NEW q \in Seq(Entries), NEW rr \in Nat,
         q # << >>, Unique(q),
         groups' = WithGroup(g, q, rr), round' = [round EXCEPT ![g] = << >>],
         UNCHANGED subs, registered'
  PROVE  TableInv'
<1>1. /\ DOMAIN groups' = DOMAIN groups \cup {g}
      /\ groups'[g].members = q /\ groups'[g].rr = rr
      /\ \A h \in DOMAIN groups : h # g => groups'[h] = groups[h]
  BY DEF WithGroup
<1>2. round' \in [Groups -> Seq(Subscribers)] /\ round'[g] = << >>
      /\ \A h \in Groups : h # g => round'[h] = round[h]
  BY EmptySeq DEF TableInv, TableType
<1>3. groups' \in [DOMAIN groups' -> [members : Seq(Entries), rr : Nat]]
  <2>1. [members |-> q, rr |-> rr] \in [members : Seq(Entries), rr : Nat]
    OBVIOUS
  <2> QED BY <1>1, <2>1 DEF WithGroup, TableInv, TableType
<1>4. TableType'
  BY <1>1, <1>2, <1>3 DEF TableInv, TableType
<1>5. TableSound'
  BY <1>1 DEF TableInv, TableSound
<1>6. RoundsSound'
  BY <1>1, <1>2, NoTurns DEF TableInv, RoundsSound
<1> QED BY <1>4, <1>5, <1>6 DEF TableInv

LEMMA SubscribeGroupStep ==
  ASSUME TableInv, NEW s \in Subscribers, NEW c \in Conns, NEW g \in Groups,
         SubscribeGroup(s, c, g)
  PROVE  TableInv'
<1>0. registered' /\ UNCHANGED subs
  BY DEF SubscribeGroup, RegisterTopic
<1>1. CASE g \notin DOMAIN groups
  <2> DEFINE q == <<Entry(s, c)>>
  <2>1. Entry(s, c) \in Entries
    BY DEF Entry, Entries
  <2>2. q \in Seq(Entries) /\ q # << >> /\ Len(q) = 1
    BY <2>1
  <2>3. Unique(q)
    BY <2>2 DEF Unique
  <2>4. groups' = WithGroup(g, q, 0) /\ round' = [round EXCEPT ![g] = << >>]
    BY <1>1 DEF SubscribeGroup
  <2> HIDE DEF q
  <2> QED BY <1>0, <2>2, <2>3, <2>4, GroupChanges
<1>2. CASE g \in DOMAIN groups /\ HasId(groups[g].members, s)
  <2>1. UNCHANGED <<groups, round>>
    BY <1>2 DEF SubscribeGroup
  <2> QED BY <1>0, <2>1 DEF TableInv, TableType, TableSound, RoundsSound
<1>3. CASE g \in DOMAIN groups /\ ~HasId(groups[g].members, s)
  <2> DEFINE q == Append(groups[g].members, Entry(s, c))
  <2>1. groups[g].members \in Seq(Entries) /\ groups[g].rr \in Nat
    BY <1>3 DEF TableInv, TableType
  <2>2. q \in Seq(Entries) /\ q # << >> /\ Unique(q)
    BY <1>3, <2>1, AppendEntry DEF TableInv, TableSound
  <2>3. groups' = WithGroup(g, q, groups[g].rr) /\ round' = [round EXCEPT ![g] = << >>]
    BY <1>3 DEF SubscribeGroup
  <2> HIDE DEF q
  <2> QED BY <1>0, <2>1, <2>2, <2>3, GroupChanges
<1> QED BY <1>1, <1>2, <1>3

LEMMA UnsubscribeBroadcastStep ==
  ASSUME TableInv, NEW s \in Subscribers, UnsubscribeBroadcast(s)
  PROVE  TableInv' /\ Elems(subs') \subseteq Elems(subs) /\ UNCHANGED groups
<1> DEFINE K == {k \in 1..Len(subs) : subs[k].id # s}
<1>1. subs \in Seq(Entries) /\ Unique(subs) /\ K \in SUBSET (1..Len(subs))
  BY DEF TableInv, TableType, TableSound
<1>2. UNCHANGED <<registered, groups, round>> /\ subs' = Kept(subs, K)
  BY DEF UnsubscribeBroadcast, DropId
<1> HIDE DEF K
<1>3. /\ subs' \in Seq(Entries) /\ Unique(subs') /\ Elems(subs') \subseteq Elems(subs)
      /\ subs' # << >> => K # {}
  BY <1>1, <1>2, DropProps
<1>4. subs = << >> => K = {}
  BY DEF K
<1>5. TableType'
  BY <1>2, <1>3 DEF TableInv, TableType
<1>6. TableSound'
  BY <1>2, <1>3, <1>4 DEF TableInv, TableSound
<1>7. RoundsSound'
  BY <1>2 DEF TableInv, RoundsSound
<1> QED BY <1>2, <1>3, <1>5, <1>6, <1>7 DEF TableInv

(* The groups keep only members they had; a group in which nobody is left  *)
(* goes, and a group that loses somebody begins a new round.               *)
LEMMA GroupsShrink ==
  ASSUME TableInv,
         NEW gs \in [DOMAIN groups -> [members : Seq(Entries), rr : Nat]],
         \A g \in DOMAIN groups : Unique(gs[g].members),
         groups' = Inhabited(gs),
         round' \in [Groups -> Seq(Subscribers)],
         \A g \in Groups : \/ round'[g] = << >>
                            \/ (round'[g] = round[g] /\ g \notin DOMAIN groups)
                            \/ (round'[g] = round[g] /\ gs[g] = groups[g]),
         subs' \in Seq(Entries), Unique(subs'), subs' # << >> => subs # << >>,
         UNCHANGED registered
  PROVE  TableInv' /\ DOMAIN groups' \subseteq DOMAIN groups
<1>1. /\ DOMAIN groups' = {h \in DOMAIN groups : gs[h].members # << >>}
      /\ \A h \in DOMAIN groups' : groups'[h] = gs[h]
  BY DEF Inhabited
<1>2. groups' \in [DOMAIN groups' -> [members : Seq(Entries), rr : Nat]]
  BY <1>1 DEF Inhabited
<1>3. TableType'
  BY <1>1, <1>2 DEF TableInv, TableType
<1>4. TableSound'
  BY <1>1 DEF TableInv, TableSound
<1>5. RoundsSound'
  <2> SUFFICES ASSUME NEW g \in Groups
               PROVE  IF g \in DOMAIN groups'
                        THEN Turns(groups'[g].members, groups'[g].rr, round'[g])
                        ELSE round'[g] = << >>
    BY DEF RoundsSound
  <2>1. CASE round'[g] = << >>
    <3>1. g \in DOMAIN groups' => groups'[g].members \in Seq(Entries)
      BY <1>2
    <3> QED BY <2>1, <3>1, NoTurns
  <2>2. CASE round'[g] = round[g] /\ g \notin DOMAIN groups
    BY <1>1, <2>2 DEF TableInv, RoundsSound
  <2>3. CASE round'[g] = round[g] /\ gs[g] = groups[g] /\ g \in DOMAIN groups
    BY <1>1, <2>3 DEF TableInv, RoundsSound, TableSound
  <2> QED BY <2>1, <2>2, <2>3
<1> QED BY <1>1, <1>3, <1>4, <1>5 DEF TableInv

LEMMA UnsubscribeGroupStep ==
  ASSUME TableInv, NEW s \in Subscribers, NEW g \in Groups, UnsubscribeGroup(s, g)
  PROVE  /\ TableInv' /\ UNCHANGED subs
         /\ DOMAIN groups' \subseteq DOMAIN groups
<1>0. UNCHANGED <<registered, subs>>
  BY DEF UnsubscribeGroup
<1>1. CASE g \in DOMAIN groups /\ HasId(groups[g].members, s)
  <2> DEFINE q == groups[g].members
             K == {k \in 1..Len(q) : q[k].id # s}
             gs == WithGroup(g, Kept(q, K), groups[g].rr)
  <2>1. q \in Seq(Entries) /\ Unique(q) /\ K \in SUBSET (1..Len(q)) /\ groups[g].rr \in Nat
    BY <1>1 DEF TableInv, TableType, TableSound
  <2>2. groups' = Inhabited(gs) /\ round' = [round EXCEPT ![g] = << >>]
    BY <1>1 DEF UnsubscribeGroup, DropId
  <2> HIDE DEF q, K
  <2>3. Kept(q, K) \in Seq(Entries) /\ Unique(Kept(q, K))
    BY <2>1, DropProps
  <2>4. /\ DOMAIN gs = DOMAIN groups
        /\ gs[g] = [members |-> Kept(q, K), rr |-> groups[g].rr]
        /\ \A h \in DOMAIN groups : h # g => gs[h] = groups[h]
    BY <1>1 DEF WithGroup
  <2>5. gs \in [DOMAIN groups -> [members : Seq(Entries), rr : Nat]]
    <3>1. [members |-> Kept(q, K), rr |-> groups[g].rr] \in [members : Seq(Entries), rr : Nat]
      BY <2>1, <2>3
    <3> QED BY <1>1, <3>1 DEF WithGroup, TableInv, TableType
  <2> HIDE DEF gs
  <2>6. \A h \in DOMAIN groups : Unique(gs[h].members)
    BY <2>3, <2>4 DEF TableInv, TableSound
  <2>7. /\ round' \in [Groups -> Seq(Subscribers)] /\ round'[g] = << >>
        /\ \A h \in Groups : h # g => round'[h] = round[h]
    BY <2>2, EmptySeq DEF TableInv, TableType
  <2>8. \A h \in Groups : \/ round'[h] = << >>
                           \/ (round'[h] = round[h] /\ h \notin DOMAIN groups)
                           \/ (round'[h] = round[h] /\ gs[h] = groups[h])
    <3> TAKE h \in Groups
    <3>1. h # g /\ h \in DOMAIN groups => gs[h] = groups[h]
      BY <2>4
    <3> QED BY <2>7, <3>1, Zenon
  <2>9. subs' \in Seq(Entries) /\ Unique(subs')
    BY <1>0 DEF TableInv, TableType, TableSound
  <2> QED BY <1>0, <2>2, <2>5, <2>6, <2>7, <2>8, <2>9, GroupsShrink
<1>2. CASE ~(g \in DOMAIN groups /\ HasId(groups[g].members, s))
  <2>1. UNCHANGED <<groups, round>>
    BY <1>2 DEF UnsubscribeGroup
  <2> QED BY <1>0, <2>1 DEF TableInv, TableType, TableSound, RoundsSound
<1> QED BY <1>1, <1>2

(* A list without an entry of the connection is not touched.               *)
LEMMA DropConnProps ==
  ASSUME NEW q \in Seq(Entries), NEW c
  PROVE  /\ DropConn(q, c) \in Seq(Entries)
         /\ Elems(DropConn(q, c)) \subseteq Elems(q)
         /\ Unique(q) => Unique(DropConn(q, c))
         /\ ~HasConn(q, c) => DropConn(q, c) = q
         /\ q = << >> => DropConn(q, c) = << >>
<1> DEFINE K == {k \in 1..Len(q) : q[k].conn # c}
<1>1. K \in SUBSET (1..Len(q)) /\ DropConn(q, c) = Kept(q, K)
  BY DEF DropConn
<1>2. ~HasConn(q, c) => K = 1..Len(q)
  BY DEF HasConn
<1>3. q = << >> => K = {}
  OBVIOUS
<1> HIDE DEF K
<1> QED BY <1>1, <1>2, <1>3, DropProps, KeptAll

LEMMA UnsubscribeByConnIdStep ==
  ASSUME TableInv, NEW c \in Conns, UnsubscribeByConnId(c)
  PROVE  /\ TableInv' /\ Elems(subs') \subseteq Elems(subs)
         /\ DOMAIN groups' \subseteq DOMAIN groups
         /\ \A g \in DOMAIN groups' :
              Elems(groups'[g].members) \subseteq Elems(groups[g].members)
<1> DEFINE gs == [g \in DOMAIN groups |->
                   [groups[g] EXCEPT !.members = DropConn(@, c)]]
<1>1. /\ subs' = DropConn(subs, c) /\ groups' = Inhabited(gs) /\ UNCHANGED registered
      /\ round' = [g \in Groups |->
                    IF g \in DOMAIN groups /\ HasConn(groups[g].members, c)
                      THEN << >> ELSE round[g]]
  BY DEF UnsubscribeByConnId
<1>2. /\ subs' \in Seq(Entries) /\ Unique(subs') /\ Elems(subs') \subseteq Elems(subs)
      /\ subs = << >> => subs' = << >>
  BY <1>1, DropConnProps DEF TableInv, TableType, TableSound
<1>3. ASSUME NEW g \in DOMAIN groups
      PROVE  /\ gs[g] \in [members : Seq(Entries), rr : Nat]
             /\ Unique(gs[g].members)
             /\ Elems(gs[g].members) \subseteq Elems(groups[g].members)
             /\ ~HasConn(groups[g].members, c) => gs[g] = groups[g]
  <2> DEFINE q == groups[g].members
  <2>1. groups[g] \in [members : Seq(Entries), rr : Nat]
    BY DEF TableInv, TableType
  <2>2. q \in Seq(Entries) /\ Unique(q)
    BY <2>1 DEF TableInv, TableSound
  <2>3. /\ DropConn(q, c) \in Seq(Entries) /\ Unique(DropConn(q, c))
        /\ Elems(DropConn(q, c)) \subseteq Elems(q)
        /\ ~HasConn(q, c) => DropConn(q, c) = q
    BY <2>2, DropConnProps
  <2>4. gs[g] = [members |-> DropConn(q, c), rr |-> groups[g].rr]
    BY <2>1
  <2>5. groups[g] = [members |-> q, rr |-> groups[g].rr]
    BY <2>1
  <2> HIDE DEF q
  <2> QED BY <2>1, <2>3, <2>4, <2>5 DEF q
<1>4. gs \in [DOMAIN groups -> [members : Seq(Entries), rr : Nat]]
  BY <1>3
<1> HIDE DEF gs
<1>5. round' \in [Groups -> Seq(Subscribers)]
  BY <1>1, EmptySeq DEF TableInv, TableType
<1>6. \A g \in Groups : \/ round'[g] = << >>
                         \/ (round'[g] = round[g] /\ g \notin DOMAIN groups)
                         \/ (round'[g] = round[g] /\ gs[g] = groups[g])
  <2> TAKE g \in Groups
  <2>1. round'[g] = IF g \in DOMAIN groups /\ HasConn(groups[g].members, c)
                      THEN << >> ELSE round[g]
    BY <1>1
  <2>2. g \in DOMAIN groups /\ ~HasConn(groups[g].members, c) => gs[g] = groups[g]
    BY <1>3
  <2> QED BY <2>1, <2>2
<1>7. \A g \in DOMAIN groups : Unique(gs[g].members)
  BY <1>3
<1>8. TableInv' /\ DOMAIN groups' \subseteq DOMAIN groups
  BY <1>1, <1>2, <1>4, <1>5, <1>6, <1>7, GroupsShrink
<1>9. \A g \in DOMAIN groups' : groups'[g] = gs[g]
  BY <1>1 DEF Inhabited
<1> QED BY <1>2, <1>3, <1>8, <1>9

LEMMA WrapRange ==
  ASSUME NEW L \in Nat \ {0}, NEW a \in 0..L - 1, NEW n \in 0..L
  PROVE  Wrap(a + n, L) \in 0..L - 1
BY DEF Wrap

LEMMA WrapSucc ==
  ASSUME NEW L \in Nat \ {0}, NEW a \in 0..L - 1, NEW n \in 0..L - 1
  PROVE  Wrap(Wrap(a + n, L) + 1, L) = Wrap(a + (n + 1), L)
BY DEF Wrap

LEMMA WrapInjective ==
  ASSUME NEW L \in Nat \ {0}, NEW a \in 0..L - 1, NEW i \in 1..L, NEW j \in 1..L,
         Wrap(a + i - 1, L) = Wrap(a + j - 1, L)
  PROVE  i = j
BY DEF Wrap

LEMMA ModSmall ==
  ASSUME NEW L \in Nat \ {0}, NEW r \in 0..L - 1
  PROVE  r % L = r
<1>1. r = L * 0 + r /\ 0 \in Int
  OBVIOUS
<1> QED BY <1>1, ModUnique

(* One more element at the end of a sequence.                              *)
LEMMA OneMore ==
  ASSUME NEW S, NEW q \in Seq(S), NEW x \in S
  PROVE  /\ Append(q, x) \in Seq(S) /\ Append(q, x) # << >>
         /\ Len(Append(q, x)) = Len(q) + 1 /\ Append(q, x)[Len(q) + 1] = x
         /\ \A i \in 1..Len(q) : Append(q, x)[i] = q[i]
BY AppendProperties

(* SelectNextMember continues the round, or begins one when all had their  *)
(* turn or the members have changed.                                       *)
LEMMA TurnTaken ==
  ASSUME NEW q \in Seq(Entries), q # << >>, NEW rr \in Nat,
         NEW rd \in Seq(Subscribers), Turns(q, rr, rd),
         NEW s, s = q[(rr % Len(q)) + 1].id,
         NEW nd, nd = IF Len(rd) = Len(q) THEN <<s>> ELSE Append(rd, s)
  PROVE  nd \in Seq(Subscribers) /\ Turns(q, (rr + 1) % Len(q), nd)
<1> DEFINE L == Len(q)
<1>1. L \in Nat \ {0} /\ \A k \in 1..L : q[k].id \in Subscribers
  <2>1. L \in Nat \ {0}
    BY EmptySeq
  <2>2. \A k \in 1..L : q[k] \in Entries
    OBVIOUS
  <2> QED BY <2>1, <2>2 DEF Entries
<1>2. rr % L \in 0..L - 1 /\ (rr + 1) % L = Wrap((rr % L) + 1, L)
  BY <1>1, ModDiv, WrapNext
<1>3. s \in Subscribers
  BY <1>1, <1>2
<1>4. Len(rd) \in Nat /\ Len(rd) <= L
  BY DEF Turns
<1>5. CASE Len(rd) = L \/ rd = << >>
  <2>1. nd = <<s>>
    <3>1. CASE Len(rd) = L
      BY <3>1
    <3>2. CASE rd = << >>
      <4>1. Len(rd) # Len(q)
        BY <1>1, <3>2
      <4> QED BY <3>2, <4>1
    <3> QED BY <1>5, <3>1, <3>2
  <2>2. nd \in Seq(Subscribers) /\ Len(nd) = 1 /\ nd[1] = s /\ nd # << >>
    BY <1>3, <2>1
  <2> DEFINE a == rr % L
  <2>3. a \in 0..L - 1 /\ (rr + 1) % L = Wrap(a + 1, L) /\ s = q[a + 1].id
    BY <1>2
  <2> HIDE DEF a
  <2>4. \A i \in 1..1 : i = 1 /\ Wrap(a + i - 1, L) = a
    BY <1>1, <2>3 DEF Wrap
  <2>5. \A i \in 1..1 : nd[i] = q[Wrap(a + i - 1, L) + 1].id
    BY <2>2, <2>3, <2>4
  <2>6. Len(nd) <= L /\ a \in 0..Len(q) - 1
    BY <1>1, <2>2, <2>3
  <2> QED BY <2>2, <2>3, <2>5, <2>6 DEF Turns
<1>6. CASE Len(rd) # L /\ rd # << >>
  <2> DEFINE n == Len(rd)
  <2>1. PICK a \in 0..L - 1 : /\ rr = Wrap(a + n, L)
                              /\ \A i \in 1..n : rd[i] = q[Wrap(a + i - 1, L) + 1].id
    BY <1>6 DEF Turns
  <2>2. nd = Append(rd, s)
    BY <1>6
  <2>3. /\ nd \in Seq(Subscribers) /\ nd # << >> /\ Len(nd) = n + 1
        /\ nd[n + 1] = s
        /\ \A i \in 1..n : nd[i] = rd[i]
    <3>1. rd \in Seq(Subscribers)
      OBVIOUS
    <3> QED BY ONLY <1>3, <2>2, <3>1, OneMore DEF n
  <2>4. n \in Nat /\ n < L
    BY <1>1, <1>4, <1>6
  <2> HIDE DEF n, L
  <2>5. rr \in 0..L - 1
    BY <1>1, <2>1, <2>4, WrapRange
  <2>6. rr % L = rr
    BY <1>1, <2>5, ModSmall
  <2>7. (rr + 1) % L = Wrap(a + (n + 1), L)
    <3>1. n \in 0..L - 1
      BY <1>1, <2>4
    <3>2. Wrap(Wrap(a + n, L) + 1, L) = Wrap(a + (n + 1), L)
      BY <1>1, <3>1, WrapSucc
    <3> QED BY <1>2, <2>1, <2>6, <3>2
  <2>8. nd[n + 1] = q[Wrap(a + n, L) + 1].id
    BY <2>1, <2>3, <2>6 DEF L
  <2>9. ASSUME NEW i \in 1..n + 1
        PROVE  nd[i] = q[Wrap(a + i - 1, L) + 1].id
    <3>1. CASE i \in 1..n
      BY <2>1, <2>3, <3>1
    <3>2. CASE i = n + 1
      <4>1. a + i - 1 = a + n
        BY <2>4, <3>2
      <4> QED BY <2>8, <3>2, <4>1
    <3>3. i \in 1..n \/ i = n + 1
      BY <2>4
    <3> QED BY <3>1, <3>2, <3>3
  <2>10. Len(nd) <= Len(q)
    BY <1>1, <2>3, <2>4 DEF L
  <2>11. (rr + 1) % Len(q) = Wrap(a + Len(nd), Len(q))
    BY <2>3, <2>7 DEF L
  <2>12. \A i \in 1..Len(nd) : nd[i] = q[Wrap(a + i - 1, Len(q)) + 1].id
    BY <2>3, <2>9 DEF L
  <2>13. a \in 0..Len(q) - 1
    BY DEF L
  <2> QED BY <2>3, <2>10, <2>11, <2>12, <2>13 DEF Turns
<1> QED BY <1>5, <1>6

LEMMA SelectNextStep ==
  ASSUME TableInv, NEW G \in SUBSET DOMAIN groups, SelectNext(G)
  PROVE  /\ TableInv' /\ UNCHANGED subs /\ DOMAIN groups' = DOMAIN groups
         /\ \A g \in DOMAIN groups : groups'[g].members = groups[g].members
<1> DEFINE R == [members : Seq(Entries), rr : Nat]
           nr(g) == IF Len(round[g]) = Len(groups[g].members)
                      THEN <<Selected(g)>> ELSE Append(round[g], Selected(g))
<1>1. /\ groups' = [g \in DOMAIN groups |->
                      IF g \in G THEN [groups[g] EXCEPT !.rr = NextIndex(g)]
                                 ELSE groups[g]]
      /\ round' = [g \in Groups |-> IF g \notin G THEN round[g] ELSE nr(g)]
      /\ UNCHANGED <<registered, subs>> /\ DOMAIN groups' = DOMAIN groups
  BY DEF SelectNext
<1>2. ASSUME NEW g \in G
      PROVE  /\ [groups[g] EXCEPT !.rr = NextIndex(g)] \in R
             /\ [groups[g] EXCEPT !.rr = NextIndex(g)].members = groups[g].members
             /\ nr(g) \in Seq(Subscribers)
             /\ Turns(groups[g].members, NextIndex(g), nr(g))
  <2> DEFINE q == groups[g].members
             x == groups[g].rr
             y == NextIndex(g)
  <2>1. groups[g] \in R /\ q \in Seq(Entries) /\ x \in Nat /\ g \in Groups /\ g \in DOMAIN groups
    BY DEF TableInv, TableType
  <2>2. q # << >> /\ Turns(q, x, round[g]) /\ round[g] \in Seq(Subscribers)
    BY <2>1 DEF TableInv, TableType, TableSound, RoundsSound
  <2>3. Selected(g) = q[(x % Len(q)) + 1].id /\ y = (x + 1) % Len(q)
    BY DEF Selected, NextIndex
  <2>4. y \in Nat
    <3>1. Len(q) \in Nat \ {0} /\ x + 1 \in Nat
      BY <2>1, <2>2, EmptySeq
    <3>2. (x + 1) % Len(q) \in Nat
      <4> HIDE DEF x, q
      <4>1. (x + 1) % Len(q) \in 0..Len(q) - 1
        BY <3>1, ModDiv
      <4> QED BY <4>1
    <3> QED BY <2>3, <3>2
  <2>5. [groups[g] EXCEPT !.rr = y] \in R /\ [groups[g] EXCEPT !.rr = y].members = q
    <3> HIDE DEF y
    <3> QED BY <2>1, <2>4
  <2>6. nr(g) = IF Len(round[g]) = Len(q) THEN <<Selected(g)>> ELSE Append(round[g], Selected(g))
    OBVIOUS
  <2> DEFINE nd == nr(g)
             s == Selected(g)
             rd == round[g]
  <2> HIDE DEF q, x, nd, y, s, rd
  <2>7. nd \in Seq(Subscribers) /\ Turns(q, (x + 1) % Len(q), nd)
    <3>1. nd = IF Len(rd) = Len(q) THEN <<s>> ELSE Append(rd, s)
      BY <2>6 DEF nd, s, rd
    <3>2. s = q[(x % Len(q)) + 1].id
      BY <2>3 DEF s
    <3>3. rd \in Seq(Subscribers) /\ Turns(q, x, rd)
      BY <2>2 DEF rd
    <3> QED BY <2>1, <2>2, <3>1, <3>2, <3>3, TurnTaken
  <2> QED BY <2>3, <2>5, <2>7 DEF q, x, nd, y
<1> HIDE DEF R, nr
<1>3. TableType'
  <2>1. \A g \in DOMAIN groups : groups[g] \in R
    BY DEF TableInv, TableType, R
  <2>2. groups' \in [DOMAIN groups -> R]
    BY <1>1, <1>2, <2>1
  <2>3. round' \in [Groups -> Seq(Subscribers)]
    BY <1>1, <1>2 DEF TableInv, TableType
  <2> QED BY <1>1, <2>2, <2>3 DEF TableInv, TableType, R
<1>4. ASSUME NEW g \in DOMAIN groups
      PROVE  /\ groups'[g].members = groups[g].members
             /\ groups'[g].rr = IF g \in G THEN NextIndex(g) ELSE groups[g].rr
  <2>1. groups[g] \in R
    BY DEF TableInv, TableType, R
  <2> QED BY <1>1, <2>1 DEF R
<1>5. TableSound'
  BY <1>1, <1>4 DEF TableInv, TableSound
<1>6. RoundsSound'
  <2> SUFFICES ASSUME NEW g \in Groups
               PROVE  IF g \in DOMAIN groups
                        THEN Turns(groups'[g].members, groups'[g].rr, round'[g])
                        ELSE round'[g] = << >>
    BY <1>1 DEF RoundsSound
  <2>1. CASE g \in G
    BY <1>1, <1>2, <1>4, <2>1
  <2>2. CASE g \notin G
    BY <1>1, <1>4, <2>2 DEF TableInv, RoundsSound
  <2> QED BY <2>1, <2>2
<1> QED BY <1>1, <1>3, <1>4, <1>5, <1>6 DEF TableInv

LEMMA UnregisterTopicStep ==
  ASSUME UnregisterTopic
  PROVE  TableInv' /\ subs' = << >> /\ DOMAIN groups' = {}
<1>1. DOMAIN groups' = {} /\ groups' \in [{} -> [members : Seq(Entries), rr : Nat]]
  BY DEF UnregisterTopic
<1>2. << >> \in Seq(Entries) /\ << >> \in Seq(Subscribers) /\ Len(<< >>) = 0
  OBVIOUS
<1>3. round' = [g \in Groups |-> << >>] /\ subs' = << >>
  BY DEF UnregisterTopic, NoRound
<1>4. TableType'
  BY <1>1, <1>2, <1>3 DEF TableType
<1>5. TableSound'
  BY <1>1, <1>2, <1>3 DEF TableSound, Unique
<1>6. RoundsSound'
  BY <1>1, <1>3 DEF RoundsSound
<1> QED BY <1>1, <1>3, <1>4, <1>5, <1>6 DEF TableInv

(* Consecutive members, at most as many as there are, are different.       *)
LEMMA TableInvFair == TableInv => RoundRobinFair
<1> SUFFICES ASSUME TableInv, NEW g \in Groups,
                    NEW i \in 1..Len(round[g]), NEW j \in 1..Len(round[g]),
                    round[g][i] = round[g][j]
             PROVE  i = j
  BY DEF RoundRobinFair
<1> DEFINE rd == round[g]
           q == groups[g].members
<1>1. rd \in Seq(Subscribers) /\ rd # << >>
  BY EmptySeq DEF TableInv, TableType
<1>2. g \in DOMAIN groups /\ Turns(q, groups[g].rr, rd) /\ q \in Seq(Entries) /\ Unique(q)
  BY <1>1 DEF TableInv, TableType, TableSound, RoundsSound
<1> HIDE DEF rd, q
<1>3. PICK a \in 0..Len(q) - 1 :
        \A k \in 1..Len(rd) : rd[k] = q[Wrap(a + k - 1, Len(q)) + 1].id
  BY <1>1, <1>2 DEF Turns
<1>4. Len(q) \in Nat /\ Len(rd) \in Nat /\ Len(rd) <= Len(q)
  BY <1>1, <1>2 DEF Turns
<1>5. i \in 1..Len(rd) /\ j \in 1..Len(rd) /\ rd[i] = rd[j]
  BY DEF rd
<1>6. /\ Wrap(a + i - 1, Len(q)) + 1 \in 1..Len(q)
      /\ Wrap(a + j - 1, Len(q)) + 1 \in 1..Len(q)
  BY <1>4, <1>5 DEF Wrap
<1>7. Wrap(a + i - 1, Len(q)) + 1 = Wrap(a + j - 1, Len(q)) + 1
  BY <1>2, <1>3, <1>5, <1>6 DEF Unique
<1>8. Wrap(a + i - 1, Len(q)) = Wrap(a + j - 1, Len(q))
  <2> DEFINE x == Wrap(a + i - 1, Len(q))
             y == Wrap(a + j - 1, Len(q))
  <2>1. x \in Int /\ y \in Int
    BY <1>4, <1>5 DEF Wrap
  <2>2. x + 1 = y + 1
    BY <1>7
  <2> HIDE DEF x, y
  <2>3. x = y
    BY <2>1, <2>2
  <2> QED BY <2>3 DEF x, y
<1>9. Len(q) \in Nat \ {0} /\ i \in 1..Len(q) /\ j \in 1..Len(q)
  BY <1>4, <1>5
<1> QED BY <1>8, <1>9, WrapInjective
=============================================================================
