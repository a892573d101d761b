-------------------------- MODULE PublishPathProofs --------------------------
(***************************************************************************)
(* Proofs about PublishPath, for any producers, threads, batch sizes,      *)
(* rates and lengths of the run.                                           *)
(***************************************************************************)
EXTENDS PublishPath, SequenceTheorems, FiniteSetTheorems, TLAPS

TypeInv ==
  /\ drawn \in [Producers -> SUBSET Seqs] /\ batched \in [Producers -> SUBSET Seqs]
  /\ confirmed \in [Producers -> SUBSET Seqs]
  /\ next \in [Producers -> Nat \ {0}] /\ maxSeq \in [Producers -> Nat]
  /\ stored \in [Producers -> [Seqs -> Nat]]
  /\ accepted \in Nat /\ now \in Nat /\ DOMAIN connB = Producers

(* What may be on the wire: a message on its own has a sequence id that    *)
(* was drawn, is no longer with the client and was never put in a batch;   *)
(* a batch, or the repetition of part of one, has ids that were.           *)
Singles(p) == {[batch |-> FALSE, seqs |-> {s}] :
                 s \in (1..next[p] - 1) \ (drawn[p] \cup batched[p])}
Batches(p) == {[batch |-> TRUE, seqs |-> S] : S \in SUBSET batched[p]}

ClientInv ==
  \A p \in Producers :
    /\ 1..next[p] - 1 \subseteq Seqs
    /\ drawn[p] \subseteq 1..next[p] - 1 /\ batched[p] \subseteq 1..next[p] - 1
    /\ drawn[p] \cap batched[p] = {}
    /\ wire[p] \in Seq(Singles(p) \cup Batches(p))

(* The window is below the ids to come, its mark was stored and is in no   *)
(* batch, sent or to come, and what was stored on its own was stored once  *)
(* and is not above the mark.                                              *)
WindowInv ==
  \A p \in Producers :
    /\ maxSeq[p] <= next[p] - 1
    /\ maxSeq[p] # 0 => /\ stored[p][maxSeq[p]] >= 1
                        /\ maxSeq[p] \notin drawn[p] \cup batched[p]
    /\ \A s \in Seqs \ batched[p] :
         stored[p][s] <= 1 /\ (stored[p][s] = 1 => s <= maxSeq[p])

(* A producer that waits has at most its last id unconfirmed, so that an   *)
(* id the window takes for a duplicate is the mark itself or confirmed.    *)
WaitInv ==
  \A p \in Waiting :
    /\ 1..next[p] - 2 \subseteq confirmed[p]
    /\ \A s \in confirmed[p] \ batched[p] : stored[p][s] >= 1

(* A bucket that has granted g tokens since it was made, at or after 0.    *)
Buckets(rate) == [tokens : Nat, last : Nat, rate : {rate}, burst : {Burst}]
Bounded(b, g, rate) ==
  /\ b \in Buckets(rate) /\ b.last <= now
  /\ g * Unit + b.tokens <= Burst * Unit + b.last * rate

RateInv ==
  /\ Bounded(globalB, accepted, GlobalRate)
  /\ \A p \in Producers :
       /\ IsFiniteSet(Copies(p))
       /\ \/ connB[p] = NoBucket /\ OfProducer(p) = 0
          \/ Bounded(connB[p], OfProducer(p), ConnRate)

IInv == TypeInv /\ ClientInv /\ WindowInv /\ WaitInv /\ RateInv
-----------------------------------------------------------------------------
(* The rates and the burst.                                                *)
LEMMA Rates ==
  /\ Unit \in Nat /\ Unit >= 1
  /\ ConnRate \in Nat /\ GlobalRate \in Nat /\ Burst \in Nat /\ MaxSeq \in Nat
BY RatesAssumption, BoundsAssumption DEF RatesAssumption, BoundsAssumption

(* Products of natural numbers, for the steps that need them.              *)
LEMMA Products ==
  ASSUME NEW a \in Nat, NEW b \in Nat, NEW c \in Nat
  PROVE  /\ a * c \in Nat /\ (a + b) * c = a * c + b * c
         /\ a <= b => a * c <= b * c
<1>1. a * c \in Nat /\ b * c \in Nat /\ (a + b) * c = a * c + b * c
  OBVIOUS
<1>2. ASSUME a <= b PROVE a * c <= b * c
  <2>1. PICK d \in Nat : b = a + d
    <3>1. b - a \in Nat /\ b = a + (b - a)
      BY <1>2
    <3> QED BY <3>1
  <2>2. b * c = a * c + d * c /\ d * c \in Nat
    BY <2>1
  <2> QED BY <1>1, <2>2
<1> QED BY <1>1, <1>2

(* Acquire moves tokens from the bucket to what was granted, and what time *)
(* has brought is at most what the rate brings.                            *)
LEMMA AcquiredBounded ==
  ASSUME now \in Nat, NEW rate \in Nat, NEW b, NEW g \in Nat, NEW n \in Nat,
         Bounded(b, g, rate)
  PROVE  /\ Bounded(Bucket!Acquired(b, now, n), g, rate)
         /\ Bucket!Grants(b, now, n) =>
              Bounded(Bucket!Acquired(b, now, n), g + n, rate)
<1> DEFINE av == Bucket!Available(b, now)
           c == Bucket!Acquired(b, now, n)
           d == now - b.last
           left == IF av >= n * Unit THEN av - n * Unit ELSE av
<1>1. /\ b.tokens \in Nat /\ b.last \in Nat /\ b.rate = rate /\ b.burst = Burst
      /\ b.last <= now /\ d \in Nat
      /\ g * Unit + b.tokens <= Burst * Unit + b.last * rate
  BY DEF Bounded, Buckets
<1>2. /\ d * rate \in Nat /\ b.last * rate \in Nat /\ now * rate \in Nat
      /\ now * rate = b.last * rate + d * rate
      /\ g * Unit \in Nat /\ n * Unit \in Nat /\ Burst * Unit \in Nat
      /\ (g + n) * Unit = g * Unit + n * Unit
  <2>1. d * rate \in Nat /\ b.last * rate \in Nat /\ now * rate \in Nat
    BY <1>1, Products
  <2>2. now = b.last + d
    BY <1>1
  <2>3. now * rate = b.last * rate + d * rate
    <3> HIDE DEF d
    <3>1. (b.last + d) * rate = b.last * rate + d * rate
      BY <1>1, Products
    <3> QED BY <2>2, <3>1
  <2>4. /\ g * Unit \in Nat /\ n * Unit \in Nat /\ Burst * Unit \in Nat
        /\ (g + n) * Unit = g * Unit + n * Unit
    BY Rates, Products
  <2> QED BY <2>1, <2>3, <2>4
<1>3. av \in Nat /\ av <= b.tokens + d * rate
  <2> HIDE DEF d
  <2>1. av = IF b.tokens + d * rate > Burst * Unit THEN Burst * Unit ELSE b.tokens + d * rate
    BY <1>1 DEF Bucket!Available, Bucket!Earned, d
  <2> HIDE DEF av
  <2> QED BY <1>1, <1>2, <2>1
<1>4. /\ c = [tokens |-> left, last |-> now, rate |-> rate, burst |-> Burst]
      /\ Bucket!Grants(b, now, n) <=> av >= n * Unit
  BY <1>1 DEF Bucket!Acquired, Bucket!Grants
<1> HIDE DEF av, d
<1>5. left \in Nat /\ left <= av /\ (av >= n * Unit => left + n * Unit = av)
  BY <1>2, <1>3
<1> HIDE DEF left
<1>6. c \in Buckets(rate) /\ c.last = now /\ c.tokens = left
  BY <1>4, <1>5 DEF Buckets
<1> HIDE DEF c
<1>7. g * Unit + left <= Burst * Unit + now * rate
  BY <1>1, <1>2, <1>3, <1>5
<1>8. av >= n * Unit => (g + n) * Unit + left <= Burst * Unit + now * rate
  BY <1>1, <1>2, <1>3, <1>5
<1>9. Bounded(c, g, rate) /\ (av >= n * Unit => Bounded(c, g + n, rate))
  BY <1>6, <1>7, <1>8 DEF Bounded
<1> QED BY <1>4, <1>9 DEF c

(* Who has granted less is bounded too.                                    *)
LEMMA FewerBounded ==
  ASSUME NEW rate \in Nat, NEW b, NEW g \in Nat, NEW h \in Nat, h <= g,
         Bounded(b, g, rate)
  PROVE  Bounded(b, h, rate)
<1>1. h * Unit <= g * Unit /\ h * Unit \in Nat /\ g * Unit \in Nat
  BY Rates, Products
<1>2. b.tokens \in Nat /\ b.last \in Nat
  BY DEF Bounded, Buckets
<1>3. b.last * rate \in Nat /\ Burst * Unit \in Nat
  BY <1>2, Rates, Products
<1>4. h * Unit + b.tokens <= Burst * Unit + b.last * rate
  BY <1>1, <1>2, <1>3 DEF Bounded
<1> QED BY <1>4 DEF Bounded

(* A bucket that has just been made has granted nothing.                   *)
LEMMA NewBounded ==
  ASSUME now \in Nat, NEW rate \in Nat
  PROVE  Bounded(Bucket!NewBucket(rate, Burst, now), 0, rate)
<1>1. Burst * Unit \in Nat /\ now * rate \in Nat
  BY Rates, Products
<1> DEFINE b == Bucket!NewBucket(rate, Burst, now)
<1>2. b = [tokens |-> Burst * Unit, last |-> now, rate |-> rate, burst |-> Burst]
  BY DEF Bucket!NewBucket
<1>3. b \in Buckets(rate) /\ b.last = now /\ b.tokens = Burst * Unit
  BY <1>1, <1>2, Rates DEF Buckets
<1> HIDE DEF b
<1>4. 0 * Unit = 0
  BY Rates
<1>5. Bounded(b, 0, rate)
  BY <1>1, <1>3, <1>4 DEF Bounded
<1> QED BY <1>5 DEF b

(* The limiter a connection has, or gets with its first request.           *)
LEMMA ConnBucketBounded ==
  ASSUME TypeInv, RateInv, NEW p \in Producers
  PROVE  Bounded(ConnBucket(p), OfProducer(p), ConnRate) /\ OfProducer(p) \in Nat
<1> DEFINE b == connB[p]
           g == OfProducer(p)
<1>1. g \in Nat /\ now \in Nat
  BY FS_CardinalityType DEF RateInv, OfProducer, TypeInv
<1>2. (b = NoBucket /\ g = 0) \/ Bounded(b, g, ConnRate)
  BY DEF RateInv
<1> HIDE DEF g, b
<1>3. CASE b = NoBucket
  <2>1. ASSUME Bounded(b, g, ConnRate) PROVE g = 0
    <3>1. b.tokens = 0 /\ b.last = 0 /\ Burst = 0 /\ ConnRate \in Nat
      BY <1>3, <2>1, Rates DEF Bounded, Buckets, NoBucket
    <3>2. g * Unit + 0 <= 0 * Unit + 0 * ConnRate
      BY <2>1, <3>1 DEF Bounded
    <3>3. 0 * Unit = 0 /\ 0 * ConnRate = 0 /\ g * Unit \in Nat
      BY <1>1, Rates
    <3>4. g * Unit = 0
      BY <3>2, <3>3
    <3>5. g * Unit >= g
      BY <1>1, Rates
    <3> QED BY <1>1, <3>4, <3>5
  <2>2. g = 0
    BY <1>2, <2>1
  <2>3. ConnBucket(p) = Bucket!NewBucket(ConnRate, Burst, now)
    BY <1>3 DEF ConnBucket, b
  <2> QED BY <1>1, <2>2, <2>3, NewBounded, Rates DEF g
<1>4. CASE b # NoBucket
  BY <1>1, <1>2, <1>4 DEF ConnBucket, b, g
<1> QED BY <1>3, <1>4

(* The store has at most Cardinality(S) more copies when it has taken S.   *)
LEMMA CopiesGrow ==
  ASSUME TypeInv, RateInv, NEW p \in Producers, NEW S \in SUBSET Seqs, IsFiniteSet(S),
         Stored(p, S)
  PROVE  /\ IsFiniteSet(Copies(p)') /\ OfProducer(p)' \in Nat
         /\ OfProducer(p)' <= OfProducer(p) + Cardinality(S)
         /\ \A r \in Producers : r # p => Copies(r)' = Copies(r)
<1> DEFINE C == Copies(p)
           D == Copies(p)'
           T == {<<s, stored[p][s] + 1>> : s \in S}
           f == [s \in S |-> <<s, stored[p][s] + 1>>]
<1>1. /\ stored \in [Producers -> [Seqs -> Nat]]
      /\ stored' = [stored EXCEPT ![p] = [s \in Seqs |->
                      IF s \in S THEN stored[p][s] + 1 ELSE stored[p][s]]]
  BY DEF TypeInv, Stored
<1>2. /\ \A s \in Seqs : stored'[p][s] = IF s \in S THEN stored[p][s] + 1 ELSE stored[p][s]
      /\ \A s \in Seqs : stored[p][s] \in Nat
      /\ \A r \in Producers : r # p => stored'[r] = stored[r]
  BY <1>1
<1>3. D \subseteq C \cup T
  <2> SUFFICES ASSUME NEW s \in Seqs, NEW i \in 1..stored'[p][s]
               PROVE  <<s, i>> \in C \cup T
    BY DEF Copies
  <2>1. CASE i \in 1..stored[p][s]
    <3>1. <<s, i>> \in {s} \X (1..stored[p][s])
      BY <2>1
    <3> QED BY <3>1 DEF Copies
  <2>2. CASE i \notin 1..stored[p][s]
    <3>1. stored'[p][s] = IF s \in S THEN stored[p][s] + 1 ELSE stored[p][s]
      BY <1>2
    <3>2. stored[p][s] \in Nat
      BY <1>2
    <3>3. s \in S /\ i = stored[p][s] + 1
      BY <2>2, <3>1, <3>2
    <3> QED BY <3>3
  <2> QED BY <2>1, <2>2
<1>4. IsFiniteSet(T) /\ Cardinality(T) <= Cardinality(S)
  <2>1. f \in [S -> T] /\ \A t \in T : \E s \in S : f[s] = t
    OBVIOUS
  <2> HIDE DEF f, T
  <2>2. f \in Surjection(S, T)
    BY <2>1 DEF Surjection
  <2> QED BY <2>2, FS_Surjection
<1>5. IsFiniteSet(C) /\ OfProducer(p) = Cardinality(C) /\ OfProducer(p)' = Cardinality(D)
  BY DEF RateInv, OfProducer
<1> HIDE DEF C, D, T
<1>6. IsFiniteSet(C \cup T) /\ Cardinality(C \cup T) <= Cardinality(C) + Cardinality(T)
  <2>1. /\ IsFiniteSet(C \cup T) /\ IsFiniteSet(C \cap T)
        /\ Cardinality(C \cup T) = Cardinality(C) + Cardinality(T) - Cardinality(C \cap T)
    BY <1>4, <1>5, FS_Union, FS_Intersection
  <2>2. Cardinality(C \cap T) \in Nat /\ Cardinality(C) \in Nat /\ Cardinality(T) \in Nat
    BY <1>4, <1>5, <2>1, FS_CardinalityType
  <2> QED BY <2>1, <2>2
<1>7. IsFiniteSet(D) /\ Cardinality(D) <= Cardinality(C \cup T)
  BY <1>3, <1>6, FS_Subset
<1>8. /\ Cardinality(D) \in Nat /\ Cardinality(C) \in Nat /\ Cardinality(T) \in Nat
      /\ Cardinality(S) \in Nat /\ Cardinality(C \cup T) \in Nat
  BY <1>4, <1>5, <1>6, <1>7, FS_CardinalityType
<1>9. Cardinality(D) <= Cardinality(C) + Cardinality(S)
  BY <1>4, <1>6, <1>7, <1>8
<1>10. \A r \in Producers : r # p => Copies(r)' = Copies(r)
  BY <1>2 DEF Copies
<1> QED BY <1>5, <1>7, <1>8, <1>9, <1>10 DEF D

(* A handler that stores nothing, whichever limiters it has asked.         *)
LEMMA RefusedRates ==
  ASSUME TypeInv, RateInv, NEW p \in Producers, NEW n \in Nat,
         UNCHANGED <<now, stored, accepted>>,
         AskConn(p, n) \/ connB' = connB,
         AskGlobal(n) \/ globalB' = globalB
  PROVE  RateInv'
<1>1. \A r \in Producers : Copies(r)' = Copies(r) /\ OfProducer(r)' = OfProducer(r)
  BY DEF Copies, OfProducer
<1>2. Bounded(globalB', accepted, GlobalRate)
  <2>1. Bounded(globalB, accepted, GlobalRate) /\ accepted \in Nat /\ now \in Nat
    BY DEF RateInv, TypeInv
  <2>2. CASE AskGlobal(n)
    BY <2>1, <2>2, AcquiredBounded, Rates DEF AskGlobal
  <2> QED BY <2>1, <2>2
<1>3. ASSUME NEW r \in Producers
      PROVE  \/ connB'[r] = NoBucket /\ OfProducer(r) = 0
             \/ Bounded(connB'[r], OfProducer(r), ConnRate)
  <2>1. connB'[r] = connB[r] \/ (r = p /\ connB'[r] = Bucket!Acquired(ConnBucket(p), now, n))
    BY DEF AskConn, TypeInv
  <2>2. CASE connB'[r] = connB[r]
    BY <2>2 DEF RateInv
  <2>3. CASE r = p /\ connB'[r] = Bucket!Acquired(ConnBucket(p), now, n)
    <3>1. Bounded(ConnBucket(p), OfProducer(p), ConnRate) /\ OfProducer(p) \in Nat /\ now \in Nat
      BY ConnBucketBounded DEF TypeInv
    <3>2. Bounded(Bucket!Acquired(ConnBucket(p), now, n), OfProducer(p), ConnRate)
      BY <3>1, AcquiredBounded, Rates
    <3> QED BY <2>3, <3>2
  <2> QED BY <2>1, <2>2, <2>3
<1>4. Bounded(globalB, accepted, GlobalRate)'
  BY <1>2 DEF Bounded
<1>5. ASSUME NEW r \in Producers
      PROVE  \/ connB'[r] = NoBucket /\ OfProducer(r)' = 0
             \/ Bounded(connB[r], OfProducer(r), ConnRate)'
  BY <1>1, <1>3 DEF Bounded
<1>6. \A r \in Producers : IsFiniteSet(Copies(r)')
  BY <1>1 DEF RateInv
<1> QED BY <1>4, <1>5, <1>6 DEF RateInv

(* A handler that stores S after both limiters granted as many tokens.     *)
LEMMA AcceptedRates ==
  ASSUME TypeInv, RateInv, NEW p \in Producers, NEW n \in Nat,
         NEW S \in SUBSET Seqs, IsFiniteSet(S), Cardinality(S) <= n,
         Stored(p, S), UNCHANGED now, AskConn(p, n), AskGlobal(n),
         ConnAllows(p, n), GlobalAllows(n)
  PROVE  RateInv' /\ accepted' \in Nat
<1>1. /\ IsFiniteSet(Copies(p)') /\ OfProducer(p)' \in Nat
      /\ OfProducer(p)' <= OfProducer(p) + Cardinality(S)
      /\ \A r \in Producers : r # p => Copies(r)' = Copies(r)
  BY CopiesGrow
<1>2. now \in Nat /\ accepted \in Nat /\ Cardinality(S) \in Nat /\ DOMAIN connB = Producers
  BY FS_CardinalityType DEF TypeInv
<1>3. accepted' = accepted + Cardinality(S) /\ accepted' \in Nat /\ accepted' <= accepted + n
  BY <1>2 DEF Stored
<1>4. Bounded(globalB', accepted', GlobalRate)
  <2>1. Bounded(globalB, accepted, GlobalRate)
    BY DEF RateInv
  <2>2. Bounded(globalB', accepted + n, GlobalRate)
    BY <1>2, <2>1, AcquiredBounded, Rates DEF AskGlobal, GlobalAllows
  <2>3. accepted + n \in Nat
    BY <1>2
  <2> QED BY <1>3, <2>2, <2>3, FewerBounded, Rates
<1>5. Bounded(connB'[p], OfProducer(p)', ConnRate)
  <2>1. Bounded(ConnBucket(p), OfProducer(p), ConnRate) /\ OfProducer(p) \in Nat
    BY ConnBucketBounded
  <2>2. connB'[p] = Bucket!Acquired(ConnBucket(p), now, n)
    BY <1>2 DEF AskConn
  <2>3. Bounded(connB'[p], OfProducer(p) + n, ConnRate)
    BY <1>2, <2>1, <2>2, AcquiredBounded, Rates DEF ConnAllows
  <2>4. OfProducer(p) + n \in Nat /\ OfProducer(p)' <= OfProducer(p) + n
    BY <1>1, <1>2, <2>1
  <2> QED BY <1>1, <2>3, <2>4, FewerBounded, Rates
<1>6. ASSUME NEW r \in Producers
      PROVE  /\ IsFiniteSet(Copies(r)')
             /\ \/ connB'[r] = NoBucket /\ OfProducer(r)' = 0
                \/ Bounded(connB[r], OfProducer(r), ConnRate)'
  <2>1. CASE r = p
    BY <1>1, <1>5, <2>1 DEF Bounded
  <2>2. CASE r # p
    <3>1. Copies(r)' = Copies(r) /\ connB'[r] = connB[r] /\ OfProducer(r)' = OfProducer(r)
      BY <1>1, <1>2, <2>2 DEF AskConn, OfProducer
    <3> QED BY <3>1 DEF RateInv, Bounded
  <2> QED BY <2>1, <2>2
<1>7. Bounded(globalB, accepted, GlobalRate)'
  BY <1>4 DEF Bounded
<1> QED BY <1>3, <1>6, <1>7 DEF RateInv
-----------------------------------------------------------------------------
(* The first request on the wire.                                          *)
LEMMA RequestIs ==
  ASSUME TypeInv, ClientInv, NEW p \in Producers, wire[p] # << >>
  PROVE  /\ Request(p) \in Singles(p) \cup Batches(p)
         /\ Tail(wire[p]) \in Seq(Singles(p) \cup Batches(p))
<1>1. wire[p] \in Seq(Singles(p) \cup Batches(p))
  BY DEF ClientInv
<1> QED BY <1>1, HeadTailProperties DEF Request

LEMMA SingleIs ==
  ASSUME TypeInv, ClientInv, NEW p \in Producers, Single(p)
  PROVE  /\ Request(p).seqs = {SeqOf(p)}
         /\ SeqOf(p) \in (1..next[p] - 1) \ (drawn[p] \cup batched[p])
         /\ SeqOf(p) \in Seqs /\ SeqOf(p) \in Nat \ {0}
<1>1. Request(p) \in Singles(p) \cup Batches(p) /\ ~Request(p).batch
  BY RequestIs DEF Single
<1>2. Request(p) \notin Batches(p)
  BY <1>1 DEF Batches
<1>3. PICK s \in (1..next[p] - 1) \ (drawn[p] \cup batched[p]) :
        Request(p) = [batch |-> FALSE, seqs |-> {s}]
  BY <1>1, <1>2 DEF Singles
<1>4. Request(p).seqs = {s}
  BY <1>3
<1>5. SeqOf(p) = s
  BY <1>4 DEF SeqOf
<1>6. s \in Seqs /\ s \in Nat \ {0}
  <2>1. s \in Seqs
    BY <1>3 DEF ClientInv
  <2> QED BY <2>1, Rates DEF Seqs
<1> QED BY <1>3, <1>4, <1>5, <1>6

LEMMA BatchIs ==
  ASSUME TypeInv, ClientInv, NEW p \in Producers, Batch(p)
  PROVE  /\ Request(p).seqs \subseteq batched[p] /\ Request(p).seqs \subseteq Seqs
         /\ IsFiniteSet(Request(p).seqs) /\ Size(p) \in Nat
<1>1. Request(p) \in Singles(p) \cup Batches(p) /\ Request(p).batch
  BY RequestIs DEF Batch
<1>2. Request(p) \notin Singles(p)
  BY <1>1 DEF Singles
<1>3. Request(p).seqs \subseteq batched[p]
  BY <1>1, <1>2 DEF Batches
<1>4. batched[p] \subseteq Seqs
  BY DEF TypeInv
<1>5. IsFiniteSet(Seqs)
  BY Rates, FS_Interval DEF Seqs
<1>6. IsFiniteSet(Request(p).seqs)
  BY <1>3, <1>4, <1>5, FS_Subset
<1> QED BY <1>3, <1>4, <1>6, FS_CardinalityType DEF Size

(* What every handler does to the client: it takes the request.            *)
LEMMA AnswerStep ==
  ASSUME TypeInv, ClientInv, NEW p \in Producers, wire[p] # << >>,
         Request(p).seqs \subseteq Seqs, NEW ok, Answer(p, ok)
  PROVE  /\ ClientInv' /\ UNCHANGED <<drawn, batched, next, now>>
         /\ confirmed' \in [Producers -> SUBSET Seqs]
         /\ confirmed'[p] \subseteq confirmed[p] \cup Request(p).seqs
         /\ ok \/ confirmed' = confirmed
         /\ \A r \in Producers : /\ confirmed[r] \subseteq confirmed'[r]
                                 /\ r # p => confirmed'[r] = confirmed[r]
<1>1. /\ wire' = [wire EXCEPT ![p] = Tail(@)]
      /\ confirmed' = [confirmed EXCEPT ![p] =
                         IF ok THEN confirmed[p] \cup Request(p).seqs ELSE confirmed[p]]
      /\ UNCHANGED <<drawn, batched, next, now>>
  BY DEF Answer
<1>2. confirmed \in [Producers -> SUBSET Seqs]
  BY DEF TypeInv
<1>3. confirmed'[p] = (IF ok THEN confirmed[p] \cup Request(p).seqs ELSE confirmed[p])
  BY <1>1, <1>2
<1>4. \A r \in Producers : r # p => confirmed'[r] = confirmed[r]
  BY <1>1, <1>2
<1>5. confirmed' \in [Producers -> SUBSET Seqs]
  BY <1>1, <1>2
<1>6. ok \/ confirmed' = confirmed
  BY <1>1, <1>2
<1>7. ASSUME NEW r \in Producers
      PROVE  wire'[r] \in Seq(Singles(r) \cup Batches(r))
  <2>1. CASE r = p
    <3>1. Tail(wire[p]) \in Seq(Singles(p) \cup Batches(p))
      BY RequestIs
    <3>2. wire'[p] = wire[p] \/ wire'[p] = Tail(wire[p])
      BY <1>1
    <3> QED BY <2>1, <3>1, <3>2 DEF ClientInv
  <2>2. CASE r # p
    BY <1>1, <2>2 DEF ClientInv
  <2> QED BY <2>1, <2>2
<1>8. ClientInv'
  BY <1>1, <1>7 DEF ClientInv, Singles, Batches
<1> QED BY <1>1, <1>3, <1>4, <1>5, <1>6, <1>8
-----------------------------------------------------------------------------
(* A handler that stores nothing and confirms nothing new.                 *)
LEMMA RefusedStep ==
  ASSUME IInv, NEW p \in Producers, wire[p] # << >>, Request(p).seqs \subseteq Seqs,
         NEW n \in Nat, Answer(p, FALSE), NothingStored, UNCHANGED maxSeq,
         AskConn(p, n) \/ connB' = connB, AskGlobal(n) \/ globalB' = globalB
  PROVE  IInv'
<1>0. TypeInv /\ ClientInv /\ RateInv
  BY DEF IInv
<1>1. /\ ClientInv' /\ UNCHANGED <<drawn, batched, next, now>> /\ confirmed' = confirmed
  BY <1>0, AnswerStep
<1>2. UNCHANGED <<stored, accepted>>
  BY DEF NothingStored
<1>3. RateInv'
  BY <1>0, <1>1, <1>2, RefusedRates
<1>4. DOMAIN connB' = Producers
  BY <1>0 DEF TypeInv, AskConn
<1>5. TypeInv'
  BY <1>0, <1>1, <1>2, <1>4 DEF TypeInv
<1>6. WindowInv' /\ WaitInv'
  BY <1>1, <1>2 DEF IInv, WindowInv, WaitInv
<1> QED BY <1>1, <1>3, <1>5, <1>6 DEF IInv

(* HandlePublish of a sequence id that the window knows.  A producer that  *)
(* waits has had it confirmed, or it is the mark.                          *)
LEMMA PublishDuplicateStep ==
  ASSUME IInv, NEW p \in Producers, PublishDuplicate(p)
  PROVE  IInv'
<1> DEFINE s == SeqOf(p)
<1>0. TypeInv /\ ClientInv /\ RateInv /\ WindowInv /\ WaitInv /\ Single(p) /\ wire[p] # << >>
  BY DEF IInv, PublishDuplicate, Single
<1>1. /\ Request(p).seqs = {s} /\ s \in (1..next[p] - 1) \ (drawn[p] \cup batched[p])
      /\ s \in Seqs /\ s \in Nat \ {0}
  BY <1>0, SingleIs
<1>2. /\ UNCHANGED <<stored, accepted, batchOn, maxSeq, connB, globalB>>
      /\ maxSeq[p] # 0 /\ s <= maxSeq[p] /\ Answer(p, TRUE)
  BY DEF PublishDuplicate, NothingStored, serverVars, IsDuplicate
<1> HIDE DEF s
<1>3. /\ ClientInv' /\ UNCHANGED <<drawn, batched, next, now>>
      /\ confirmed' \in [Producers -> SUBSET Seqs]
      /\ confirmed'[p] \subseteq confirmed[p] \cup {s}
      /\ \A r \in Producers : /\ confirmed[r] \subseteq confirmed'[r]
                              /\ r # p => confirmed'[r] = confirmed[r]
  BY <1>0, <1>1, <1>2, AnswerStep
<1>4. RateInv'
  BY <1>0, <1>2, <1>3, RefusedRates
<1>5. TypeInv'
  BY <1>0, <1>2, <1>3 DEF TypeInv
<1>6. WindowInv'
  BY <1>0, <1>2, <1>3 DEF WindowInv
<1>7. ASSUME p \in Waiting PROVE stored[p][s] >= 1
  <2>1. next[p] \in Nat \ {0} /\ maxSeq[p] \in Nat /\ maxSeq[p] <= next[p] - 1
    BY <1>0 DEF TypeInv, WindowInv
  <2>2. CASE s = maxSeq[p]
    BY <1>0, <1>2, <2>2 DEF WindowInv
  <2>3. CASE s # maxSeq[p]
    <3>1. s \in 1..next[p] - 2
      BY <1>1, <1>2, <2>1, <2>3
    <3>2. s \in confirmed[p] \ batched[p]
      BY <1>0, <1>1, <1>7, <3>1 DEF WaitInv
    <3> QED BY <1>0, <1>7, <3>2 DEF WaitInv
  <2> QED BY <2>2, <2>3
<1>8. WaitInv'
  <2> SUFFICES ASSUME NEW r \in Waiting
               PROVE  /\ 1..next[r] - 2 \subseteq confirmed'[r]
                      /\ \A t \in confirmed'[r] \ batched[r] : stored[r][t] >= 1
    BY <1>2, <1>3 DEF WaitInv
  <2>1. r \in Producers
    BY WaitingAssumption DEF WaitingAssumption
  <2>2. /\ 1..next[r] - 2 \subseteq confirmed[r] /\ confirmed[r] \subseteq confirmed'[r]
        /\ \A t \in confirmed[r] \ batched[r] : stored[r][t] >= 1
    BY <1>0, <1>3, <2>1 DEF WaitInv
  <2>3. \A t \in confirmed'[r] : t \in confirmed[r] \/ (r = p /\ t = s)
    BY <1>3, <2>1
  <2> QED BY <1>7, <2>2, <2>3
<1> QED BY <1>3, <1>4, <1>5, <1>6, <1>8 DEF IInv

(* HandlePublish of a sequence id that is above the mark: it was not       *)
(* stored before.                                                          *)
LEMMA PublishStoredStep ==
  ASSUME IInv, NEW p \in Producers, PublishStored(p)
  PROVE  IInv'
<1> DEFINE s == SeqOf(p)
<1>0. TypeInv /\ ClientInv /\ RateInv /\ WindowInv /\ WaitInv /\ Single(p) /\ wire[p] # << >>
  BY DEF IInv, PublishStored, Single
<1>1. /\ Request(p).seqs = {s} /\ s \in (1..next[p] - 1) \ (drawn[p] \cup batched[p])
      /\ s \in Seqs /\ s \in Nat \ {0}
  BY <1>0, SingleIs
<1>2. /\ ~(maxSeq[p] # 0 /\ s <= maxSeq[p])
      /\ ConnAllows(p, 1) /\ GlobalAllows(1) /\ AskConn(p, 1) /\ AskGlobal(1)
      /\ Stored(p, {s}) /\ Answer(p, TRUE)
      /\ maxSeq' = [maxSeq EXCEPT ![p] = IF s > maxSeq[p] THEN s ELSE maxSeq[p]]
  BY DEF PublishStored, IsDuplicate, MarkProcessed
<1> HIDE DEF s
<1>3. /\ ClientInv' /\ UNCHANGED <<drawn, batched, next, now>>
      /\ confirmed' \in [Producers -> SUBSET Seqs]
      /\ confirmed'[p] \subseteq confirmed[p] \cup {s}
      /\ \A r \in Producers : /\ confirmed[r] \subseteq confirmed'[r]
                              /\ r # p => confirmed'[r] = confirmed[r]
  BY <1>0, <1>1, <1>2, AnswerStep
<1>4. RateInv' /\ accepted' \in Nat
  <2>1. {s} \in SUBSET Seqs /\ IsFiniteSet({s}) /\ Cardinality({s}) <= 1
    <3>1. IsFiniteSet({s}) /\ Cardinality({s}) = 1
      BY FS_Singleton, Zenon
    <3>2. {s} \in SUBSET Seqs
      BY <1>1
    <3> QED BY <3>1, <3>2
  <2>2. 1 \in Nat
    OBVIOUS
  <2> QED BY <1>0, <1>2, <1>3, <2>1, <2>2, AcceptedRates
<1>5. /\ next[p] \in Nat \ {0} /\ maxSeq[p] \in Nat /\ maxSeq[p] <= next[p] - 1
      /\ maxSeq'[p] = s /\ maxSeq[p] < s
      /\ \A r \in Producers : r # p => maxSeq'[r] = maxSeq[r]
  BY <1>0, <1>1, <1>2 DEF TypeInv, WindowInv
<1>6. stored[p][s] = 0
  <2>1. stored[p][s] \in Nat /\ stored[p][s] <= 1 /\ stored[p][s] # 1
    BY <1>0, <1>1, <1>5 DEF TypeInv, WindowInv
  <2> QED BY <2>1
<1>7. /\ stored' \in [Producers -> [Seqs -> Nat]]
      /\ stored'[p][s] = 1 /\ \A t \in Seqs : t # s => stored'[p][t] = stored[p][t]
      /\ \A r \in Producers : r # p => stored'[r] = stored[r]
  <2>1. stored' = [stored EXCEPT ![p] = [t \in Seqs |->
                     IF t \in {s} THEN stored[p][t] + 1 ELSE stored[p][t]]]
    BY <1>2 DEF Stored
  <2>2. stored \in [Producers -> [Seqs -> Nat]]
    BY <1>0 DEF TypeInv
  <2>3. [t \in Seqs |-> IF t \in {s} THEN stored[p][t] + 1 ELSE stored[p][t]]
          \in [Seqs -> Nat]
    BY <2>2
  <2>4. stored'[p] = [t \in Seqs |-> IF t \in {s} THEN stored[p][t] + 1 ELSE stored[p][t]]
    BY <2>1, <2>2
  <2>5. /\ stored' \in [Producers -> [Seqs -> Nat]]
        /\ \A r \in Producers : r # p => stored'[r] = stored[r]
    BY <2>1, <2>2, <2>3
  <2> QED BY <1>1, <1>6, <2>4, <2>5
<1>8. TypeInv'
  <2>1. maxSeq' \in [Producers -> Nat] /\ DOMAIN connB' = Producers
    BY <1>0, <1>1, <1>2 DEF TypeInv, AskConn
  <2> QED BY <1>0, <1>3, <1>4, <1>7, <2>1 DEF TypeInv
<1>9. WindowInv'
  <2> SUFFICES ASSUME NEW r \in Producers
               PROVE  /\ maxSeq'[r] <= next[r] - 1
                      /\ maxSeq'[r] # 0 => /\ stored'[r][maxSeq'[r]] >= 1
                                           /\ maxSeq'[r] \notin drawn[r] \cup batched[r]
                      /\ \A t \in Seqs \ batched[r] :
                           stored'[r][t] <= 1 /\ (stored'[r][t] = 1 => t <= maxSeq'[r])
    BY <1>3 DEF WindowInv
  <2>1. CASE r # p
    BY <1>0, <1>5, <1>7, <2>1 DEF WindowInv
  <2>2. CASE r = p
    <3>1. /\ maxSeq'[p] <= next[p] - 1 /\ stored'[p][maxSeq'[p]] >= 1
          /\ maxSeq'[p] \notin drawn[p] \cup batched[p]
      BY <1>1, <1>5, <1>7
    <3>2. ASSUME NEW t \in Seqs \ batched[p]
          PROVE  stored'[p][t] <= 1 /\ (stored'[p][t] = 1 => t <= maxSeq'[p])
      <4>1. t \in Nat
        BY Rates DEF Seqs
      <4>2. CASE t = s
        BY <1>1, <1>5, <1>7, <4>2
      <4>3. CASE t # s
        <5>1. /\ stored'[p][t] = stored[p][t]
              /\ stored[p][t] <= 1 /\ (stored[p][t] = 1 => t <= maxSeq[p])
          BY <1>0, <1>7, <4>3 DEF WindowInv
        <5> QED BY <1>1, <1>5, <4>1, <5>1
      <4> QED BY <4>2, <4>3
    <3> QED BY <2>2, <3>1, <3>2
  <2> QED BY <2>1, <2>2
<1>10. WaitInv'
  <2> SUFFICES ASSUME NEW r \in Waiting
               PROVE  /\ 1..next[r] - 2 \subseteq confirmed'[r]
                      /\ \A t \in confirmed'[r] \ batched[r] : stored'[r][t] >= 1
    BY <1>3 DEF WaitInv
  <2>1. r \in Producers
    BY WaitingAssumption DEF WaitingAssumption
  <2>2. /\ 1..next[r] - 2 \subseteq confirmed[r] /\ confirmed[r] \subseteq confirmed'[r]
        /\ confirmed[r] \subseteq Seqs
        /\ \A t \in confirmed[r] \ batched[r] : stored[r][t] >= 1
    BY <1>0, <1>3, <2>1 DEF WaitInv, TypeInv
  <2>3. \A t \in confirmed'[r] : t \in confirmed[r] \/ (r = p /\ t = s)
    BY <1>3, <2>1
  <2>4. \A t \in Seqs : stored[r][t] >= 1 => stored'[r][t] >= 1
    BY <1>7, <2>1
  <2> QED BY <1>7, <2>2, <2>3, <2>4
<1> QED BY <1>3, <1>4, <1>8, <1>9, <1>10 DEF IInv

(* HandleBatchPublish when the store takes S: only ids of batches change.  *)
LEMMA BatchHandledStep ==
  ASSUME IInv, NEW p \in Producers, wire[p] # << >>,
         NEW S \in SUBSET Request(p).seqs, BatchHandled(p, S)
  PROVE  IInv'
<1> DEFINE Q == Request(p).seqs
           n == Size(p)
<1>0. TypeInv /\ ClientInv /\ RateInv /\ WindowInv /\ WaitInv /\ Batch(p)
  BY DEF IInv, BatchHandled
<1>1. Q \subseteq batched[p] /\ Q \subseteq Seqs /\ IsFiniteSet(Q) /\ n \in Nat
  BY <1>0, BatchIs
<1>2. IsFiniteSet(S) /\ Cardinality(S) <= n /\ S \in SUBSET Seqs /\ S \subseteq batched[p]
  BY <1>1, FS_Subset DEF Size
<1>3. /\ ConnAllows(p, n) /\ GlobalAllows(n) /\ AskConn(p, n) /\ AskGlobal(n)
      /\ Stored(p, S) /\ Answer(p, S # {}) /\ UNCHANGED maxSeq
  BY DEF BatchHandled
<1> HIDE DEF n
<1>4. /\ ClientInv' /\ UNCHANGED <<drawn, batched, next, now>>
      /\ confirmed' \in [Producers -> SUBSET Seqs]
      /\ confirmed'[p] \subseteq confirmed[p] \cup Q
      /\ \A r \in Producers : /\ confirmed[r] \subseteq confirmed'[r]
                              /\ r # p => confirmed'[r] = confirmed[r]
  BY <1>0, <1>1, <1>3, AnswerStep
<1>5. RateInv' /\ accepted' \in Nat
  BY <1>0, <1>1, <1>2, <1>3, <1>4, AcceptedRates
<1> HIDE DEF Q
<1>6. /\ stored' \in [Producers -> [Seqs -> Nat]]
      /\ \A r \in Producers : \A t \in Seqs :
           /\ stored'[r][t] \in Nat /\ stored[r][t] \in Nat
           /\ stored'[r][t] >= stored[r][t]
           /\ t \notin batched[r] => stored'[r][t] = stored[r][t]
  <2> DEFINE F == [t \in Seqs |-> IF t \in S THEN stored[p][t] + 1 ELSE stored[p][t]]
  <2>1. stored' = [stored EXCEPT ![p] = F] /\ stored \in [Producers -> [Seqs -> Nat]]
    BY <1>0, <1>3 DEF Stored, TypeInv
  <2>2. F \in [Seqs -> Nat]
    BY <2>1
  <2>3. \A t \in Seqs : F[t] >= stored[p][t] /\ (t \notin batched[p] => F[t] = stored[p][t])
    BY <1>2, <2>1
  <2> HIDE DEF F
  <2>4. stored' \in [Producers -> [Seqs -> Nat]]
    BY <2>1, <2>2
  <2>5. stored'[p] = F /\ \A r \in Producers : r # p => stored'[r] = stored[r]
    BY <2>1
  <2>6. ASSUME NEW r \in Producers, NEW t \in Seqs
        PROVE  /\ stored'[r][t] \in Nat /\ stored[r][t] \in Nat
               /\ stored'[r][t] >= stored[r][t]
               /\ t \notin batched[r] => stored'[r][t] = stored[r][t]
    <3>1. stored'[r][t] \in Nat /\ stored[r][t] \in Nat
      BY <2>1, <2>4
    <3>2. CASE r = p
      BY <2>3, <2>5, <3>1, <3>2
    <3>3. CASE r # p
      BY <2>5, <3>1, <3>3
    <3> QED BY <3>1, <3>2, <3>3
  <2> QED BY <2>4, <2>6
<1>7. TypeInv'
  <2>1. DOMAIN connB' = Producers
    BY <1>0, <1>3 DEF TypeInv, AskConn
  <2> QED BY <1>0, <1>3, <1>4, <1>5, <1>6, <2>1 DEF TypeInv
<1>8. WindowInv'
  <2> SUFFICES ASSUME NEW r \in Producers
               PROVE  /\ maxSeq[r] <= next[r] - 1
                      /\ maxSeq[r] # 0 => /\ stored'[r][maxSeq[r]] >= 1
                                          /\ maxSeq[r] \notin drawn[r] \cup batched[r]
                      /\ \A t \in Seqs \ batched[r] :
                           stored'[r][t] <= 1 /\ (stored'[r][t] = 1 => t <= maxSeq[r])
    BY <1>3, <1>4 DEF WindowInv
  <2>1. /\ maxSeq[r] <= next[r] - 1
        /\ maxSeq[r] # 0 => /\ stored[r][maxSeq[r]] >= 1
                            /\ maxSeq[r] \notin drawn[r] \cup batched[r]
        /\ \A t \in Seqs \ batched[r] :
             stored[r][t] <= 1 /\ (stored[r][t] = 1 => t <= maxSeq[r])
    BY <1>0 DEF WindowInv
  <2>2. ASSUME maxSeq[r] # 0 PROVE stored'[r][maxSeq[r]] >= 1
    <3>1. maxSeq[r] \in Nat /\ next[r] \in Nat \ {0} /\ 1..next[r] - 1 \subseteq Seqs
      BY <1>0 DEF TypeInv, ClientInv
    <3>2. maxSeq[r] \in 1..next[r] - 1
      BY <2>1, <2>2, <3>1
    <3>3. maxSeq[r] \in Seqs
      BY <3>1, <3>2
    <3>4. /\ stored'[r][maxSeq[r]] \in Nat /\ stored[r][maxSeq[r]] \in Nat
          /\ stored'[r][maxSeq[r]] >= stored[r][maxSeq[r]]
      BY <1>6, <3>3
    <3> QED BY <2>1, <2>2, <3>4
  <2> QED BY <1>6, <2>1, <2>2
<1>9. WaitInv'
  <2> SUFFICES ASSUME NEW r \in Waiting
               PROVE  /\ 1..next[r] - 2 \subseteq confirmed'[r]
                      /\ \A t \in confirmed'[r] \ batched[r] : stored'[r][t] >= 1
    BY <1>4 DEF WaitInv
  <2>1. r \in Producers
    BY WaitingAssumption DEF WaitingAssumption
  <2>2. /\ 1..next[r] - 2 \subseteq confirmed[r] /\ confirmed[r] \subseteq confirmed'[r]
        /\ confirmed[r] \subseteq Seqs
        /\ \A t \in confirmed[r] \ batched[r] : stored[r][t] >= 1
    BY <1>0, <1>4, <2>1 DEF WaitInv, TypeInv
  <2>3. \A t \in confirmed'[r] : t \in confirmed[r] \/ t \in batched[r]
    BY <1>1, <1>4, <2>1
  <2> QED BY <1>6, <2>1, <2>2, <2>3
<1> QED BY <1>4, <1>5, <1>7, <1>8, <1>9 DEF IInv
-----------------------------------------------------------------------------
(* The requests that are refused: the limiters may have been charged.      *)
LEMMA HandlePublishStep ==
  ASSUME IInv, NEW p \in Producers, HandlePublish(p)
  PROVE  IInv'
<1>1. CASE PublishDuplicate(p)
  BY <1>1, PublishDuplicateStep
<1>2. CASE PublishStored(p)
  BY <1>2, PublishStoredStep
<1>3. CASE PublishConnLimited(p) \/ PublishGlobalLimited(p) \/ PublishFull(p)
  <2>1. Single(p) /\ wire[p] # << >> /\ TypeInv /\ ClientInv /\ 1 \in Nat
    BY <1>3 DEF IInv, Single, PublishConnLimited, PublishGlobalLimited, PublishFull
  <2>2. Request(p).seqs \subseteq Seqs
    BY <2>1, SingleIs
  <2>3. /\ Answer(p, FALSE) /\ NothingStored /\ UNCHANGED maxSeq
        /\ AskConn(p, 1) /\ (AskGlobal(1) \/ globalB' = globalB)
    BY <1>3 DEF PublishConnLimited, PublishGlobalLimited, PublishFull
  <2> QED BY <2>1, <2>2, <2>3, RefusedStep
<1> QED BY <1>1, <1>2, <1>3 DEF HandlePublish

LEMMA HandleBatchPublishStep ==
  ASSUME IInv, NEW p \in Producers, HandleBatchPublish(p)
  PROVE  IInv'
<1>1. CASE wire[p] # << >> /\ \E S \in SUBSET Request(p).seqs : BatchHandled(p, S)
  BY <1>1, BatchHandledStep
<1>2. CASE BatchRefused(p) \/ BatchConnLimited(p) \/ BatchGlobalLimited(p) \/ BatchTooLarge(p)
  <2> DEFINE n == Size(p)
  <2>1. Batch(p) /\ wire[p] # << >> /\ TypeInv /\ ClientInv
    BY <1>2 DEF IInv, Batch, BatchRefused, BatchConnLimited, BatchGlobalLimited, BatchTooLarge
  <2>2. Request(p).seqs \subseteq Seqs /\ n \in Nat
    BY <2>1, BatchIs
  <2>3. /\ Answer(p, FALSE) /\ NothingStored /\ UNCHANGED maxSeq
        /\ AskConn(p, n) \/ connB' = connB
        /\ AskGlobal(n) \/ globalB' = globalB
    BY <1>2 DEF BatchRefused, BatchConnLimited, BatchGlobalLimited, BatchTooLarge, serverVars
  <2> HIDE DEF n
  <2> QED BY <2>1, <2>2, <2>3, RefusedStep
<1> QED BY <1>1, <1>2 DEF HandleBatchPublish
-----------------------------------------------------------------------------
(* An id below the next one stays below it.                                *)
LEMMA Below ==
  ASSUME NEW a \in Nat \ {0}
  PROVE  /\ 1..a - 1 \subseteq 1..(a + 1) - 1 /\ (a + 1) - 2 = a - 1
         /\ a \in 1..(a + 1) - 1 /\ a \notin 1..a - 1
         /\ (1..(a + 1) - 1) \ {a} = 1..a - 1
OBVIOUS

(* GetNextSequenceId: a producer that waits has all earlier ids confirmed. *)
LEMMA DrawStep ==
  ASSUME IInv, NEW p \in Producers, Draw(p)
  PROVE  IInv'
<1> DEFINE a == next[p]
<1>0. TypeInv /\ ClientInv /\ RateInv /\ WindowInv /\ WaitInv
  BY DEF IInv
<1>1. /\ a \in Seqs /\ (p \in Waiting => confirmed[p] = 1..a - 1)
      /\ drawn' = [drawn EXCEPT ![p] = @ \cup {a}] /\ next' = [next EXCEPT ![p] = a + 1]
      /\ UNCHANGED <<batched, confirmed, wire, maxSeq, connB, globalB, now, stored, accepted>>
  BY DEF Draw, serverVars
<1>2. /\ drawn'[p] = drawn[p] \cup {a} /\ next'[p] = a + 1 /\ a \in Nat \ {0}
      /\ \A r \in Producers : r # p => drawn'[r] = drawn[r] /\ next'[r] = next[r]
      /\ drawn' \in [Producers -> SUBSET Seqs] /\ next' \in [Producers -> Nat \ {0}]
  BY <1>0, <1>1 DEF TypeInv
<1> HIDE DEF a
<1>3. TypeInv'
  BY <1>0, <1>1, <1>2 DEF TypeInv
<1>4. ClientInv'
  <2> SUFFICES ASSUME NEW r \in Producers
               PROVE  /\ 1..next'[r] - 1 \subseteq Seqs
                      /\ drawn'[r] \subseteq 1..next'[r] - 1 /\ batched[r] \subseteq 1..next'[r] - 1
                      /\ drawn'[r] \cap batched[r] = {}
                      /\ wire[r] \in Seq((Singles(r) \cup Batches(r))')
    BY <1>1 DEF ClientInv
  <2>1. /\ 1..next[r] - 1 \subseteq Seqs
        /\ drawn[r] \subseteq 1..next[r] - 1 /\ batched[r] \subseteq 1..next[r] - 1
        /\ drawn[r] \cap batched[r] = {}
        /\ wire[r] \in Seq(Singles(r) \cup Batches(r))
    BY <1>0 DEF ClientInv
  <2>2. CASE r # p
    <3>1. Singles(r)' = Singles(r) /\ Batches(r)' = Batches(r)
      BY <1>1, <1>2, <2>2 DEF Singles, Batches
    <3> QED BY <1>2, <2>1, <2>2, <3>1
  <2>3. CASE r = p
    <3>1. /\ 1..a - 1 \subseteq 1..next'[p] - 1 /\ a \in 1..next'[p] - 1 /\ a \notin 1..a - 1
          /\ (1..next'[p] - 1) \ {a} = 1..a - 1
      BY <1>2, Below
    <3>2. next[r] = a /\ next'[r] = next'[p] /\ drawn'[r] = drawn[r] \cup {a}
      BY <1>2, <2>3 DEF a
    <3>3. (1..next'[r] - 1) \ (drawn'[r] \cup batched[r])
            = (1..next[r] - 1) \ (drawn[r] \cup batched[r])
      BY <3>1, <3>2
    <3>4. Singles(r)' = Singles(r) /\ Batches(r)' = Batches(r)
      BY <1>1, <3>3 DEF Singles, Batches
    <3>5. 1..next'[r] - 1 \subseteq Seqs
      BY <1>1, <2>1, <3>1, <3>2
    <3> QED BY <2>1, <3>1, <3>2, <3>4, <3>5
  <2> QED BY <2>2, <2>3
<1>5. WindowInv'
  <2> SUFFICES ASSUME NEW r \in Producers
               PROVE  /\ maxSeq[r] <= next'[r] - 1
                      /\ maxSeq[r] # 0 => maxSeq[r] \notin drawn'[r] \cup batched[r]
    BY <1>0, <1>1 DEF WindowInv
  <2>1. /\ maxSeq[r] <= next[r] - 1 /\ maxSeq[r] \in Nat /\ next[r] \in Nat
        /\ maxSeq[r] # 0 => maxSeq[r] \notin drawn[r] \cup batched[r]
    BY <1>0 DEF WindowInv, TypeInv
  <2>2. next'[r] = next[r] \/ next'[r] = next[r] + 1
    BY <1>2 DEF a
  <2>3. drawn'[r] \subseteq drawn[r] \cup {next[r]}
    BY <1>2 DEF a
  <2> QED BY <2>1, <2>2, <2>3
<1>6. WaitInv'
  <2> SUFFICES ASSUME NEW r \in Waiting PROVE 1..next'[r] - 2 \subseteq confirmed[r]
    BY <1>0, <1>1 DEF WaitInv
  <2>1. r \in Producers
    BY WaitingAssumption DEF WaitingAssumption
  <2>2. CASE r # p
    BY <1>0, <1>2, <2>1, <2>2 DEF WaitInv
  <2>3. CASE r = p
    <3>1. next'[r] - 2 = a - 1
      BY <1>2, <2>3, Below
    <3> QED BY <1>1, <2>3, <3>1
  <2> QED BY <2>2, <2>3
<1>7. RateInv'
  BY <1>0, <1>1 DEF RateInv, Bounded, Copies, OfProducer
<1> QED BY <1>3, <1>4, <1>5, <1>6, <1>7 DEF IInv

(* A request joins the wire; its id, or ids, have left the client, and     *)
(* those that were put in a batch are remembered.                          *)
LEMMA PutStep ==
  ASSUME IInv, NEW p \in Producers, NEW r, Put(p, r),
         drawn' \in [Producers -> SUBSET Seqs], batched' \in [Producers -> SUBSET Seqs],
         \A q \in Producers : q # p => drawn'[q] = drawn[q] /\ batched'[q] = batched[q],
         drawn'[p] \cup batched'[p] \subseteq drawn[p] \cup batched[p],
         drawn'[p] \cap batched'[p] = {}, batched[p] \subseteq batched'[p],
         r \in Singles(p)' \cup Batches(p)'
  PROVE  IInv'
<1>0. TypeInv /\ ClientInv /\ RateInv /\ WindowInv /\ WaitInv
  BY DEF IInv
<1>1. /\ wire' = [wire EXCEPT ![p] = Append(@, r)]
      /\ UNCHANGED <<next, confirmed, maxSeq, connB, globalB, now, stored, accepted>>
  BY DEF Put, serverVars
<1>2. TypeInv'
  BY <1>0, <1>1 DEF TypeInv
<1>3. ASSUME NEW q \in Producers
      PROVE  /\ Singles(q) \subseteq Singles(q)' /\ Batches(q) \subseteq Batches(q)'
             /\ batched[q] \subseteq batched'[q]
             /\ drawn'[q] \subseteq 1..next[q] - 1 /\ batched'[q] \subseteq 1..next[q] - 1
             /\ drawn'[q] \cap batched'[q] = {}
  <2>1. /\ drawn[q] \subseteq 1..next[q] - 1 /\ batched[q] \subseteq 1..next[q] - 1
        /\ drawn[q] \cap batched[q] = {}
    BY <1>0 DEF ClientInv
  <2>2. /\ batched[q] \subseteq batched'[q]
        /\ drawn'[q] \cup batched'[q] \subseteq drawn[q] \cup batched[q]
        /\ drawn'[q] \cap batched'[q] = {}
    BY <2>1
  <2>3. Singles(q) \subseteq Singles(q)'
    BY <1>1, <2>2 DEF Singles
  <2>4. Batches(q) \subseteq Batches(q)'
    BY <2>2 DEF Batches
  <2> QED BY <2>1, <2>2, <2>3, <2>4
<1>4. ASSUME NEW q \in Producers
      PROVE  wire'[q] \in Seq((Singles(q) \cup Batches(q))')
  <2> DEFINE A == Singles(q) \cup Batches(q)
             B == (Singles(q) \cup Batches(q))'
  <2>1. wire[q] \in Seq(A) /\ A \subseteq B
    BY <1>0, <1>3 DEF ClientInv
  <2>2. wire'[q] = wire[q] \/ (q = p /\ wire'[q] = Append(wire[q], r))
    BY <1>1
  <2>3. q = p => r \in B
    OBVIOUS
  <2> HIDE DEF A, B
  <2>4. wire[q] \in Seq(B)
    BY <2>1
  <2>5. r \in B => Append(wire[q], r) \in Seq(B)
    BY <2>4, AppendProperties
  <2>6. wire'[q] \in Seq(B)
    BY <2>2, <2>3, <2>4, <2>5
  <2> QED BY <2>6 DEF B
<1>5. ClientInv'
  BY <1>0, <1>1, <1>3, <1>4 DEF ClientInv
<1>6. WindowInv'
  <2>1. \A q \in Producers : drawn'[q] \cup batched'[q] \subseteq drawn[q] \cup batched[q]
    OBVIOUS
  <2> QED BY <1>0, <1>1, <1>3, <2>1 DEF WindowInv
<1>7. WaitInv'
  <2>1. \A q \in Waiting : q \in Producers
    BY WaitingAssumption DEF WaitingAssumption
  <2> QED BY <1>0, <1>1, <1>3, <2>1 DEF WaitInv
<1>8. RateInv'
  BY <1>0, <1>1 DEF RateInv, Bounded, Copies, OfProducer
<1> QED BY <1>2, <1>5, <1>6, <1>7, <1>8 DEF IInv

LEMMA ClientStep ==
  ASSUME IInv, NEW p \in Producers, Client(p)
  PROVE  IInv'
<1>0. TypeInv /\ ClientInv
  BY DEF IInv
<1>1. /\ drawn[p] \subseteq Seqs /\ batched[p] \subseteq Seqs
      /\ drawn[p] \subseteq 1..next[p] - 1 /\ drawn[p] \cap batched[p] = {}
      /\ drawn \in [Producers -> SUBSET Seqs] /\ batched \in [Producers -> SUBSET Seqs]
      /\ next[p] \in Nat
  BY <1>0 DEF TypeInv, ClientInv
<1>2. CASE Draw(p)
  BY <1>2, DrawStep
<1>3. CASE SendBatch(p)
  <2> DEFINE r == [batch |-> TRUE, seqs |-> drawn[p]]
  <2>1. Put(p, r) /\ drawn' = [drawn EXCEPT ![p] = {}]
        /\ batched' = [batched EXCEPT ![p] = @ \cup drawn[p]]
    BY <1>3 DEF SendBatch
  <2>2. /\ drawn' \in [Producers -> SUBSET Seqs] /\ batched' \in [Producers -> SUBSET Seqs]
        /\ \A q \in Producers : q # p => drawn'[q] = drawn[q] /\ batched'[q] = batched[q]
        /\ drawn'[p] = {} /\ batched'[p] = batched[p] \cup drawn[p]
    BY <1>1, <2>1
  <2>3. r \in Batches(p)'
    BY <2>2 DEF Batches
  <2> HIDE DEF r
  <2> QED BY <2>1, <2>2, <2>3, PutStep
<1>4. ASSUME NEW s \in Seqs, Send(p, s) PROVE IInv'
  <2> DEFINE r == [batch |-> FALSE, seqs |-> {s}]
  <2>1. /\ Put(p, r) /\ drawn' = [drawn EXCEPT ![p] = @ \ {s}] /\ batched' = batched
        /\ s \in drawn[p] /\ next' = next
    BY <1>4 DEF Send, Put
  <2>2. /\ drawn' \in [Producers -> SUBSET Seqs] /\ batched' \in [Producers -> SUBSET Seqs]
        /\ \A q \in Producers : q # p => drawn'[q] = drawn[q] /\ batched'[q] = batched[q]
        /\ drawn'[p] = drawn[p] \ {s} /\ batched'[p] = batched[p]
    BY <1>1, <2>1
  <2>3. s \in (1..next'[p] - 1) \ (drawn'[p] \cup batched'[p])
    BY <1>1, <2>1, <2>2
  <2>4. r \in Singles(p)'
    BY <2>3 DEF Singles
  <2>5. /\ drawn'[p] \cup batched'[p] \subseteq drawn[p] \cup batched[p]
        /\ drawn'[p] \cap batched'[p] = {} /\ batched[p] \subseteq batched'[p]
    BY <1>1, <2>2
  <2> HIDE DEF r
  <2> QED BY <2>1, <2>2, <2>4, <2>5, PutStep
<1>5. ASSUME NEW s \in Seqs, Resend(p, s) PROVE IInv'
  <2> DEFINE r == [batch |-> s \in batched[p], seqs |-> {s}]
  <2>1. /\ Put(p, r) /\ UNCHANGED <<drawn, batched, next>>
        /\ s < next[p] /\ s \notin drawn[p]
    BY <1>5 DEF Resend, Put
  <2>2. r \in Singles(p) \cup Batches(p)
    <3>1. CASE s \in batched[p]
      <4>1. r = [batch |-> TRUE, seqs |-> {s}] /\ {s} \in SUBSET batched[p]
        BY <3>1
      <4> QED BY <4>1 DEF Batches
    <3>2. CASE s \notin batched[p]
      <4>1. s \in Nat \ {0}
        BY Rates DEF Seqs
      <4>2. s \in (1..next[p] - 1) \ (drawn[p] \cup batched[p])
        BY <1>1, <2>1, <3>2, <4>1
      <4>3. r = [batch |-> FALSE, seqs |-> {s}]
        <5>1. (s \in batched[p]) = FALSE
          BY <3>2
        <5> QED BY <5>1
      <4> QED BY <4>2, <4>3 DEF Singles
    <3> QED BY <3>1, <3>2
  <2>3. r \in Singles(p)' \cup Batches(p)'
    BY <2>1, <2>2 DEF Singles, Batches
  <2> HIDE DEF r
  <2> QED BY <1>1, <2>1, <2>3, PutStep
<1> QED BY <1>2, <1>3, <1>4, <1>5 DEF Client
-----------------------------------------------------------------------------
LEMMA TickStep ==
  ASSUME IInv, Tick
  PROVE  IInv'
<1>0. TypeInv /\ ClientInv /\ RateInv /\ WindowInv /\ WaitInv
  BY DEF IInv
<1>1. /\ now' = now + 1 /\ now \in Nat
      /\ UNCHANGED <<drawn, batched, next, confirmed, wire, maxSeq, connB, globalB, stored, accepted>>
  BY <1>0 DEF Tick, clientVars, serverVars, TypeInv
<1>2. TypeInv' /\ WindowInv' /\ WaitInv'
  BY <1>0, <1>1 DEF TypeInv, WindowInv, WaitInv
<1>3. ClientInv'
  BY <1>0, <1>1 DEF ClientInv, Singles, Batches
<1>4. ASSUME NEW b, NEW g, NEW rate, Bounded(b, g, rate)
      PROVE  /\ b \in Buckets(rate) /\ b.last <= now'
             /\ g * Unit + b.tokens <= Burst * Unit + b.last * rate
  <2>1. b.last \in Nat /\ b.last <= now
    BY <1>4 DEF Bounded, Buckets
  <2> QED BY <1>1, <1>4, <2>1 DEF Bounded
<1>5. Bounded(globalB, accepted, GlobalRate)'
  BY <1>0, <1>1, <1>4 DEF RateInv, Bounded
<1>6. ASSUME NEW p \in Producers
      PROVE  /\ IsFiniteSet(Copies(p)')
             /\ \/ connB'[p] = NoBucket /\ OfProducer(p)' = 0
                \/ Bounded(connB[p], OfProducer(p), ConnRate)'
  <2>1. Copies(p)' = Copies(p) /\ OfProducer(p)' = OfProducer(p) /\ connB'[p] = connB[p]
    BY <1>1 DEF Copies, OfProducer
  <2>2. IsFiniteSet(Copies(p)) /\ ((connB[p] = NoBucket /\ OfProducer(p) = 0)
                                   \/ Bounded(connB[p], OfProducer(p), ConnRate))
    BY <1>0 DEF RateInv
  <2>3. CASE Bounded(connB[p], OfProducer(p), ConnRate)
    <3>1. /\ connB[p] \in Buckets(ConnRate) /\ connB[p].last <= now'
          /\ OfProducer(p) * Unit + connB[p].tokens <= Burst * Unit + connB[p].last * ConnRate
      BY <1>4, <2>3
    <3> QED BY <2>1, <2>2, <3>1 DEF Bounded
  <2> QED BY <2>1, <2>2, <2>3
<1>7. RateInv'
  BY <1>5, <1>6 DEF RateInv
<1> QED BY <1>2, <1>3, <1>7 DEF IInv

LEMMA Initially == Init => IInv
<1> SUFFICES ASSUME Init PROVE IInv
  OBVIOUS
<1>1. TypeInv
  BY DEF Init, TypeInv
<1>2. ASSUME NEW p \in Producers
      PROVE  /\ next[p] = 1 /\ drawn[p] = {} /\ batched[p] = {} /\ confirmed[p] = {}
             /\ wire[p] = << >> /\ maxSeq[p] = 0 /\ connB[p] = NoBucket
             /\ \A s \in Seqs : stored[p][s] = 0
  BY DEF Init
<1>3. 1..1 - 1 = {} /\ 1..1 - 2 = {} /\ 1..0 = {}
  OBVIOUS
<1>4. ClientInv
  <2> SUFFICES ASSUME NEW p \in Producers
               PROVE  /\ 1..next[p] - 1 = {} /\ drawn[p] = {} /\ batched[p] = {}
                      /\ wire[p] \in Seq(Singles(p) \cup Batches(p))
    BY DEF ClientInv
  <2>1. 1..next[p] - 1 = {} /\ drawn[p] = {} /\ batched[p] = {} /\ wire[p] = << >>
    BY <1>2, <1>3
  <2>2. << >> \in Seq(Singles(p) \cup Batches(p))
    BY EmptySeq
  <2> QED BY <2>1, <2>2
<1>5. WindowInv
  BY <1>2 DEF WindowInv
<1>6. WaitInv
  <2> SUFFICES ASSUME NEW p \in Waiting
               PROVE  1..next[p] - 2 = {} /\ confirmed[p] = {}
    BY DEF WaitInv
  <2>1. p \in Producers
    BY WaitingAssumption DEF WaitingAssumption
  <2> QED BY <1>2, <1>3, <2>1
<1>7. ASSUME NEW p \in Producers PROVE IsFiniteSet(Copies(p)) /\ OfProducer(p) = 0
  <2>1. Copies(p) = {}
    BY <1>2, <1>3 DEF Copies
  <2> QED BY <2>1, FS_EmptySet DEF OfProducer
<1>8. Bounded(globalB, accepted, GlobalRate)
  <2>1. now = 0 /\ accepted = 0 /\ globalB = Bucket!NewBucket(GlobalRate, Burst, now)
    BY DEF Init
  <2>2. now \in Nat
    BY <2>1
  <2>3. Bounded(Bucket!NewBucket(GlobalRate, Burst, now), 0, GlobalRate)
    BY <2>2, NewBounded, Rates
  <2> QED BY <2>1, <2>3
<1>9. RateInv
  BY <1>2, <1>7, <1>8 DEF RateInv
<1> QED BY <1>1, <1>4, <1>5, <1>6, <1>9 DEF IInv

LEMMA Preserved == IInv /\ [Next]_vars => IInv'
<1> SUFFICES ASSUME IInv, [Next]_vars PROVE IInv'
  OBVIOUS
<1>1. CASE Tick
  BY <1>1, TickStep
<1>2. ASSUME NEW p \in Producers, Client(p) PROVE IInv'
  BY <1>2, ClientStep
<1>3. ASSUME NEW p \in Producers, HandlePublish(p) PROVE IInv'
  BY <1>3, HandlePublishStep
<1>4. ASSUME NEW p \in Producers, HandleBatchPublish(p) PROVE IInv'
  BY <1>4, HandleBatchPublishStep
<1>5. CASE UNCHANGED vars
  <2>1. UNCHANGED <<drawn, batched, next, confirmed, wire, maxSeq, connB, globalB, now,
                    stored, accepted>>
    BY <1>5 DEF vars, clientVars, serverVars
  <2>2. TypeInv' /\ WindowInv' /\ WaitInv'
    BY <2>1 DEF IInv, TypeInv, WindowInv, WaitInv
  <2>3. ClientInv'
    BY <2>1 DEF IInv, ClientInv, Singles, Batches
  <2>4. RateInv'
    BY <2>1 DEF IInv, RateInv, Bounded, Copies, OfProducer
  <2> QED BY <2>2, <2>3, <2>4 DEF IInv
<1> QED BY <1>1, <1>2, <1>3, <1>4, <1>5 DEF Next

(* What the limiters have let through is within the bound now.             *)
LEMMA BoundedNow ==
  ASSUME now \in Nat, NEW rate \in Nat, NEW b, NEW g \in Nat, Bounded(b, g, rate)
  PROVE  g * Unit <= Burst * Unit + now * rate
<1>1. b.tokens \in Nat /\ b.last \in Nat /\ b.last <= now
  BY DEF Bounded, Buckets
<1>2. g * Unit \in Nat /\ Burst * Unit \in Nat
  BY Rates, Products
<1>3. b.last * rate \in Nat /\ now * rate \in Nat /\ b.last * rate <= now * rate
  BY <1>1, Products
<1> QED BY <1>1, <1>2, <1>3 DEF Bounded

LEMMA InvImpliesRates == IInv => RatesBounded
<1> SUFFICES ASSUME IInv PROVE RatesBounded
  OBVIOUS
<1>0. TypeInv /\ RateInv /\ now \in Nat /\ accepted \in Nat
  BY DEF IInv, TypeInv
<1>1. accepted * Unit <= Burst * Unit + now * GlobalRate
  BY <1>0, BoundedNow, Rates DEF RateInv
<1>2. ASSUME NEW p \in Producers
      PROVE  OfProducer(p) * Unit <= Burst * Unit + now * ConnRate
  <2>1. OfProducer(p) \in Nat
    BY <1>0, ConnBucketBounded
  <2>2. CASE OfProducer(p) = 0
    <3>1. 0 * Unit = 0 /\ Burst * Unit \in Nat /\ now * ConnRate \in Nat
      BY <1>0, Rates, Products
    <3> QED BY <2>2, <3>1
  <2>3. CASE Bounded(connB[p], OfProducer(p), ConnRate)
    BY <1>0, <2>1, <2>3, BoundedNow, Rates
  <2> QED BY <1>0, <2>2, <2>3 DEF RateInv
<1> QED BY <1>1, <1>2 DEF RatesBounded
-----------------------------------------------------------------------------
(* The conjunction of the parts above is an invariant of publishing.       *)
THEOREM IInvHolds == Spec => []IInv
BY Initially, Preserved, PTL DEF Spec

(* A message published on its own, with HandlePublish, is in the store at  *)
(* most once, for any number of producers, threads and repetitions.        *)
THEOREM StoredOnce == Spec => []StoredAtMostOnce
<1>1. IInv => StoredAtMostOnce
  BY DEF IInv, WindowInv, StoredAtMostOnce
<1> QED BY <1>1, IInvHolds, PTL

(* The high-water mark that MarkProcessed leaves in the dedup window is    *)
(* exactly the largest id the store took from a publish of its own.        *)
THEOREM WindowIsTracked == Spec => []WindowTracksStore
<1>1. IInv => WindowTracksStore
  <2> SUFFICES ASSUME IInv, NEW p \in Producers
               PROVE  /\ maxSeq[p] \in StoredAlone(p) \cup {0}
                      /\ \A s \in StoredAlone(p) : s <= maxSeq[p]
    BY DEF WindowTracksStore
  <2>1. /\ maxSeq[p] \in Nat /\ next[p] \in Nat \ {0} /\ 1..next[p] - 1 \subseteq Seqs
        /\ maxSeq[p] <= next[p] - 1 /\ \A s \in Seqs : stored[p][s] \in Nat
    <3>1. maxSeq[p] \in Nat /\ next[p] \in Nat \ {0} /\ \A s \in Seqs : stored[p][s] \in Nat
      BY DEF IInv, TypeInv
    <3>2. 1..next[p] - 1 \subseteq Seqs
      BY DEF IInv, ClientInv
    <3>3. maxSeq[p] <= next[p] - 1
      BY DEF IInv, WindowInv
    <3> QED BY <3>1, <3>2, <3>3
  <2>2. ASSUME maxSeq[p] # 0 PROVE maxSeq[p] \in StoredAlone(p)
    <3>1. maxSeq[p] \in Seqs
      BY <2>1, <2>2
    <3> QED BY <2>2, <3>1 DEF IInv, WindowInv, StoredAlone
  <2>3. ASSUME NEW s \in StoredAlone(p) PROVE s <= maxSeq[p]
    <3>1. s \in Seqs \ batched[p] /\ stored[p][s] >= 1 /\ stored[p][s] \in Nat
      BY <2>1 DEF StoredAlone
    <3>2. stored[p][s] <= 1 /\ (stored[p][s] = 1 => s <= maxSeq[p])
      BY <3>1 DEF IInv, WindowInv
    <3> QED BY <3>1, <3>2
  <2> QED BY <2>2, <2>3
<1> QED BY <1>1, IInvHolds, PTL

(* A producer that waits for each confirmation can believe it: a duplicate *)
(* answered with success was stored by an earlier request.                 *)
THEOREM ConfirmedStaysStored == Spec => []ConfirmedIsStored
<1>1. IInv => ConfirmedIsStored
  BY DEF IInv, WaitInv, ConfirmedIsStored
<1> QED BY <1>1, IInvHolds, PTL

(* The two token buckets bound what the handlers put in the store, in all  *)
(* and per connection, for all rates and bursts.                           *)
THEOREM RatesStayBounded == Spec => []RatesBounded
BY InvImpliesRates, IInvHolds, PTL
=============================================================================
