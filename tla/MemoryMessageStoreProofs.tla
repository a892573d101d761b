---------------------- MODULE MemoryMessageStoreProofs ----------------------
(***************************************************************************)
(* Proofs about MemoryMessageStore, for every set of consumers and every   *)
(* value of the retry limit, the ring capacity and the bounds.             *)
(***************************************************************************)
EXTENDS MemoryMessageStore, SequenceTheorems, TLAPS

(* RemoveAt drops one element and closes the gap.                          *)
LEMMA RemoveAtProps ==
  ASSUME NEW S, NEW s \in Seq(S), NEW i \in 1..Len(s)
  PROVE  /\ RemoveAt(s, i) \in Seq(S)
         /\ Len(RemoveAt(s, i)) = Len(s) - 1
         /\ \A k \in 1..Len(s) - 1 :
              RemoveAt(s, i)[k] = IF k < i THEN s[k] ELSE s[k + 1]
<1> DEFINE a == SubSeq(s, 1, i - 1)
           b == SubSeq(s, i + 1, Len(s))
<1>1. Len(s) \in Nat /\ \A k \in 1..Len(s) : s[k] \in S
  OBVIOUS
<1>2. /\ a \in Seq(S) /\ Len(a) = i - 1
      /\ \A k \in 1..i - 1 : a[k] = s[k]
  <2>1. \A k \in 1..i - 1 : s[k] \in S
    BY <1>1
  <2> QED BY <1>1, <2>1, SubSeqProperties
<1>3. /\ b \in Seq(S) /\ Len(b) = Len(s) - i
      /\ \A k \in 1..Len(s) - i : b[k] = s[i + k]
  <2>1. \A k \in i + 1..Len(s) : s[k] \in S
    BY <1>1
  <2> QED BY <1>1, <2>1, SubSeqProperties
<1> HIDE DEF a, b
<1>4. /\ a \o b \in Seq(S)
      /\ Len(a \o b) = Len(a) + Len(b)
      /\ \A k \in 1..Len(a) + Len(b) :
           (a \o b)[k] = IF k <= Len(a) THEN a[k] ELSE b[k - Len(a)]
  BY <1>2, <1>3, ConcatProperties
<1>5. RemoveAt(s, i) = a \o b
  BY DEF RemoveAt, a, b
<1>6. ASSUME NEW k \in 1..Len(s) - 1
      PROVE  (a \o b)[k] = IF k < i THEN s[k] ELSE s[k + 1]
  <2>0. k \in Int /\ i \in Int /\ k >= 1 /\ k <= Len(s) - 1
    BY <1>1
  <2>1. CASE k < i
    BY <2>0, <2>1, <1>1, <1>2, <1>3, <1>4
  <2>2. CASE ~(k < i)
    <3>1. /\ k - (i - 1) \in 1..Len(s) - i /\ i + (k - (i - 1)) = k + 1
          /\ ~(k <= Len(a)) /\ k \in 1..Len(a) + Len(b)
      BY <2>0, <2>2, <1>1, <1>2, <1>3
    <3>2. (a \o b)[k] = b[k - (i - 1)]
      BY <3>1, <1>2, <1>4
    <3>3. b[k - (i - 1)] = s[i + (k - (i - 1))]
      BY <3>1, <1>3
    <3> QED BY <2>2, <3>1, <3>2, <3>3
  <2> QED BY <2>1, <2>2
<1> QED BY <1>1, <1>2, <1>3, <1>4, <1>5, <1>6

(* The elements of RemoveAt(s, i) are those of s at the other positions.   *)
LEMMA RemoveAtElements ==
  ASSUME NEW S, NEW s \in Seq(S), NEW i \in 1..Len(s)
  PROVE  /\ RemoveAt(s, i) \in Seq(S)
         /\ \A k \in 1..Len(RemoveAt(s, i)) :
              \E l \in 1..Len(s) : l # i /\ RemoveAt(s, i)[k] = s[l]
         /\ \A l \in 1..Len(s) : l # i =>
              \E k \in 1..Len(RemoveAt(s, i)) : RemoveAt(s, i)[k] = s[l]
<1> DEFINE r == RemoveAt(s, i)
<1>1. /\ r \in Seq(S) /\ Len(r) = Len(s) - 1
      /\ \A k \in 1..Len(s) - 1 : r[k] = IF k < i THEN s[k] ELSE s[k + 1]
  BY RemoveAtProps
<1>2. Len(s) \in Nat /\ i \in Int
  OBVIOUS
<1> HIDE DEF r
<1>3. ASSUME NEW k \in 1..Len(r)
      PROVE  \E l \in 1..Len(s) : l # i /\ r[k] = s[l]
  <2>1. CASE k < i
    BY <1>1, <1>2, <2>1
  <2>2. CASE ~(k < i)
    <3>1. k + 1 \in 1..Len(s) /\ k + 1 # i /\ r[k] = s[k + 1]
      BY <1>1, <1>2, <2>2
    <3> QED BY <3>1
  <2> QED BY <2>1, <2>2
<1>4. ASSUME NEW l \in 1..Len(s), l # i
      PROVE  \E k \in 1..Len(r) : r[k] = s[l]
  <2>1. CASE l < i
    BY <1>1, <1>2, <2>1
  <2>2. CASE l > i
    <3>1. l - 1 \in 1..Len(r) /\ r[l - 1] = s[l]
      BY <1>1, <1>2, <2>2
    <3> QED BY <3>1
  <2> QED BY <1>2, <1>4, <2>1, <2>2
<1> QED BY <1>1, <1>3, <1>4 DEF r

(* Without leaves the other messages in place and removes the given one.   *)
LEMMA WithoutProps ==
  ASSUME NEW q \in Seq(Messages), NEW id,
         \A i, j \in 1..Len(q) : q[i].id = q[j].id => i = j
  PROVE  /\ Without(q, id) \in Seq(Messages)
         /\ \A k \in 1..Len(Without(q, id)) :
              /\ Without(q, id)[k].id # id
              /\ \E l \in 1..Len(q) : Without(q, id)[k] = q[l]
         /\ \A i, j \in 1..Len(Without(q, id)) :
              Without(q, id)[i].id = Without(q, id)[j].id => i = j
         /\ \A l \in 1..Len(q) : q[l].id # id =>
              \E k \in 1..Len(Without(q, id)) : Without(q, id)[k] = q[l]
<1>1. CASE ~\E k \in 1..Len(q) : q[k].id = id
  BY <1>1 DEF Without
<1>2. CASE \E k \in 1..Len(q) : q[k].id = id
  <2> DEFINE n == CHOOSE k \in 1..Len(q) : q[k].id = id
             w == RemoveAt(q, n)
  <2>1. n \in 1..Len(q) /\ q[n].id = id
    BY <1>2
  <2>2. Without(q, id) = w
    BY <1>2 DEF Without
  <2> HIDE DEF n
  <2>3. /\ w \in Seq(Messages) /\ Len(w) = Len(q) - 1
        /\ \A k \in 1..Len(q) - 1 : w[k] = IF k < n THEN q[k] ELSE q[k + 1]
    BY <2>1, RemoveAtProps
  <2> HIDE DEF w
  <2>4. Len(q) \in Nat
    OBVIOUS
  <2>5. \A l \in 1..Len(q) : q[l].id # id => \E k \in 1..Len(w) : w[k] = q[l]
    <3> SUFFICES ASSUME NEW l \in 1..Len(q), q[l].id # id
                 PROVE  \E k \in 1..Len(w) : w[k] = q[l]
      OBVIOUS
    <3>1. CASE l < n
      BY <3>1, <2>1, <2>3, <2>4
    <3>2. CASE l > n
      <4>1. l - 1 \in 1..Len(w) /\ w[l - 1] = q[l]
        BY <3>2, <2>1, <2>3, <2>4
      <4> QED BY <4>1
    <3> QED BY <3>1, <3>2, <2>1, <2>4
  <2>6. \A k \in 1..Len(w) : w[k].id # id /\ \E l \in 1..Len(q) : w[k] = q[l]
    BY <2>1, <2>3, <2>4
  <2>7. \A i, j \in 1..Len(w) : w[i].id = w[j].id => i = j
    BY <2>1, <2>3, <2>4
  <2> QED BY <2>2, <2>3, <2>5, <2>6, <2>7
<1> QED BY <1>1, <1>2

(* What the other proofs use of the type invariant.                        *)
LEMMA TypeFacts ==
  ASSUME TypeOK
  PROVE  /\ Ids \subseteq Nat /\ published \subseteq Nat /\ nextId \in Nat
         /\ nextId >= 1 /\ \A x \in published : x >= 1
         /\ ring \in Seq(Ids) /\ log \in Seq(Ids)
         /\ \A k \in 1..Len(log) : log[k] \in Nat
         /\ retryQ \in Seq(Messages) /\ dlq \in Seq(Messages)
         /\ offset \in [Consumers -> 0..MaxId + 1]
         /\ \A c \in Consumers : offset[c] \in Nat
         /\ dead \subseteq Ids
         /\ pending \subseteq Deliveries /\ due \subseteq pending
         /\ todo \subseteq due /\ clock \subseteq expired
         /\ pull \in Pulls
         /\ phase \in {"drain", "pull"} => pull.c \in Consumers
<1>1. Ids \subseteq Nat
  BY MaxIdAssumption DEF Ids
<1>2. /\ nextId \in Nat /\ nextId >= 1 /\ \A x \in published : x >= 1
      /\ \A c \in Consumers : offset[c] \in Nat
  BY MaxIdAssumption DEF TypeOK, Ids
<1>3. \A k \in 1..Len(log) : log[k] \in Nat
  <2>1. \A k \in 1..Len(log) : log[k] \in Ids
    BY DEF TypeOK
  <2> QED BY <1>1, <2>1
<1> QED BY <1>1, <1>2, <1>3 DEF TypeOK

(* The loops of Pull advance one of its counters at a time.                *)
LEMMA PullsUpdate ==
  ASSUME NEW q \in Pulls
  PROVE  /\ [q EXCEPT !.i = @ + 1] \in Pulls
         /\ [q EXCEPT !.i = @ + 1].c = q.c
         /\ [q EXCEPT !.j = @ + 1] \in Pulls
         /\ [q EXCEPT !.j = @ + 1].c = q.c
         /\ q.n < q.max => /\ [q EXCEPT !.n = @ + 1] \in Pulls
                           /\ [q EXCEPT !.n = @ + 1].c = q.c
                           /\ [q EXCEPT !.i = @ + 1, !.n = @ + 1] \in Pulls
                           /\ [q EXCEPT !.i = @ + 1, !.n = @ + 1].c = q.c
<1>1. /\ q = [c |-> q.c, max |-> q.max, n |-> q.n, i |-> q.i, j |-> q.j]
      /\ q.c \in Consumers \cup {{}} /\ q.max \in 0..MaxPull
      /\ q.n \in 0..MaxPull /\ q.i \in Nat /\ q.j \in Nat
  BY DEF Pulls
<1>2. [q EXCEPT !.i = @ + 1]
        = [c |-> q.c, max |-> q.max, n |-> q.n, i |-> q.i + 1, j |-> q.j]
  BY <1>1
<1>3. [q EXCEPT !.j = @ + 1]
        = [c |-> q.c, max |-> q.max, n |-> q.n, i |-> q.i, j |-> q.j + 1]
  BY <1>1
<1>4. [q EXCEPT !.n = @ + 1]
        = [c |-> q.c, max |-> q.max, n |-> q.n + 1, i |-> q.i, j |-> q.j]
  BY <1>1
<1>5. [q EXCEPT !.i = @ + 1, !.n = @ + 1]
        = [c |-> q.c, max |-> q.max, n |-> q.n + 1, i |-> q.i + 1, j |-> q.j]
  <2>1. [q EXCEPT !.i = @ + 1, !.n = @ + 1]
          = [[q EXCEPT !.i = @ + 1] EXCEPT !.n = @ + 1]
    BY <1>1
  <2>2. [[c |-> q.c, max |-> q.max, n |-> q.n, i |-> q.i + 1, j |-> q.j]
           EXCEPT !.n = @ + 1]
          = [c |-> q.c, max |-> q.max, n |-> q.n + 1, i |-> q.i + 1, j |-> q.j]
    OBVIOUS
  <2> QED BY <2>1, <2>2, <1>2
<1>6. q.n < q.max => q.n + 1 \in 0..MaxPull
  BY <1>1, MaxPullAssumption
<1>7. q.i + 1 \in Nat /\ q.j + 1 \in Nat
  BY <1>1
<1> QED BY <1>1, <1>2, <1>3, <1>4, <1>5, <1>6, <1>7 DEF Pulls

(* Every step keeps the types.                                             *)
LEMMA TypeStep ==
  ASSUME IInv, Next
  PROVE  TypeOK'
<1> USE DEF TypeOK, msgVars, lockVars, history
<1>0. TypeOK /\ LockSound /\ CursorSound /\ RetryQueueSound
  BY DEF IInv
<1>1. CASE CreateTopic
  BY <1>0, <1>1, MaxRetryAssumption, MaxPullAssumption, MaxIdAssumption DEF
     CreateTopic
<1>2. CASE DeleteTopic
  <2>1. clock = {} /\ todo = {}
    BY <1>0, <1>2 DEF DeleteTopic, LockSound
  <2>2. 1 \in 1..MaxId + 1 /\ 0 \in 0..MaxId + 1
    BY MaxIdAssumption
  <2>3. offset' \in [Consumers -> 0..MaxId + 1] /\ nextId' \in 1..MaxId + 1
    BY <2>2, <1>2 DEF DeleteTopic
  <2>4. /\ ring' = << >> /\ log' = << >> /\ retryQ' = << >> /\ dlq' = << >>
        /\ pending' = {} /\ due' = {} /\ mortal' = {} /\ expired' = {} /\ huge' = {}
        /\ published' = {} /\ acked' = {} /\ dead' = {} /\ live' = FALSE
        /\ clock' = {} /\ todo' = {}
        /\ UNCHANGED <<phase, pull, cur>>
    BY <2>1, <1>2 DEF DeleteTopic
  <2>5. << >> \in Seq(Ids) /\ << >> \in Seq(Messages)
    OBVIOUS
  <2>6. /\ phase' = "none" /\ pull' \in Pulls /\ cur' \subseteq Consumers
    BY <1>0, <1>2 DEF DeleteTopic
  <2>7. live' \in BOOLEAN
    BY <2>4
  <2> QED BY <2>3, <2>4, <2>5, <2>6, <2>7
<1>3. ASSUME NEW ttl \in BOOLEAN, NEW big \in BOOLEAN, PublishOk(ttl, big)
      PROVE  TypeOK'
  <2>1. nextId \in Ids /\ nextId' \in 1..MaxId + 1
    BY <1>0, <1>3, MaxIdAssumption DEF PublishOk, Ids
  <2>2. ring' \in Seq(Ids)
    BY <1>0, <1>3, <2>1, AppendProperties DEF PublishOk
  <2>3. /\ live' \in BOOLEAN /\ mortal' \subseteq Ids /\ published' \subseteq Ids
        /\ expired' \subseteq mortal'
    BY <1>0, <1>3, <2>1 DEF PublishOk
  <2> QED BY <1>0, <1>3, <2>1, <2>2, <2>3 DEF PublishOk
<1>4. CASE PublishFull
  BY <1>0, <1>4, MaxRetryAssumption, MaxPullAssumption, MaxIdAssumption DEF
     PublishFull, Ids
<1>5. ASSUME NEW c \in Consumers, NEW max \in 0..MaxPull, PullBegin(c, max)
      PROVE  TypeOK'
  <2>1. 0 \in 0..MaxPull /\ 1 \in Nat
    BY MaxPullAssumption
  <2>2. pull' \in Pulls /\ pull'.c \in Consumers /\ phase' = "drain"
    BY <1>5, <2>1 DEF PullBegin, Pulls
  <2> QED BY <1>0, <1>5, <2>2 DEF PullBegin
<1>6. CASE DrainStep
  <2>1. ring # << >> /\ ring \in Seq(Ids) /\ log \in Seq(Ids)
    BY <1>0, <1>6 DEF DrainStep, PopFails
  <2>2. Head(ring) \in Ids /\ Tail(ring) \in Seq(Ids)
    BY <2>1, HeadTailProperties
  <2>3. ring' \in Seq(Ids) /\ log' \in Seq(Ids)
    BY <1>6, <2>1, <2>2, AppendProperties DEF DrainStep, Drained
  <2> QED BY <1>0, <1>6, <2>3 DEF DrainStep
<1>7. CASE DrainEnd
  BY <1>0, <1>7, MaxRetryAssumption, MaxPullAssumption, MaxIdAssumption DEF
     DrainEnd
<1>8. CASE PullSkip
  <2>1. pull' \in Pulls /\ pull'.c = pull.c
    BY <1>0, PullsUpdate, <1>8 DEF PullSkip
  <2> QED BY <1>0, <2>1, <1>8 DEF PullSkip
<1>9. CASE PullSkipExpired
  <2>1. phase = "pull" /\ pull.i \in 1..Len(log) /\ pull.n < pull.max
    BY <1>0, <1>9 DEF PullSkipExpired, InLogLoop, CursorSound, Pulls
  <2>2. log[pull.i] \in Ids /\ pull.c \in Consumers
    BY <1>0, <2>1
  <2>3. offset' \in [Consumers -> 0..MaxId + 1]
    <3>1. NextOffset(log[pull.i]) \in 0..MaxId + 1
      BY <2>2, MaxIdAssumption DEF NextOffset, Ids
    <3> QED BY <1>0, <3>1, <1>9 DEF PullSkipExpired
  <2>4. pull' \in Pulls /\ pull'.c = pull.c
    BY <1>0, PullsUpdate, <1>9 DEF PullSkipExpired
  <2> QED BY <1>0, <2>3, <2>4, <1>9 DEF PullSkipExpired
<1>10. CASE PullTake
  <2>1. phase = "pull" /\ pull.i \in 1..Len(log) /\ pull.n < pull.max
    BY <1>0, <1>10 DEF PullTake, InLogLoop, CursorSound, Pulls
  <2>2. log[pull.i] \in Ids /\ pull.c \in Consumers
    BY <1>0, <2>1
  <2>3. offset' \in [Consumers -> 0..MaxId + 1]
    <3>1. NextOffset(log[pull.i]) \in 0..MaxId + 1
      BY <2>2, MaxIdAssumption DEF NextOffset, Ids
    <3> QED BY <1>0, <3>1, <1>10 DEF PullTake
  <2>4. pull' \in Pulls /\ pull'.c = pull.c
    BY <1>0, <2>1, PullsUpdate, <1>10 DEF PullTake
  <2>5. pending' \subseteq Deliveries
    BY <1>0, <2>2, MaxRetryAssumption, <1>10 DEF PullTake, Delivery, Deliveries
  <2> QED BY <1>0, <2>3, <2>4, <2>5, <1>10 DEF PullTake
<1>11. CASE RetryDropExpired
  <2>1. phase = "pull" /\ pull.j \in 1..Len(retryQ) /\ pull.n < pull.max
    BY <1>0, <1>11 DEF RetryDropExpired, InRetryLoop, CursorSound, Pulls
  <2>2. retryQ' \in Seq(Messages)
    BY <1>0, <2>1, RemoveAtProps, <1>11 DEF RetryDropExpired
  <2> QED BY <1>0, <2>2, <1>11 DEF RetryDropExpired
<1>12. CASE RetryTake
  <2>1. phase = "pull" /\ pull.j \in 1..Len(retryQ) /\ pull.n < pull.max
    BY <1>0, <1>12 DEF RetryTake, InRetryLoop, CursorSound, Pulls
  <2>2. retryQ' \in Seq(Messages)
    BY <1>0, <2>1, RemoveAtProps, <1>12 DEF RetryTake
  <2>3. pull' \in Pulls /\ pull'.c = pull.c
    BY <1>0, <2>1, PullsUpdate, <1>12 DEF RetryTake
  <2>4. retryQ[pull.j] \in Messages /\ pull.c \in Consumers
    BY <1>0, <2>1
  <2>5. pending' \subseteq Deliveries
    BY <1>0, <2>4, <1>12 DEF RetryTake, Delivery, Deliveries, Messages
  <2> QED BY <1>0, <2>2, <2>3, <2>5, <1>12 DEF RetryTake
<1>13. CASE RetryLeave
  <2>1. pull' \in Pulls /\ pull'.c = pull.c
    BY <1>0, PullsUpdate, <1>13 DEF RetryLeave
  <2> QED BY <1>0, <2>1, <1>13 DEF RetryLeave
<1>14. CASE PullEnd
  BY <1>0, <1>14, MaxRetryAssumption, MaxPullAssumption, MaxIdAssumption DEF
     PullEnd, Unlock, NoPull, Pulls
<1>15. ASSUME NEW c \in Consumers, NEW id \in Ids, Ack(c, id)
      PROVE  TypeOK'
  BY <1>0, <1>15, MaxRetryAssumption, MaxPullAssumption, MaxIdAssumption DEF
     Ack, Settled, LockSound
<1>16. ASSUME NEW max \in 0..MaxPull, PullDlq(max)
      PROVE  TypeOK'
  BY <1>0, <1>16, MaxRetryAssumption, MaxPullAssumption, MaxIdAssumption DEF
     PullDlq
<1>17. CASE RetryBegin
  BY <1>0, <1>17, MaxRetryAssumption, MaxPullAssumption, MaxIdAssumption DEF
     RetryBegin
<1>18. ASSUME NEW p \in todo, RetryDrop(p)
      PROVE  TypeOK'
  BY <1>0, <1>18, MaxRetryAssumption, MaxPullAssumption, MaxIdAssumption DEF
     RetryDrop, Visit, Deliveries
<1>19. ASSUME NEW p \in todo, RetryBury(p)
      PROVE  TypeOK'
  BY <1>0, <1>19, MaxRetryAssumption, MaxPullAssumption, MaxIdAssumption DEF
     RetryBury, Visit, Deliveries, Messages
<1>20. ASSUME NEW p \in todo, RetryRequeue(p)
      PROVE  TypeOK'
  <2>1. p \in Deliveries /\ p.c \in Consumers
    BY <1>0 DEF Deliveries
  <2>2. Without(retryQ, p.id) \in Seq(Messages)
    BY <1>0, WithoutProps DEF RetryQueueSound
  <2>3. [id |-> p.id, retry |-> p.retry + 1] \in Messages
    BY <2>1, MaxRetryAssumption, <1>20 DEF RetryRequeue, Exhausted,
       Deliveries, Messages
  <2>4. retryQ' \in Seq(Messages)
    BY <2>2, <2>3, <1>20 DEF RetryRequeue
  <2> QED BY <1>0, <2>1, <2>4, <1>20 DEF RetryRequeue, Visit
<1>21. CASE RetryEnd
  BY <1>0, <1>21, MaxRetryAssumption, MaxPullAssumption, MaxIdAssumption DEF
     RetryEnd, Unlock, NoPull, Pulls
<1>22. CASE ExpireBegin
  BY <1>0, <1>22, MaxRetryAssumption, MaxPullAssumption, MaxIdAssumption DEF
     ExpireBegin
<1>23. CASE ExpireLog
  BY <1>0, <1>23, RemoveAtProps, MaxRetryAssumption, MaxPullAssumption,
     MaxIdAssumption DEF ExpireLog
<1>24. CASE ExpireRetry
  BY <1>0, <1>24, RemoveAtProps, MaxRetryAssumption, MaxPullAssumption,
     MaxIdAssumption DEF ExpireRetry
<1>25. CASE ExpireEnd
  BY <1>0, <1>25, MaxRetryAssumption, MaxPullAssumption, MaxIdAssumption DEF
     ExpireEnd, Unlock, NoPull, Pulls
<1>26. CASE WallClock
  BY <1>0, <1>26, MaxRetryAssumption, MaxPullAssumption, MaxIdAssumption DEF
     WallClock
<1>27. CASE SteadyClock
  BY <1>0, <1>27, MaxRetryAssumption, MaxPullAssumption, MaxIdAssumption DEF
     SteadyClock
<1> QED
  BY <1>1, <1>2, <1>3, <1>4, <1>5, <1>6, <1>7, <1>8, <1>9, <1>10, <1>11,
     <1>12, <1>13, <1>14, <1>15, <1>16, <1>17, <1>18, <1>19, <1>20, <1>21,
     <1>22, <1>23, <1>24, <1>25, <1>26, <1>27
     DEF Next, PullStep, RetryStep, ExpireStep

(* What a scan reads under the mutex is gone when the mutex is free.       *)
LEMMA LockStep ==
  ASSUME IInv, Next
  PROVE  LockSound'
<1> USE DEF LockSound, msgVars, lockVars, history
<1>0. LockSound
  BY DEF IInv, TypeOK
<1>1. CASE CreateTopic
  BY <1>0, <1>1 DEF CreateTopic
<1>2. CASE DeleteTopic
  BY <1>0, <1>2 DEF DeleteTopic
<1>3. ASSUME NEW ttl \in BOOLEAN, NEW big \in BOOLEAN, PublishOk(ttl, big)
      PROVE  LockSound'
  BY <1>0, <1>3 DEF PublishOk
<1>4. CASE PublishFull
  BY <1>0, <1>4 DEF PublishFull
<1>5. ASSUME NEW c \in Consumers, NEW max \in 0..MaxPull, PullBegin(c, max)
      PROVE  LockSound'
  BY <1>0, <1>5 DEF PullBegin
<1>6. CASE DrainStep
  BY <1>0, <1>6 DEF DrainStep, PopFails
<1>7. CASE DrainEnd
  BY <1>0, <1>7 DEF DrainEnd
<1>8. CASE PullSkip
  BY <1>0, <1>8 DEF PullSkip, InLogLoop
<1>9. CASE PullSkipExpired
  BY <1>0, <1>9 DEF PullSkipExpired, InLogLoop
<1>10. CASE PullTake
  BY <1>0, <1>10 DEF PullTake, InLogLoop
<1>11. CASE RetryDropExpired
  BY <1>0, <1>11 DEF RetryDropExpired, InRetryLoop
<1>12. CASE RetryTake
  BY <1>0, <1>12 DEF RetryTake, InRetryLoop
<1>13. CASE RetryLeave
  BY <1>0, <1>13 DEF RetryLeave, InRetryLoop
<1>14. CASE PullEnd
  BY <1>0, <1>14 DEF PullEnd, Unlock
<1>15. ASSUME NEW c \in Consumers, NEW id \in Ids, Ack(c, id)
      PROVE  LockSound'
  BY <1>0, <1>15 DEF Ack
<1>16. ASSUME NEW max \in 0..MaxPull, PullDlq(max)
      PROVE  LockSound'
  BY <1>0, <1>16 DEF PullDlq
<1>17. CASE RetryBegin
  BY <1>0, <1>17 DEF RetryBegin
<1>18. ASSUME NEW p \in todo, RetryDrop(p)
      PROVE  LockSound'
  BY <1>0, <1>18 DEF RetryDrop, Visit
<1>19. ASSUME NEW p \in todo, RetryBury(p)
      PROVE  LockSound'
  BY <1>0, <1>19 DEF RetryBury, Visit
<1>20. ASSUME NEW p \in todo, RetryRequeue(p)
      PROVE  LockSound'
  BY <1>0, <1>20 DEF RetryRequeue, Visit
<1>21. CASE RetryEnd
  BY <1>0, <1>21 DEF RetryEnd, Unlock
<1>22. CASE ExpireBegin
  BY <1>0, <1>22 DEF ExpireBegin
<1>23. CASE ExpireLog
  BY <1>0, <1>23 DEF ExpireLog
<1>24. CASE ExpireRetry
  BY <1>0, <1>24 DEF ExpireRetry
<1>25. CASE ExpireEnd
  BY <1>0, <1>25 DEF ExpireEnd, Unlock
<1>26. CASE WallClock
  BY <1>0, <1>26 DEF WallClock
<1>27. CASE SteadyClock
  BY <1>0, <1>27 DEF SteadyClock
<1> QED
  BY <1>1, <1>2, <1>3, <1>4, <1>5, <1>6, <1>7, <1>8, <1>9, <1>10, <1>11,
     <1>12, <1>13, <1>14, <1>15, <1>16, <1>17, <1>18, <1>19, <1>20, <1>21,
     <1>22, <1>23, <1>24, <1>25, <1>26, <1>27
     DEF Next, PullStep, RetryStep, ExpireStep

(* Draining and expiring keep the log and the ring buffer sorted.          *)
LEMMA OrderStep ==
  ASSUME IInv, Next
  PROVE  LogOrdered'
<1> USE DEF LogOrdered, msgVars, lockVars, history
<1>0. /\ LogOrdered /\ Provenance /\ nextId \in Nat
      /\ ring \in Seq(Ids) /\ log \in Seq(Ids)
  BY DEF IInv, TypeOK
<1>1. CASE CreateTopic
  BY <1>0, <1>1 DEF CreateTopic
<1>2. CASE DeleteTopic
  BY <1>0, <1>2 DEF DeleteTopic
<1>3. ASSUME NEW ttl \in BOOLEAN, NEW big \in BOOLEAN, PublishOk(ttl, big)
      PROVE  LogOrdered'
  BY <1>0, <1>3, AppendProperties DEF PublishOk, Provenance
<1>4. CASE PublishFull
  BY <1>0, <1>4 DEF PublishFull
<1>5. ASSUME NEW c \in Consumers, NEW max \in 0..MaxPull, PullBegin(c, max)
      PROVE  LogOrdered'
  BY <1>0, <1>5 DEF PullBegin
<1>6. CASE DrainStep
  <2>1. /\ ring # << >> /\ Len(ring) \in Nat \ {0} /\ Len(log) \in Nat
        /\ Head(ring) = ring[1] /\ Head(ring) \in Ids
    BY <1>0, <1>6 DEF DrainStep, PopFails
  <2>2. /\ Len(ring') = Len(ring) - 1
        /\ \A k \in 1..Len(ring) - 1 : ring'[k] = ring[k + 1]
    BY <1>0, <2>1, HeadTailProperties, <1>6 DEF DrainStep, PopFails
  <2>3. /\ Len(log') = Len(log) + 1 /\ log'[Len(log) + 1] = ring[1]
        /\ \A k \in 1..Len(log) : log'[k] = log[k]
    BY <1>0, <2>1, AppendProperties, <1>6 DEF DrainStep, PopFails, Drained
  <2>4. \A i, j \in 1..Len(log') : i < j => log'[i] < log'[j]
    BY <1>0, <2>1, <2>3
  <2>5. \A i, j \in 1..Len(ring') : i < j => ring'[i] < ring'[j]
    BY <1>0, <2>1, <2>2
  <2>6. \A i \in 1..Len(log'), j \in 1..Len(ring') : log'[i] < ring'[j]
    BY <1>0, <2>1, <2>2, <2>3
  <2> QED BY <2>4, <2>5, <2>6
<1>7. CASE DrainEnd
  BY <1>0, <1>7 DEF DrainEnd
<1>8. CASE PullSkip
  BY <1>0, <1>8 DEF PullSkip
<1>9. CASE PullSkipExpired
  BY <1>0, <1>9 DEF PullSkipExpired
<1>10. CASE PullTake
  BY <1>0, <1>10 DEF PullTake
<1>11. CASE RetryDropExpired
  BY <1>0, <1>11 DEF RetryDropExpired
<1>12. CASE RetryTake
  BY <1>0, <1>12 DEF RetryTake
<1>13. CASE RetryLeave
  BY <1>0, <1>13 DEF RetryLeave
<1>14. CASE PullEnd
  BY <1>0, <1>14 DEF PullEnd, Unlock
<1>15. ASSUME NEW c \in Consumers, NEW id \in Ids, Ack(c, id)
      PROVE  LogOrdered'
  BY <1>0, <1>15 DEF Ack
<1>16. ASSUME NEW max \in 0..MaxPull, PullDlq(max)
      PROVE  LogOrdered'
  BY <1>0, <1>16 DEF PullDlq
<1>17. CASE RetryBegin
  BY <1>0, <1>17 DEF RetryBegin
<1>18. ASSUME NEW p \in todo, RetryDrop(p)
      PROVE  LogOrdered'
  BY <1>0, <1>18 DEF RetryDrop, Visit
<1>19. ASSUME NEW p \in todo, RetryBury(p)
      PROVE  LogOrdered'
  BY <1>0, <1>19 DEF RetryBury, Visit
<1>20. ASSUME NEW p \in todo, RetryRequeue(p)
      PROVE  LogOrdered'
  BY <1>0, <1>20 DEF RetryRequeue, Visit
<1>21. CASE RetryEnd
  BY <1>0, <1>21 DEF RetryEnd, Unlock
<1>22. CASE ExpireBegin
  BY <1>0, <1>22 DEF ExpireBegin
<1>23. CASE ExpireLog
  <2>1. PICK k \in 1..Len(log) : log' = RemoveAt(log, k)
    BY <1>23 DEF ExpireLog
  <2>2. /\ Len(log') = Len(log) - 1
        /\ \A l \in 1..Len(log) - 1 :
             log'[l] = IF l < k THEN log[l] ELSE log[l + 1]
    <3>1. log \in Seq(Ids)
      BY <1>0
    <3> HIDE DEF LogOrdered
    <3> QED BY <2>1, <3>1, RemoveAtProps
  <2>3. ring' = ring /\ Len(log) \in Nat /\ k \in Int
    BY <1>0, <1>23 DEF ExpireLog
  <2>4. \A i, j \in 1..Len(log') : i < j => log'[i] < log'[j]
    <3> SUFFICES ASSUME NEW i \in 1..Len(log'), NEW j \in 1..Len(log'), i < j
                 PROVE  log'[i] < log'[j]
      OBVIOUS
    <3>1. CASE i < k /\ j < k
      BY <1>0, <2>2, <2>3, <3>1
    <3>2. CASE i < k /\ ~(j < k)
      BY <1>0, <2>2, <2>3, <3>2
    <3>3. CASE ~(i < k)
      BY <1>0, <2>2, <2>3, <3>3
    <3> QED BY <3>1, <3>2, <3>3
  <2>5. \A l \in 1..Len(log') : \E m \in 1..Len(log) : log'[l] = log[m]
    BY <2>2, <2>3
  <2> QED BY <1>0, <2>3, <2>4, <2>5
<1>24. CASE ExpireRetry
  BY <1>0, <1>24 DEF ExpireRetry
<1>25. CASE ExpireEnd
  BY <1>0, <1>25 DEF ExpireEnd, Unlock
<1>26. CASE WallClock
  BY <1>0, <1>26 DEF WallClock
<1>27. CASE SteadyClock
  BY <1>0, <1>27 DEF SteadyClock
<1> QED
  BY <1>1, <1>2, <1>3, <1>4, <1>5, <1>6, <1>7, <1>8, <1>9, <1>10, <1>11,
     <1>12, <1>13, <1>14, <1>15, <1>16, <1>17, <1>18, <1>19, <1>20, <1>21,
     <1>22, <1>23, <1>24, <1>25, <1>26, <1>27
     DEF Next, PullStep, RetryStep, ExpireStep

(* Messages only enter through a Publish that succeeded.                   *)
LEMMA ProvenanceStep ==
  ASSUME IInv, Next
  PROVE  Provenance'
<1> USE DEF Provenance, msgVars, lockVars, history
<1>0. /\ Provenance /\ CursorSound /\ RetryQueueSound /\ pull \in Pulls
      /\ Ids \subseteq Nat /\ published \subseteq Nat /\ nextId \in Nat
      /\ ring \in Seq(Ids) /\ log \in Seq(Ids)
      /\ retryQ \in Seq(Messages) /\ dlq \in Seq(Messages)
      /\ pending \subseteq Deliveries /\ due \subseteq pending
      /\ todo \subseteq due
  <2>1. TypeOK
    BY DEF IInv
  <2> QED BY <2>1, TypeFacts DEF IInv
<1>1. CASE CreateTopic
  BY <1>0, <1>1 DEF CreateTopic
<1>2. CASE DeleteTopic
  BY <1>0, <1>2 DEF DeleteTopic
<1>3. ASSUME NEW ttl \in BOOLEAN, NEW big \in BOOLEAN, PublishOk(ttl, big)
      PROVE  Provenance'
  <2>1. \A k \in 1..Len(ring') : ring'[k] \in published'
    BY <1>0, AppendProperties, <1>3 DEF PublishOk
  <2>2. \A x \in published' : x < nextId'
    BY <1>0, <1>3 DEF PublishOk
  <2> QED BY <1>0, <2>1, <2>2, <1>3 DEF PublishOk
<1>4. CASE PublishFull
  BY <1>0, <1>4 DEF PublishFull
<1>5. ASSUME NEW c \in Consumers, NEW max \in 0..MaxPull, PullBegin(c, max)
      PROVE  Provenance'
  BY <1>0, <1>5 DEF PullBegin
<1>6. CASE DrainStep
  <2>1. /\ Head(ring) \in published /\ Len(ring) \in Nat \ {0}
        /\ Len(log) \in Nat
    BY <1>0, <1>6 DEF DrainStep, PopFails
  <2>2. \A k \in 1..Len(ring') : ring'[k] \in published
    BY <1>0, <2>1, HeadTailProperties, <1>6 DEF DrainStep, PopFails
  <2>3. \A k \in 1..Len(log') : log'[k] \in published
    BY <1>0, <2>1, AppendProperties, <1>6 DEF DrainStep, PopFails, Drained
  <2> QED BY <1>0, <2>2, <2>3, <1>6 DEF DrainStep, PopFails
<1>7. CASE DrainEnd
  BY <1>0, <1>7 DEF DrainEnd
<1>8. CASE PullSkip
  BY <1>0, <1>8 DEF PullSkip
<1>9. CASE PullSkipExpired
  BY <1>0, <1>9 DEF PullSkipExpired
<1>10. CASE PullTake
  <2>1. pull.i \in 1..Len(log)
    BY <1>0, <1>10 DEF PullTake, InLogLoop, CursorSound, Pulls
  <2>2. \A p \in pending' : p.id \in published
    BY <1>0, <2>1, <1>10 DEF PullTake, Delivery
  <2> QED BY <1>0, <2>2, <1>10 DEF PullTake
<1>11. CASE RetryDropExpired
  <2>1. pull.j \in 1..Len(retryQ)
    BY <1>0, <1>11 DEF RetryDropExpired, InRetryLoop, CursorSound, Pulls
  <2>2. \A l \in 1..Len(retryQ') : \E m \in 1..Len(retryQ) : retryQ'[l] = retryQ[m]
    <3>1. retryQ' = RemoveAt(retryQ, pull.j) /\ retryQ \in Seq(Messages)
      BY <1>0, <1>11 DEF RetryDropExpired
    <3> QED BY <2>1, <3>1, RemoveAtElements
  <2> QED BY <1>0, <2>2, <1>11 DEF RetryDropExpired
<1>12. CASE RetryTake
  <2>1. pull.j \in 1..Len(retryQ)
    BY <1>0, <1>12 DEF RetryTake, InRetryLoop, CursorSound, Pulls
  <2>2. \A l \in 1..Len(retryQ') : \E m \in 1..Len(retryQ) : retryQ'[l] = retryQ[m]
    <3>1. retryQ' = RemoveAt(retryQ, pull.j) /\ retryQ \in Seq(Messages)
      BY <1>0, <1>12 DEF RetryTake
    <3> QED BY <2>1, <3>1, RemoveAtElements
  <2>3. \A p \in pending' : p.id \in published
    BY <1>0, <2>1, <1>12 DEF RetryTake, Delivery
  <2> QED BY <1>0, <2>2, <2>3, <1>12 DEF RetryTake
<1>13. CASE RetryLeave
  BY <1>0, <1>13 DEF RetryLeave
<1>14. CASE PullEnd
  BY <1>0, <1>14 DEF PullEnd, Unlock
<1>15. ASSUME NEW c \in Consumers, NEW id \in Ids, Ack(c, id)
      PROVE  Provenance'
  BY <1>0, <1>15 DEF Ack, IsPending, Settled
<1>16. ASSUME NEW max \in 0..MaxPull, PullDlq(max)
      PROVE  Provenance'
  <2> DEFINE n == IF max < Len(dlq) THEN max ELSE Len(dlq)
  <2>1. n \in 0..Len(dlq) /\ Len(dlq) \in Nat
    BY <1>0
  <2>2. dlq' = SubSeq(dlq, n + 1, Len(dlq))
    BY <1>16 DEF PullDlq
  <2> HIDE DEF n
  <2>3. \A k \in 1..Len(dlq') : dlq'[k] = dlq[n + k] /\ n + k \in 1..Len(dlq)
    <3>1. \A l \in n + 1..Len(dlq) : dlq[l] \in Messages
      BY <1>0, <2>1
    <3>2. /\ Len(dlq') = IF n + 1 <= Len(dlq) THEN Len(dlq) - (n + 1) + 1 ELSE 0
          /\ \A k \in 1..Len(dlq) - (n + 1) + 1 : dlq'[k] = dlq[n + 1 + k - 1]
      BY <2>1, <2>2, <3>1, SubSeqProperties
    <3> QED BY <2>1, <3>2
  <2> QED BY <1>0, <2>3, <1>16 DEF PullDlq
<1>17. CASE RetryBegin
  BY <1>0, <1>17 DEF RetryBegin
<1>18. ASSUME NEW p \in todo, RetryDrop(p)
      PROVE  Provenance'
  BY <1>0, <1>18 DEF RetryDrop, Visit
<1>19. ASSUME NEW p \in todo, RetryBury(p)
      PROVE  Provenance'
  <2>1. p.id \in published
    BY <1>0
  <2>2. \A k \in 1..Len(dlq') : dlq'[k].id \in dead'
    <3>1. [id |-> p.id, retry |-> p.retry] \in Messages
      BY <1>0 DEF Deliveries, Messages
    <3> QED BY <1>0, <3>1, AppendProperties, <1>19 DEF RetryBury
  <2> QED BY <1>0, <2>1, <2>2, <1>19 DEF RetryBury, Visit
<1>20. ASSUME NEW p \in todo, RetryRequeue(p)
      PROVE  Provenance'
  <2>1. p.id \in published
    BY <1>0
  <2>2. \A k \in 1..Len(retryQ') : retryQ'[k].id \in published
    <3>1. /\ Without(retryQ, p.id) \in Seq(Messages)
          /\ \A k \in 1..Len(Without(retryQ, p.id)) :
               \E l \in 1..Len(retryQ) : Without(retryQ, p.id)[k] = retryQ[l]
      <4>1. /\ retryQ \in Seq(Messages)
            /\ \A i, j \in 1..Len(retryQ) : retryQ[i].id = retryQ[j].id => i = j
        BY <1>0 DEF RetryQueueSound
      <4> QED BY ONLY <4>1, WithoutProps
    <3>2. \A k \in 1..Len(Without(retryQ, p.id)) :
            Without(retryQ, p.id)[k].id \in published
      BY <1>0, <3>1
    <3>3. retryQ' = Append(Without(retryQ, p.id), [id |-> p.id, retry |-> p.retry + 1])
      BY <1>20 DEF RetryRequeue
    <3> QED BY <2>1, <3>1, <3>2, <3>3
  <2> QED BY <1>0, <2>1, <2>2, <1>20 DEF RetryRequeue, Visit
<1>21. CASE RetryEnd
  BY <1>0, <1>21 DEF RetryEnd, Unlock
<1>22. CASE ExpireBegin
  BY <1>0, <1>22 DEF ExpireBegin
<1>23. CASE ExpireLog
  <2>1. PICK k \in 1..Len(log) : log' = RemoveAt(log, k)
    BY <1>23 DEF ExpireLog
  <2>2. \A l \in 1..Len(log') : \E m \in 1..Len(log) : log'[l] = log[m]
    <3>1. log \in Seq(Ids)
      BY <1>0
    <3> QED BY <2>1, <3>1, RemoveAtElements
  <2> QED BY <1>0, <2>2, <1>23 DEF ExpireLog
<1>24. CASE ExpireRetry
  <2>1. PICK k \in 1..Len(retryQ) : retryQ' = RemoveAt(retryQ, k)
    BY <1>24 DEF ExpireRetry
  <2>2. \A l \in 1..Len(retryQ') : \E m \in 1..Len(retryQ) : retryQ'[l] = retryQ[m]
    BY <1>0, <2>1, RemoveAtElements
  <2> QED BY <1>0, <2>2, <1>24 DEF ExpireRetry
<1>25. CASE ExpireEnd
  <2>1. pending' \subseteq pending
    BY <1>25 DEF ExpireEnd
  <2> QED BY <1>0, <2>1, <1>25 DEF ExpireEnd
<1>26. CASE WallClock
  BY <1>0, <1>26 DEF WallClock
<1>27. CASE SteadyClock
  BY <1>0, <1>27 DEF SteadyClock
<1> QED
  BY <1>1, <1>2, <1>3, <1>4, <1>5, <1>6, <1>7, <1>8, <1>9, <1>10, <1>11,
     <1>12, <1>13, <1>14, <1>15, <1>16, <1>17, <1>18, <1>19, <1>20, <1>21,
     <1>22, <1>23, <1>24, <1>25, <1>26, <1>27
     DEF Next, PullStep, RetryStep, ExpireStep

(* Only expiration removes a message from the log.                         *)
LEMMA RetainedStep ==
  ASSUME IInv, Next
  PROVE  Retained'
<1> USE DEF Retained, msgVars, lockVars, history
<1>0. /\ Retained /\ TypeOK
      /\ Ids \subseteq Nat /\ published \subseteq Nat /\ nextId \in Nat
      /\ ring \in Seq(Ids) /\ log \in Seq(Ids)
      /\ retryQ \in Seq(Messages) /\ dlq \in Seq(Messages)
      /\ pending \subseteq Deliveries /\ due \subseteq pending
      /\ todo \subseteq due
  <2>1. TypeOK
    BY DEF IInv
  <2> QED BY <2>1, TypeFacts DEF IInv
<1>1. CASE CreateTopic
  BY <1>0, <1>1 DEF CreateTopic
<1>2. CASE DeleteTopic
  BY <1>0, <1>2 DEF DeleteTopic
<1>3. ASSUME NEW ttl \in BOOLEAN, NEW big \in BOOLEAN, PublishOk(ttl, big)
      PROVE  Retained'
  <2>1. \A x \in {nextId} : InSeq(x, ring')
    <3>1. Len(ring') = Len(ring) + 1 /\ ring'[Len(ring) + 1] = nextId
      BY <1>0, AppendProperties, <1>3 DEF PublishOk
    <3>2. Len(ring) + 1 \in 1..Len(ring')
      BY <1>0, <3>1
    <3> QED BY <3>1, <3>2 DEF InSeq
  <2>2. \A x \in published : InSeq(x, ring) => InSeq(x, ring')
    BY <1>0, AppendProperties, <1>3 DEF PublishOk, InSeq
  <2> QED BY <1>0, <2>1, <2>2, <1>3 DEF PublishOk
<1>4. CASE PublishFull
  BY <1>0, <1>4 DEF PublishFull
<1>5. ASSUME NEW c \in Consumers, NEW max \in 0..MaxPull, PullBegin(c, max)
      PROVE  Retained'
  BY <1>0, <1>5 DEF PullBegin
<1>6. CASE DrainStep
  <2> SUFFICES ASSUME NEW x \in published
               PROVE  InSeq(x, ring') \/ InSeq(x, log') \/ x \in expired
    BY <1>6 DEF DrainStep, PopFails
  <2>1. /\ Len(ring) \in Nat \ {0} /\ Len(log) \in Nat /\ Head(ring) = ring[1]
        /\ Head(ring) \in Ids
    BY <1>0, <1>6 DEF DrainStep, PopFails
  <2>2. /\ Len(ring') = Len(ring) - 1
        /\ \A k \in 1..Len(ring) - 1 : ring'[k] = ring[k + 1]
    BY <1>0, <2>1, HeadTailProperties, <1>6 DEF DrainStep, PopFails
  <2>3. /\ Len(log') = Len(log) + 1 /\ log'[Len(log) + 1] = ring[1]
        /\ \A k \in 1..Len(log) : log'[k] = log[k]
    BY <1>0, <2>1, AppendProperties, <1>6 DEF DrainStep, PopFails, Drained
  <2>4. CASE InSeq(x, log)
    BY <2>1, <2>3, <2>4 DEF InSeq
  <2>5. CASE InSeq(x, ring)
    <3>1. PICK k \in 1..Len(ring) : ring[k] = x
      BY <2>5 DEF InSeq
    <3>2. CASE k = 1
      <4>1. Len(log) + 1 \in 1..Len(log')
        BY <2>1, <2>3
      <4> QED BY <3>1, <3>2, <4>1, <2>3 DEF InSeq
    <3>3. CASE k # 1
      <4>1. k - 1 \in 1..Len(ring') /\ ring'[k - 1] = x
        BY <3>1, <3>3, <2>1, <2>2
      <4> QED BY <4>1 DEF InSeq
    <3> QED BY <3>2, <3>3
  <2> QED BY <1>0, <2>4, <2>5
<1>7. CASE DrainEnd
  BY <1>0, <1>7 DEF DrainEnd
<1>8. CASE PullSkip
  BY <1>0, <1>8 DEF PullSkip
<1>9. CASE PullSkipExpired
  BY <1>0, <1>9 DEF PullSkipExpired
<1>10. CASE PullTake
  BY <1>0, <1>10 DEF PullTake
<1>11. CASE RetryDropExpired
  BY <1>0, <1>11 DEF RetryDropExpired
<1>12. CASE RetryTake
  BY <1>0, <1>12 DEF RetryTake
<1>13. CASE RetryLeave
  BY <1>0, <1>13 DEF RetryLeave
<1>14. CASE PullEnd
  BY <1>0, <1>14 DEF PullEnd, Unlock
<1>15. ASSUME NEW c \in Consumers, NEW id \in Ids, Ack(c, id)
      PROVE  Retained'
  BY <1>0, <1>15 DEF Ack
<1>16. ASSUME NEW max \in 0..MaxPull, PullDlq(max)
      PROVE  Retained'
  BY <1>0, <1>16 DEF PullDlq
<1>17. CASE RetryBegin
  BY <1>0, <1>17 DEF RetryBegin
<1>18. ASSUME NEW p \in todo, RetryDrop(p)
      PROVE  Retained'
  BY <1>0, <1>18 DEF RetryDrop, Visit
<1>19. ASSUME NEW p \in todo, RetryBury(p)
      PROVE  Retained'
  BY <1>0, <1>19 DEF RetryBury, Visit
<1>20. ASSUME NEW p \in todo, RetryRequeue(p)
      PROVE  Retained'
  BY <1>0, <1>20 DEF RetryRequeue, Visit
<1>21. CASE RetryEnd
  BY <1>0, <1>21 DEF RetryEnd, Unlock
<1>22. CASE ExpireBegin
  BY <1>0, <1>22 DEF ExpireBegin
<1>23. CASE ExpireLog
  <2>1. PICK k \in 1..Len(log) : IsExpired(log[k]) /\ log' = RemoveAt(log, k)
    BY <1>23 DEF ExpireLog
  <2>2. \A l \in 1..Len(log) : l # k =>
          \E m \in 1..Len(log') : log'[m] = log[l]
    BY <1>0, <2>1, RemoveAtElements
  <2>3. log[k] \in expired
    BY <1>0, <2>1 DEF IsExpired, TypeOK
  <2>4. \A x : InSeq(x, log) => InSeq(x, log') \/ x \in expired
    BY <2>2, <2>3 DEF InSeq
  <2> QED BY <1>0, <2>4, <1>23 DEF ExpireLog
<1>24. CASE ExpireRetry
  BY <1>0, <1>24 DEF ExpireRetry
<1>25. CASE ExpireEnd
  BY <1>0, <1>25 DEF ExpireEnd, Unlock
<1>26. CASE WallClock
  BY <1>0, <1>26 DEF WallClock
<1>27. CASE SteadyClock
  BY <1>0, <1>27 DEF SteadyClock
<1> QED
  BY <1>1, <1>2, <1>3, <1>4, <1>5, <1>6, <1>7, <1>8, <1>9, <1>10, <1>11,
     <1>12, <1>13, <1>14, <1>15, <1>16, <1>17, <1>18, <1>19, <1>20, <1>21,
     <1>22, <1>23, <1>24, <1>25, <1>26, <1>27
     DEF Next, PullStep, RetryStep, ExpireStep

(* Expiration removes a message from the log only together with its        *)
(* deliveries and its retry record.                                        *)
LEMMA InFlightStep ==
  ASSUME IInv, Next
  PROVE  InFlightLogged'
<1> USE DEF InFlightLogged, IsExpired, msgVars, lockVars, history
<1>0. /\ InFlightLogged /\ CursorSound /\ RetryQueueSound
      /\ Ids \subseteq Nat /\ published \subseteq Nat /\ nextId \in Nat
      /\ nextId >= 1 /\ \A x \in published : x >= 1
      /\ ring \in Seq(Ids) /\ log \in Seq(Ids)
      /\ \A k \in 1..Len(log) : log[k] \in Nat
      /\ retryQ \in Seq(Messages) /\ dlq \in Seq(Messages)
      /\ pending \subseteq Deliveries /\ due \subseteq pending
      /\ todo \subseteq due /\ clock \subseteq expired /\ pull \in Pulls
      /\ \A c \in Consumers : offset[c] \in Nat
      /\ phase \in {"drain", "pull"} => pull.c \in Consumers
  <2>1. TypeOK
    BY DEF IInv
  <2> QED BY <2>1, TypeFacts DEF IInv
<1>1. CASE CreateTopic
  BY <1>0, <1>1 DEF CreateTopic
<1>2. CASE DeleteTopic
  BY <1>0, <1>2 DEF DeleteTopic
<1>3. ASSUME NEW ttl \in BOOLEAN, NEW big \in BOOLEAN, PublishOk(ttl, big)
      PROVE  InFlightLogged'
  BY <1>0, <1>3 DEF PublishOk
<1>4. CASE PublishFull
  BY <1>0, <1>4 DEF PublishFull
<1>5. ASSUME NEW c \in Consumers, NEW max \in 0..MaxPull, PullBegin(c, max)
      PROVE  InFlightLogged'
  BY <1>0, <1>5 DEF PullBegin
<1>6. CASE DrainStep
  <2>1. \A x : InSeq(x, log) => InSeq(x, log')
    <3>1. Head(ring) \in Ids
      BY <1>0, <1>6 DEF DrainStep, PopFails
    <3> QED BY <1>0, <3>1, AppendProperties, <1>6 DEF DrainStep, PopFails, Drained, InSeq
  <2> QED BY <1>0, <2>1, <1>6 DEF DrainStep, PopFails
<1>7. CASE DrainEnd
  <2>1. /\ \A p \in pending : InSeq(p.id, log)
        /\ \A k \in 1..Len(retryQ) : InSeq(retryQ[k].id, log)
    BY <1>0, <1>7 DEF DrainEnd
  <2>2. UNCHANGED <<pending, retryQ, log>>
    BY <1>7 DEF DrainEnd
  <2> QED BY <2>1, <2>2 DEF InSeq
<1>8. CASE PullSkip
  BY <1>0, <1>8 DEF PullSkip
<1>9. CASE PullSkipExpired
  BY <1>0, <1>9 DEF PullSkipExpired
<1>10. CASE PullTake
  <2>1. phase = "pull" /\ pull.i \in 1..Len(log)
    BY <1>0, <1>10 DEF PullTake, InLogLoop, CursorSound, Pulls
  <2>2. \A p \in pending' \ pending : p.id = log[pull.i]
    BY <1>10 DEF PullTake, Delivery
  <2>3. InSeq(log[pull.i], log)
    BY <2>1 DEF InSeq
  <2>4. /\ \A p \in pending' : InSeq(p.id, log)
        /\ \A k \in 1..Len(retryQ) : InSeq(retryQ[k].id, log)
    BY <1>0, <2>1, <2>2, <2>3
  <2>5. UNCHANGED <<retryQ, log>>
    BY <1>10 DEF PullTake
  <2> QED BY <2>4, <2>5 DEF InSeq
<1>11. CASE RetryDropExpired
  <2>1. pull.j \in 1..Len(retryQ) /\ retryQ' = RemoveAt(retryQ, pull.j)
    BY <1>0, <1>11 DEF RetryDropExpired, InRetryLoop, CursorSound, Pulls
  <2>2. \A l \in 1..Len(retryQ') : \E m \in 1..Len(retryQ) : retryQ'[l] = retryQ[m]
    BY <1>0, <2>1, RemoveAtElements
  <2> QED BY <1>0, <2>2, <1>11 DEF RetryDropExpired, IsExpired
<1>12. CASE RetryTake
  <2>1. pull.j \in 1..Len(retryQ) /\ retryQ' = RemoveAt(retryQ, pull.j)
    BY <1>0, <1>12 DEF RetryTake, InRetryLoop, CursorSound, Pulls
  <2>2. \A l \in 1..Len(retryQ') : \E m \in 1..Len(retryQ) : retryQ'[l] = retryQ[m]
    BY <1>0, <2>1, RemoveAtElements
  <2>3. \A p \in pending' \ pending : p.id = retryQ[pull.j].id
    BY <1>12 DEF RetryTake, Delivery
  <2>4. phase = "pull" /\ log' = log
    BY <1>12 DEF RetryTake, InRetryLoop
  <2>5. /\ \A p \in pending : InSeq(p.id, log)
        /\ \A k \in 1..Len(retryQ) : InSeq(retryQ[k].id, log)
    BY <1>0, <2>4
  <2>6. \A p \in pending' : InSeq(p.id, log)
    BY <2>1, <2>3, <2>5
  <2>7. \A k \in 1..Len(retryQ') : InSeq(retryQ'[k].id, log)
    BY <2>2, <2>5
  <2> QED BY <2>4, <2>6, <2>7 DEF InSeq
<1>13. CASE RetryLeave
  BY <1>0, <1>13 DEF RetryLeave
<1>14. CASE PullEnd
  <2>1. /\ \A p \in pending : InSeq(p.id, log)
        /\ \A k \in 1..Len(retryQ) : InSeq(retryQ[k].id, log)
    BY <1>0, <1>14 DEF PullEnd
  <2>2. UNCHANGED <<pending, retryQ, log>>
    BY <1>14 DEF PullEnd
  <2> QED BY <2>1, <2>2 DEF InSeq
<1>15. ASSUME NEW c \in Consumers, NEW id \in Ids, Ack(c, id)
      PROVE  InFlightLogged'
  BY <1>0, <1>15 DEF Ack, Settled
<1>16. ASSUME NEW max \in 0..MaxPull, PullDlq(max)
      PROVE  InFlightLogged'
  BY <1>0, <1>16 DEF PullDlq
<1>17. CASE RetryBegin
  BY <1>0, <1>17 DEF RetryBegin
<1>18. ASSUME NEW p \in todo, RetryDrop(p)
      PROVE  InFlightLogged'
  BY <1>0, <1>18 DEF RetryDrop, Visit
<1>19. ASSUME NEW p \in todo, RetryBury(p)
      PROVE  InFlightLogged'
  BY <1>0, <1>19 DEF RetryBury, Visit
<1>20. ASSUME NEW p \in todo, RetryRequeue(p)
      PROVE  InFlightLogged'
  <2>1. /\ Without(retryQ, p.id) \in Seq(Messages)
        /\ \A k \in 1..Len(Without(retryQ, p.id)) :
             \E l \in 1..Len(retryQ) : Without(retryQ, p.id)[k] = retryQ[l]
    BY <1>0, WithoutProps DEF RetryQueueSound
  <2>2. InSeq(p.id, log) /\ log' = log /\ pending' \subseteq pending
    BY <1>0, <1>20 DEF RetryRequeue, Visit
  <2>3. \A k \in 1..Len(Without(retryQ, p.id)) :
          InSeq(Without(retryQ, p.id)[k].id, log)
    BY <1>0, <2>1, <1>20 DEF RetryRequeue, Visit
  <2>4. retryQ' = Append(Without(retryQ, p.id), [id |-> p.id, retry |-> p.retry + 1])
    BY <1>20 DEF RetryRequeue
  <2>5. \A k \in 1..Len(retryQ') : InSeq(retryQ'[k].id, log)
    BY <2>1, <2>2, <2>3, <2>4
  <2>6. \A q \in pending' : InSeq(q.id, log)
    BY <1>0, <2>2, <1>20 DEF RetryRequeue, Visit
  <2> QED BY <2>2, <2>5, <2>6 DEF InSeq
<1>21. CASE RetryEnd
  <2>1. /\ \A p \in pending : InSeq(p.id, log)
        /\ \A k \in 1..Len(retryQ) : InSeq(retryQ[k].id, log)
    BY <1>0, <1>21 DEF RetryEnd
  <2>2. UNCHANGED <<pending, retryQ, log>>
    BY <1>21 DEF RetryEnd
  <2> QED BY <2>1, <2>2 DEF InSeq
<1>22. CASE ExpireBegin
  BY <1>0, <1>22 DEF ExpireBegin
<1>23. CASE ExpireLog
  <2>1. PICK k \in 1..Len(log) : IsExpired(log[k]) /\ log' = RemoveAt(log, k)
    BY <1>23 DEF ExpireLog
  <2>2. \A l \in 1..Len(log) : l # k =>
          \E m \in 1..Len(log') : log'[m] = log[l]
    <3>1. log \in Seq(Ids)
      BY <1>0
    <3> QED BY <2>1, <3>1, RemoveAtElements
  <2>3. \A x : InSeq(x, log) => InSeq(x, log') \/ IsExpired(x)
    BY <2>1, <2>2 DEF InSeq
  <2>4. UNCHANGED <<pending, retryQ, phase, clock>> /\ phase = "expire"
    BY <1>23 DEF ExpireLog
  <2> QED BY <1>0, <2>3, <2>4 DEF IsExpired
<1>24. CASE ExpireRetry
  <2>1. PICK k \in 1..Len(retryQ) : retryQ' = RemoveAt(retryQ, k)
    BY <1>24 DEF ExpireRetry
  <2>2. \A l \in 1..Len(retryQ') : \E m \in 1..Len(retryQ) : retryQ'[l] = retryQ[m]
    BY <1>0, <2>1, RemoveAtElements
  <2>3. UNCHANGED <<pending, log, phase, clock>>
    BY <1>24 DEF ExpireRetry
  <2> QED BY <1>0, <2>2, <2>3 DEF IsExpired
<1>25. CASE ExpireEnd
  <2>1. \A p \in pending' : p \in pending /\ ~IsExpired(p.id)
    BY <1>25 DEF ExpireEnd
  <2>2. \A k \in 1..Len(retryQ) : ~IsExpired(retryQ[k].id)
    BY <1>25 DEF ExpireEnd
  <2> QED BY <1>0, <2>1, <2>2, <1>25 DEF ExpireEnd
<1>26. CASE WallClock
  BY <1>0, <1>26 DEF WallClock
<1>27. CASE SteadyClock
  BY <1>0, <1>27 DEF SteadyClock
<1> QED
  BY <1>1, <1>2, <1>3, <1>4, <1>5, <1>6, <1>7, <1>8, <1>9, <1>10, <1>11,
     <1>12, <1>13, <1>14, <1>15, <1>16, <1>17, <1>18, <1>19, <1>20, <1>21,
     <1>22, <1>23, <1>24, <1>25, <1>26, <1>27
     DEF Next, PullStep, RetryStep, ExpireStep

(* A delivery moves the offset past what it delivers.                      *)
LEMMA OffsetCoversStep ==
  ASSUME IInv, Next
  PROVE  OffsetCovers'
<1> USE DEF OffsetCovers, msgVars, lockVars, history
<1>0. /\ OffsetCovers /\ CursorSound /\ InFlightLogged /\ Provenance
      /\ offset \in [Consumers -> 0..MaxId + 1]
      /\ Ids \subseteq Nat /\ published \subseteq Nat /\ nextId \in Nat
      /\ nextId >= 1 /\ \A x \in published : x >= 1
      /\ ring \in Seq(Ids) /\ log \in Seq(Ids)
      /\ \A k \in 1..Len(log) : log[k] \in Nat
      /\ retryQ \in Seq(Messages) /\ dlq \in Seq(Messages)
      /\ pending \subseteq Deliveries /\ due \subseteq pending
      /\ todo \subseteq due /\ clock \subseteq expired /\ pull \in Pulls
      /\ \A c \in Consumers : offset[c] \in Nat
      /\ phase \in {"drain", "pull"} => pull.c \in Consumers
  <2>1. TypeOK
    BY DEF IInv
  <2> QED BY <2>1, TypeFacts DEF IInv
<1>1. CASE CreateTopic
  BY <1>0, <1>1 DEF CreateTopic
<1>2. CASE DeleteTopic
  BY <1>0, <1>2 DEF DeleteTopic
<1>3. ASSUME NEW ttl \in BOOLEAN, NEW big \in BOOLEAN, PublishOk(ttl, big)
      PROVE  OffsetCovers'
  BY <1>0, <1>3 DEF PublishOk
<1>4. CASE PublishFull
  BY <1>0, <1>4 DEF PublishFull
<1>5. ASSUME NEW c \in Consumers, NEW max \in 0..MaxPull, PullBegin(c, max)
      PROVE  OffsetCovers'
  BY <1>0, <1>5 DEF PullBegin
<1>6. CASE DrainStep
  BY <1>0, <1>6 DEF DrainStep, PopFails
<1>7. CASE DrainEnd
  <2>1. \A c \in Consumers : offset'[c] >= offset[c]
    BY <1>0, <1>7 DEF DrainEnd
  <2>2. \A p \in pending : p.c \in Consumers /\ p.id \in Nat
    BY <1>0 DEF Deliveries
  <2>3. \A c \in Consumers : offset'[c] \in Nat
    BY <1>0, <1>7 DEF DrainEnd
  <2>4. \A c \in Consumers : offset'[c] <= nextId
    BY <1>0, <1>7 DEF DrainEnd
  <2> QED BY <1>0, <2>1, <2>2, <2>3, <2>4, <1>7 DEF DrainEnd
<1>8. CASE PullSkip
  BY <1>0, <1>8 DEF PullSkip
<1>9. CASE PullSkipExpired
  <2>1. phase = "pull" /\ pull.i \in 1..Len(log) /\ pull.c \in Consumers
    BY <1>0, <1>9 DEF PullSkipExpired, InLogLoop, CursorSound, Pulls
  <2>2. log[pull.i] \in Nat /\ log[pull.i] >= offset[pull.c]
    BY <1>0, <2>1, <1>9 DEF PullSkipExpired, Passed
  <2>3. /\ offset'[pull.c] = log[pull.i] + 1
        /\ \A c \in Consumers : c # pull.c => offset'[c] = offset[c]
    BY <1>0, <2>1, <1>9 DEF PullSkipExpired, NextOffset
  <2>4. \A p \in pending : p.c \in Consumers /\ p.id \in Nat
    BY <1>0 DEF Deliveries
  <2>5. \A p \in pending : p.id < offset'[p.c]
    <3> TAKE p \in pending
    <3>1. CASE p.c = pull.c
      BY <1>0, <2>1, <2>2, <2>3, <2>4, <3>1
    <3>2. CASE p.c # pull.c
      BY <1>0, <2>3, <2>4, <3>2
    <3> QED BY <3>1, <3>2
  <2>6. \A c \in Consumers : offset'[c] <= nextId
    <3>1. log[pull.i] < nextId
      BY <1>0, <2>1 DEF Provenance
    <3>2. offset'[pull.c] <= nextId
      BY <1>0, <2>2, <2>3, <3>1
    <3>3. \A c \in Consumers : c # pull.c => offset'[c] <= nextId
      BY <1>0, <2>3
    <3> QED BY <3>2, <3>3
  <2> QED BY <2>5, <2>6, <1>9 DEF PullSkipExpired
<1>10. CASE PullTake
  <2>1. phase = "pull" /\ pull.i \in 1..Len(log) /\ pull.c \in Consumers
    BY <1>0, <1>10 DEF PullTake, InLogLoop, CursorSound, Pulls
  <2>2. log[pull.i] \in Nat /\ log[pull.i] >= offset[pull.c]
    BY <1>0, <2>1, <1>10 DEF PullTake, Passed
  <2>3. /\ offset'[pull.c] = log[pull.i] + 1
        /\ \A c \in Consumers : c # pull.c => offset'[c] = offset[c]
    BY <1>0, <2>1, <1>10 DEF PullTake, NextOffset
  <2>4. \A p \in pending : p.c \in Consumers /\ p.id \in Nat
    BY <1>0 DEF Deliveries
  <2>5. \A p \in pending : p.id < offset'[p.c]
    <3> TAKE p \in pending
    <3>1. CASE p.c = pull.c
      BY <1>0, <2>1, <2>2, <2>3, <2>4, <3>1
    <3>2. CASE p.c # pull.c
      BY <1>0, <2>3, <2>4, <3>2
    <3> QED BY <3>1, <3>2
  <2>6. \A p \in pending' \ pending : p.c = pull.c /\ p.id = log[pull.i]
    BY <1>10 DEF PullTake, Delivery
  <2>7. \A c \in Consumers : offset'[c] <= nextId
    <3>1. log[pull.i] < nextId
      BY <1>0, <2>1 DEF Provenance
    <3>2. offset'[pull.c] <= nextId
      BY <1>0, <2>2, <2>3, <3>1
    <3>3. \A c \in Consumers : c # pull.c => offset'[c] <= nextId
      BY <1>0, <2>3
    <3> QED BY <3>2, <3>3
  <2>8. nextId' = nextId
    BY <1>10 DEF PullTake
  <2> QED BY <2>2, <2>3, <2>5, <2>6, <2>7, <2>8
<1>11. CASE RetryDropExpired
  BY <1>0, <1>11 DEF RetryDropExpired
<1>12. CASE RetryTake
  <2>1. /\ phase = "pull" /\ pull.j \in 1..Len(retryQ)
        /\ pull.i > Len(log) /\ pull.c \in Consumers
    BY <1>0, <1>12 DEF RetryTake, InRetryLoop, CursorSound, Pulls
  <2>2. retryQ[pull.j].id < offset[pull.c]
    <3>1. InSeq(retryQ[pull.j].id, log)
      BY <1>0, <2>1 DEF InFlightLogged
    <3>2. PICK k \in 1..Len(log) : log[k] = retryQ[pull.j].id
      BY <3>1 DEF InSeq
    <3>3. k < pull.i
      BY <1>0, <2>1, <3>2 DEF Pulls
    <3> QED BY <1>0, <2>1, <3>2, <3>3 DEF CursorSound
  <2>3. \A p \in pending' \ pending : p.c = pull.c /\ p.id = retryQ[pull.j].id
    BY <1>12 DEF RetryTake, Delivery
  <2> QED BY <1>0, <2>2, <2>3, <1>12 DEF RetryTake
<1>13. CASE RetryLeave
  BY <1>0, <1>13 DEF RetryLeave
<1>14. CASE PullEnd
  BY <1>0, <1>14 DEF PullEnd, Unlock
<1>15. ASSUME NEW c \in Consumers, NEW id \in Ids, Ack(c, id)
      PROVE  OffsetCovers'
  BY <1>0, <1>15 DEF Ack, Settled
<1>16. ASSUME NEW max \in 0..MaxPull, PullDlq(max)
      PROVE  OffsetCovers'
  BY <1>0, <1>16 DEF PullDlq
<1>17. CASE RetryBegin
  BY <1>0, <1>17 DEF RetryBegin
<1>18. ASSUME NEW p \in todo, RetryDrop(p)
      PROVE  OffsetCovers'
  BY <1>0, <1>18 DEF RetryDrop, Visit
<1>19. ASSUME NEW p \in todo, RetryBury(p)
      PROVE  OffsetCovers'
  BY <1>0, <1>19 DEF RetryBury, Visit
<1>20. ASSUME NEW p \in todo, RetryRequeue(p)
      PROVE  OffsetCovers'
  BY <1>0, <1>20 DEF RetryRequeue, Visit
<1>21. CASE RetryEnd
  BY <1>0, <1>21 DEF RetryEnd, Unlock
<1>22. CASE ExpireBegin
  BY <1>0, <1>22 DEF ExpireBegin
<1>23. CASE ExpireLog
  BY <1>0, <1>23 DEF ExpireLog
<1>24. CASE ExpireRetry
  BY <1>0, <1>24 DEF ExpireRetry
<1>25. CASE ExpireEnd
  BY <1>0, <1>25 DEF ExpireEnd, Unlock
<1>26. CASE WallClock
  BY <1>0, <1>26 DEF WallClock
<1>27. CASE SteadyClock
  BY <1>0, <1>27 DEF SteadyClock
<1> QED
  BY <1>1, <1>2, <1>3, <1>4, <1>5, <1>6, <1>7, <1>8, <1>9, <1>10, <1>11,
     <1>12, <1>13, <1>14, <1>15, <1>16, <1>17, <1>18, <1>19, <1>20, <1>21,
     <1>22, <1>23, <1>24, <1>25, <1>26, <1>27
     DEF Next, PullStep, RetryStep, ExpireStep

(* The cursor of a Pull only moves over messages the offset has passed.    *)
LEMMA CursorStep ==
  ASSUME IInv, Next
  PROVE  CursorSound'
<1> USE DEF CursorSound, msgVars, lockVars, history
<1>0. /\ CursorSound /\ OffsetCovers /\ LockSound
      /\ offset \in [Consumers -> 0..MaxId + 1]
      /\ Ids \subseteq Nat /\ published \subseteq Nat /\ nextId \in Nat
      /\ nextId >= 1 /\ \A x \in published : x >= 1
      /\ ring \in Seq(Ids) /\ log \in Seq(Ids)
      /\ \A k \in 1..Len(log) : log[k] \in Nat
      /\ retryQ \in Seq(Messages) /\ dlq \in Seq(Messages)
      /\ pending \subseteq Deliveries /\ due \subseteq pending
      /\ todo \subseteq due /\ clock \subseteq expired /\ pull \in Pulls
      /\ \A c \in Consumers : offset[c] \in Nat
      /\ phase \in {"drain", "pull"} => pull.c \in Consumers
  <2>1. TypeOK
    BY DEF IInv
  <2> QED BY <2>1, TypeFacts DEF IInv
<1>1. CASE CreateTopic
  BY <1>0, <1>1 DEF CreateTopic
<1>2. CASE DeleteTopic
  BY <1>0, <1>2 DEF DeleteTopic
<1>3. ASSUME NEW ttl \in BOOLEAN, NEW big \in BOOLEAN, PublishOk(ttl, big)
      PROVE  CursorSound'
  BY <1>0, <1>3 DEF PublishOk
<1>4. CASE PublishFull
  BY <1>0, <1>4 DEF PublishFull
<1>5. ASSUME NEW c \in Consumers, NEW max \in 0..MaxPull, PullBegin(c, max)
      PROVE  CursorSound'
  BY <1>0, <1>5 DEF PullBegin
<1>6. CASE DrainStep
  BY <1>0, <1>6 DEF DrainStep, PopFails
<1>7. CASE DrainEnd
  <2>1. pull.c \in Consumers /\ pull.i = 1 /\ pull' = pull
    BY <1>0, <1>7 DEF DrainEnd
  <2>2. offset'[pull.c] >= 1
    BY <1>0, <2>1, <1>7 DEF DrainEnd
  <2> QED BY <1>0, <2>1, <2>2, <1>7 DEF DrainEnd
<1>8. CASE PullSkip
  <2>1. phase = "pull" /\ pull.i \in 1..Len(log) /\ pull.c \in Consumers
    BY <1>0, <1>8 DEF PullSkip, InLogLoop, Pulls
  <2>2. log[pull.i] < offset[pull.c]
    <3>1. CASE IsPending(pull.c, log[pull.i])
      BY <1>0, <3>1 DEF IsPending, OffsetCovers
    <3>2. CASE ~IsPending(pull.c, log[pull.i])
      <4>1. log[pull.i] \in Nat
        BY <1>0, <2>1
      <4> QED BY <1>0, <2>1, <3>2, <4>1, <1>8 DEF PullSkip, Passed
    <3> QED BY <3>1, <3>2
  <2>3. pull'.i = pull.i + 1 /\ pull'.c = pull.c /\ pull'.j = pull.j
    BY <1>0, <1>8 DEF PullSkip, Pulls
  <2> QED BY <1>0, <2>1, <2>2, <2>3, <1>8 DEF PullSkip
<1>9. CASE PullSkipExpired
  <2>1. phase = "pull" /\ pull.i \in 1..Len(log) /\ pull.c \in Consumers
    BY <1>0, <1>9 DEF PullSkipExpired, InLogLoop, CursorSound, Pulls
  <2>2. log[pull.i] \in Nat /\ log[pull.i] >= offset[pull.c]
    BY <1>0, <2>1, <1>9 DEF PullSkipExpired, Passed
  <2>3. /\ offset'[pull.c] = log[pull.i] + 1
        /\ \A c \in Consumers : c # pull.c => offset'[c] = offset[c]
    BY <1>0, <2>1, <1>9 DEF PullSkipExpired, NextOffset
  <2>4. pull'.i = pull.i + 1 /\ pull'.c = pull.c /\ pull'.j = pull.j
    BY <1>0, <1>9 DEF PullSkipExpired, Pulls
  <2>5. \A k \in 1..Len(log) : k < pull.i + 1 => log[k] < offset'[pull.c]
    <3> SUFFICES ASSUME NEW k \in 1..Len(log), k < pull.i + 1
                 PROVE  log[k] < offset'[pull.c]
      OBVIOUS
    <3>1. log[k] \in Nat /\ offset[pull.c] \in Nat
      BY <1>0, <2>1
    <3>2. CASE k = pull.i
      BY <2>2, <2>3, <3>2
    <3>3. CASE k < pull.i
      BY <1>0, <2>1, <2>2, <2>3, <3>1, <3>3
    <3> QED BY <2>1, <3>2, <3>3
  <2> QED BY <1>0, <2>1, <2>2, <2>3, <2>4, <2>5, <1>9 DEF PullSkipExpired
<1>10. CASE PullTake
  <2>1. phase = "pull" /\ pull.i \in 1..Len(log) /\ pull.c \in Consumers
    BY <1>0, <1>10 DEF PullTake, InLogLoop, CursorSound, Pulls
  <2>2. log[pull.i] \in Nat /\ log[pull.i] >= offset[pull.c]
    BY <1>0, <2>1, <1>10 DEF PullTake, Passed
  <2>3. /\ offset'[pull.c] = log[pull.i] + 1
        /\ \A c \in Consumers : c # pull.c => offset'[c] = offset[c]
    BY <1>0, <2>1, <1>10 DEF PullTake, NextOffset
  <2>4. pull'.i = pull.i + 1 /\ pull'.c = pull.c /\ pull'.j = pull.j
    BY <1>0, <1>10 DEF PullTake, Pulls
  <2>5. \A k \in 1..Len(log) : k < pull.i + 1 => log[k] < offset'[pull.c]
    <3> SUFFICES ASSUME NEW k \in 1..Len(log), k < pull.i + 1
                 PROVE  log[k] < offset'[pull.c]
      OBVIOUS
    <3>1. log[k] \in Nat /\ offset[pull.c] \in Nat
      BY <1>0, <2>1
    <3>2. CASE k = pull.i
      BY <2>2, <2>3, <3>2
    <3>3. CASE k < pull.i
      BY <1>0, <2>1, <2>2, <2>3, <3>1, <3>3
    <3> QED BY <2>1, <3>2, <3>3
  <2> QED BY <1>0, <2>1, <2>2, <2>3, <2>4, <2>5, <1>10 DEF PullTake
<1>11. CASE RetryDropExpired
  BY <1>0, <1>11 DEF RetryDropExpired
<1>12. CASE RetryTake
  <2>1. phase = "pull" /\ phase' = "pull"
    BY <1>12 DEF RetryTake, InRetryLoop
  <2>2. pull'.i = pull.i /\ pull'.c = pull.c /\ pull'.j = pull.j
    BY <1>0, <1>12 DEF RetryTake, Pulls
  <2> QED BY <1>0, <2>1, <2>2, <1>12 DEF RetryTake
<1>13. CASE RetryLeave
  <2>1. phase = "pull" /\ pull.j >= 1 /\ pull.j \in Nat
    BY <1>0, <1>13 DEF RetryLeave, InRetryLoop, Pulls
  <2>2. pull'.i = pull.i /\ pull'.c = pull.c /\ pull'.j = pull.j + 1
    BY <1>0, <1>13 DEF RetryLeave, Pulls
  <2> QED BY <1>0, <2>1, <2>2, <1>13 DEF RetryLeave
<1>14. CASE PullEnd
  BY <1>0, <1>14 DEF PullEnd, Unlock
<1>15. ASSUME NEW c \in Consumers, NEW id \in Ids, Ack(c, id)
      PROVE  CursorSound'
  BY <1>0, <1>15 DEF Ack
<1>16. ASSUME NEW max \in 0..MaxPull, PullDlq(max)
      PROVE  CursorSound'
  BY <1>0, <1>16 DEF PullDlq
<1>17. CASE RetryBegin
  BY <1>0, <1>17 DEF RetryBegin
<1>18. ASSUME NEW p \in todo, RetryDrop(p)
      PROVE  CursorSound'
  BY <1>0, <1>18 DEF RetryDrop, Visit
<1>19. ASSUME NEW p \in todo, RetryBury(p)
      PROVE  CursorSound'
  BY <1>0, <1>19 DEF RetryBury, Visit
<1>20. ASSUME NEW p \in todo, RetryRequeue(p)
      PROVE  CursorSound'
  BY <1>0, <1>20 DEF RetryRequeue, Visit
<1>21. CASE RetryEnd
  BY <1>0, <1>21 DEF RetryEnd, Unlock
<1>22. CASE ExpireBegin
  BY <1>0, <1>22 DEF ExpireBegin
<1>23. CASE ExpireLog
  BY <1>0, <1>23 DEF ExpireLog
<1>24. CASE ExpireRetry
  BY <1>0, <1>24 DEF ExpireRetry
<1>25. CASE ExpireEnd
  BY <1>0, <1>25 DEF ExpireEnd, Unlock
<1>26. CASE WallClock
  BY <1>0, <1>26 DEF WallClock
<1>27. CASE SteadyClock
  BY <1>0, <1>27 DEF SteadyClock
<1> QED
  BY <1>1, <1>2, <1>3, <1>4, <1>5, <1>6, <1>7, <1>8, <1>9, <1>10, <1>11,
     <1>12, <1>13, <1>14, <1>15, <1>16, <1>17, <1>18, <1>19, <1>20, <1>21,
     <1>22, <1>23, <1>24, <1>25, <1>26, <1>27
     DEF Next, PullStep, RetryStep, ExpireStep

(* RemoveAt keeps the ids of a queue distinct and its retry counts.        *)
LEMMA RemoveAtKeepsUnique ==
  ASSUME NEW q \in Seq(Messages), NEW n \in 1..Len(q),
         \A i, j \in 1..Len(q) : q[i].id = q[j].id => i = j,
         \A i \in 1..Len(q) : q[i].retry >= 1
  PROVE  LET r == RemoveAt(q, n)
         IN  /\ \A i, j \in 1..Len(r) : r[i].id = r[j].id => i = j
             /\ \A i \in 1..Len(r) : r[i].retry >= 1
<1> DEFINE r == RemoveAt(q, n)
<1>1. /\ Len(r) = Len(q) - 1 /\ Len(q) \in Nat /\ n \in Int
      /\ \A k \in 1..Len(q) - 1 : r[k] = IF k < n THEN q[k] ELSE q[k + 1]
  BY RemoveAtProps
<1> HIDE DEF r
<1>2. \A i, j \in 1..Len(r) : r[i].id = r[j].id => i = j
  BY <1>1
<1>3. \A i \in 1..Len(r) : r[i].retry >= 1
  BY <1>1
<1> QED BY <1>2, <1>3 DEF r

(* The log is sorted, and a Pull has passed everything before its cursor:  *)
(* between the offset and the message at the cursor nothing is left that   *)
(* has not expired.                                                        *)
LEMMA PassedInOrder ==
  ASSUME TypeOK, LogOrdered, Retained, CursorSound, phase = "pull",
         pull.i \in 1..Len(log), pull.c \in Consumers,
         NEW x \in published, x < log[pull.i], x >= offset[pull.c]
  PROVE  x \in expired
<1>1. /\ x \in Nat /\ log[pull.i] \in Nat /\ offset[pull.c] \in Nat
      /\ \A k \in 1..Len(log) : log[k] \in Nat
  BY TypeFacts
<1>2. ~InSeq(x, log)
  <2> SUFFICES ASSUME NEW k \in 1..Len(log), log[k] = x
               PROVE  FALSE
    BY DEF InSeq
  <2>1. CASE k < pull.i
    BY <1>1, <2>1 DEF CursorSound
  <2>2. CASE ~(k < pull.i)
    BY <1>1, <2>2 DEF LogOrdered
  <2> QED BY <2>1, <2>2
<1>3. ~InSeq(x, ring)
  <2> SUFFICES ASSUME NEW k \in 1..Len(ring), ring[k] = x
               PROVE  FALSE
    BY DEF InSeq
  <2>1. log[pull.i] < x
    BY DEF LogOrdered
  <2> QED BY <1>1, <2>1
<1> QED BY <1>2, <1>3 DEF Retained

(* The retry scan replaces the record of a message instead of adding one.   *)
LEMMA RetryQueueStep ==
  ASSUME IInv, Next
  PROVE  RetryQueueSound'
<1> USE DEF RetryQueueSound, msgVars, lockVars, history
<1>0. /\ RetryQueueSound /\ CursorSound
      /\ Ids \subseteq Nat /\ published \subseteq Nat /\ nextId \in Nat
      /\ nextId >= 1 /\ \A x \in published : x >= 1
      /\ ring \in Seq(Ids) /\ log \in Seq(Ids)
      /\ \A k \in 1..Len(log) : log[k] \in Nat
      /\ retryQ \in Seq(Messages) /\ dlq \in Seq(Messages)
      /\ pending \subseteq Deliveries /\ due \subseteq pending
      /\ todo \subseteq due /\ clock \subseteq expired /\ pull \in Pulls
      /\ \A c \in Consumers : offset[c] \in Nat
      /\ phase \in {"drain", "pull"} => pull.c \in Consumers
  <2>1. TypeOK
    BY DEF IInv
  <2> QED BY <2>1, TypeFacts DEF IInv
<1>1. CASE CreateTopic
  BY <1>0, <1>1 DEF CreateTopic
<1>2. CASE DeleteTopic
  BY <1>0, <1>2 DEF DeleteTopic
<1>3. ASSUME NEW ttl \in BOOLEAN, NEW big \in BOOLEAN, PublishOk(ttl, big)
      PROVE  RetryQueueSound'
  BY <1>0, <1>3 DEF PublishOk
<1>4. CASE PublishFull
  BY <1>0, <1>4 DEF PublishFull
<1>5. ASSUME NEW c \in Consumers, NEW max \in 0..MaxPull, PullBegin(c, max)
      PROVE  RetryQueueSound'
  BY <1>0, <1>5 DEF PullBegin
<1>6. CASE DrainStep
  BY <1>0, <1>6 DEF DrainStep, PopFails
<1>7. CASE DrainEnd
  BY <1>0, <1>7 DEF DrainEnd
<1>8. CASE PullSkip
  BY <1>0, <1>8 DEF PullSkip
<1>9. CASE PullSkipExpired
  BY <1>0, <1>9 DEF PullSkipExpired
<1>10. CASE PullTake
  BY <1>0, <1>10 DEF PullTake
<1>11. CASE RetryDropExpired
  <2>1. pull.j \in 1..Len(retryQ) /\ retryQ' = RemoveAt(retryQ, pull.j)
    BY <1>0, <1>11 DEF RetryDropExpired, InRetryLoop, CursorSound, Pulls
  <2>2. /\ \A i, j \in 1..Len(retryQ') : retryQ'[i].id = retryQ'[j].id => i = j
        /\ \A i \in 1..Len(retryQ') : retryQ'[i].retry >= 1
    BY <1>0, <2>1, RemoveAtKeepsUnique
  <2> QED BY <1>0, <2>2, <1>11 DEF RetryDropExpired
<1>12. CASE RetryTake
  <2>1. pull.j \in 1..Len(retryQ) /\ retryQ' = RemoveAt(retryQ, pull.j)
    BY <1>0, <1>12 DEF RetryTake, InRetryLoop, CursorSound, Pulls
  <2>2. /\ \A i, j \in 1..Len(retryQ') : retryQ'[i].id = retryQ'[j].id => i = j
        /\ \A i \in 1..Len(retryQ') : retryQ'[i].retry >= 1
    BY <1>0, <2>1, RemoveAtKeepsUnique
  <2> QED BY <1>0, <2>2, <1>12 DEF RetryTake
<1>13. CASE RetryLeave
  BY <1>0, <1>13 DEF RetryLeave
<1>14. CASE PullEnd
  BY <1>0, <1>14 DEF PullEnd, Unlock
<1>15. ASSUME NEW c \in Consumers, NEW id \in Ids, Ack(c, id)
      PROVE  RetryQueueSound'
  BY <1>0, <1>15 DEF Ack
<1>16. ASSUME NEW max \in 0..MaxPull, PullDlq(max)
      PROVE  RetryQueueSound'
  <2> DEFINE n == IF max < Len(dlq) THEN max ELSE Len(dlq)
  <2>1. n \in 0..Len(dlq) /\ Len(dlq) \in Nat
    BY <1>0
  <2>2. dlq' = SubSeq(dlq, n + 1, Len(dlq))
    BY <1>16 DEF PullDlq
  <2> HIDE DEF n
  <2>3. \A k \in 1..Len(dlq') : dlq'[k] = dlq[n + k] /\ n + k \in 1..Len(dlq)
    <3>1. \A l \in n + 1..Len(dlq) : dlq[l] \in Messages
      BY <1>0, <2>1
    <3>2. /\ Len(dlq') = IF n + 1 <= Len(dlq) THEN Len(dlq) - (n + 1) + 1 ELSE 0
          /\ \A k \in 1..Len(dlq) - (n + 1) + 1 : dlq'[k] = dlq[n + 1 + k - 1]
      BY <2>1, <2>2, <3>1, SubSeqProperties
    <3> QED BY <2>1, <3>2
  <2>4. \A k \in 1..Len(dlq') : dlq'[k].retry = MaxRetry
    BY <1>0, <2>3
  <2> QED BY <1>0, <2>4, <1>16 DEF PullDlq
<1>17. CASE RetryBegin
  BY <1>0, <1>17 DEF RetryBegin
<1>18. ASSUME NEW p \in todo, RetryDrop(p)
      PROVE  RetryQueueSound'
  BY <1>0, <1>18 DEF RetryDrop, Visit
<1>19. ASSUME NEW p \in todo, RetryBury(p)
      PROVE  RetryQueueSound'
  <2>1. p.retry = MaxRetry
    BY <1>0, MaxRetryAssumption, <1>19 DEF RetryBury, Exhausted, Deliveries
  <2>2. [id |-> p.id, retry |-> p.retry] \in Messages
    BY <1>0 DEF Deliveries, Messages
  <2>3. \A k \in 1..Len(dlq') : dlq'[k].retry = MaxRetry
    BY <1>0, <2>1, <2>2, AppendProperties, <1>19 DEF RetryBury
  <2> QED BY <1>0, <2>3, <1>19 DEF RetryBury
<1>20. ASSUME NEW p \in todo, RetryRequeue(p)
      PROVE  RetryQueueSound'
  <2> DEFINE w == Without(retryQ, p.id)
             m == [id |-> p.id, retry |-> p.retry + 1]
  <2>1. /\ w \in Seq(Messages)
        /\ \A k \in 1..Len(w) :
             w[k].id # p.id /\ \E l \in 1..Len(retryQ) : w[k] = retryQ[l]
        /\ \A i, j \in 1..Len(w) : w[i].id = w[j].id => i = j
    BY <1>0, WithoutProps
  <2>2. retryQ' = Append(w, m) /\ dlq' = dlq
    BY <1>20 DEF RetryRequeue
  <2>3. p.retry + 1 >= 1 /\ m.id = p.id /\ m.retry = p.retry + 1
    BY <1>0 DEF Deliveries
  <2>4. \A k \in 1..Len(w) : w[k].retry >= 1
    BY <1>0, <2>1
  <2> HIDE DEF w, m
  <2>5. /\ Len(retryQ') = Len(w) + 1 /\ Len(w) \in Nat
        /\ \A k \in 1..Len(w) : retryQ'[k] = w[k]
        /\ retryQ'[Len(w) + 1] = m
    BY <2>1, <2>2
  <2>6. \A i, j \in 1..Len(retryQ') : retryQ'[i].id = retryQ'[j].id => i = j
    <3>1. ASSUME NEW i \in 1..Len(retryQ'), NEW j \in 1..Len(retryQ'),
                 retryQ'[i].id = retryQ'[j].id
          PROVE  i = j
      <4>1. (i \in 1..Len(w) \/ i = Len(w) + 1) /\ (j \in 1..Len(w) \/ j = Len(w) + 1)
        BY <2>5
      <4>2. CASE i \in 1..Len(w) /\ j \in 1..Len(w)
        BY <2>1, <2>5, <3>1, <4>2
      <4>3. CASE i \in 1..Len(w) /\ j = Len(w) + 1
        BY <2>1, <2>3, <2>5, <3>1, <4>3
      <4>4. CASE i = Len(w) + 1 /\ j \in 1..Len(w)
        BY <2>1, <2>3, <2>5, <3>1, <4>4
      <4> QED BY <4>1, <4>2, <4>3, <4>4
    <3> QED BY <3>1
  <2>7. \A i \in 1..Len(retryQ') : retryQ'[i].retry >= 1
    BY <2>3, <2>4, <2>5
  <2> QED BY <1>0, <2>2, <2>6, <2>7
<1>21. CASE RetryEnd
  BY <1>0, <1>21 DEF RetryEnd, Unlock
<1>22. CASE ExpireBegin
  BY <1>0, <1>22 DEF ExpireBegin
<1>23. CASE ExpireLog
  BY <1>0, <1>23 DEF ExpireLog
<1>24. CASE ExpireRetry
  <2>1. PICK k \in 1..Len(retryQ) : retryQ' = RemoveAt(retryQ, k)
    BY <1>24 DEF ExpireRetry
  <2>2. /\ \A i, j \in 1..Len(retryQ') : retryQ'[i].id = retryQ'[j].id => i = j
        /\ \A i \in 1..Len(retryQ') : retryQ'[i].retry >= 1
    BY <1>0, <2>1, RemoveAtKeepsUnique
  <2> QED BY <1>0, <2>2, <1>24 DEF ExpireRetry
<1>25. CASE ExpireEnd
  BY <1>0, <1>25 DEF ExpireEnd, Unlock
<1>26. CASE WallClock
  BY <1>0, <1>26 DEF WallClock
<1>27. CASE SteadyClock
  BY <1>0, <1>27 DEF SteadyClock
<1> QED
  BY <1>1, <1>2, <1>3, <1>4, <1>5, <1>6, <1>7, <1>8, <1>9, <1>10, <1>11,
     <1>12, <1>13, <1>14, <1>15, <1>16, <1>17, <1>18, <1>19, <1>20, <1>21,
     <1>22, <1>23, <1>24, <1>25, <1>26, <1>27
     DEF Next, PullStep, RetryStep, ExpireStep

(* No step loses track of a message that a consumer's offset has passed.    *)
LEMMA NoLossStep ==
  ASSUME IInv, Next
  PROVE  NoMessageLost'
<1> USE DEF NoMessageLost, msgVars, lockVars, history
<1>0. /\ NoMessageLost /\ CursorSound /\ RetryQueueSound
      /\ LogOrdered /\ Retained /\ OffsetCovers /\ TypeOK
      /\ Ids \subseteq Nat /\ published \subseteq Nat /\ nextId \in Nat
      /\ nextId >= 1 /\ \A x \in published : x >= 1
      /\ ring \in Seq(Ids) /\ log \in Seq(Ids)
      /\ \A k \in 1..Len(log) : log[k] \in Nat
      /\ retryQ \in Seq(Messages) /\ dlq \in Seq(Messages)
      /\ pending \subseteq Deliveries /\ due \subseteq pending
      /\ todo \subseteq due /\ clock \subseteq expired /\ pull \in Pulls
      /\ \A c \in Consumers : offset[c] \in Nat
      /\ phase \in {"drain", "pull"} => pull.c \in Consumers
      /\ offset \in [Consumers -> 0..MaxId + 1]
  <2>1. TypeOK
    BY DEF IInv
  <2> QED BY <2>1, TypeFacts DEF IInv
<1>1. CASE CreateTopic
  BY <1>0, <1>1 DEF CreateTopic, Accounted, InRetry
<1>2. CASE DeleteTopic
  BY <1>0, <1>2 DEF DeleteTopic
<1>3. ASSUME NEW ttl \in BOOLEAN, NEW big \in BOOLEAN, PublishOk(ttl, big)
      PROVE  NoMessageLost'
  <2>1. \A x \in published : Accounted(x) => Accounted(x)'
    BY <1>3 DEF PublishOk, Accounted, InRetry
  <2>2. \A c \in Consumers : ~(nextId < offset[c])
    BY <1>0 DEF OffsetCovers
  <2> QED BY <1>0, <2>1, <2>2, <1>3 DEF PublishOk
<1>4. CASE PublishFull
  BY <1>0, <1>4 DEF PublishFull, Accounted, InRetry
<1>5. ASSUME NEW c \in Consumers, NEW max \in 0..MaxPull, PullBegin(c, max)
      PROVE  NoMessageLost'
  BY <1>0, <1>5 DEF PullBegin, Accounted, InRetry
<1>6. CASE DrainStep
  BY <1>0, <1>6 DEF DrainStep, PopFails, Accounted, InRetry
<1>7. CASE DrainEnd
  <2>1. \A x \in published : Accounted(x) => Accounted(x)'
    BY <1>7 DEF DrainEnd, Accounted, InRetry
  <2>2. \A c \in Consumers, x \in published : x < offset'[c] => x < offset[c]
    BY <1>0, <1>7 DEF DrainEnd
  <2> QED BY <1>0, <2>1, <2>2, <1>7 DEF DrainEnd
<1>8. CASE PullSkip
  BY <1>0, <1>8 DEF PullSkip, Accounted, InRetry
<1>9. CASE PullSkipExpired
  <2>1. phase = "pull" /\ pull.i \in 1..Len(log) /\ pull.c \in Consumers
    BY <1>0, <1>9 DEF PullSkipExpired, InLogLoop, CursorSound, Pulls
  <2>2. log[pull.i] \in Nat
    BY <1>0, <2>1
  <2>3. /\ offset'[pull.c] = log[pull.i] + 1
        /\ \A c \in Consumers : c # pull.c => offset'[c] = offset[c]
    BY <1>0, <2>1, <1>9 DEF PullSkipExpired, NextOffset
  <2>4. \A x \in published : Accounted(x) => Accounted(x)'
    BY <1>9 DEF PullSkipExpired, Accounted, InRetry
  <2>5. \A x : x = log[pull.i] => Accounted(x)'
    BY <1>0, <1>9 DEF PullSkipExpired, Accounted, IsExpired
  <2>6. ASSUME NEW x \in published, x < log[pull.i], x >= offset[pull.c]
        PROVE  x \in expired
    BY <1>0, <2>1, <2>2, <2>6, PassedInOrder
  <2>7. ASSUME NEW c \in Consumers, NEW x \in published, x < offset'[c]
        PROVE  Accounted(x)'
    <3>1. CASE x < offset[c]
      BY <1>0, <2>4, <2>7, <3>1
    <3>2. CASE ~(x < offset[c])
      <4>1. c = pull.c /\ x \in Nat /\ offset[c] \in Nat
        BY <1>0, <2>3, <2>7, <3>2
      <4>2. x = log[pull.i] \/ (x < log[pull.i] /\ x >= offset[pull.c])
        BY <2>2, <2>3, <2>7, <3>2, <4>1
      <4>3. CASE x = log[pull.i]
        BY <2>5, <4>3
      <4>4. CASE x < log[pull.i] /\ x >= offset[pull.c]
        BY <2>4, <2>6, <4>4 DEF Accounted
      <4> QED BY <4>2, <4>3, <4>4
    <3> QED BY <3>1, <3>2
  <2>8. published' = published
    BY <1>9 DEF PullSkipExpired
  <2> QED BY <2>7, <2>8
<1>10. CASE PullTake
  <2>1. phase = "pull" /\ pull.i \in 1..Len(log) /\ pull.c \in Consumers
    BY <1>0, <1>10 DEF PullTake, InLogLoop, CursorSound, Pulls
  <2>2. log[pull.i] \in Nat
    BY <1>0, <2>1
  <2>3. /\ offset'[pull.c] = log[pull.i] + 1
        /\ \A c \in Consumers : c # pull.c => offset'[c] = offset[c]
    BY <1>0, <2>1, <1>10 DEF PullTake, NextOffset
  <2>4. \A x \in published : Accounted(x) => Accounted(x)'
    BY <1>10 DEF PullTake, Accounted, InRetry
  <2>5. \A x : x = log[pull.i] => Accounted(x)'
    <3>1. \E p \in pending' : p.id = log[pull.i]
      <4>1. [c |-> pull.c, id |-> log[pull.i], retry |-> 0] \in pending'
        BY <1>10 DEF PullTake, Delivery
      <4> QED BY <4>1
    <3> QED BY <3>1 DEF Accounted
  <2>6. ASSUME NEW x \in published, x < log[pull.i], x >= offset[pull.c]
        PROVE  x \in expired
    BY <1>0, <2>1, <2>2, <2>6, PassedInOrder
  <2>7. ASSUME NEW c \in Consumers, NEW x \in published, x < offset'[c]
        PROVE  Accounted(x)'
    <3>1. CASE x < offset[c]
      BY <1>0, <2>4, <2>7, <3>1
    <3>2. CASE ~(x < offset[c])
      <4>1. c = pull.c /\ x \in Nat /\ offset[c] \in Nat
        BY <1>0, <2>3, <2>7, <3>2
      <4>2. x = log[pull.i] \/ (x < log[pull.i] /\ x >= offset[pull.c])
        BY <2>2, <2>3, <2>7, <3>2, <4>1
      <4>3. CASE x = log[pull.i]
        BY <2>5, <4>3
      <4>4. CASE x < log[pull.i] /\ x >= offset[pull.c]
        BY <2>4, <2>6, <4>4 DEF Accounted
      <4> QED BY <4>2, <4>3, <4>4
    <3> QED BY <3>1, <3>2
  <2>8. published' = published
    BY <1>10 DEF PullTake
  <2> QED BY <2>7, <2>8
<1>11. CASE RetryDropExpired
  <2>1. pull.j \in 1..Len(retryQ) /\ retryQ' = RemoveAt(retryQ, pull.j)
    BY <1>0, <1>11 DEF RetryDropExpired, InRetryLoop, CursorSound, Pulls
  <2>2. \A l \in 1..Len(retryQ) : l # pull.j =>
          \E k \in 1..Len(retryQ') : retryQ'[k] = retryQ[l]
    BY <1>0, <2>1, RemoveAtElements
  <2>3. retryQ[pull.j].id \in expired
    BY <1>0, <1>11 DEF RetryDropExpired, IsExpired
  <2>4. \A x \in published : Accounted(x) => Accounted(x)'
    BY <2>2, <2>3, <1>11 DEF RetryDropExpired, Accounted, InRetry
  <2> QED BY <1>0, <2>4, <1>11 DEF RetryDropExpired
<1>12. CASE RetryTake
  <2>1. pull.j \in 1..Len(retryQ) /\ retryQ' = RemoveAt(retryQ, pull.j)
    BY <1>0, <1>12 DEF RetryTake, InRetryLoop, CursorSound, Pulls
  <2>2. \A l \in 1..Len(retryQ) : l # pull.j =>
          \E k \in 1..Len(retryQ') : retryQ'[k] = retryQ[l]
    BY <1>0, <2>1, RemoveAtElements
  <2>3. \E p \in pending' : p.id = retryQ[pull.j].id
    <3>1. Delivery(pull.c, retryQ[pull.j]) \in pending'
      BY <1>12 DEF RetryTake
    <3> QED BY <3>1 DEF Delivery
  <2>4. \A x \in published : Accounted(x) => Accounted(x)'
    BY <2>2, <2>3, <1>12 DEF RetryTake, Accounted, InRetry
  <2> QED BY <1>0, <2>4, <1>12 DEF RetryTake
<1>13. CASE RetryLeave
  BY <1>0, <1>13 DEF RetryLeave, Accounted, InRetry
<1>14. CASE PullEnd
  BY <1>0, <1>14 DEF PullEnd, Unlock, Accounted, InRetry
<1>15. ASSUME NEW c \in Consumers, NEW id \in Ids, Ack(c, id)
      PROVE  NoMessageLost'
  <2>1. \A x \in published : Accounted(x) => Accounted(x)'
    BY <1>15 DEF Ack, Settled, Accounted, InRetry
  <2> QED BY <1>0, <2>1, <1>15 DEF Ack
<1>16. ASSUME NEW max \in 0..MaxPull, PullDlq(max)
      PROVE  NoMessageLost'
  BY <1>0, <1>16 DEF PullDlq, Accounted, InRetry
<1>17. CASE RetryBegin
  BY <1>0, <1>17 DEF RetryBegin, Accounted, InRetry
<1>18. ASSUME NEW p \in todo, RetryDrop(p)
      PROVE  NoMessageLost'
  <2>1. p.id \in expired
    BY <1>0, <1>18 DEF RetryDrop, IsExpired
  <2>2. \A x \in published : Accounted(x) => Accounted(x)'
    BY <2>1, <1>18 DEF RetryDrop, Visit, Accounted, InRetry
  <2> QED BY <1>0, <2>2, <1>18 DEF RetryDrop, Visit
<1>19. ASSUME NEW p \in todo, RetryBury(p)
      PROVE  NoMessageLost'
  <2>1. \A x \in published : Accounted(x) => Accounted(x)'
    BY <1>19 DEF RetryBury, Visit, Accounted, InRetry
  <2> QED BY <1>0, <2>1, <1>19 DEF RetryBury, Visit
<1>20. ASSUME NEW p \in todo, RetryRequeue(p)
      PROVE  NoMessageLost'
  <2> DEFINE w == Without(retryQ, p.id)
             m == [id |-> p.id, retry |-> p.retry + 1]
  <2>1. /\ w \in Seq(Messages)
        /\ \A l \in 1..Len(retryQ) : retryQ[l].id # p.id =>
             \E k \in 1..Len(w) : w[k] = retryQ[l]
    BY <1>0, WithoutProps DEF RetryQueueSound
  <2>2. retryQ' = Append(w, m) /\ m.id = p.id
    BY <1>20 DEF RetryRequeue
  <2> HIDE DEF w, m
  <2>3. /\ Len(retryQ') = Len(w) + 1 /\ Len(w) \in Nat
        /\ \A k \in 1..Len(w) : retryQ'[k] = w[k]
        /\ retryQ'[Len(w) + 1] = m
    BY <2>1, <2>2
  <2>4. InRetry(p.id)'
    BY <2>2, <2>3 DEF InRetry
  <2>5. \A x : InRetry(x) => InRetry(x)'
    <3>1. ASSUME NEW x, InRetry(x), x # p.id PROVE InRetry(x)'
      <4>1. PICK l \in 1..Len(retryQ) : retryQ[l].id = x
        BY <3>1 DEF InRetry
      <4>2. PICK k \in 1..Len(w) : w[k] = retryQ[l]
        BY <2>1, <3>1, <4>1
      <4>3. k \in 1..Len(retryQ') /\ retryQ'[k].id = x
        BY <2>3, <4>1, <4>2
      <4> QED BY <4>3 DEF InRetry
    <3> QED BY <2>4, <3>1
  <2>6. \A x \in published : Accounted(x) => Accounted(x)'
    BY <2>4, <2>5, <1>20 DEF RetryRequeue, Visit, Accounted
  <2> QED BY <1>0, <2>6, <1>20 DEF RetryRequeue, Visit
<1>21. CASE RetryEnd
  BY <1>0, <1>21 DEF RetryEnd, Unlock, Accounted, InRetry
<1>22. CASE ExpireBegin
  BY <1>0, <1>22 DEF ExpireBegin, Accounted, InRetry
<1>23. CASE ExpireLog
  BY <1>0, <1>23 DEF ExpireLog, Accounted, InRetry
<1>24. CASE ExpireRetry
  <2>1. PICK k \in 1..Len(retryQ) :
          IsExpired(retryQ[k].id) /\ retryQ' = RemoveAt(retryQ, k)
    BY <1>24 DEF ExpireRetry
  <2>2. \A l \in 1..Len(retryQ) : l # k =>
          \E n \in 1..Len(retryQ') : retryQ'[n] = retryQ[l]
    <3>1. retryQ \in Seq(Messages)
      BY <1>0
    <3> QED BY <2>1, <3>1, RemoveAtElements
  <2>3. retryQ[k].id \in expired
    BY <1>0, <2>1 DEF IsExpired
  <2>4. \A x \in published : Accounted(x) => Accounted(x)'
    BY <2>2, <2>3, <1>24 DEF ExpireRetry, Accounted, InRetry
  <2> QED BY <1>0, <2>4, <1>24 DEF ExpireRetry
<1>25. CASE ExpireEnd
  <2>1. \A p \in pending : p \in pending' \/ p.id \in expired
    BY <1>0, <1>25 DEF ExpireEnd, IsExpired
  <2>2. \A x \in published : Accounted(x) => Accounted(x)'
    BY <2>1, <1>25 DEF ExpireEnd, Accounted, InRetry
  <2> QED BY <1>0, <2>2, <1>25 DEF ExpireEnd
<1>26. CASE WallClock
  BY <1>0, <1>26 DEF WallClock, Accounted, InRetry
<1>27. CASE SteadyClock
  BY <1>0, <1>27 DEF SteadyClock, Accounted, InRetry
<1> QED
  BY <1>1, <1>2, <1>3, <1>4, <1>5, <1>6, <1>7, <1>8, <1>9, <1>10, <1>11,
     <1>12, <1>13, <1>14, <1>15, <1>16, <1>17, <1>18, <1>19, <1>20, <1>21,
     <1>22, <1>23, <1>24, <1>25, <1>26, <1>27
     DEF Next, PullStep, RetryStep, ExpireStep

(* With one consumer every step moves a message from one place to another. *)
LEMMA ExclusiveStep ==
  ASSUME IInv, SingleConsumer, Exclusive, Next
  PROVE  Exclusive'
<1> USE DEF Exclusive, msgVars, lockVars, history
<1>0. /\ CursorSound /\ RetryQueueSound /\ OffsetCovers /\ TypeOK
      /\ Ids \subseteq Nat /\ published \subseteq Nat /\ nextId \in Nat
      /\ nextId >= 1 /\ \A x \in published : x >= 1
      /\ ring \in Seq(Ids) /\ log \in Seq(Ids)
      /\ \A k \in 1..Len(log) : log[k] \in Nat
      /\ retryQ \in Seq(Messages) /\ dlq \in Seq(Messages)
      /\ pending \subseteq Deliveries /\ due \subseteq pending
      /\ todo \subseteq due /\ clock \subseteq expired /\ pull \in Pulls
      /\ \A c \in Consumers : offset[c] \in Nat
      /\ phase \in {"drain", "pull"} => pull.c \in Consumers
      /\ offset \in [Consumers -> 0..MaxId + 1]
      /\ dead \subseteq Ids
  <2>1. TypeOK
    BY DEF IInv
  <2> QED BY <2>1, TypeFacts DEF IInv
<1>1. CASE CreateTopic
  BY <1>0, <1>1 DEF CreateTopic, InRetry
<1>2. CASE DeleteTopic
  BY <1>0, <1>2 DEF DeleteTopic, InRetry
<1>3. ASSUME NEW ttl \in BOOLEAN, NEW big \in BOOLEAN, PublishOk(ttl, big)
      PROVE  Exclusive'
  BY <1>0, <1>3 DEF PublishOk, InRetry
<1>4. CASE PublishFull
  BY <1>0, <1>4 DEF PublishFull, InRetry
<1>5. ASSUME NEW c \in Consumers, NEW max \in 0..MaxPull, PullBegin(c, max)
      PROVE  Exclusive'
  BY <1>0, <1>5 DEF PullBegin, InRetry
<1>6. CASE DrainStep
  BY <1>0, <1>6 DEF DrainStep, PopFails, InRetry
<1>7. CASE DrainEnd
  <2>1. \A c \in Consumers : offset'[c] >= offset[c] /\ offset'[c] \in Nat
    BY <1>0, <1>7 DEF DrainEnd
  <2>2. \A id \in Ids, c \in Consumers : id < offset[c] => id < offset'[c]
    BY <1>0, <2>1
  <2> QED BY <1>0, <2>2, <1>7 DEF DrainEnd, InRetry
<1>8. CASE PullSkip
  BY <1>0, <1>8 DEF PullSkip, InRetry
<1>9. CASE PullSkipExpired
  <2>1. phase = "pull" /\ pull.i \in 1..Len(log) /\ pull.c \in Consumers
    BY <1>0, <1>9 DEF PullSkipExpired, InLogLoop, CursorSound, Pulls
  <2>2. log[pull.i] \in Nat /\ log[pull.i] \in Ids
        /\ log[pull.i] >= offset[pull.c]
    BY <1>0, <2>1, <1>9 DEF PullSkipExpired, Passed
  <2>3. \A c \in Consumers : offset'[c] = log[pull.i] + 1 /\ offset'[c] >= offset[c]
    <3>1. offset' = [offset EXCEPT ![pull.c] = log[pull.i] + 1]
      BY <1>9 DEF PullSkipExpired, NextOffset
    <3>2. offset \in [Consumers -> Nat] /\ \A c \in Consumers : c = pull.c
      BY <1>0, <2>1 DEF SingleConsumer
    <3> QED BY <2>1, <2>2, <3>1, <3>2
  <2>4. \A id \in Ids, c \in Consumers : id < offset[c] => id < offset'[c]
    BY <1>0, <2>2, <2>3
  <2> QED BY <1>0, <2>4, <1>9 DEF PullSkipExpired, InRetry
<1>10. CASE PullTake
  <2>1. phase = "pull" /\ pull.i \in 1..Len(log) /\ pull.c \in Consumers
    BY <1>0, <1>10 DEF PullTake, InLogLoop, CursorSound, Pulls
  <2>2. log[pull.i] \in Nat /\ log[pull.i] \in Ids
        /\ log[pull.i] >= offset[pull.c]
    BY <1>0, <2>1, <1>10 DEF PullTake, Passed
  <2>3. \A c \in Consumers : offset'[c] = log[pull.i] + 1 /\ offset'[c] >= offset[c]
    BY <1>0, <2>1, <2>2, <1>10 DEF PullTake, NextOffset, SingleConsumer
  <2>4. \A id \in Ids, c \in Consumers : id < offset[c] => id < offset'[c]
    BY <1>0, <2>2, <2>3
  <2> DEFINE x == log[pull.i]
             d == [c |-> pull.c, id |-> x, retry |-> 0]
  <2>5. pending' = pending \cup {d} /\ UNCHANGED <<retryQ, acked, dead>>
    BY <1>10 DEF PullTake, Delivery
  <2>6. d.id = x /\ d.c = pull.c /\ x \in Ids /\ ~(x < offset[pull.c])
    BY <1>0, <2>1, <2>2
  <2> HIDE DEF x, d
  <2>7. /\ ~InRetry(x) /\ x \notin dead /\ <<pull.c, x>> \notin acked
    BY <1>0, <2>1, <2>6
  <2>8. \A p \in pending : p.id # x
    <3> TAKE p \in pending
    <3>1. p.c = pull.c
      BY <1>0, <2>1 DEF Deliveries, SingleConsumer
    <3> QED BY <1>0, <2>6, <3>1 DEF OffsetCovers
  <2>9. \A p, q \in pending' : p.id = q.id => p = q
    BY <2>5, <2>6, <2>8
  <2>10. \A p \in pending' : /\ ~InRetry(p.id) /\ p.id \notin dead
                             /\ <<p.c, p.id>> \notin acked
    BY <2>5, <2>6, <2>7
  <2> QED BY <2>4, <2>5, <2>9, <2>10, <1>0 DEF InRetry
<1>11. CASE RetryDropExpired
  <2>1. pull.j \in 1..Len(retryQ) /\ retryQ' = RemoveAt(retryQ, pull.j)
    BY <1>0, <1>11 DEF RetryDropExpired, InRetryLoop, CursorSound, Pulls
  <2>2. \A l \in 1..Len(retryQ') : \E m \in 1..Len(retryQ) : retryQ'[l] = retryQ[m]
    <3>1. retryQ \in Seq(Messages)
      BY <1>0
    <3> QED BY <2>1, <3>1, RemoveAtElements
  <2>3. \A id : InRetry(id)' => InRetry(id)
    BY <2>2 DEF InRetry
  <2> QED BY <1>0, <2>3, <1>11 DEF RetryDropExpired
<1>12. CASE RetryTake
  <2>1. /\ pull.j \in 1..Len(retryQ) /\ retryQ' = RemoveAt(retryQ, pull.j)
        /\ phase = "pull" /\ pull.c \in Consumers
    BY <1>0, <1>12 DEF RetryTake, InRetryLoop, CursorSound, Pulls
  <2>2. \A l \in 1..Len(retryQ') :
          \E m \in 1..Len(retryQ) : m # pull.j /\ retryQ'[l] = retryQ[m]
    <3>1. retryQ \in Seq(Messages)
      BY <1>0
    <3> QED BY ONLY <2>1, <3>1, RemoveAtElements
  <2> DEFINE x == retryQ[pull.j].id
             d == Delivery(pull.c, retryQ[pull.j])
  <2>3. pending' = pending \cup {d} /\ UNCHANGED <<offset, acked, dead>>
    BY <1>12 DEF RetryTake
  <2>4. d.id = x /\ d.c = pull.c /\ x \in Ids /\ InRetry(x)
    <3>1. retryQ[pull.j] \in Messages
      BY <1>0, <2>1
    <3>2. x \in Ids
      BY <3>1 DEF Messages
    <3>3. InRetry(x)
      BY <2>1 DEF InRetry
    <3> QED BY <3>2, <3>3 DEF Delivery
  <2>5. \A id : InRetry(id)' => InRetry(id) /\ id # x
    BY <2>1, <2>2, <1>0 DEF InRetry, RetryQueueSound
  <2>6. \A p \in pending : p.id # x
    BY <2>4
  <2> HIDE DEF x, d
  <2>7. x \notin dead /\ <<pull.c, x>> \notin acked
    BY <2>1, <2>4
  <2>8. \A p, q \in pending' : p.id = q.id => p = q
    BY <2>3, <2>4, <2>6
  <2>9. \A p \in pending' : /\ ~InRetry(p.id)' /\ p.id \notin dead
                            /\ <<p.c, p.id>> \notin acked
    BY <2>3, <2>4, <2>5, <2>7
  <2> QED BY <1>0, <2>3, <2>5, <2>8, <2>9
<1>13. CASE RetryLeave
  BY <1>0, <1>13 DEF RetryLeave, InRetry
<1>14. CASE PullEnd
  BY <1>0, <1>14 DEF PullEnd, Unlock, InRetry
<1>15. ASSUME NEW c \in Consumers, NEW id \in Ids, Ack(c, id)
      PROVE  Exclusive'
  <2>1. pending' \subseteq pending /\ \A p \in pending' : p.id # id
    BY <1>0, <1>15 DEF Ack, Settled, SingleConsumer, Deliveries
  <2>2. PICK p \in pending : p.c = c /\ p.id = id
    BY <1>15 DEF Ack, IsPending
  <2>3. /\ ~InRetry(id) /\ id \notin dead /\ id < offset[c]
    BY <1>0, <2>2 DEF OffsetCovers
  <2>4. \A e \in Consumers : e = c
    BY <1>15 DEF SingleConsumer
  <2>5. acked' = acked \cup {<<c, id>>} /\ UNCHANGED <<retryQ, dead, offset>>
    BY <1>15 DEF Ack
  <2>6. \A q \in pending' : ~InRetry(q.id) /\ q.id \notin dead /\ <<q.c, q.id>> \notin acked'
    BY <2>1, <2>5
  <2>7. \A e \in Ids, f \in Consumers : InRetry(e) =>
          e < offset[f] /\ e \notin dead /\ <<f, e>> \notin acked'
    BY <2>3, <2>5
  <2>8. \A e \in Ids, f \in Consumers : <<f, e>> \in acked' => e < offset[f] /\ e \notin dead
    BY <2>3, <2>5
  <2> QED BY <2>1, <2>5, <2>6, <2>7, <2>8 DEF InRetry
<1>16. ASSUME NEW max \in 0..MaxPull, PullDlq(max)
      PROVE  Exclusive'
  BY <1>0, <1>16 DEF PullDlq, InRetry
<1>17. CASE RetryBegin
  BY <1>0, <1>17 DEF RetryBegin, InRetry
<1>18. ASSUME NEW p \in todo, RetryDrop(p)
      PROVE  Exclusive'
  <2> QED BY <1>0, <1>18 DEF RetryDrop, Visit, InRetry
<1>19. ASSUME NEW p \in todo, RetryBury(p)
      PROVE  Exclusive'
  <2>1. /\ pending' = pending \ {p} /\ dead' = dead \cup {p.id}
        /\ UNCHANGED <<retryQ, acked, offset>>
    BY <1>19 DEF RetryBury, Visit
  <2>2. p \in pending /\ p.c \in Consumers /\ p.id \in Ids
    BY <1>0 DEF Deliveries
  <2>3. \A e \in Consumers : e = p.c
    BY <2>2 DEF SingleConsumer
  <2>4. /\ ~InRetry(p.id) /\ p.id < offset[p.c] /\ <<p.c, p.id>> \notin acked
    BY <1>0, <2>2 DEF OffsetCovers
  <2>5. \A q \in pending' : q.id # p.id
    BY <2>1, <2>2
  <2> QED BY <1>0, <2>1, <2>2, <2>3, <2>4, <2>5 DEF InRetry
<1>20. ASSUME NEW p \in todo, RetryRequeue(p)
      PROVE  Exclusive'
  <2> DEFINE w == Without(retryQ, p.id)
             m == [id |-> p.id, retry |-> p.retry + 1]
  <2>1. /\ w \in Seq(Messages)
        /\ \A k \in 1..Len(w) : \E l \in 1..Len(retryQ) : w[k] = retryQ[l]
    BY <1>0, WithoutProps DEF RetryQueueSound
  <2>2. /\ retryQ' = Append(w, m) /\ m.id = p.id
        /\ pending' = pending \ {p} /\ UNCHANGED <<acked, offset, dead>>
    BY <1>20 DEF RetryRequeue, Visit
  <2> HIDE DEF w, m
  <2>3. \A id : InRetry(id)' => InRetry(id) \/ id = p.id
    BY <2>1, <2>2 DEF InRetry
  <2>4. p \in pending /\ p.c \in Consumers /\ p.id \in Ids
    BY <1>0 DEF Deliveries
  <2>5. \A e \in Consumers : e = p.c
    BY <2>4 DEF SingleConsumer
  <2>6. /\ p.id \notin dead /\ p.id < offset[p.c] /\ <<p.c, p.id>> \notin acked
    BY <1>0, <2>4 DEF OffsetCovers
  <2>7. \A q \in pending' : q.id # p.id /\ q \in pending
    BY <2>2, <2>4
  <2> QED BY <1>0, <2>2, <2>3, <2>5, <2>6, <2>7
<1>21. CASE RetryEnd
  BY <1>0, <1>21 DEF RetryEnd, Unlock, InRetry
<1>22. CASE ExpireBegin
  BY <1>0, <1>22 DEF ExpireBegin, InRetry
<1>23. CASE ExpireLog
  BY <1>0, <1>23 DEF ExpireLog, InRetry
<1>24. CASE ExpireRetry
  <2>1. PICK k \in 1..Len(retryQ) : retryQ' = RemoveAt(retryQ, k)
    BY <1>24 DEF ExpireRetry
  <2>2. \A l \in 1..Len(retryQ') : \E m \in 1..Len(retryQ) : retryQ'[l] = retryQ[m]
    <3>1. retryQ \in Seq(Messages)
      BY <1>0
    <3> QED BY <2>1, <3>1, RemoveAtElements
  <2>3. \A id : InRetry(id)' => InRetry(id)
    BY <2>2 DEF InRetry
  <2> QED BY <1>0, <2>3, <1>24 DEF ExpireRetry
<1>25. CASE ExpireEnd
  <2>1. pending' \subseteq pending
    BY <1>25 DEF ExpireEnd
  <2> QED BY <1>0, <2>1, <1>25 DEF ExpireEnd, InRetry
<1>26. CASE WallClock
  BY <1>0, <1>26 DEF WallClock, InRetry
<1>27. CASE SteadyClock
  BY <1>0, <1>27 DEF SteadyClock, InRetry
<1> QED
  BY <1>1, <1>2, <1>3, <1>4, <1>5, <1>6, <1>7, <1>8, <1>9, <1>10, <1>11,
     <1>12, <1>13, <1>14, <1>15, <1>16, <1>17, <1>18, <1>19, <1>20, <1>21,
     <1>22, <1>23, <1>24, <1>25, <1>26, <1>27
     DEF Next, PullStep, RetryStep, ExpireStep

(* The initial state satisfies the inductive invariant.                    *)
LEMMA InitIInv == Init => IInv
<1> SUFFICES ASSUME Init
             PROVE  IInv
  OBVIOUS
<1>1. TypeOK
  <2>1. << >> \in Seq(Ids) /\ << >> \in Seq(Messages)
    OBVIOUS
  <2>2. 1 \in 1..MaxId + 1 /\ offset \in [Consumers -> 0..MaxId + 1]
    BY MaxIdAssumption DEF Init
  <2>3. pull \in Pulls
    BY MaxPullAssumption DEF Init, NoPull, Pulls
  <2>4. live \in BOOLEAN
    BY DEF Init
  <2> QED BY <2>1, <2>2, <2>3, <2>4 DEF Init, TypeOK
<1>2. LockSound /\ CursorSound
  BY DEF Init, LockSound, CursorSound
<1>3. LogOrdered /\ Provenance /\ Retained /\ InFlightLogged /\ RetryQueueSound
  BY DEF Init, LogOrdered, Provenance, Retained, InFlightLogged, RetryQueueSound
<1>4. OffsetCovers /\ NoMessageLost
  BY DEF Init, OffsetCovers, NoMessageLost
<1> QED BY <1>1, <1>2, <1>3, <1>4 DEF IInv

(* IInv holds in every reachable state, for any number of consumers.       *)
THEOREM IInvHolds == Spec => []IInv
<1>1. IInv /\ [Next]_vars => IInv'
  <2> SUFFICES ASSUME IInv, [Next]_vars
               PROVE  IInv'
    OBVIOUS
  <2>1. CASE Next
    BY <2>1, TypeStep, LockStep, OrderStep, ProvenanceStep, RetainedStep,
       InFlightStep, OffsetCoversStep, CursorStep, RetryQueueStep, NoLossStep
       DEF IInv
  <2>2. CASE UNCHANGED vars
    BY <2>2 DEF vars, msgVars, lockVars, history, IInv, TypeOK, LockSound,
       LogOrdered, Provenance, Retained, InFlightLogged, OffsetCovers,
       CursorSound, RetryQueueSound, NoMessageLost, Accounted, InRetry,
       IsExpired
  <2> QED BY <2>1, <2>2
<1> QED BY <1>1, InitIInv, PTL DEF Spec

(* The state of the store is well typed.                                   *)
THEOREM TypeCorrect == Spec => []TypeOK
<1>1. IInv => TypeOK
  BY DEF IInv
<1> QED BY <1>1, IInvHolds, PTL

(* Pull reads a sorted log: no message can be skipped by the offset test.  *)
THEOREM LogIsOrdered == Spec => []LogOrdered
<1>1. IInv => LogOrdered
  BY DEF IInv
<1> QED BY <1>1, IInvHolds, PTL

(* A consumer's offset is past whatever it holds, and never past an id     *)
(* that is still to be drawn.                                              *)
THEOREM OffsetsCover == Spec => []OffsetCovers
<1>1. IInv => OffsetCovers
  BY DEF IInv
<1> QED BY <1>1, IInvHolds, PTL

(* Whatever is delivered, retried, acknowledged or dead-lettered was       *)
(* published in this lifetime of the topic: no step makes a message up.    *)
THEOREM NothingInvented == Spec => []Provenance
<1>1. IInv => Provenance
  BY DEF IInv
<1> QED BY <1>1, IInvHolds, PTL

(* Only expiration removes a published message from the topic; no number   *)
(* of pulls, acknowledgements and retries does.                            *)
THEOREM RetentionHolds == Spec => []Retained
<1>1. IInv => Retained
  BY DEF IInv
<1> QED BY <1>1, IInvHolds, PTL

(* No message is lost between delivery and settlement, whatever the number *)
(* of consumers, retries and messages.                                     *)
THEOREM NothingLost == Spec => []NoMessageLost
<1>1. IInv => NoMessageLost
  BY DEF IInv
<1> QED BY <1>1, IInvHolds, PTL

(* With one consumer or one group, a message is in one place at a time; an *)
(* acknowledged or dead-lettered message is never delivered again.         *)
THEOREM OnePlaceHolds == Spec => []OnePlace
<1>1. Init => OnePlace
  BY DEF Init, OnePlace, Exclusive, InRetry
<1>2. IInv /\ OnePlace /\ [Next]_vars => OnePlace'
  <2> SUFFICES ASSUME IInv, OnePlace, [Next]_vars, SingleConsumer
               PROVE  Exclusive'
    BY DEF OnePlace, SingleConsumer
  <2>1. CASE Next
    BY <2>1, ExclusiveStep DEF OnePlace
  <2>2. CASE UNCHANGED vars
    BY <2>2 DEF vars, msgVars, lockVars, history, OnePlace, Exclusive, InRetry
  <2> QED BY <2>1, <2>2
<1> QED BY <1>1, <1>2, IInvHolds, PTL DEF Spec

(* The read position of a consumer never goes back while the topic lives.  *)
THEOREM OffsetsNeverGoBack == Spec => OffsetMonotone
<1>1. IInv /\ [Next]_vars =>
        [live' => \A c \in Consumers : offset'[c] >= offset[c]]_vars
  <2> SUFFICES ASSUME IInv, Next, live', NEW c \in Consumers
               PROVE  offset'[c] >= offset[c]
    OBVIOUS
  <2>1. /\ offset \in [Consumers -> 0..MaxId + 1] /\ offset[c] \in Nat
        /\ \A k \in 1..Len(log) : log[k] \in Nat
        /\ phase \in {"drain", "pull"} => pull.c \in Consumers
        /\ pull \in Pulls /\ CursorSound
    BY TypeFacts DEF IInv
  <2>2. CASE DrainEnd
    BY <2>1, <2>2 DEF DrainEnd
  <2>3. CASE PullSkipExpired \/ PullTake
    <3>1. pull.i \in 1..Len(log) /\ pull.c \in Consumers
      <4>1. phase = "pull" /\ pull.i <= Len(log)
        BY <2>3 DEF PullSkipExpired, PullTake, InLogLoop
      <4>2. pull.i \in Nat /\ pull.i >= 1 /\ pull.c \in Consumers
        BY <2>1, <4>1 DEF CursorSound, Pulls
      <4>3. Len(log) \in Nat
        BY DEF IInv, TypeOK
      <4> QED BY <4>1, <4>2, <4>3
    <3>2. offset' = [offset EXCEPT ![pull.c] = log[pull.i] + 1]
      BY <2>3 DEF PullSkipExpired, PullTake, NextOffset
    <3>3. log[pull.i] >= offset[pull.c]
      BY <2>3 DEF PullSkipExpired, PullTake, Passed
    <3> QED BY <2>1, <3>1, <3>2, <3>3
  <2>4. CASE UNCHANGED offset
    BY <2>1, <2>4
  <2>5. DrainEnd \/ PullSkipExpired \/ PullTake \/ UNCHANGED offset
    BY DEF Next, PullStep, RetryStep, ExpireStep, CreateTopic, DeleteTopic,
       PublishOk, PublishFull, PullBegin, DrainStep, PullSkip,
       RetryDropExpired, RetryTake, RetryLeave, PullEnd, Ack, PullDlq,
       RetryBegin, RetryDrop, RetryBury, RetryRequeue, Visit, RetryEnd,
       ExpireBegin, ExpireLog, ExpireRetry, ExpireEnd, WallClock, SteadyClock
  <2> QED BY <2>2, <2>3, <2>4, <2>5
<1> QED BY <1>1, IInvHolds, PTL DEF Spec, OffsetMonotone
=============================================================================
