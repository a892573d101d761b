------------------------- MODULE MemoryMessageStore -------------------------
(***************************************************************************)
(* One topic of MemoryMessageStore (src/storage/memory_message_store.cpp). *)
(* The store keeps one independent TopicData per topic name, so one topic  *)
(* is the whole state of the component.                                    *)
(*                                                                         *)
(* Publish writes into the topic's ring buffer without the topic mutex;    *)
(* Pull, Ack, the retry thread and the expiration thread take it.  Each of *)
(* the loops these run under the mutex is one action per iteration, and    *)
(* `phase' says which of them holds the mutex, so that publishing, the     *)
(* clocks and PullDlq (which take other locks or none) interleave with     *)
(* them at the granularity of an iteration.                                *)
(*                                                                         *)
(* A message is its id: the payload and the timestamp are never read by    *)
(* the store.  Time is abstracted to the two comparisons the code makes:   *)
(* `expired' holds the messages whose expires_at lies before the wall      *)
(* clock, `due' the deliveries whose pull_time is at least                 *)
(* pending_timeout_ms_ in the past.                                        *)
(*                                                                         *)
(* A topic that does not exist is live = FALSE with everything else in the *)
(* state of a new TopicData; Pull and Ack return before any effect then.   *)
(***************************************************************************)
EXTENDS Naturals, Sequences, FiniteSets, SequencesExt

CONSTANTS Consumers,     \* consumer keys: "sub:{id}" and "grp:{id}"
          MaxRetry,      \* max_retry_count_
          RingCapacity,  \* messages the ring buffer holds
          RingTakesHuge, \* it also takes one beyond kMaxPayloadSize, as one
                         \* configured larger than that does
          MaxPull,       \* bound: largest max_messages of a Pull
          MaxId          \* bound: number of Publish calls per topic lifetime

ASSUME MaxRetryAssumption == MaxRetry \in Nat
ASSUME RingCapacityAssumption == RingCapacity \in Nat \ {0}
ASSUME RingTakesHugeAssumption == RingTakesHuge \in BOOLEAN
ASSUME MaxPullAssumption == MaxPull \in Nat
ASSUME MaxIdAssumption == MaxId \in Nat

VARIABLES
  live,       \* the topic is in topics_
  nextId,     \* next_msg_id
  ring,       \* ids in ring_buffer, oldest first
  log,        \* ids in message_log
  retryQ,     \* retry_queue: messages with their retry_count
  offset,     \* subscriber_offsets and group_offsets, 0 = no entry
  pending,    \* pending_acks: a message delivered to c and not settled
  due,        \* the pending deliveries older than pending_timeout_ms_
  dlq,        \* dlq_storage_ of this topic
  mortal,     \* messages published with a TTL
  expired,    \* those of them that are past expires_at
  huge,       \* messages beyond kMaxPayloadSize that the ring took
  phase,      \* who holds TopicData::mutex, and for which loop
  clock,      \* `expired' as of the now_ms read under the mutex
  pull,       \* the locals of the running Pull
  todo,       \* deliveries the running retry scan has still to visit
  cur,        \* the consumer whose pending_map that scan is inside of
  published,  \* history: messages whose Publish returned true
  acked,      \* history: <<consumer, message>> whose Ack returned true
  dead        \* history: messages that were moved to the DLQ

msgVars  == <<due, mortal, expired, huge>>
lockVars == <<phase, clock, pull, todo, cur>>
history  == <<published, acked, dead>>
vars == <<live, nextId, ring, log, retryQ, offset, pending, dlq,
          msgVars, lockVars, history>>

Ids        == 1..MaxId
Messages   == [id : Ids, retry : 0..MaxRetry]
Deliveries == [c : Consumers, id : Ids, retry : 0..MaxRetry]
Pulls      == [c : Consumers \cup {{}}, max : 0..MaxPull, n : 0..MaxPull,
               i : Nat, j : Nat]
NoPull     == [c |-> {}, max |-> 0, n |-> 0, i |-> 0, j |-> 0]
-----------------------------------------------------------------------------
(* The predicates and the small computations the handlers are made of.     *)

IsPending(c, id) == \E p \in pending : p.c = c /\ p.id = id
IsExpired(id)    == id \in clock
InSeq(x, s)      == \E k \in 1..Len(s) : s[k] = x
InRetry(id)      == \E k \in 1..Len(retryQ) : retryQ[k].id = id
Delivery(c, m)   == [c |-> c, id |-> m.id, retry |-> m.retry]

(* Mutant: the consumer's offset stays at the message it was given.        *)
NextOffsetSame(id) == id

(* Where the consumer reads next once it was handed, or was spared, id.    *)
NextOffset(id) == id + 1

(* Mutant: one retry too many.                                             *)
ExhaustedLate(p) == p.retry > MaxRetry

(* A delivery whose message has used up its retries.                       *)
Exhausted(p) == p.retry >= MaxRetry

(* remove_if on retry_queue.  At most one entry has a given id, which is   *)
(* checked by RetryQueueSound, so removing the first one removes them all. *)
Without(q, id) ==
  IF \E k \in 1..Len(q) : q[k].id = id
    THEN RemoveAt(q, CHOOSE k \in 1..Len(q) : q[k].id = id)
    ELSE q

(* Mutants: the message is put at the wrong end, or is not kept.           *)
DrainedFront(id) == <<id>> \o log
DrainedLost(id) == log

(* message_log receives messages in the order the ring buffer gave them.   *)
Drained(id) == Append(log, id)
-----------------------------------------------------------------------------
Init ==
  /\ live = FALSE
  /\ nextId = 1 /\ ring = << >> /\ log = << >> /\ retryQ = << >>
  /\ offset = [c \in Consumers |-> 0]
  /\ pending = {} /\ due = {} /\ dlq = << >> /\ mortal = {} /\ expired = {}
  /\ huge = {} /\ published = {} /\ acked = {} /\ dead = {}
  /\ phase = "none" /\ clock = {} /\ pull = NoPull /\ todo = {} /\ cur = {}

(* The scope of the lock_guard ends.                                       *)
Unlock ==
  /\ phase' = "none" /\ clock' = {} /\ pull' = NoPull /\ todo' = {} /\ cur' = {}

(* CreateTopic of a topic that does not exist; otherwise it returns false. *)
CreateTopic ==
  /\ ~live
  /\ live' = TRUE
  /\ UNCHANGED <<nextId, ring, log, retryQ, offset, pending, dlq,
                 msgVars, lockVars, history>>

(* Mutant: the DLQ outlives the topic.                                     *)
DeleteTopicKeepsDlq ==
  /\ live /\ phase = "none"
  /\ live' = FALSE
  /\ nextId' = 1 /\ ring' = << >> /\ log' = << >> /\ retryQ' = << >>
  /\ offset' = [c \in Consumers |-> 0]
  /\ pending' = {} /\ due' = {} /\ mortal' = {} /\ expired' = {}
  /\ huge' = {} /\ published' = {} /\ acked' = {} /\ dead' = {}
  /\ UNCHANGED <<dlq, lockVars>>

(* DeleteTopic destroys the TopicData and the topic's DLQ.  A background   *)
(* thread that is inside the TopicData at that moment is not modelled      *)
(* here: the topic is deleted when nobody holds its mutex.                 *)
DeleteTopic ==
  /\ live /\ phase = "none"
  /\ live' = FALSE
  /\ nextId' = 1 /\ ring' = << >> /\ log' = << >> /\ retryQ' = << >>
  /\ offset' = [c \in Consumers |-> 0]
  /\ pending' = {} /\ due' = {} /\ dlq' = << >> /\ mortal' = {} /\ expired' = {}
  /\ huge' = {} /\ published' = {} /\ acked' = {} /\ dead' = {}
  /\ UNCHANGED lockVars

(* Publish, which creates the topic when it is missing, draws the id and   *)
(* then pushes.  ttl says whether ttl_ms > 0, big whether the serialized   *)
(* message is beyond kMaxPayloadSize.                                      *)
PublishOk(ttl, big) ==
  /\ nextId <= MaxId /\ Len(ring) < RingCapacity /\ (big => RingTakesHuge)
  /\ live' = TRUE
  /\ nextId' = nextId + 1
  /\ ring' = Append(ring, nextId)
  /\ mortal' = IF ttl THEN mortal \cup {nextId} ELSE mortal
  /\ huge' = IF big THEN huge \cup {nextId} ELSE huge
  /\ published' = published \cup {nextId}
  /\ UNCHANGED <<log, retryQ, offset, pending, dlq, due, expired, lockVars,
                 acked, dead>>

(* The ring buffer has no room for the message, which may be large: the    *)
(* push fails whatever the ring holds.  Publish returns false; the topic   *)
(* was created all the same and the id stays used up.                      *)
PublishFull ==
  /\ nextId <= MaxId
  /\ live' = TRUE
  /\ nextId' = nextId + 1
  /\ UNCHANGED <<ring, log, retryQ, offset, pending, dlq, msgVars,
                 lockVars, history>>
-----------------------------------------------------------------------------
(* Pull: drain the ring buffer, then scan the log, then the retry queue.   *)

PullBegin(c, max) ==
  /\ live /\ phase = "none"
  /\ phase' = "drain"
  /\ pull' = [c |-> c, max |-> max, n |-> 0, i |-> 1, j |-> 1]
  /\ UNCHANGED <<live, nextId, ring, log, retryQ, offset, pending, dlq,
                 msgVars, clock, todo, cur, history>>

(* Pop fails on an empty ring, and for ever on a record whose length is    *)
(* beyond kMaxPayloadSize: it does not skip it.                            *)
PopFails == ring # << >> => Head(ring) \in huge

(* One successful Pop of DrainRingBuffer.                                  *)
DrainStep ==
  /\ phase = "drain" /\ ~PopFails
  /\ log' = Drained(Head(ring))
  /\ ring' = Tail(ring)
  /\ UNCHANGED <<live, nextId, retryQ, offset, pending, dlq, msgVars,
                 lockVars, history>>

(* Mutant: a consumer that has an offset starts over.                      *)
DrainEndResets ==
  /\ phase = "drain" /\ PopFails
  /\ phase' = "pull"
  /\ clock' = expired
  /\ offset' = [offset EXCEPT ![pull.c] = 1]
  /\ UNCHANGED <<live, nextId, ring, log, retryQ, pending, dlq, msgVars,
                 pull, todo, cur, history>>

(* Pop returns nothing: the offset is looked up (a new entry starts at     *)
(* message 1) and now_ms is read.                                          *)
DrainEnd ==
  /\ phase = "drain" /\ PopFails
  /\ phase' = "pull"
  /\ clock' = expired
  /\ offset' = IF offset[pull.c] = 0 THEN [offset EXCEPT ![pull.c] = 1]
                                     ELSE offset
  /\ UNCHANGED <<live, nextId, ring, log, retryQ, pending, dlq, msgVars,
                 pull, todo, cur, history>>

InLogLoop   == phase = "pull" /\ pull.n < pull.max /\ pull.i <= Len(log)
InRetryLoop == phase = "pull" /\ pull.n < pull.max /\ pull.i > Len(log)
                              /\ pull.j <= Len(retryQ)

(* A message of the log the consumer has already been given.               *)
Passed(c, id) == ~(id >= offset[c] /\ (IsExpired(id) \/ ~IsPending(c, id)))

PullSkip ==
  /\ InLogLoop /\ Passed(pull.c, log[pull.i])
  /\ pull' = [pull EXCEPT !.i = @ + 1]
  /\ UNCHANGED <<live, nextId, ring, log, retryQ, offset, pending, dlq,
                 msgVars, phase, clock, todo, cur, history>>

PullSkipExpired ==
  /\ InLogLoop /\ ~Passed(pull.c, log[pull.i]) /\ IsExpired(log[pull.i])
  /\ offset' = [offset EXCEPT ![pull.c] = NextOffset(log[pull.i])]
  /\ pull' = [pull EXCEPT !.i = @ + 1]
  /\ UNCHANGED <<live, nextId, ring, log, retryQ, pending, dlq, msgVars,
                 phase, clock, todo, cur, history>>

PullTake ==
  /\ InLogLoop /\ ~Passed(pull.c, log[pull.i]) /\ ~IsExpired(log[pull.i])
  /\ offset' = [offset EXCEPT ![pull.c] = NextOffset(log[pull.i])]
  /\ pending' = pending \cup
                  {Delivery(pull.c, [id |-> log[pull.i], retry |-> 0])}
  /\ pull' = [pull EXCEPT !.i = @ + 1, !.n = @ + 1]
  /\ UNCHANGED <<live, nextId, ring, log, retryQ, dlq, msgVars, phase, clock,
                 todo, cur, history>>

RetryDropExpired ==
  /\ InRetryLoop /\ IsExpired(retryQ[pull.j].id)
  /\ retryQ' = RemoveAt(retryQ, pull.j)
  /\ UNCHANGED <<live, nextId, ring, log, offset, pending, dlq, msgVars,
                 lockVars, history>>

RetryTake ==
  /\ InRetryLoop
  /\ ~IsExpired(retryQ[pull.j].id) /\ ~IsPending(pull.c, retryQ[pull.j].id)
  /\ pending' = pending \cup {Delivery(pull.c, retryQ[pull.j])}
  /\ retryQ' = RemoveAt(retryQ, pull.j)
  /\ pull' = [pull EXCEPT !.n = @ + 1]
  /\ UNCHANGED <<live, nextId, ring, log, offset, dlq, msgVars, phase, clock,
                 todo, cur, history>>

RetryLeave ==
  /\ InRetryLoop
  /\ ~IsExpired(retryQ[pull.j].id) /\ IsPending(pull.c, retryQ[pull.j].id)
  /\ pull' = [pull EXCEPT !.j = @ + 1]
  /\ UNCHANGED <<live, nextId, ring, log, retryQ, offset, pending, dlq,
                 msgVars, phase, clock, todo, cur, history>>

PullEnd ==
  /\ phase = "pull" /\ ~InLogLoop /\ ~InRetryLoop
  /\ Unlock
  /\ UNCHANGED <<live, nextId, ring, log, retryQ, offset, pending, dlq,
                 msgVars, history>>

PullStep ==
  \/ DrainStep \/ DrainEnd
  \/ PullSkip \/ PullSkipExpired \/ PullTake
  \/ RetryDropExpired \/ RetryTake \/ RetryLeave
  \/ PullEnd
-----------------------------------------------------------------------------
(* Mutant: the delivery stays pending.                                     *)
SettledNot(c, id) == pending

(* Ack of a message that is pending for c; any other Ack returns false.    *)
Settled(c, id) == {p \in pending : ~(p.c = c /\ p.id = id)}

Ack(c, id) ==
  /\ live /\ phase = "none" /\ IsPending(c, id)
  /\ pending' = Settled(c, id)
  /\ due' = due \cap pending'
  /\ acked' = acked \cup {<<c, id>>}
  /\ UNCHANGED <<live, nextId, ring, log, retryQ, offset, dlq, mortal, expired,
                 huge, lockVars, published, dead>>

(* PullDlq removes up to max messages; it takes dlq_mutex_ only.           *)
PullDlq(max) ==
  /\ dlq # << >> /\ max > 0
  /\ dlq' = SubSeq(dlq, (IF max < Len(dlq) THEN max ELSE Len(dlq)) + 1, Len(dlq))
  /\ UNCHANGED <<live, nextId, ring, log, retryQ, offset, pending, msgVars,
                 lockVars, history>>
-----------------------------------------------------------------------------
(* ProcessPendingRetries, run by the retry thread.                         *)

(* Mutant: the scan takes back first deliveries only.                      *)
RetryBeginFirst ==
  /\ live /\ phase = "none" /\ due # {}
  /\ phase' = "retry"
  /\ clock' = expired
  /\ todo' = {p \in due : p.retry = 0}
  /\ UNCHANGED <<live, nextId, ring, log, retryQ, offset, pending, dlq,
                 msgVars, pull, cur, history>>

(* The deliveries that have timed out are fixed by the `now' read first.   *)
(* A scan that finds none changes nothing and is left out.                 *)
RetryBegin ==
  /\ live /\ phase = "none" /\ due # {}
  /\ phase' = "retry"
  /\ clock' = expired
  /\ todo' = due
  /\ UNCHANGED <<live, nextId, ring, log, retryQ, offset, pending, dlq,
                 msgVars, pull, cur, history>>

(* The scan visits the pending maps one consumer after the other, in any   *)
(* order, and within each the messages in any order.                       *)
Visit(p) ==
  /\ phase = "retry" /\ p \in todo
  /\ p.c \in cur \/ \A q \in todo : q.c \notin cur
  /\ todo' = todo \ {p}
  /\ cur' = {p.c}
  /\ pending' = pending \ {p}
  /\ due' = due \ {p}
  /\ UNCHANGED <<live, nextId, ring, log, offset, mortal, expired, huge,
                 phase, clock, pull, published, acked>>

RetryDrop(p) ==
  /\ Visit(p) /\ IsExpired(p.id)
  /\ UNCHANGED <<retryQ, dlq, dead>>

(* Mutant: a message that used up its retries is dropped.                  *)
RetryBuryLost(p) ==
  /\ Visit(p) /\ ~IsExpired(p.id) /\ Exhausted(p)
  /\ UNCHANGED <<retryQ, dlq, dead>>

RetryBury(p) ==
  /\ Visit(p) /\ ~IsExpired(p.id) /\ Exhausted(p)
  /\ dlq' = Append(dlq, [id |-> p.id, retry |-> p.retry])
  /\ dead' = dead \cup {p.id}
  /\ UNCHANGED retryQ

(* Mutant: retry_count is not increased.                                   *)
RetryRequeueSame(p) ==
  /\ Visit(p) /\ ~IsExpired(p.id) /\ ~Exhausted(p)
  /\ retryQ' = Append(Without(retryQ, p.id), [id |-> p.id, retry |-> p.retry])
  /\ UNCHANGED <<dlq, dead>>

RetryRequeue(p) ==
  /\ Visit(p) /\ ~IsExpired(p.id) /\ ~Exhausted(p)
  /\ retryQ' = Append(Without(retryQ, p.id), [id |-> p.id, retry |-> p.retry + 1])
  /\ UNCHANGED <<dlq, dead>>

RetryEnd ==
  /\ phase = "retry" /\ todo = {}
  /\ Unlock
  /\ UNCHANGED <<live, nextId, ring, log, retryQ, offset, pending, dlq,
                 msgVars, history>>

RetryStep ==
  \/ \E p \in todo : RetryDrop(p) \/ RetryBury(p) \/ RetryRequeue(p)
  \/ RetryEnd
-----------------------------------------------------------------------------
(* ExpireTopicMessages, run by the expiration thread.  Each of its filters *)
(* removes one message per step, until none is left to remove.             *)

ExpireBegin ==
  /\ live /\ phase = "none" /\ expired # {}
  /\ phase' = "expire"
  /\ clock' = expired
  /\ UNCHANGED <<live, nextId, ring, log, retryQ, offset, pending, dlq,
                 msgVars, pull, todo, cur, history>>

ExpireLog ==
  /\ phase = "expire"
  /\ \E k \in 1..Len(log) : IsExpired(log[k]) /\ log' = RemoveAt(log, k)
  /\ UNCHANGED <<live, nextId, ring, retryQ, offset, pending, dlq, msgVars,
                 lockVars, history>>

ExpireRetry ==
  /\ phase = "expire"
  /\ \A k \in 1..Len(log) : ~IsExpired(log[k])
  /\ \E k \in 1..Len(retryQ) :
       IsExpired(retryQ[k].id) /\ retryQ' = RemoveAt(retryQ, k)
  /\ UNCHANGED <<live, nextId, ring, log, offset, pending, dlq, msgVars,
                 lockVars, history>>

(* Mutant: expired deliveries stay pending.                                *)
ExpireEndKeepsPending ==
  /\ phase = "expire"
  /\ \A k \in 1..Len(log) : ~IsExpired(log[k])
  /\ \A k \in 1..Len(retryQ) : ~IsExpired(retryQ[k].id)
  /\ Unlock
  /\ UNCHANGED <<live, nextId, ring, log, retryQ, offset, pending, dlq,
                 msgVars, history>>

ExpireEnd ==
  /\ phase = "expire"
  /\ \A k \in 1..Len(log) : ~IsExpired(log[k])
  /\ \A k \in 1..Len(retryQ) : ~IsExpired(retryQ[k].id)
  /\ pending' = {p \in pending : ~IsExpired(p.id)}
  /\ due' = due \cap pending'
  /\ Unlock
  /\ UNCHANGED <<live, nextId, ring, log, retryQ, offset, dlq, mortal, expired,
                 huge, history>>

ExpireStep == ExpireLog \/ ExpireRetry \/ ExpireEnd
-----------------------------------------------------------------------------
(* Time.  TTLs are arbitrary, so messages expire in any order; deliveries  *)
(* all have the same timeout, so they fall due in the order of the pulls.  *)

WallClock ==
  \E S \in SUBSET (mortal \ expired) :
    /\ S # {}
    /\ expired' = expired \cup S
    /\ UNCHANGED <<live, nextId, ring, log, retryQ, offset, pending, dlq, due,
                   mortal, huge, lockVars, history>>

SteadyClock ==
  /\ due # pending
  /\ due' = pending
  /\ UNCHANGED <<live, nextId, ring, log, retryQ, offset, pending, dlq, mortal,
                 expired, huge, lockVars, history>>

Next ==
  \/ CreateTopic \/ DeleteTopic
  \/ \E ttl, big \in BOOLEAN : PublishOk(ttl, big)
  \/ PublishFull
  \/ \E c \in Consumers, max \in 0..MaxPull : PullBegin(c, max)
  \/ PullStep
  \/ \E c \in Consumers, id \in Ids : Ack(c, id)
  \/ \E max \in 0..MaxPull : PullDlq(max)
  \/ RetryBegin \/ RetryStep
  \/ ExpireBegin \/ ExpireStep
  \/ WallClock \/ SteadyClock

Spec == Init /\ [][Next]_vars
-----------------------------------------------------------------------------
(* Properties.                                                             *)

TypeOK ==
  /\ live \in BOOLEAN
  /\ nextId \in 1..MaxId + 1
  /\ ring \in Seq(Ids) /\ log \in Seq(Ids)
  /\ retryQ \in Seq(Messages) /\ dlq \in Seq(Messages)
  /\ offset \in [Consumers -> 0..MaxId + 1]
  /\ pending \subseteq Deliveries /\ due \subseteq pending
  /\ mortal \subseteq Ids /\ expired \subseteq mortal
  /\ huge \subseteq Ids
  /\ phase \in {"none", "drain", "pull", "retry", "expire"}
  /\ clock \subseteq expired
  /\ pull \in Pulls
  /\ phase \in {"drain", "pull"} => pull.c \in Consumers
  /\ todo \subseteq due /\ cur \subseteq Consumers
  /\ published \subseteq Ids /\ dead \subseteq Ids
  /\ acked \subseteq Consumers \X Ids

(* Ids are drawn before the push, outside the mutex, and reach the log     *)
(* through the ring buffer: log and ring buffer together stay sorted by    *)
(* id, which the offset test of Pull (msg.id >= offset) relies on.         *)
LogOrdered ==
  /\ \A i, j \in 1..Len(log) : i < j => log[i] < log[j]
  /\ \A i, j \in 1..Len(ring) : i < j => ring[i] < ring[j]
  /\ \A i \in 1..Len(log), j \in 1..Len(ring) : log[i] < ring[j]

(* Nothing in the store was not published in this lifetime of the topic:   *)
(* no id of a failed Publish, and none from before a DeleteTopic, is ever  *)
(* delivered, retried, acknowledged or dead-lettered.                      *)
Provenance ==
  /\ \A id \in published : id < nextId
  /\ \A k \in 1..Len(ring) : ring[k] \in published
  /\ \A k \in 1..Len(log) : log[k] \in published
  /\ \A k \in 1..Len(retryQ) : retryQ[k].id \in published
  /\ \A k \in 1..Len(dlq) : dlq[k].id \in dead
  /\ \A p \in pending : p.id \in published
  /\ dead \subseteq published /\ mortal \subseteq published
  /\ acked \subseteq Consumers \X published

(* A published message stays in the ring buffer or in the log until it     *)
(* expires: consuming it never removes it, because the other consumers     *)
(* still have to read it.                                                  *)
Retained ==
  \A id \in published : InSeq(id, ring) \/ InSeq(id, log) \/ id \in expired

(* What a consumer holds lies before its offset, so the log never offers   *)
(* it a second time while it is pending: the pending test in the log loop  *)
(* of Pull is never what keeps a message from being delivered twice.  And  *)
(* an offset never runs ahead of the ids drawn so far, so no message that  *)
(* is still to be published is already passed.                             *)
OffsetCovers ==
  /\ \A p \in pending : p.id < offset[p.c]
  /\ \A c \in Consumers : offset[c] <= nextId

(* Where a Pull stands: everything before its cursor in the log lies       *)
(* before the consumer's offset.                                           *)
CursorSound ==
  /\ phase = "drain" => pull.i = 1 /\ pull.j = 1
  /\ phase = "pull" =>
       /\ pull.i >= 1 /\ pull.j >= 1
       /\ offset[pull.c] >= 1
       /\ \A k \in 1..Len(log) : k < pull.i => log[k] < offset[pull.c]

(* A message that is pending or waits for a retry is still in the log,     *)
(* except inside the expiration scan that is about to remove it everywhere.*)
(* So a consumer that reaches the retry loop has passed the message in the *)
(* log, even when another consumer put it into the retry queue.            *)
InFlightLogged ==
  /\ \A p \in pending : \/ InSeq(p.id, log)
                        \/ phase = "expire" /\ IsExpired(p.id)
  /\ \A k \in 1..Len(retryQ) : \/ InSeq(retryQ[k].id, log)
                               \/ phase = "expire" /\ IsExpired(retryQ[k].id)

(* What the mutex protects is put away when it is released.                *)
LockSound ==
  /\ phase # "retry" => todo = {}
  /\ phase = "none" => clock = {}

(* What became of a message that a consumer's offset has passed.           *)
Accounted(id) ==
  \/ id \in expired \/ id \in dead \/ InRetry(id)
  \/ \E p \in pending : p.id = id
  \/ \E c \in Consumers : <<c, id>> \in acked

(* No message is lost between its delivery and its settlement: once some   *)
(* consumer's offset has passed it, it has expired, was acknowledged, was  *)
(* moved to the DLQ, waits in the retry queue, or is pending - through     *)
(* every interleaving of Pull, Ack, the timeout scan and expiration.       *)
NoMessageLost ==
  \A c \in Consumers, id \in published : id < offset[c] => Accounted(id)

(* The retry queue holds one record per message, with a retry count that   *)
(* is within the limit, and the DLQ only holds messages that used up their *)
(* retries.                                                                *)
RetryQueueSound ==
  /\ \A i, j \in 1..Len(retryQ) : retryQ[i].id = retryQ[j].id => i = j
  /\ \A i \in 1..Len(retryQ) : retryQ[i].retry >= 1
  /\ \A i \in 1..Len(dlq) : dlq[i].retry = MaxRetry

(* The inductive invariant behind NoMessageLost.                           *)
IInv ==
  /\ TypeOK /\ LockSound /\ LogOrdered /\ Provenance /\ Retained
  /\ InFlightLogged /\ OffsetCovers /\ CursorSound /\ RetryQueueSound
  /\ NoMessageLost

(* With a single consumer (or a single group) a message is in one place at *)
(* a time: it is not yet read, or pending once, or in the retry queue, or  *)
(* acknowledged, or in the DLQ.  So an acknowledged or a dead message is   *)
(* never delivered again, whatever the retry thread does.                  *)
SingleConsumer == \A c, d \in Consumers : c = d

Exclusive ==
  /\ \A p, q \in pending : p.id = q.id => p = q
  /\ \A p \in pending :
       ~InRetry(p.id) /\ p.id \notin dead /\ <<p.c, p.id>> \notin acked
  /\ \A id \in Ids, c \in Consumers : InRetry(id) =>
       id < offset[c] /\ id \notin dead /\ <<c, id>> \notin acked
  /\ \A id \in Ids, c \in Consumers : <<c, id>> \in acked =>
       id < offset[c] /\ id \notin dead
  /\ \A id \in dead, c \in Consumers : id < offset[c]

OnePlace == SingleConsumer => Exclusive

(* A consumer's read position never goes back while the topic lives.       *)
OffsetMonotone == [][live' => \A c \in Consumers : offset'[c] >= offset[c]]_vars
-----------------------------------------------------------------------------
(* Liveness.  A thread that holds the mutex keeps going; the steady clock  *)
(* advances; the retry thread wakes up every retry_interval_ms_ and gets   *)
(* the mutex now and then, even though consumers keep taking it.           *)
StoreFairness ==
  /\ WF_vars(PullStep) /\ WF_vars(RetryStep) /\ WF_vars(ExpireStep)
  /\ SF_vars(RetryBegin) /\ WF_vars(SteadyClock)

(* The consumers poll for ever; they need not acknowledge anything.        *)
Polling == \A c \in Consumers : SF_vars(PullBegin(c, MaxPull))

FairSpec    == Spec /\ StoreFairness
PollingSpec == FairSpec /\ Polling

(* A delivery does not stay pending for ever, whether or not its consumer  *)
(* is still there: the retry thread takes it back.                         *)
DeliveryTimesOut ==
  \A c \in Consumers, id \in Ids : IsPending(c, id) ~> ~IsPending(c, id)

(* If consumers keep polling, every published message comes to an end: it  *)
(* is acknowledged, dead-lettered, expired or deleted with its topic.  The *)
(* retry count bounds the redeliveries even if nobody ever acknowledges.   *)
(* Excepted is what the ring holds from a record on that Pop never gets    *)
(* past: no Pull ever sees it.                                             *)
Finished(id) ==
  \/ id \notin published \/ id \in expired \/ id \in dead
  \/ \E c \in Consumers : <<c, id>> \in acked

Blocked(id) == InSeq(id, ring) /\ Head(ring) \in huge

EveryMessageFinishes ==
  \A id \in Ids : id \in published ~> Finished(id) \/ Blocked(id)
=============================================================================
