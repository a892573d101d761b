----------------------------- MODULE PublishPath -----------------------------
(***************************************************************************)
(* Publishing, from the client that draws a sequence id to the answer it   *)
(* gets: src/network/tcp_client.cpp, HandlePublish and HandleBatchPublish  *)
(* of src/mq/broker.cpp, src/common/dedup_window.cpp and the two rate      *)
(* limiters.  The single event thread runs one handler at a time, so each  *)
(* return of a handler is one action.                                      *)
(*                                                                         *)
(* A producer is one connection: Connect draws a fresh producer_id.  Its   *)
(* application may use several threads, each of which first draws a        *)
(* sequence id and then sends, and repeats a request it has no success     *)
(* for.  Frames of a connection arrive in the order they were sent.  The   *)
(* store's answer to Publish is either one (MemoryMessageStore says which) *)
(* and pushing to subscribers is left to BrokerRouting.                    *)
(***************************************************************************)
EXTENDS Naturals, Sequences, FiniteSets

CONSTANTS
  Producers,
  MaxSeq,        \* bound: sequence ids a producer draws
  MaxWire,       \* bound: frames on the way to the broker per connection
  Threads,       \* threads of a client that publish concurrently
  Waiting,       \* producers that draw an id only once all they sent before
                 \* was confirmed
  MaxBatch,      \* max_batch_size
  Unit, ConnRate, GlobalRate, Burst, MaxTime   \* see TokenBucket

ASSUME BoundsAssumption == /\ MaxSeq \in Nat /\ MaxWire \in Nat
                           /\ Threads \in Nat /\ MaxBatch \in Nat
ASSUME WaitingAssumption == Waiting \subseteq Producers
ASSUME RatesAssumption == /\ Unit \in Nat \ {0} /\ MaxTime \in Nat
                          /\ {ConnRate, GlobalRate, Burst} \subseteq Nat

VARIABLES
  drawn,      \* client: sequence ids drawn and not sent yet
  batched,    \* client: sequence ids sent in a batch
  next,       \* client: next_sequence_id_
  confirmed,  \* client: sequence ids answered with success
  wire,       \* requests sent and not handled yet, oldest first
  batchOn,    \* batch_publish_enabled, set once from the configuration
  maxSeq,     \* DedupWindow: max_sequence, 0 = producer not tracked
  connB,      \* publish_limiter_ of the connection; NoBucket until needed
  globalB,    \* global_publish_limiter_
  now,        \* steady_clock
  stored,     \* history: how often the store accepted a sequence id
  accepted    \* history: messages the store accepted

clientVars == <<drawn, batched, next, confirmed>>
serverVars == <<batchOn, maxSeq, connB, globalB>>
vars == <<clientVars, wire, serverVars, now, stored, accepted>>

Bucket == INSTANCE TokenBucket
            WITH Settings <- {<<ConnRate, Burst>>, <<GlobalRate, Burst>>},
                 bucket <- globalB, since <- 0, granted <- accepted

NoBucket == [tokens |-> 0, last |-> 0, rate |-> 0, burst |-> 0]
Seqs == 1..MaxSeq

Init ==
  /\ drawn = [p \in Producers |-> {}]
  /\ batched = [p \in Producers |-> {}]
  /\ next = [p \in Producers |-> 1]
  /\ confirmed = [p \in Producers |-> {}]
  /\ wire = [p \in Producers |-> << >>]
  /\ batchOn \in BOOLEAN
  /\ maxSeq = [p \in Producers |-> 0]
  /\ connB = [p \in Producers |-> NoBucket]
  /\ globalB = Bucket!NewBucket(GlobalRate, Burst, 0)
  /\ now = 0
  /\ stored = [p \in Producers |-> [s \in Seqs |-> 0]]
  /\ accepted = 0
-----------------------------------------------------------------------------
(* The client.                                                             *)

(* GetNextSequenceId.                                                      *)
Draw(p) ==
  /\ next[p] \in Seqs /\ Cardinality(drawn[p]) < Threads
  /\ p \in Waiting => confirmed[p] = 1..(next[p] - 1)
  /\ drawn' = [drawn EXCEPT ![p] = @ \cup {next[p]}]
  /\ next' = [next EXCEPT ![p] = @ + 1]
  /\ UNCHANGED <<batched, confirmed, wire, serverVars, now, stored, accepted>>

Put(p, r) ==
  /\ Len(wire[p]) < MaxWire
  /\ wire' = [wire EXCEPT ![p] = Append(@, r)]
  /\ UNCHANGED <<next, confirmed, serverVars, now, stored, accepted>>

Send(p, s) ==
  /\ s \in drawn[p]
  /\ drawn' = [drawn EXCEPT ![p] = @ \ {s}]
  /\ Put(p, [batch |-> FALSE, seqs |-> {s}])
  /\ UNCHANGED batched

SendBatch(p) ==
  /\ drawn[p] # {}
  /\ drawn' = [drawn EXCEPT ![p] = {}]
  /\ batched' = [batched EXCEPT ![p] = @ \cup drawn[p]]
  /\ Put(p, [batch |-> TRUE, seqs |-> drawn[p]])

(* The application repeats a request that was refused, or whose answer did *)
(* not come in time: the first request may still be on its way.            *)
Resend(p, s) ==
  /\ s < next[p] /\ s \notin drawn[p] \cup confirmed[p]
  /\ Put(p, [batch |-> s \in batched[p], seqs |-> {s}])
  /\ UNCHANGED <<drawn, batched>>
-----------------------------------------------------------------------------
(* The dedup window.                                                       *)

(* Mutant: the sequence id itself may come again.                          *)
IsDuplicateStrict(p, s) == maxSeq[p] # 0 /\ s < maxSeq[p]

IsDuplicate(p, s) == maxSeq[p] # 0 /\ s <= maxSeq[p]

(* Mutant: the first sequence id stays the mark.                           *)
MarkProcessedFirst(p, s) ==
  maxSeq' = [maxSeq EXCEPT ![p] = IF @ = 0 THEN s ELSE @]

MarkProcessed(p, s) ==
  maxSeq' = [maxSeq EXCEPT ![p] = IF s > @ THEN s ELSE @]
-----------------------------------------------------------------------------
(* The limiters.  Both may refuse; a refusal of the second leaves the      *)
(* tokens of the first spent.                                              *)

(* AcquirePublishPermit creates the limiter of a connection on first use.  *)
ConnBucket(p) ==
  IF connB[p] = NoBucket THEN Bucket!NewBucket(ConnRate, Burst, now)
                         ELSE connB[p]

ConnAllows(p, n) == Bucket!Grants(ConnBucket(p), now, n)
GlobalAllows(n)  == Bucket!Grants(globalB, now, n)

(* Mutant: a batch is charged as one message.                              *)
AskGlobalOne(n) == globalB' = Bucket!Acquired(globalB, now, 1)

AskConn(p, n) ==
  connB' = [connB EXCEPT ![p] = Bucket!Acquired(ConnBucket(p), now, n)]
AskGlobal(n) == globalB' = Bucket!Acquired(globalB, now, n)
-----------------------------------------------------------------------------
(* HandlePublish of the first request on p's connection.                   *)

Request(p) == Head(wire[p])
Size(p) == Cardinality(Request(p).seqs)
Single(p) == wire[p] # << >> /\ ~Request(p).batch
SeqOf(p) == CHOOSE s \in Request(p).seqs : TRUE

(* The handler returns; the client reads its answer.                       *)
Answer(p, success) ==
  /\ wire' = [wire EXCEPT ![p] = Tail(@)]
  /\ confirmed' = [confirmed EXCEPT ![p] =
                     IF success THEN @ \cup Request(p).seqs ELSE @]
  /\ UNCHANGED <<drawn, batched, next, now>>

NothingStored == UNCHANGED <<stored, accepted>>

Stored(p, S) ==
  /\ stored' = [stored EXCEPT ![p] = [s \in Seqs |->
                  IF s \in S THEN @[s] + 1 ELSE @[s]]]
  /\ accepted' = accepted + Cardinality(S)

PublishDuplicate(p) ==
  /\ Single(p) /\ IsDuplicate(p, SeqOf(p))
  /\ Answer(p, TRUE)
  /\ NothingStored
  /\ UNCHANGED serverVars

PublishConnLimited(p) ==
  /\ Single(p) /\ ~IsDuplicate(p, SeqOf(p)) /\ ~ConnAllows(p, 1)
  /\ AskConn(p, 1)
  /\ Answer(p, FALSE)
  /\ NothingStored
  /\ UNCHANGED <<batchOn, maxSeq, globalB>>

PublishGlobalLimited(p) ==
  /\ Single(p) /\ ~IsDuplicate(p, SeqOf(p))
  /\ ConnAllows(p, 1) /\ ~GlobalAllows(1)
  /\ AskConn(p, 1) /\ AskGlobal(1)
  /\ Answer(p, FALSE)
  /\ NothingStored
  /\ UNCHANGED <<batchOn, maxSeq>>

(* Mutant: the sequence id is marked although the store refused.           *)
PublishFullMarks(p) ==
  /\ Single(p) /\ ~IsDuplicate(p, SeqOf(p))
  /\ ConnAllows(p, 1) /\ GlobalAllows(1)
  /\ AskConn(p, 1) /\ AskGlobal(1)
  /\ MarkProcessed(p, SeqOf(p))
  /\ Answer(p, FALSE)
  /\ NothingStored
  /\ UNCHANGED batchOn

PublishFull(p) ==
  /\ Single(p) /\ ~IsDuplicate(p, SeqOf(p))
  /\ ConnAllows(p, 1) /\ GlobalAllows(1)
  /\ AskConn(p, 1) /\ AskGlobal(1)
  /\ Answer(p, FALSE)
  /\ NothingStored
  /\ UNCHANGED <<batchOn, maxSeq>>

PublishStored(p) ==
  /\ Single(p) /\ ~IsDuplicate(p, SeqOf(p))
  /\ ConnAllows(p, 1) /\ GlobalAllows(1)
  /\ AskConn(p, 1) /\ AskGlobal(1)
  /\ Stored(p, {SeqOf(p)})
  /\ MarkProcessed(p, SeqOf(p))
  /\ Answer(p, TRUE)
  /\ UNCHANGED batchOn
-----------------------------------------------------------------------------
(* HandleBatchPublish: the dedup window is not asked, the limiters charge  *)
(* the whole batch before its size is checked, and one message the store   *)
(* accepts makes the answer a success.                                     *)

Batch(p) == wire[p] # << >> /\ Request(p).batch

BatchRefused(p) ==
  /\ Batch(p) /\ ~batchOn
  /\ Answer(p, FALSE)
  /\ NothingStored
  /\ UNCHANGED serverVars

BatchConnLimited(p) ==
  /\ Batch(p) /\ batchOn /\ ~ConnAllows(p, Size(p))
  /\ AskConn(p, Size(p))
  /\ Answer(p, FALSE)
  /\ NothingStored
  /\ UNCHANGED <<batchOn, maxSeq, globalB>>

BatchGlobalLimited(p) ==
  /\ Batch(p) /\ batchOn
  /\ ConnAllows(p, Size(p)) /\ ~GlobalAllows(Size(p))
  /\ AskConn(p, Size(p)) /\ AskGlobal(Size(p))
  /\ Answer(p, FALSE)
  /\ NothingStored
  /\ UNCHANGED <<batchOn, maxSeq>>

BatchTooLarge(p) ==
  /\ Batch(p) /\ batchOn /\ Size(p) > MaxBatch
  /\ ConnAllows(p, Size(p)) /\ GlobalAllows(Size(p))
  /\ AskConn(p, Size(p)) /\ AskGlobal(Size(p))
  /\ Answer(p, FALSE)
  /\ NothingStored
  /\ UNCHANGED <<batchOn, maxSeq>>

BatchHandled(p, S) ==
  /\ Batch(p) /\ batchOn /\ Size(p) <= MaxBatch
  /\ ConnAllows(p, Size(p)) /\ GlobalAllows(Size(p))
  /\ AskConn(p, Size(p)) /\ AskGlobal(Size(p))
  /\ Stored(p, S)
  /\ Answer(p, S # {})
  /\ UNCHANGED <<batchOn, maxSeq>>
-----------------------------------------------------------------------------
Tick ==
  /\ now < MaxTime
  /\ now' = now + 1
  /\ UNCHANGED <<clientVars, wire, serverVars, stored, accepted>>

Client(p) ==
  \/ Draw(p)
  \/ SendBatch(p)
  \/ \E s \in Seqs : Send(p, s) \/ Resend(p, s)

HandlePublish(p) ==
  \/ PublishDuplicate(p) \/ PublishConnLimited(p) \/ PublishGlobalLimited(p)
  \/ PublishFull(p) \/ PublishStored(p)

HandleBatchPublish(p) ==
  \/ BatchRefused(p) \/ BatchConnLimited(p) \/ BatchGlobalLimited(p)
  \/ BatchTooLarge(p)
  \/ wire[p] # << >> /\ \E S \in SUBSET Request(p).seqs : BatchHandled(p, S)

Next ==
  \/ Tick
  \/ \E p \in Producers : Client(p) \/ HandlePublish(p) \/ HandleBatchPublish(p)

Spec == Init /\ [][Next]_vars
-----------------------------------------------------------------------------
TypeOK ==
  /\ drawn \in [Producers -> SUBSET Seqs]
  /\ batched \in [Producers -> SUBSET Seqs]
  /\ next \in [Producers -> 1..MaxSeq + 1]
  /\ confirmed \in [Producers -> SUBSET Seqs]
  /\ \A p \in Producers : /\ Len(wire[p]) <= MaxWire
                          /\ \A k \in 1..Len(wire[p]) :
                               wire[p][k].seqs \in SUBSET Seqs \ {{}}
  /\ batchOn \in BOOLEAN /\ maxSeq \in [Producers -> 0..MaxSeq]
  /\ stored \in [Producers -> [Seqs -> Nat]]
  /\ accepted \in Nat /\ now \in 0..MaxTime

(* A message published on its own is stored at most once, however often    *)
(* and in whichever order the client repeats its requests.                 *)
StoredAtMostOnce ==
  \A p \in Producers : \A s \in Seqs \ batched[p] : stored[p][s] <= 1

(* For a producer that waits for each confirmation before it goes on, the  *)
(* success answer to a message published on its own means that it is in    *)
(* the store, whatever was refused or repeated before.                     *)
ConfirmedIsStored ==
  \A p \in Waiting : \A s \in confirmed[p] \ batched[p] : stored[p][s] >= 1

(* The dedup window and the store agree: the high-water mark is the        *)
(* largest sequence id of the producer that the store took from a publish  *)
(* of its own, and there is no mark before the first; no refused request,  *)
(* no batch and no late request of a slower thread moves it.               *)
StoredAlone(p) == {s \in Seqs \ batched[p] : stored[p][s] >= 1}
WindowTracksStore ==
  \A p \in Producers : /\ maxSeq[p] \in StoredAlone(p) \cup {0}
                        /\ \A s \in StoredAlone(p) : s <= maxSeq[p]

(* dedup_window.h:24 says that IsDuplicate is true of a repeated message   *)
(* and false of a new one: then a success answer means the same to every   *)
(* producer.                                                               *)
DuplicateWasStored ==
  \A p \in Producers : \A s \in confirmed[p] \ batched[p] : stored[p][s] >= 1

(* The global limiter bounds what all connections and both kinds of        *)
(* request put into the store together, and the limiter of a connection    *)
(* what that connection puts there, from its first request on, although a  *)
(* refusal by one limiter leaves the other charged.                        *)
Copies(p) == UNION {{s} \X (1..stored[p][s]) : s \in Seqs}
OfProducer(p) == Cardinality(Copies(p))

RatesBounded ==
  /\ accepted * Unit <= Burst * Unit + now * GlobalRate
  /\ \A p \in Producers : OfProducer(p) * Unit <= Burst * Unit + now * ConnRate
=============================================================================
