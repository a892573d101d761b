# Verification of proto_msg_queue

TLA+ models of the broker in `src/`, the TLC runs that check them on small
instances, and theorems about them whose proofs TLAPS checks. `PROJECT.json`
lists components, runs, mutants, the definition-to-source map, findings,
hazards and theorems.

## 1. The system

A single-process message broker. Clients speak a length-prefixed protobuf
protocol over TCP; the broker keeps messages in memory, pushes them to
subscribers and lets consumers pull and acknowledge them.

| Component | State | Operations | Threads and locks |
|---|---|---|---|
| Message store `storage/memory_message_store` | per topic: ring buffer, log, retry queue, offsets, pending deliveries; DLQ beside the topics | CreateTopic, DeleteTopic, Publish, Pull (which drains the ring into the log), Ack, PullDlq; retry and expiration scans | Publish takes no topic mutex; Pull, Ack and both background threads take `TopicData::mutex` |
| Ring buffer `ring_buffer/spsc_ring_buffer` | bytes, `head_`, `tail_` | Push, Pop, sizes | lock-free, one producer, one consumer |
| Topic manager `mq/topic_manager` | topics, broadcast subscribers, groups with a round-robin index | Register, Unregister, Subscribe, Unsubscribe, UnsubscribeByConnId, SelectNextMember, queries | one mutex per call |
| Broker `mq/broker` | dedup window, global limiter | a handler per frame type, push to subscribers, cleanup of a closed connection | handlers run on the event thread, `OnConnectionClosed` on the heartbeat thread |
| TCP server `network/tcp_server` | `connections_`, epoll set | accept, event and heartbeat loops, SendTo, Start, Stop | three threads, `connections_mutex_` |
| Connection `network/connection` | `fd_`, `closed_`, read and write buffers, its own limiter | OnRead, SendFrame, Close, AcquirePublishPermit | event thread; heartbeat thread for Close; `write_buffer_mutex_` |
| Rate limiter `common/rate_limiter.h` | tokens, last refill, rate, burst | Acquire, SetRate | one mutex per call |
| Dedup window `common/dedup_window` | largest sequence id per producer | IsDuplicate, MarkProcessed | one mutex per call |
| TCP client `network/tcp_client` | `connection_`, `connected_`, last Pong, producer id, next sequence id | Connect, Disconnect, SendFrame, read and ping loops | read thread, ping thread, any number of application threads; `conn_mutex_` |
| Frame codecs `protocol/` | the streaming decoder: unparsed bytes, parse state, partial frame | encode, decode, resynchronise | the thread that reads the connection |
| Programs `main/` | the broker | construction, signals, destruction | main thread |
| Compression, configuration, types, schema | none, or local | compress, parse | - |

How they meet: a Publish frame passes dedup window, connection limiter and
global limiter, goes into the store, and is then pushed through the topic
manager's table and `TcpServer::SendTo`. The heartbeat thread changes the table
and `connections_` at any moment of that. Background threads of the store work
on the same topic as Pull and Ack.

What is hard here: publishing without the topic mutex; timeouts that race with
acknowledgements; a retry queue shared by consumers; expiry between the reads of
a clock; a byte ring with two concurrent indices; a table read in several
critical sections by one handler while another thread edits it; two threads
closing one connection; callbacks that take the lock the caller holds; repeated
and reordered requests; partial writes; a byte stream cut at any place; a shutdown
that meets every thread anywhere; a timeout against a late answer. `PROJECT.json` lists these as hazards,
each at its line.

What makes each part correct: the store loses no message and counts retries; the
ring is a FIFO of whole messages without data races; the table has unique entries
and fair round-robin; a connection is erased exactly once and eventually; a
broadcast reaches everybody who is connected; the limits hold, and refused
callers are served later; nothing is stored twice, and what is confirmed is
stored; a peer decodes the accepted frames, whole and in order, however they are
cut; subscribers are pushed exactly what was stored; a shutdown ends with nothing
left running or open; a client keeps a living session and notices a lost one.

## 2. Modules

| Module | Models | Used by |
|---|---|---|
| `MemoryMessageStore` | one topic of the store (topics share no state) | `MCMemoryMessageStore`, `MemoryMessageStoreProofs` |
| `MemoryMessageStoreProofs` | theorems about the store | |
| `SpscRingBuffer` | the byte ring | run directly; `SpscRingBufferProofs` |
| `MessageFifo` | abstract specification: a queue of messages | refined by `SpscRingBuffer` |
| `TopicManager` | the subscription table of one topic | `BrokerDelivery`, `BrokerRouting` |
| `TopicManagerProofs` | lemmas about the table | `BrokerDeliveryProofs`, `BrokerRoutingProofs` |
| `BrokerDelivery` | `TopicManager` composed with the topic in the store: what every handler does to both, and what is pushed to whom | `MCBrokerDelivery`, `BrokerDeliveryProofs` |
| `BrokerRouting` | `TopicManager` composed with the three server threads and the steps of HandlePublish | `MCBrokerRouting`, `BrokerRoutingProofs` |
| `TcpServer` | Start, Stop, the three threads of the server, closing of connections | `BrokerLifecycle` |
| `StoreThreads` | the two background threads of the store and its destructor | `BrokerLifecycle` |
| `BrokerLifecycle` | `TcpServer` composed with `StoreThreads` and the thread that starts, stops and destroys them | run directly; `NetworkProofs` |
| `TokenBucket` | the rate limiter, as operators on a bucket and as a specification of one bucket | `MCTokenBucket`, `NetworkProofs`, `PublishPath` |
| `PublishPath` | clients, dedup window, both limiters, HandlePublish and HandleBatchPublish up to the answer | run directly; `PublishPathProofs` |
| `FrameCodec` | the layout of a frame: encoding and the stateless decoder | `ConnectionWriter`, `StreamingFrameCodec` |
| `ConnectionWriter` | SendFrame, the write buffer and the kernel's send buffer | `FrameStream` |
| `StreamingFrameCodec` | the decoder of a connection, and the frames of a stream by definition | `FrameStream` |
| `FrameStream` | `ConnectionWriter` at one end of a TCP stream, OnRead with `StreamingFrameCodec` at the other | `MCFrameStream`, `FrameStreamProofs` |
| `TcpClient` | the sessions of a client with its read and ping threads | run directly; `NetworkProofs` |
| `SpscRingBufferProofs`, `BrokerDeliveryProofs`, `BrokerRoutingProofs`, `PublishPathProofs`, `FrameStreamProofs` | theorems about the module each is named after | |
| `NetworkProofs` | theorems about `TcpClient` (`ClientSpec`), `BrokerLifecycle` (`Spec`) and `TokenBucket` (`BucketSpec`), which share no state | |

Operators whose comment begins with "Mutant" are wrong variants of the definition
that follows them. They occur in no specification; `PROJECT.json` says which
property each of them breaks when it takes the definition's place.

### MemoryMessageStore

`phase` says which loop holds the topic mutex: `drain` and `pull` (Pull),
`retry`, `expire`, or `none`. Every iteration of these loops is an action, so
Publish, PullDlq and the two clocks, which need no topic mutex, come in between.
Publish is `PublishOk` or `PublishFull` (the id is drawn before the push and stays
used up; a ring that is not full refuses a message for which its room is too
small). `huge` are the messages beyond `kMaxPayloadSize`, which a ring configured
larger than that takes (`RingTakesHuge`) and Pop never gets past: `PopFails` ends the
drain there. Pull is `PullBegin`, `DrainStep`*, `DrainEnd`, the log loop (`PullSkip`,
`PullSkipExpired`, `PullTake`), the retry loop (`RetryDropExpired`, `RetryTake`,
`RetryLeave`) and `PullEnd`. The retry scan is `RetryBegin`, then `RetryDrop`,
`RetryBury` or `RetryRequeue` per delivery, then `RetryEnd`; the expiration scan
is `ExpireBegin`, `ExpireLog`, `ExpireRetry`, `ExpireEnd`.

A message is its id. Time is the two comparisons the code makes: `expired`
(TTL against the wall clock; `clock` is its value at the `now_ms` read under the
mutex) and `due` (pending for `pending_timeout_ms_`). `published`, `acked` and
`dead` are histories.

### SpscRingBuffer

One action per byte written or read; index loads and stores are actions of their
own. Release and acquire give the order the model uses: a byte written before
`tail_` is stored is visible to a reader that loaded that `tail_`. Header length,
radix, capacity and `kMaxPayloadSize` are constants. A message is one byte value
repeated, and two consecutive ones differ in every byte.

### TopicManager, BrokerDelivery, BrokerRouting

A method of `TopicManager` holds its mutex throughout and is one action. The event
thread runs one handler at a time; `BrokerDelivery` makes each handler one action
on the table and on the store's copy of the topic (`inStore`, `nextId`, `ring`,
`log`), with histories of what was published through the network (`due`), since
when somebody subscribes (`since`) and what it was pushed (`got`; a group has one
history, its members take turns). Which messages of a batch the store refuses is
free, and so is for which receivers `SendTo` returns false, a result the handlers
ignore: `got` has the pushes that succeeded, `lost` the others, at most `MaxLost` of
them. A failure that closes the connection in the middle of `SendTo` is in
`BrokerRouting` and `TcpServer`.

`BrokerRouting` takes HandlePublish apart instead. The event
thread has a program counter `evPc` (look up, read,
frames, broadcast, groups, route, respond, erase) and the heartbeat thread `hbPc`
(sleep, notify, close, erase): each critical section is one action, and what a
thread copied out of it (`sendTo`, `snapshot`, `target`, `hbNotify`, `hbClose`)
is a variable. `SendTo` that fails inside the lock ends in `evPc = "stuck"`, as
the close handler locks the mutex its caller holds. Peers and clocks are external
actions.

### TcpServer, StoreThreads, BrokerLifecycle

`TcpServer` has the control of the three loops down to the tests of `running_`,
and Stop in the steps flag, descriptors, collecting under the lock, closing,
joining. Close is two steps, the `closed_` exchange and the handler that erases.
A push whose send fails closes inside `SendTo` (`PushFails`): the event thread is
then `stuck` with `connections_mutex_`, and every step of the other threads and of
Stop that locks it waits for `Unlocked`.
Epoll keeps the listening socket under its descriptor in the field that holds
connection ids, so `EventLookup` may pick the connection with that number; ids
start at 1 and descriptors are small, so this happens in a real process.
`StoreThreads` separates the predicate test of `wait_for` from joining the wait
set where the destructor can come in between (the expiration thread), and keeps
them together where the mutex excludes it (the retry thread). In
`BrokerLifecycle` Stop is called by the signal handler on the main thread, by
`~Broker`, and by `~TcpServer`; the store goes last. Its threads are placed
anywhere when the store's destruction begins: before, nothing depends on them.

### TokenBucket, PublishPath

Tokens are counted in units of 1/`Unit`, so that a tick may bring a fraction.
`PublishPath` has one FIFO wire per connection. The handlers run one at a time on
the event thread, so every return of a handler is one action: duplicate, refused
by the connection's limiter, by the global one (the first token is then spent),
by the store, or stored; for batches also disabled and too large. The store's
answer is free: `MemoryMessageStore` says when it refuses. `Waiting` names the
producers whose application waits for each confirmation before it goes on.

### FrameCodec, ConnectionWriter, StreamingFrameCodec, FrameStream

Bytes are numbers below `Base`; magic, version, type and a big-endian length of
`LengthBytes` digits are laid out as in the code. `send` and `writev` take as many
bytes as the kernel has room for; `zeroCopy` is chosen at the start, and so is
`noise`, bytes that precede the first frame. The streaming decoder is one action
per turn of the loop of TryParseFrame. The reading end may be closed at any point of
OnRead (`ReaderCloses`: heartbeat timeout, Stop, Disconnect, an answer that cannot be
sent), recv may fail (`RecvFails`), and the end of the stream closes it (`RecvEnd`);
a recv that meets any of these drops what the current OnRead had read, while a parse
loop that is under way goes on. `FramesIn`, the reference, reads a whole
stream with the stateless decoder: at each place a frame starts, or one byte is
skipped.

### TcpClient

Time is a set of ages with a `Tick`: the ping thread's sleep, the age of the last
Pong, and of every Ping under way. Disconnect is flag, close under the mutex,
unlock, join. The broker answers within `Delay`, closes, or vanishes. The write buffer
may fill up in any session (`BufferFills`); SendFrame then refuses every frame before
it tries to send, so it stays `full`, and a Ping that is refused ends the ping thread
with the connection open (`PingRefused`).

## 3. Runs

| Run | Instance | Shows |
|---|---|---|
| `store_safety` | 2 consumers, 2 ids, 1 retry, ring of 1 | order of the log, provenance of ids, retention, offsets, no loss between delivery and settlement, offsets never go back; `IInv`, the inductive invariant of the proofs |
| `store_liveness` | 1 consumer, 2 ids, 2 retries, ring and pull of 2 | a message is in one place at a time; pending deliveries time out; every message ends although nobody need acknowledge, unless an oversized record blocks the drain before it |
| `ring_safety` | 13 slots, 2-digit lengths of base 3, lengths 0, 1, 3, 4, 11 | no slot written while readable, reads within what was published, refinement of `MessageFifo`, a message of legal length does not block the ring |
| `routing_safety` | 2 subscribers, 1 group, 2 connections, sends may fail | `connections_` against `closed_`, selected members can be routed to, a broadcast reaches every connected subscriber |
| `broker_lifecycle` | 2 connections, the second with the number of the listening descriptor | a shutdown at any moment ends and leaves nothing open or running; closed and vanished peers are dropped; each of these unless a failed push has locked up the event thread |
| `bucket_rate` | rates 1/3 and 4/3 per tick, bursts 2 and 1, 7 ticks | rate bound in every interval, patience is rewarded |
| `publish_admission` | a waiting producer and a pipelining one with 3 threads, 3 sequence ids, 2 frames in flight, batches up to 3 with limit 2, burst 3 | stored at most once, confirmed is stored, the window's mark is exactly the largest id stored on its own, both limits |
| `frame_stream` | 3 frames, header of 10 bytes, payloads of 0, 10, 11 and 12 (one of them a frame itself, one too long), five kinds of noise, kernel and write buffer of 20, pieces of 5 bytes or all | the stream is the accepted frames; how far the write buffer may exceed its limit; the decoder agrees with the reference at every return; accepted frames are decoded, and what is on the wire arrives while the reading end is open |
| `delivery` | 2 subscribers, 1 group, 2 connections, 3 ids, batches of 2, up to 3 pushes fail | table sound and fair; pushed is what was stored since the subscription, without the messages whose own push failed; table and store agree |
| `client_session` | 2 sessions, interval 2, slack 1, answer within 3, timeout 6 | a living session is kept, a lost one noticed unless the write buffer is full, Disconnect returns |
| `routing_lock_doc` | 2 connections, sends may fail | violation, see section 5 |
| `publish_pipelined_doc` | 1 producer, 2 threads, 2 ids | violation, see section 5 |

Why the bounds are enough: two consumers suffice for every conflict over one
retry entry, and two ids for order and for gaps. A ring with room for one message
is full and empty all the time. Deleting the topic resets the ids, so several
lifetimes occur. The byte ring wraps at every residue, because the lengths
generate all of them; a length of 4 is accepted by Push and refused by Pop, one
of 11 never fits. Two connections let the accept, event and heartbeat
threads work on different and on the same connections, and let one be accepted
while Stop closes the other; ids are not reused, as in
the code. Three sequence ids allow an overtaking pair and a later message; two
frames in flight are the least in which a repetition meets its original. Pieces of
5 bytes, and a buffer of 20 that splits what is sent, cut the stream inside the
magic, the length and the payload, because noises and frames together have lengths
of every residue modulo 5. Two members and three ids let a group go
round and begin again, lose a member with the index beyond the list, and lie in two
connections; groups of every size are the matter of the theorem. Three failed pushes
put one before, after and inside a batch. Interval, slack and delay add up to the timeout, where
`LiveIsKept` is tight: its mutant fails by one tick. A second session shows that
nothing of the first is left.

`CHECK_DEADLOCK FALSE` is set where the environment may stop: producers or frames
at their bound, all connections closed, a broker destroyed, a client done with its
sessions, or the lock-up of `routing_lock_doc`.

### Fairness

- Store: a thread that holds the mutex goes on (WF of `PullStep`, `RetryStep`,
  `ExpireStep`); the steady clock advances; the retry thread wakes up every
  `retry_interval_ms_` and obtains the mutex now and then (SF of `RetryBegin`,
  as consumers take it again and again). `EveryMessageFinishes` also assumes
  that consumers poll: nothing but Pull drains the ring buffer. Nothing is
  assumed about Ack, publishers, expiry or deletion.
- Ring: a Push that was begun ends, the consumer keeps calling Pop.
- Broker: each thread of the server and of the store keeps running, as timed waits
  end and mutexes are released, except by an event thread that is stuck in a failed
  push; no push need fail. main finishes a shutdown it has begun, but need
  not begin one. `epoll_wait` returns at most `kMaxEvents` events, so a batch ends
  (SF of `EventBatchDone`); the destructor gets `retry_mutex_`, which the retry
  thread releases for a whole interval (SF of `DtorFlag`); the end of a stream is
  reported until it is looked up, as OnRead reads to EAGAIN under edge-triggered
  epoll (SF of `EventLookup` for connections whose peer has gone). A connection
  whose peer has vanished becomes idle unless something touches it. Peers need not
  speak.
- Stream: the reading thread runs, and bytes that were sent arrive some time. Nobody
  need close, and no recv need fail.
- Client: both threads run, time passes, Disconnect goes on once called, and the
  read thread finds a Pong or the end of the stream that is there
  (SF of `ReadPong`, `ReadEof`: it reads every 10 ms). That a Pong comes within
  `Delay` is a guard of `Tick`, and `TimeoutAssumption` says what it must be for
  a timeout to mean something. The write buffer need not fill up.

## 4. Theorems

All constants are arbitrary within the named assumptions of the modules, which TLC
evaluates on every run: sets of consumers, subscribers, groups and producers are
any sets, bounds any natural numbers, `RingTakesHuge` either way, `RingCapacity` and `Unit` positive, rates and
bursts natural numbers (`RatesAssumption`), and the client's timeout leaves room for
one turn of the ping thread and one answer (`TimeoutAssumption`). The ring has any
positive capacity and header size, and the header has room for the length of every
message that fits into the ring (`SizeAssumption`, `HeaderAssumption`: no ring of
2^32 bytes is made). The length field of a frame has room for `kMaxPayloadSize`, and
there is at least one magic byte (`CodecAssumption`); frames and noise are any bytes,
the kernel takes at least one (`WriterAssumption`), and pieces that arrive are not
empty (`PiecesAssumption`). Each proof module has an inductive invariant, a lemma per
step or per conjunct, and the theorems that follow from the invariant.

| Module | Theorem | Property |
|---|---|---|
| `MemoryMessageStoreProofs` | `IInvHolds`, `TypeCorrect`, `LogIsOrdered`, `OffsetsCover`, `NothingLost`, `OnePlaceHolds`, `OffsetsNeverGoBack`, `NothingInvented`, `RetentionHolds` | `IInv`, `TypeOK`, `LogOrdered`, `OffsetCovers`, `NoMessageLost`, `OnePlace`, `OffsetMonotone`, `Provenance`, `Retained` |
| `SpscRingBufferProofs` | `WriterStaysClear`, `ReaderStaysWithin`, `RingIsFifo` | `WriterClearOfReader`, `ReaderWithinPublished`, `ImplementsFifo` |
| `BrokerDeliveryProofs` | `TableStaysSound`, `RoundRobinIsFair`, `RegisteredStaysStored`, `DeliveredHolds` | `TableSound`, `RoundRobinFair`, `RegisteredIsStored`, `Delivered` |
| `BrokerRoutingProofs` | `ConnectionsStaySound`, `BroadcastReachesAll`, `SelectedStaysRoutable` | `ConnectionsSound`, `BroadcastReaches`, `SelectedIsRoutable` |
| `PublishPathProofs` | `StoredOnce`, `WindowIsTracked`, `ConfirmedStaysStored`, `RatesStayBounded` | `StoredAtMostOnce`, `WindowTracksStore`, `ConfirmedIsStored`, `RatesBounded` |
| `FrameStreamProofs` | `FramingSurvives`, `WriteBufferIsBounded`, `DecoderIsComplete`, `AcceptedIsDecoded` | `StreamIntact`, `BufferBound`, `DecodesAllReceived`, `DecodedIsAccepted` |
| `NetworkProofs` | `RateIsBounded`, `PatienceIsRewarded`, `DestructionIsQuiet`, `LiveSessionIsKept` | `RateBound`, `WaitingPays`, `DestroyedIsQuiet`, `LiveIsKept` |

**Store.** `NoMessageLost` is not inductive by itself. That a message which a Pull
skips is accounted for needs the order of the log and the position of the cursor
(`LogOrdered`, `CursorSound`); that a message taken from the retry queue is not
offered by the log again needs `OffsetCovers` and `InFlightLogged`; that removing
one entry of the retry queue removes the message from it needs `RetryQueueSound`;
that ids are not reused needs `Provenance`; the scans need that `todo` and `clock`
are put away with the mutex (`LockSound`). `IInv` is their conjunction with `TypeOK`
and `Retained`. `OnePlace` has its own inductive step (`ExclusiveStep`) on top of it.

**Ring.** The indices alone are not enough: Pop moves `head_` by the length it decodes,
so what lies between `head_` and `tail_` must be whole messages. `Framed` says that: a
set of cuts (`Cuts`) divides the readable bytes, and at each cut the header says how
far the next one is. `Writing` and `Reading` add what a Push has stored so far and what
a Pop has read so far, and that the index each of them owns has not moved. That a
header is read back as the length it was written from is `HeaderRoundTrip`. The
refinement of `MessageFifo` reads the whole ring, from cut to cut; storing `tail_`
appends a message to it, storing `head_` removes the first, and every other step
stutters.

**Limiter.** The bound on what was granted is inductive only together with what the
bucket could still grant (`BoundInv`), and that waiting pays only with the amount a
bucket holds while nothing is granted (`FillInv`).

**Table.** `TopicManagerProofs` holds the lemmas both compositions use: what `Kept`
leaves of a list (it is how `remove_if` with `erase` is written: the elements at the
kept places, closed up in their order), and one lemma per method of the topic
manager that it keeps `TableInv`. Fairness of round-robin is not inductive as it
stands: `RoundsSound` adds that the members selected in this round are the ones
just before the index, counted round the list from where it lies, also when it was
left beyond the end of a list that has shrunk.

**Delivery.** `Delivered` compares two sequences. The invariant `GotInv` says instead
that what was pushed is increasing and has the elements that are due, which each
handler visibly keeps; `IncreasingUnique` shows that there is one such sequence, and
`Kept` of the stored one is it. Due to a receiver (`Owed`) is what was stored since it
subscribed and whose push to it did not fail. `StoreInv` gives the order of ring and
log, and the bounds of `since` and `lost`: no message of the future is lost.

**Routing.** `ConnInv` says where the two threads stand towards each closed
connection. The copies HandlePublish works on go stale, so `SnapshotInv` and
`BroadcastInv` relate them to the table: the heartbeat thread only removes entries,
and only of connections it then closes; `TargetInv` says that the selected member was
in the copy.

**Life cycle.** That everything is closed needs to know where each accepted
connection can be found until then (`Accounted`): in the map, in the list of Stop, or
with the accept thread, and that the second Stop starts when the threads have ended
(`ShutdownOrder`).

**Publishing.** `ClientInv` says what may be on a wire: ids that left the client, on
their own or in a batch but never both. With it `WindowInv` (what was stored on its
own is not above the mark of the window, and once; the mark is the id of such a
message, one that has left the client outside every batch) is inductive although requests
are repeated and overtake each other. `WaitInv` adds that a waiting producer has at
most its last id unconfirmed, so an id the window rejects is the mark itself or was
confirmed before: the case that fails for pipelining producers (section 5). `RateInv`
is the bound of both limiters with what the buckets still hold; a limiter is created
with a connection's first request, and `Copies` counts what was stored by it.

**Client.** `PongAge` bounds the age of the last Pong by where the ping thread is and
by the oldest Ping under way; `LiveIsKept` follows as `TimedOut` is never true.

**Stream.** On the writing side `StreamIntact` and `BufferBound` are inductive with the
types (`WriterInv`): whatever `send` or `writev` takes, the rest of the header and the
rest of the payload together are the rest of the encoded frame (`RestOfFrame`). On the
reading side `DecodesAllReceived` says nothing in the middle of parsing.
`NothingLost` does: however the stream goes on, the frames of what was received and of
the continuation are those decoded so far, followed by those of the codec's buffer and
of the continuation. It is kept because bytes at which no magic starts may be dropped
(`SkipNoMagic`), and with `ParserKnows`, what the parse state knows of the buffer.
`NothingLeft` says that outside the parse loop there is no frame in the buffer.
`AcceptedIsDecoded` needs no other invariant: a stream of encoded frames decodes to
these frames (`StreamIsDecoded`), by the round trip of the length (`LengthRoundTrip`)
and of one frame (`EncodedIsFound`).

**Recursion.** The shifts of a length, the number put together from its bytes,
flattening, and `FramesIn` are recursive functions. That each exists and satisfies its
equation, and what it computes, is proved by induction with the property as a set
(`LeastNumber`, `Induction`), as the prover cannot instantiate the induction rules
that take an operator.

Only model-checked are the liveness properties, because fairness and ENABLED are
beyond the prover: `DeliveryTimesOut`, `EveryMessageFinishes`, `HeadAdvances`,
`ShutdownEnds`, `SilentIsDropped`, `DisconnectIsDropped`, `FrameArrives`,
`LossIsNoticed` and `DisconnectReturns`.

## 5. Findings

Each of these runs ends with a counterexample.

- `routing_lock_doc`: `SendTo` calls `SendFrame` with `connections_mutex_` held; a
  failed send closes the connection, whose close handler locks that mutex again,
  and the event thread waits for itself. `tcp_server.cpp:92` avoids just this in
  Stop. The mutex is never released then: accepting (`:169`), the heartbeat thread
  (`:225`) and Stop (`:95`) wait for it as well, and no connection is read any more.
  Hence the exception `~Unlocked` in `ShutdownEnds`, `SilentIsDropped` and
  `DisconnectIsDropped`.
- `publish_pipelined_doc`: the dedup window compares with the largest sequence id.
  Two threads of a client, or a refused request repeated after a later one, bring
  a new message that is confirmed as a duplicate and never stored.
  `ConfirmedIsStored` holds for clients that wait.

Met while modelling, part of the models, without a run of their own:

- There is one retry queue per topic with one entry per message. When a message
  has timed out for two consumers the first one to pull takes it; the other never
  sees it again. The comment at `memory_message_store.cpp:204` says that retries
  are per consumer. The proved `NoMessageLost` is what holds instead: the message
  is with somebody.
- The connection whose id is the number of the listening descriptor is marked as
  active whenever somebody connects, so its silent peer need never be dropped
  (`ROADMAP.md:35`); `SilentIsDropped` excepts it.
- A connection accepted while the first Stop runs stays open until the destructor
  calls Stop again; a program that only calls Stop keeps it (`DestroyedIsQuiet` is
  about the destroyed server). Any accept error but EAGAIN ends the accept thread.
- The signal handler may run on a server thread, where Stop joins the thread it
  runs on; the model has it on the main thread.
- The handlers ignore what `SendTo` returns (`broker.cpp:170`, `:210`, `:324`): a push
  that a full write buffer refuses, or to a connection that is gone, is not repeated,
  and the turn of the group member is used up; hence `lost` in `Delivered`.
- SendFrame of the client also returns false when the write buffer is full
  (`connection.cpp:39`), with the connection open. The ping thread ends then without
  closing it (`tcp_client.cpp:193`), and a broker that vanishes afterwards is not
  noticed; hence `full` in `LossIsNoticed`.
- A subscriber with an empty id can join a group; SelectNextMember returns that id in
  its turn, which `broker.cpp:181` takes for nobody, so its messages are pushed to no
  one.
- With `batch_push_enabled` off only the first message of a batch is pushed
  (`broker.cpp:333`); hence the condition in `Delivered`. Batch and pull frames say
  `compressed = false` whatever was stored (`broker.cpp:317`, `:447`). The comment at
  `broker.cpp:662` says that a topic can override compression; it cannot switch it off.
- SendFrame accepts a payload beyond `kMaxPayloadSize`, in which the other end then
  searches for frames; hence `Sendable` in `DecodedIsAccepted`. OnRead drops what it
  read together with the end of the stream or an error; hence the open reading end in
  `FrameArrives`.
- Connect after a lost session without a Disconnect assigns to a joinable thread.
- `memory_message_store.h:24` says the offset moves on after the ACK; it moves on
  delivery. `memory_message_store.h:23` speaks of a thread that drains the ring;
  only Pull does.
- A consumer that acknowledged a message can get it again when it timed out for
  another consumer (`test_message_store.cpp:97` expects an empty pull); with one
  consumer `OnePlace` excludes it.
- A message longer than `kMaxPayloadSize` that fits into the ring is accepted by
  Push and blocks Pop for ever, and with it the drain of its topic; hence the
  condition in `HeadAdvances` and `Blocked` in `EveryMessageFinishes`.
- Subscriptions of a connection that its peer closed are never removed, and those
  made between the cleanup and the close of an idle one remain
  (`ROADMAP.md:35`).
- Batches do not ask the dedup window (`ROADMAP.md:102`); hence `batched` in
  `StoredAtMostOnce`.
- The zero-copy path ignores the limit of the write buffer (`ROADMAP.md:70`), and
  beyond the limit nothing is flushed any more; `BufferBound` says how far it goes.

## 6. Not modelled

Configuration, compression, wire schema, command lines (parsing, library wrappers,
generated code). The contents of payloads in the store. Rounding of doubles in the
limiter and clocks that go backwards. Code without a caller: `TcpServer::Broadcast`,
`SetPublishRateLimit`, `SetTopicConfig`, `RemoveProducer` and `CleanupInactive` of
the dedup window, `Reset` of the streaming decoder. Undefined behaviour without a
set of outcomes: a scan of the store that goes on after DeleteTopic freed its topic
(`memory_message_store.cpp:366`), and a descriptor that is closed and given to
another connection while a thread reads from it (`connection.cpp:124`). Two producers
on one ring: `PublishLocal` would allow them, no program of the repository does it.
Subscribers whose id is empty (section 5).

## 7. State of the plan

Every component with state of its own is modelled, with the compositions routing,
delivery, life cycle, publish path and stream. Every safety invariant and action
property of the runs, and the refinement of `MessageFifo`, is proved for all
constants; liveness is model-checked. What would extend the project is named in
section 6: the undefined behaviours of the store and of a descriptor in use, once
the code defines an outcome for them, and the code that has no caller yet.
