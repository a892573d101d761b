--------------------------- MODULE BrokerDelivery ---------------------------
(***************************************************************************)
(* What the broker's handlers do to one topic (src/mq/broker.cpp): the     *)
(* subscription table (TopicManager), the store's copy of the topic, and   *)
(* what was pushed to whom.  The event thread runs one handler at a time,  *)
(* so each is one action; how the heartbeat thread and failing connections *)
(* interfere with a handler is in BrokerRouting, and who may publish at    *)
(* all in PublishPath.                                                     *)
(*                                                                         *)
(* Of the store only what a push can be compared with is kept: the ids it  *)
(* accepted, in the ring buffer until a Pull drains it and in message_log  *)
(* from then on.  Ack, retries and TTL are in MemoryMessageStore.          *)
(***************************************************************************)
EXTENDS TopicManager

CONSTANTS
  BatchPush,  \* batch_push_enabled
  Capacity,   \* bound: messages the ring buffer holds
  MaxId,      \* bound: ids drawn in one life of the topic
  MaxBatch,   \* bound: messages for the topic in one BatchPublish
  MaxLost     \* bound: pushes that fail in one life of the topic

ASSUME DeliveryAssumption ==
  BatchPush \in BOOLEAN /\ {Capacity, MaxId, MaxBatch, MaxLost} \subseteq Nat

VARIABLES
  inStore,  \* the topic is in the store's topics_
  nextId,   \* next_msg_id
  ring,     \* ids in ring_buffer
  log,      \* ids in message_log
  since,    \* history: per subscriber and group, nextId when it subscribed
  due,      \* history: the ids that were published through the network
  got,      \* history: per subscriber and group, the ids pushed to it
  lost      \* history: <<subscriber or group, id>> whose SendTo returned false

storeVars == <<inStore, nextId, ring, log>>
history == <<since, due, got, lost>>
vars == <<tableVars, storeVars, history>>

Receivers == Subscribers \cup Groups
Receiving == {subs[k].id : k \in 1..Len(subs)} \cup DOMAIN groups

Init ==
  /\ TableInit
  /\ inStore = FALSE /\ nextId = 1 /\ ring = << >> /\ log = << >>
  /\ since = [r \in Receivers |-> 1] /\ due = {}
  /\ got = [r \in Receivers |-> << >>] /\ lost = {}
-----------------------------------------------------------------------------
(* Publish of the store, for a request of n messages of which it accepts   *)
(* those at the places A.  A topic that is missing is created, and a       *)
(* message that does not fit into the ring buffer has used up its id.      *)

Ids(n, A) == Kept([k \in 1..n |-> nextId + k - 1], A)

StorePublish(n, A) ==
  /\ nextId + n <= MaxId + 1 /\ Len(ring) + Cardinality(A) <= Capacity
  /\ inStore' = TRUE
  /\ nextId' = nextId + n
  /\ ring' = ring \o Ids(n, A)
  /\ UNCHANGED log

StoreCreateTopic ==
  /\ inStore' = TRUE
  /\ UNCHANGED <<nextId, ring, log>>

(* DeleteTopic: a new topic of the same name starts again at id 1.         *)
StoreDeleted ==
  /\ nextId' = 1 /\ ring' = << >> /\ log' = << >>
  /\ since' = [r \in Receivers |-> 1] /\ due' = {}
  /\ got' = [r \in Receivers |-> << >>] /\ lost' = {}
-----------------------------------------------------------------------------
(* Mutant: the groups get the first message only.                          *)
PushedFirst(ids, r) ==
  IF BatchPush /\ r \in Subscribers THEN ids ELSE SubSeq(ids, 1, 1)

(* What a subscriber or the selected member of a group is sent when the    *)
(* messages ids were stored: one BatchPush, or else messages[0] alone.     *)
Pushed(ids, r) == IF BatchPush THEN ids ELSE SubSeq(ids, 1, 1)

(* SendTo fails for the receivers F: the write buffer of the connection is *)
(* full, or the connection is gone and its entry not yet.  The handlers do *)
(* not look at what SendTo returns, and the turn of the member is used up. *)
Push(ids, F) ==
  /\ Cardinality(lost) + Cardinality(F) * Len(ids) <= MaxLost
  /\ got' = [r \in Receivers |->
               IF r \in Receiving \ F THEN got[r] \o Pushed(ids, r) ELSE got[r]]
  /\ lost' = lost \cup (F \X {ids[k] : k \in 1..Len(ids)})
  /\ SelectNext(DOMAIN groups)

(* HandlePublish (n = 1) and HandleBatchPublish.  When nothing was         *)
(* accepted the handler answers BufferFull and pushes nothing.             *)
HandlePublish(n, A) ==
  /\ StorePublish(n, A)
  /\ due' = due \cup {nextId + k - 1 : k \in A}
  /\ UNCHANGED since
  /\ IF A = {} THEN UNCHANGED <<tableVars, got, lost>>
               ELSE \E F \in SUBSET Receiving : Push(Ids(n, A), F)

(* PublishLocal stores and pushes nothing.                                 *)
PublishLocal(A) ==
  /\ StorePublish(1, A)
  /\ UNCHANGED <<tableVars, history>>
-----------------------------------------------------------------------------
Starts(r) ==
  /\ since' = [since EXCEPT ![r] = nextId]
  /\ got' = [got EXCEPT ![r] = << >>]
  /\ UNCHANGED <<due, lost>>

(* HandleSubscribe: after a successful Subscribe the topic is created in   *)
(* the store too, unless it is there.                                      *)
HandleSubscribe(s, c) ==
  /\ SubscribeBroadcast(s, c)
  /\ IF HasId(subs, s) THEN UNCHANGED <<storeVars, history>>
                       ELSE StoreCreateTopic /\ Starts(s)

HandleSubscribeGroup(s, c, g) ==
  /\ SubscribeGroup(s, c, g)
  /\ IF g \notin DOMAIN groups THEN StoreCreateTopic /\ Starts(g)
     ELSE /\ IF HasId(groups[g].members, s) THEN UNCHANGED storeVars
                                            ELSE StoreCreateTopic
          /\ UNCHANGED history

(* Whoever has left has no history.                                        *)
Leaves ==
  /\ since' = [r \in Receivers |-> IF r \in Receiving' THEN since[r] ELSE 1]
  /\ got' = [r \in Receivers |-> IF r \in Receiving' THEN got[r] ELSE << >>]
  /\ lost' = {p \in lost : p[1] \in Receiving'}
  /\ UNCHANGED <<storeVars, due>>

HandleUnsubscribe(s) ==
  /\ \/ UnsubscribeBroadcast(s)
     \/ \E g \in Groups : UnsubscribeGroup(s, g)
  /\ Leaves

(* The idle timeout of a connection.                                       *)
OnConnectionClosed(c) ==
  /\ UnsubscribeByConnId(c)
  /\ Leaves

(* Pull moves what is in the ring buffer to message_log and answers from   *)
(* there, to the connection that asks.                                     *)
HandlePull ==
  /\ inStore
  /\ log' = log \o ring /\ ring' = << >>
  /\ UNCHANGED <<tableVars, inStore, nextId, history>>

(* Mutant: the topic is not created again.                                 *)
HandleCleanupTopicGone ==
  /\ StoreDeleted /\ inStore' = FALSE
  /\ UNCHANGED tableVars

(* HandleAdmin: ADMIN_DELETE_TOPIC and ADMIN_CLEANUP_TOPIC.  The other     *)
(* commands only look.                                                     *)
HandleDeleteTopic ==
  /\ StoreDeleted /\ inStore' = FALSE
  /\ UnregisterTopic

HandleCleanupTopic ==
  /\ StoreDeleted /\ inStore' = TRUE
  /\ UNCHANGED tableVars
-----------------------------------------------------------------------------
Next ==
  \/ \E n \in 1..MaxBatch : \E A \in SUBSET (1..n) : HandlePublish(n, A)
  \/ \E A \in SUBSET {1} : PublishLocal(A)
  \/ \E s \in Subscribers :
       \/ HandleUnsubscribe(s)
       \/ \E c \in Conns : \/ HandleSubscribe(s, c)
                           \/ \E g \in Groups : HandleSubscribeGroup(s, c, g)
  \/ \E c \in Conns : OnConnectionClosed(c)
  \/ HandlePull \/ HandleDeleteTopic \/ HandleCleanupTopic

Spec == Init /\ [][Next]_vars
-----------------------------------------------------------------------------
(* What was pushed to a broadcast subscriber, or to the members of a group *)
(* together, is what the topic holds since it subscribed, in the order of  *)
(* the ids and each once, but for the pushes to it that failed: those to   *)
(* others are no concern of it, refused messages of a batch leave no hole, *)
(* and neither a Pull by somebody else nor a cleanup is noticed.           *)
(* (With batch_push_enabled off a batch is pushed up to its first message; *)
(* PublishLocal is never pushed.)                                          *)
Owed(r, id) == id \in due /\ id >= since[r] /\ <<r, id>> \notin lost

Delivered ==
  LET all == log \o ring
  IN  BatchPush => \A r \in Receiving :
        got[r] = Kept(all, {k \in 1..Len(all) : Owed(r, all[k])})

(* A topic that ADMIN_LIST_TOPICS shows is in the store: the table and the *)
(* store, each with its own mutex and its own way to create a topic, stay  *)
(* together through subscribing, deleting and cleaning up.                 *)
RegisteredIsStored ==
  /\ registered => inStore
  /\ ~inStore => nextId = 1 /\ ring = << >> /\ log = << >>
=============================================================================
