---------------------------- MODULE BrokerRouting ----------------------------
(***************************************************************************)
(* How the broker pushes a published message to its subscribers while      *)
(* connections come and go: TopicManager composed with the frame handlers  *)
(* of src/mq/broker.cpp and with the three threads of                      *)
(* src/network/tcp_server.cpp.                                             *)
(*                                                                         *)
(*  - the accept thread puts a connection into connections_, then into the *)
(*    epoll set;                                                           *)
(*  - the event thread looks a readable connection up, reads it and runs   *)
(*    the handlers of its frames one after the other;                      *)
(*  - the heartbeat thread collects the idle connections, drops their      *)
(*    subscriptions, then closes them.                                     *)
(*                                                                         *)
(* connections_mutex_ protects connections_.  Its critical sections are    *)
(* one action each.  One of them, SendTo, may call Connection::Close,      *)
(* whose close handler locks the same mutex again: the event thread then   *)
(* waits for itself (evPc = "stuck") and the mutex is never free again.    *)
(*                                                                         *)
(* Whether the peer is still there, stays silent for heartbeat_timeout_ms  *)
(* or makes a send fail is up to the environment.                          *)
(***************************************************************************)
EXTENDS TopicManager

CONSTANT SendFails   \* whether a send may fail other than by EAGAIN

ASSUME ConnsAreNumbered == Conns = 1..Cardinality(Conns)
ASSUME SendFailsAssumption == SendFails \in BOOLEAN

VARIABLES
  nextConn,   \* next_conn_id_
  conns,      \* the keys of connections_
  watched,    \* connections registered with epoll
  closed,     \* connections whose closed_ flag is set
  idle,       \* of conns, those silent for heartbeat_timeout_ms or longer
  gone,       \* of conns, those the peer has closed
  evPc,       \* event thread: where it is
  evConn,     \* event thread: the connection it reads, 0 = none
  sendTo,     \* event thread: broadcast subscribers still to be sent to
  snapshot,   \* event thread: the groups GetConsumerGroups returned and
              \* HandlePublish has not served yet
  target,     \* event thread: the group and the member just selected
  hbPc,       \* heartbeat thread: where it is
  hbNotify,   \* heartbeat thread: idle_conn_ids still to be cleaned up
  hbClose,    \* heartbeat thread: idle_conns still to be closed
  hbConn,     \* heartbeat thread: whose close handler it runs, 0 = none
  tried       \* history: connections the current publish was sent to

evVars    == <<evPc, evConn, sendTo, snapshot, target, tried>>
hbVars    == <<hbPc, hbNotify, hbClose, hbConn>>
connVars  == <<nextConn, conns, watched, closed>>
vars == <<tableVars, connVars, idle, gone, evVars, hbVars>>

NoTarget == [g |-> {}, id |-> {}]
NoSnapshot == [g \in {} |-> {}]

MutexFree == evPc # "stuck"

Init ==
  /\ TableInit
  /\ nextConn = 1 /\ conns = {} /\ watched = {} /\ closed = {}
  /\ idle = {} /\ gone = {}
  /\ evPc = "wait" /\ evConn = 0 /\ sendTo = << >> /\ snapshot = NoSnapshot
  /\ target = NoTarget /\ tried = {}
  /\ hbPc = "sleep" /\ hbNotify = {} /\ hbClose = {} /\ hbConn = 0
-----------------------------------------------------------------------------
(* The environment of a connection that exists.                            *)

PeerCloses(c) ==
  /\ c \in conns \ gone
  /\ gone' = gone \cup {c}
  /\ UNCHANGED <<tableVars, connVars, idle, evVars, hbVars>>

TimePasses(c) ==
  /\ c \in conns \ idle
  /\ idle' = idle \cup {c}
  /\ UNCHANGED <<tableVars, connVars, gone, evVars, hbVars>>
-----------------------------------------------------------------------------
(* AcceptLoop: a connection is in connections_ before epoll reports it.    *)

AcceptInsert ==
  /\ MutexFree /\ nextConn \in Conns /\ watched = 1..(nextConn - 1)
  /\ nextConn' = nextConn + 1
  /\ conns' = conns \cup {nextConn}
  /\ UNCHANGED <<tableVars, watched, closed, idle, gone, evVars, hbVars>>

AcceptWatch ==
  /\ watched # 1..(nextConn - 1)
  /\ watched' = 1..(nextConn - 1)
  /\ UNCHANGED <<tableVars, nextConn, conns, closed, idle, gone, evVars, hbVars>>
-----------------------------------------------------------------------------
(* EventLoop and Connection::OnRead.                                       *)

(* epoll reports c and the loop finds it in connections_.                  *)
EventLookup(c) ==
  /\ evPc = "wait" /\ c \in watched \cap conns
  /\ evPc' = "read" /\ evConn' = c
  /\ UNCHANGED <<tableVars, connVars, idle, gone, sendTo, snapshot, target,
                 tried, hbVars>>

ReadClosed ==
  /\ evPc = "read" /\ evConn \in closed
  /\ evPc' = "wait" /\ evConn' = 0
  /\ UNCHANGED <<tableVars, connVars, idle, gone, sendTo, snapshot, target,
                 tried, hbVars>>

(* recv returns 0: the connection is closed, whatever was read before the  *)
(* end of the stream is not parsed.                                        *)
ReadEof ==
  /\ evPc = "read" /\ evConn \in gone \ closed
  /\ closed' = closed \cup {evConn}
  /\ evPc' = "erase"
  /\ UNCHANGED <<tableVars, nextConn, conns, watched, idle, gone, evConn,
                 sendTo, snapshot, target, tried, hbVars>>

ReadData ==
  /\ evPc = "read" /\ evConn \notin gone \cup closed
  /\ idle' = idle \ {evConn}
  /\ evPc' = "frames"
  /\ UNCHANGED <<tableVars, connVars, gone, evConn, sendTo, snapshot, target,
                 tried, hbVars>>

(* The close handler of a connection the event thread closed without       *)
(* holding connections_mutex_.  After a failed response OnRead goes on     *)
(* with the frames it has already decoded.                                 *)
EventErase ==
  /\ evPc \in {"erase", "eraseInFrames"}
  /\ conns' = conns \ {evConn}
  /\ evPc' = IF evPc = "erase" THEN "wait" ELSE "frames"
  /\ evConn' = IF evPc = "erase" THEN 0 ELSE evConn
  /\ idle' = idle \ {evConn} /\ gone' = gone \ {evConn}
  /\ UNCHANGED <<tableVars, nextConn, watched, closed, sendTo, snapshot, target,
                 tried, hbVars>>

FramesDone ==
  /\ evPc = "frames"
  /\ evPc' = "wait" /\ evConn' = 0
  /\ UNCHANGED <<tableVars, connVars, idle, gone, sendTo, snapshot, target,
                 tried, hbVars>>
-----------------------------------------------------------------------------
(* The handlers, each run for one frame and ending in SendResponse.        *)

Handled ==
  /\ evPc = "frames" /\ evPc' = "respond"
  /\ UNCHANGED <<connVars, idle, gone, evConn, sendTo, snapshot, target, tried,
                 hbVars>>

HandleSubscribe(s) ==
  /\ Handled
  /\ \/ SubscribeBroadcast(s, evConn)
     \/ \E g \in Groups : SubscribeGroup(s, evConn, g)

HandleUnsubscribe(s) ==
  /\ Handled
  /\ \/ UnsubscribeBroadcast(s)
     \/ \E g \in Groups : UnsubscribeGroup(s, g)

HandleDeleteTopic == Handled /\ UnregisterTopic

RespondOk ==
  /\ evPc = "respond"
  /\ evPc' = "frames"
  /\ UNCHANGED <<tableVars, connVars, idle, gone, evConn, sendTo, snapshot,
                 target, tried, hbVars>>

RespondFails ==
  /\ evPc = "respond" /\ SendFails /\ evConn \notin closed
  /\ closed' = closed \cup {evConn}
  /\ evPc' = "eraseInFrames"
  /\ UNCHANGED <<tableVars, nextConn, conns, watched, idle, gone, evConn,
                 sendTo, snapshot, target, tried, hbVars>>
-----------------------------------------------------------------------------
(* HandlePublish, from the moment the store has accepted the message.      *)

GetSubscribers == subs
GetConsumerGroups == groups

PublishStored ==
  /\ evPc = "frames"
  /\ evPc' = "broadcast"
  /\ sendTo' = GetSubscribers
  /\ UNCHANGED <<tableVars, connVars, idle, gone, evConn, snapshot, target,
                 tried, hbVars>>

(* SendTo(c), going on at `next' whether or not SendFrame took the frame.  *)
(* SendFrame gives up early on a connection that is closed, and refuses a  *)
(* frame when the write buffer is full; HandlePublish ignores the result.  *)
SendToDone(c, next) ==
  /\ tried' = IF c \in conns \ closed THEN tried \cup {c} ELSE tried
  /\ evPc' = next
  /\ UNCHANGED <<closed, idle, gone>>

(* The send fails: Close runs inside SendTo, under connections_mutex_.     *)
SendToFails(c) ==
  /\ SendFails /\ c \in conns \ closed
  /\ closed' = closed \cup {c}
  /\ evPc' = "stuck"
  /\ UNCHANGED <<tried, idle, gone>>

(* Mutant: a subscriber that is not connected ends the loop.               *)
PushBroadcastStops ==
  /\ evPc = "broadcast" /\ sendTo # << >>
  /\ sendTo' = IF Head(sendTo).conn \in conns \ closed THEN Tail(sendTo)
                                                        ELSE << >>
  /\ \/ SendToDone(Head(sendTo).conn, "broadcast")
     \/ SendToFails(Head(sendTo).conn)
  /\ UNCHANGED <<tableVars, nextConn, conns, watched, evConn, snapshot, target,
                 hbVars>>

PushBroadcast ==
  /\ evPc = "broadcast" /\ sendTo # << >>
  /\ sendTo' = Tail(sendTo)
  /\ \/ SendToDone(Head(sendTo).conn, "broadcast")
     \/ SendToFails(Head(sendTo).conn)
  /\ UNCHANGED <<tableVars, nextConn, conns, watched, evConn, snapshot, target,
                 hbVars>>

BroadcastDone ==
  /\ evPc = "broadcast" /\ sendTo = << >>
  /\ evPc' = "groups"
  /\ snapshot' = GetConsumerGroups
  /\ UNCHANGED <<tableVars, connVars, idle, gone, evConn, sendTo, target, tried,
                 hbVars>>

(* The snapshot without g, which has had its turn in the loop.             *)
Served(g) == [h \in DOMAIN snapshot \ {g} |-> snapshot[h]]

(* SelectNextMember finds the group; it may have lost members since.       *)
SelectMember(g) ==
  /\ evPc = "groups" /\ g \in DOMAIN snapshot
  /\ SelectNextMember(g)
  /\ evPc' = "route"
  /\ target' = [g |-> g, id |-> Selected(g)]
  /\ UNCHANGED <<connVars, idle, gone, evConn, sendTo, snapshot, tried, hbVars>>

(* SelectNextMember returns "": the group has gone since the snapshot.     *)
SelectNobody(g) ==
  /\ evPc = "groups" /\ g \in DOMAIN snapshot /\ g \notin DOMAIN groups
  /\ snapshot' = Served(g)
  /\ UNCHANGED <<tableVars, connVars, idle, gone, evPc, evConn, sendTo, target,
                 tried, hbVars>>

(* Mutant: the message goes to the first member, whoever was selected.     *)
TargetConnFirst == snapshot[target.g].members[1].conn

(* The loop over the snapshot's members that resolves the selected id;     *)
(* 0 when it finds none.                                                   *)
TargetConn ==
  LET q == snapshot[target.g].members
      found == {k \in 1..Len(q) : q[k].id = target.id}
  IN IF found = {} THEN 0
     ELSE q[CHOOSE k \in found : \A j \in found : k <= j].conn

PushToMember ==
  /\ evPc = "route"
  /\ snapshot' = Served(target.g)
  /\ target' = NoTarget
  /\ \/ SendToDone(TargetConn, "groups")
     \/ SendToFails(TargetConn)
  /\ UNCHANGED <<tableVars, nextConn, conns, watched, evConn, sendTo, hbVars>>

GroupsDone ==
  /\ evPc = "groups" /\ DOMAIN snapshot = {}
  /\ evPc' = "respond"
  /\ tried' = {}
  /\ UNCHANGED <<tableVars, connVars, idle, gone, evConn, sendTo, snapshot,
                 target, hbVars>>
-----------------------------------------------------------------------------
(* HeartbeatLoop.                                                          *)

HeartbeatScan ==
  /\ hbPc = "sleep" /\ MutexFree
  /\ (conns \ closed) \cap idle # {}
  /\ hbPc' = "notify"
  /\ hbNotify' = (conns \ closed) \cap idle
  /\ hbClose' = (conns \ closed) \cap idle
  /\ UNCHANGED <<tableVars, connVars, idle, gone, evVars, hbConn>>

(* The idle handler, Broker::OnConnectionClosed.                           *)
HeartbeatNotify(c) ==
  /\ hbPc = "notify" /\ c \in hbNotify
  /\ UnsubscribeByConnId(c)
  /\ hbNotify' = hbNotify \ {c}
  /\ hbPc' = IF hbNotify' = {} THEN "close" ELSE "notify"
  /\ UNCHANGED <<connVars, idle, gone, evVars, hbClose, hbConn>>

(* Mutant: Close does not test closed_ before it sets it.                  *)
HeartbeatCloseAgain(c) ==
  /\ hbPc = "close" /\ c \in hbClose
  /\ closed' = closed \cup {c}
  /\ hbClose' = hbClose \ {c}
  /\ hbConn' = c
  /\ hbPc' = "erase"
  /\ UNCHANGED <<tableVars, nextConn, conns, watched, idle, gone, evVars,
                 hbNotify>>

(* Connection::Close: whoever sets closed_ first runs the close handler.   *)
HeartbeatClose(c) ==
  /\ hbPc = "close" /\ c \in hbClose \ closed
  /\ closed' = closed \cup {c}
  /\ hbClose' = hbClose \ {c}
  /\ hbConn' = c
  /\ hbPc' = "erase"
  /\ UNCHANGED <<tableVars, nextConn, conns, watched, idle, gone, evVars,
                 hbNotify>>

HeartbeatErase ==
  /\ hbPc = "erase" /\ MutexFree
  /\ conns' = conns \ {hbConn}
  /\ idle' = idle \ {hbConn} /\ gone' = gone \ {hbConn}
  /\ hbConn' = 0
  /\ hbPc' = "close"
  /\ UNCHANGED <<tableVars, nextConn, watched, closed, evVars, hbNotify, hbClose>>

HeartbeatDone ==
  /\ hbPc = "close" /\ hbClose \subseteq closed
  /\ hbClose' = {} /\ hbPc' = "sleep"
  /\ UNCHANGED <<tableVars, connVars, idle, gone, evVars, hbNotify, hbConn>>
-----------------------------------------------------------------------------
Accept == AcceptInsert \/ AcceptWatch

EventRead == ReadClosed \/ ReadEof \/ ReadData \/ EventErase \/ FramesDone

EventPush ==
  \/ PushBroadcast \/ BroadcastDone
  \/ \E g \in Groups : SelectMember(g) \/ SelectNobody(g)
  \/ PushToMember \/ GroupsDone

Respond == RespondOk \/ RespondFails

Handle ==
  \/ \E s \in Subscribers : HandleSubscribe(s) \/ HandleUnsubscribe(s)
  \/ HandleDeleteTopic
  \/ PublishStored

Heartbeat ==
  \/ HeartbeatScan
  \/ \E c \in Conns : HeartbeatNotify(c) \/ HeartbeatClose(c)
  \/ HeartbeatErase \/ HeartbeatDone

Next ==
  \/ \E c \in Conns : PeerCloses(c) \/ TimePasses(c) \/ EventLookup(c)
  \/ Accept \/ EventRead \/ Handle \/ EventPush \/ Respond \/ Heartbeat

Spec == Init /\ [][Next]_vars

-----------------------------------------------------------------------------
(* connections_ against the closed_ flags: an open connection is always in *)
(* the map (nobody forgets a descriptor), and a closed one is in it only   *)
(* while exactly one thread is on its way to erase it, although the event  *)
(* thread and the heartbeat thread may close the same connection at once.  *)
EventErasing(c) == evConn = c /\ evPc \in {"erase", "eraseInFrames"}
HeartbeatErasing(c) == hbConn = c

ConnectionsSound ==
  /\ 1..(nextConn - 1) \ closed \subseteq conns
  /\ \A c \in Conns : ~(EventErasing(c) /\ HeartbeatErasing(c))
  /\ evPc # "stuck" => \A c \in conns \cap closed :
                        EventErasing(c) \/ HeartbeatErasing(c)

(* HandlePublish copies the groups, then asks SelectNextMember, then looks *)
(* the answer up in the copy.  Between the three the heartbeat thread may  *)
(* drop members; still the selected member is found in the copy, with the  *)
(* connection it is subscribed on, so no turn of the round-robin is lost   *)
(* to the "target_conn_id != 0" test.                                      *)
SelectedIsRoutable ==
  evPc = "route" =>
    /\ TargetConn \in Conns
    /\ \A g \in DOMAIN groups : g = target.g =>
         \A k \in 1..Len(groups[g].members) :
           groups[g].members[k].id = target.id
             => groups[g].members[k].conn = TargetConn

(* Once HandlePublish has gone through the broadcast subscribers, every    *)
(* subscriber that is in the table on an open connection was sent to, no   *)
(* matter which connections were accepted, cleaned up or closed meanwhile. *)
BroadcastReaches ==
  evPc \in {"groups", "route"} =>
    \A k \in 1..Len(subs) :
      subs[k].conn \in conns \ closed => subs[k].conn \in tried
-----------------------------------------------------------------------------
(* tcp_server.cpp:92 collects the connections first "to avoid the deadlock *)
(* of calling Close while holding the lock": nobody does that.             *)
CloseOutsideLock == evPc # "stuck"
=============================================================================
