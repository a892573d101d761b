------------------------ MODULE BrokerRoutingProofs ------------------------
(***************************************************************************)
(* Proofs about BrokerRouting, for any subscribers and groups and any      *)
(* number of connections, whether or not sends may fail.                   *)
(***************************************************************************)
EXTENDS BrokerRouting, TopicManagerProofs

(* The connections accepted so far.                                        *)
Accepted == 1..nextConn - 1

Reading == evPc \in {"read", "erase", "eraseInFrames", "frames", "respond",
                     "broadcast", "groups", "route", "stuck"}

(* connections_ and the closed_ flags, with what the two threads that may  *)
(* close a connection know: whoever erases a connection has closed it, so  *)
(* that the other one does not.                                            *)
ConnInv ==
  /\ nextConn \in Nat \ {0} /\ Accepted \subseteq Conns
  /\ conns \subseteq Accepted /\ watched \subseteq Accepted /\ closed \subseteq Accepted
  /\ hbClose \subseteq Accepted
  /\ evPc = "wait" \/ Reading
  /\ Reading => evConn \in Accepted
  /\ Accepted \ closed \subseteq conns
  /\ evPc \in {"erase", "eraseInFrames"} => evConn \in closed /\ evConn # hbConn
  /\ hbConn # 0 => hbConn \in closed
  /\ hbPc = "erase" <=> hbConn # 0
  /\ evPc # "stuck" => \A c \in conns \cap closed :
                        EventErasing(c) \/ HeartbeatErasing(c)

(* Nobody is subscribed on a connection that is not there yet; and while   *)
(* HandlePublish goes through its copy of the subscribers, whoever is in   *)
(* the table was sent to or is still in the rest of the copy.              *)
BroadcastInv ==
  /\ \A e \in Elems(subs) : e.conn \in Accepted
  /\ sendTo \in Seq(Entries)
  /\ evPc = "broadcast" =>
       \A e \in Elems(subs) :
         e.conn \in conns \ closed =>
           e.conn \in tried \/ \E d \in Elems(sendTo) : d.conn = e.conn
  /\ evPc \in {"groups", "route"} =>
       \A e \in Elems(subs) : e.conn \in conns \ closed => e.conn \in tried

(* While HandlePublish goes through its copy of the groups, a group that   *)
(* is still there has no member that the copy has not.                     *)
SnapshotInv ==
  evPc \in {"groups", "route"} =>
    /\ \A g \in DOMAIN snapshot :
         snapshot[g].members \in Seq(Entries) /\ Unique(snapshot[g].members)
    /\ \A g \in DOMAIN snapshot \cap DOMAIN groups :
         Elems(groups[g].members) \subseteq Elems(snapshot[g].members)

TargetInv ==
  evPc = "route" =>
    /\ target.g \in DOMAIN snapshot
    /\ \E e \in Elems(snapshot[target.g].members) : e.id = target.id

IInv == TableInv /\ ConnInv /\ BroadcastInv /\ SnapshotInv /\ TargetInv

-----------------------------------------------------------------------------
LEMMA ConnInvSound == ConnInv => ConnectionsSound
BY DEF ConnInv, ConnectionsSound, Accepted, EventErasing, HeartbeatErasing

LEMMA BroadcastInvReaches == BroadcastInv => BroadcastReaches
BY DEF BroadcastInv, BroadcastReaches, Elems

(* The loop finds the only entry with the selected id, and a member that   *)
(* is in the table is in the copy.                                         *)
LEMMA TargetRoutable ==
  ASSUME IInv
  PROVE  SelectedIsRoutable
<1> SUFFICES ASSUME evPc = "route"
             PROVE  /\ TargetConn \in Conns
                    /\ \A g \in DOMAIN groups : g = target.g =>
                         \A k \in 1..Len(groups[g].members) :
                           groups[g].members[k].id = target.id
                             => groups[g].members[k].conn = TargetConn
  BY DEF SelectedIsRoutable
<1> DEFINE q == snapshot[target.g].members
           found == {k \in 1..Len(q) : q[k].id = target.id}
<1>1. q \in Seq(Entries) /\ Unique(q) /\ \E e \in Elems(q) : e.id = target.id
  BY DEF IInv, SnapshotInv, TargetInv
<1>2. PICK k \in 1..Len(q) : q[k].id = target.id
  BY <1>1 DEF Elems
<1>3. found = {k} /\ k \in Nat
  BY <1>1, <1>2 DEF Unique
<1>4. TargetConn = q[k].conn
  <2>1. TargetConn = IF found = {} THEN 0
                     ELSE q[CHOOSE i \in found : \A j \in found : i <= j].conn
    BY DEF TargetConn
  <2> HIDE DEF found, q
  <2>2. \E i \in found : \A j \in found : i <= j
    BY <1>3
  <2>3. (CHOOSE i \in found : \A j \in found : i <= j) \in found
    BY <2>2
  <2>4. (CHOOSE i \in found : \A j \in found : i <= j) = k
    BY <1>3, <2>3
  <2> QED BY <1>3, <2>1, <2>4
<1>5. q[k] \in Entries
  BY <1>1, <1>2
<1>6. ASSUME NEW g \in DOMAIN groups, g = target.g, NEW i \in 1..Len(groups[g].members),
             groups[g].members[i].id = target.id
      PROVE  groups[g].members[i].conn = q[k].conn
  <2>1. groups[g].members[i] \in Elems(q)
    BY <1>6 DEF IInv, SnapshotInv, TargetInv, Elems
  <2> HIDE DEF q
  <2>2. PICK j \in 1..Len(q) : groups[g].members[i] = q[j]
    BY <2>1 DEF Elems
  <2>3. j = k
    BY <1>1, <1>2, <1>6, <2>2 DEF Unique
  <2> QED BY <2>2, <2>3
<1> QED BY <1>4, <1>5, <1>6 DEF Entries
-----------------------------------------------------------------------------
(* Where the event thread is in none of the loops of HandlePublish.        *)
Elsewhere == {"wait", "read", "erase", "eraseInFrames", "frames", "respond", "stuck"}

LEMMA TableKept ==
  ASSUME TableInv, UNCHANGED tableVars
  PROVE  TableInv'
BY DEF tableVars, TableInv, TableType, TableSound, RoundsSound

(* An action that touches neither the table nor the loops of HandlePublish *)
(* and opens no connection but a new one.                                  *)
LEMMA LoopsKept ==
  ASSUME IInv, ConnInv', UNCHANGED tableVars, UNCHANGED <<sendTo, snapshot, target>>,
         evPc' \in Elsewhere \/ (evPc' = evPc /\ tried' = tried),
         Accepted \subseteq Accepted',
         (conns' \ closed') \cap Accepted \subseteq conns \ closed
  PROVE  IInv'
<1>1. UNCHANGED <<registered, subs, groups, round>>
  BY DEF tableVars
<1>2. TableInv'
  BY TableKept DEF IInv
<1>3. BroadcastInv'
  BY <1>1 DEF IInv, BroadcastInv, Elsewhere
<1>4. SnapshotInv'
  BY <1>1 DEF IInv, SnapshotInv, Elsewhere
<1>5. TargetInv'
  BY DEF IInv, TargetInv, Elsewhere
<1> QED BY <1>2, <1>3, <1>4, <1>5 DEF IInv

(* The environment and the accept thread.                                  *)
LEMMA AcceptStep ==
  ASSUME IInv,
         \/ \E c \in Conns : PeerCloses(c) \/ TimePasses(c)
         \/ Accept
  PROVE  IInv'
<1>0. ConnInv
  BY DEF IInv
<1>1. ASSUME NEW c \in Conns, PeerCloses(c) \/ TimePasses(c)
      PROVE  IInv'
  <2>1. UNCHANGED <<tableVars, connVars, evVars, hbVars>>
    BY <1>1 DEF PeerCloses, TimePasses
  <2>2. ConnInv'
    BY <1>0, <2>1 DEF ConnInv, Accepted, Reading, EventErasing, HeartbeatErasing,
                      connVars, evVars, hbVars
  <2> QED BY <2>1, <2>2, LoopsKept DEF connVars, evVars, Accepted
<1>2. CASE AcceptInsert
  <2>1. /\ nextConn \in Conns /\ nextConn' = nextConn + 1 /\ conns' = conns \cup {nextConn}
        /\ UNCHANGED <<tableVars, watched, closed, evVars, hbVars>>
    BY <1>2 DEF AcceptInsert
  <2>2. nextConn \in Nat \ {0} /\ nextConn \notin Accepted /\ Accepted' = Accepted \cup {nextConn}
    BY <1>0, <2>1 DEF ConnInv, Accepted
  <2>3. UNCHANGED <<evPc, evConn, sendTo, snapshot, target, tried, hbPc, hbNotify, hbClose, hbConn>>
    BY <2>1 DEF evVars, hbVars
  <2>4. nextConn' \in Nat \ {0}
    BY <2>1, <2>2
  <2>5. ConnInv'
    <3> HIDE DEF Accepted
    <3> QED BY <1>0, <2>1, <2>2, <2>3, <2>4 DEF ConnInv, Reading, EventErasing, HeartbeatErasing
  <2>6. (conns' \ closed') \cap Accepted \subseteq conns \ closed
    BY <2>1, <2>2
  <2> QED BY <2>1, <2>2, <2>3, <2>5, <2>6, LoopsKept
<1>3. CASE AcceptWatch
  <2>1. /\ watched' = Accepted
        /\ UNCHANGED <<tableVars, nextConn, conns, closed, evVars, hbVars>>
    BY <1>3 DEF AcceptWatch, Accepted
  <2>2. ConnInv'
    BY <1>0, <2>1 DEF ConnInv, Accepted, Reading, EventErasing, HeartbeatErasing, evVars, hbVars
  <2> QED BY <2>1, <2>2, LoopsKept DEF evVars, Accepted
<1> QED BY <1>1, <1>2, <1>3 DEF Accept

(* EventLoop and OnRead.                                                   *)
LEMMA EventReadStep ==
  ASSUME IInv, (\E c \in Conns : EventLookup(c)) \/ EventRead \/ Respond
  PROVE  IInv'
<1> USE DEF Accepted, Reading, EventErasing, HeartbeatErasing
<1>0. ConnInv
  BY DEF IInv
<1>1. ASSUME NEW c \in Conns, EventLookup(c)
      PROVE  IInv'
  <2>1. /\ c \in watched \cap conns /\ evPc = "wait" /\ evPc' = "read" /\ evConn' = c
        /\ UNCHANGED <<tableVars, connVars, sendTo, snapshot, target, tried, hbVars>>
    BY <1>1 DEF EventLookup
  <2>2. ConnInv'
    BY <1>0, <2>1 DEF ConnInv, connVars, hbVars
  <2> QED BY <2>1, <2>2, LoopsKept DEF connVars, Elsewhere
<1>2. CASE ReadClosed \/ FramesDone
  <2>1. /\ evPc \in {"read", "frames"} /\ evPc' = "wait" /\ evConn' = 0
        /\ UNCHANGED <<tableVars, connVars, sendTo, snapshot, target, tried, hbVars>>
    BY <1>2 DEF ReadClosed, FramesDone
  <2>2. ConnInv'
    BY <1>0, <2>1 DEF ConnInv, connVars, hbVars
  <2> QED BY <2>1, <2>2, LoopsKept DEF connVars, Elsewhere
<1>3. CASE ReadEof \/ RespondFails
  <2>1. /\ evPc \in {"read", "respond"} /\ evPc' \in {"erase", "eraseInFrames"}
        /\ evConn \notin closed /\ closed' = closed \cup {evConn}
        /\ UNCHANGED <<tableVars, nextConn, conns, watched, evConn, sendTo, snapshot,
                       target, tried, hbVars>>
    BY <1>3 DEF ReadEof, RespondFails
  <2>2. evConn # hbConn
    BY <1>0, <2>1 DEF ConnInv
  <2>3. ConnInv'
    BY <1>0, <2>1, <2>2 DEF ConnInv, hbVars
  <2> QED BY <2>1, <2>3, LoopsKept DEF Elsewhere
<1>4. CASE ReadData \/ RespondOk
  <2>1. /\ evPc \in {"read", "respond"} /\ evPc' = "frames"
        /\ UNCHANGED <<tableVars, connVars, evConn, sendTo, snapshot, target, tried, hbVars>>
    BY <1>4 DEF ReadData, RespondOk
  <2>2. ConnInv'
    BY <1>0, <2>1 DEF ConnInv, connVars, hbVars
  <2> QED BY <2>1, <2>2, LoopsKept DEF connVars, Elsewhere
<1>5. CASE EventErase
  <2>1. /\ evPc \in {"erase", "eraseInFrames"} /\ conns' = conns \ {evConn}
        /\ \/ evPc' = "wait" /\ evConn' = 0
           \/ evPc' = "frames" /\ evConn' = evConn
        /\ UNCHANGED <<tableVars, nextConn, watched, closed, sendTo, snapshot, target,
                       tried, hbVars>>
    BY <1>5 DEF EventErase
  <2>2. ConnInv'
    BY <1>0, <2>1 DEF ConnInv, hbVars
  <2> QED BY <2>1, <2>2, LoopsKept DEF Elsewhere
<1> QED BY <1>1, <1>2, <1>3, <1>4, <1>5 DEF EventRead, Respond

(* HeartbeatLoop.                                                          *)
LEMMA HeartbeatStep ==
  ASSUME IInv, Heartbeat
  PROVE  IInv'
<1> USE DEF Accepted, Reading, EventErasing, HeartbeatErasing
<1>0. ConnInv
  BY DEF IInv
<1>1. CASE HeartbeatScan
  <2>1. /\ hbPc = "sleep" /\ hbPc' = "notify" /\ hbClose' \subseteq conns
        /\ UNCHANGED <<tableVars, connVars, evVars, hbConn>>
    BY <1>1 DEF HeartbeatScan
  <2>2. ConnInv'
    BY <1>0, <2>1 DEF ConnInv, connVars, evVars
  <2> QED BY <2>1, <2>2, LoopsKept DEF connVars, evVars
<1>2. ASSUME NEW c \in Conns, HeartbeatNotify(c)
      PROVE  IInv'
  <2>1. /\ UnsubscribeByConnId(c) /\ hbPc = "notify" /\ hbPc' # "erase"
        /\ UNCHANGED <<connVars, evVars, hbClose, hbConn>>
    BY <1>2 DEF HeartbeatNotify
  <2>2. ConnInv'
    BY <1>0, <2>1 DEF ConnInv, connVars, evVars
  <2>3. /\ TableInv' /\ Elems(subs') \subseteq Elems(subs)
        /\ DOMAIN groups' \subseteq DOMAIN groups
        /\ \A g \in DOMAIN groups' :
             Elems(groups'[g].members) \subseteq Elems(groups[g].members)
    BY <2>1, UnsubscribeByConnIdStep DEF IInv
  <2>4. BroadcastInv'
    BY <2>1, <2>3 DEF IInv, BroadcastInv, connVars, evVars
  <2>5. SnapshotInv'
    BY <2>1, <2>3 DEF IInv, SnapshotInv, evVars
  <2>6. TargetInv'
    BY <2>1 DEF IInv, TargetInv, evVars
  <2> QED BY <2>2, <2>3, <2>4, <2>5, <2>6 DEF IInv
<1>3. ASSUME NEW c \in Conns, HeartbeatClose(c)
      PROVE  IInv'
  <2>1. /\ c \in hbClose \ closed /\ closed' = closed \cup {c} /\ hbClose' = hbClose \ {c}
        /\ hbConn' = c /\ hbPc = "close" /\ hbPc' = "erase"
        /\ UNCHANGED <<tableVars, nextConn, conns, watched, evVars>>
    BY <1>3 DEF HeartbeatClose
  <2>2. c # 0 /\ hbConn = 0
    BY <1>0, <2>1 DEF ConnInv
  <2>3. ConnInv'
    BY <1>0, <2>1, <2>2 DEF ConnInv, evVars
  <2> QED BY <2>1, <2>3, LoopsKept DEF evVars
<1>4. CASE HeartbeatErase
  <2>1. /\ evPc # "stuck" /\ conns' = conns \ {hbConn} /\ hbConn' = 0
        /\ hbPc = "erase" /\ hbPc' = "close"
        /\ UNCHANGED <<tableVars, nextConn, watched, closed, evVars, hbClose>>
    BY <1>4 DEF HeartbeatErase, MutexFree
  <2>2. UNCHANGED <<evPc, evConn, nextConn, watched, closed, hbClose>> /\ 0 \notin Accepted
    BY <2>1 DEF evVars
  <2>3. evPc \in {"erase", "eraseInFrames"} => evConn # 0
    BY <1>0, <2>2 DEF ConnInv
  <2>4. \A c \in conns' \cap closed : EventErasing(c)
    BY <1>0, <2>1 DEF ConnInv
  <2>5. Accepted \ closed \subseteq conns' /\ conns' \subseteq Accepted
    BY <1>0, <2>1 DEF ConnInv
  <2>6. Accepted' = Accepted
    BY <2>2
  <2>7. ConnInv'
    <3> HIDE DEF Accepted
    <3> QED BY <1>0, <2>1, <2>2, <2>3, <2>4, <2>5, <2>6 DEF ConnInv
  <2> QED BY <2>1, <2>7, LoopsKept DEF evVars
<1>5. CASE HeartbeatDone
  <2>1. /\ hbPc = "close" /\ hbPc' = "sleep" /\ hbClose' = {}
        /\ UNCHANGED <<tableVars, connVars, evVars, hbConn>>
    BY <1>5 DEF HeartbeatDone
  <2>2. ConnInv'
    BY <1>0, <2>1 DEF ConnInv, connVars, evVars
  <2> QED BY <2>1, <2>2, LoopsKept DEF connVars, evVars
<1> QED BY <1>1, <1>2, <1>3, <1>4, <1>5 DEF Heartbeat
-----------------------------------------------------------------------------
(* A handler that changes the table only, for a connection that exists.    *)
LEMMA HandledStep ==
  ASSUME IInv, Handled, TableInv', \A e \in Elems(subs') : e.conn \in Accepted
  PROVE  IInv'
<1>1. /\ evPc = "frames" /\ evPc' = "respond"
      /\ UNCHANGED <<connVars, evConn, sendTo, snapshot, target, tried, hbVars>>
  BY DEF Handled
<1>2. ConnInv'
  BY <1>1 DEF IInv, ConnInv, Accepted, Reading, EventErasing, HeartbeatErasing, connVars, hbVars
<1>3. BroadcastInv'
  BY <1>1 DEF IInv, BroadcastInv, Accepted, connVars
<1>4. SnapshotInv' /\ TargetInv'
  BY <1>1 DEF SnapshotInv, TargetInv
<1> QED BY <1>2, <1>3, <1>4 DEF IInv

LEMMA HandleStep ==
  ASSUME IInv, Handle
  PROVE  IInv'
<1>0. TableInv /\ \A e \in Elems(subs) : e.conn \in Accepted
  BY DEF IInv, BroadcastInv
<1>1. ASSUME NEW s \in Subscribers, HandleSubscribe(s)
      PROVE  IInv'
  <2>1. Handled /\ evConn \in Accepted /\ evConn \in Conns
    BY <1>1 DEF HandleSubscribe, Handled, IInv, ConnInv, Reading
  <2>2. CASE SubscribeBroadcast(s, evConn)
    <3>1. TableInv'
      BY <1>0, <2>1, <2>2, SubscribeBroadcastStep
    <3>2. subs' = subs \/ subs' = Append(subs, Entry(s, evConn))
      BY <2>2 DEF SubscribeBroadcast
    <3>3. \A e \in Elems(subs') : e \in Elems(subs) \/ e = Entry(s, evConn)
      <4>1. subs \in Seq(Entries) /\ Entry(s, evConn) \in Entries
        BY <1>0, <2>1 DEF TableInv, TableType, Entry, Entries
      <4>2. CASE subs' = Append(subs, Entry(s, evConn))
        <5> DEFINE x == Entry(s, evConn)
        <5> HIDE DEF x
        <5>1. subs' = Append(subs, x) /\ x \in Entries
          BY <4>1, <4>2 DEF x
        <5>2. /\ Len(subs') = Len(subs) + 1 /\ Len(subs) \in Nat
              /\ \A k \in 1..Len(subs) : subs'[k] = subs[k]
          BY <4>1, <5>1, AppendProperties
        <5>3. subs'[Len(subs) + 1] = x
          BY <4>1, <5>1, AppendProperties
        <5>4. \A k \in 1..Len(subs') : k \in 1..Len(subs) \/ k = Len(subs) + 1
          BY <5>2
        <5>5. \A e \in Elems(subs') : e \in Elems(subs) \/ e = x
          BY <5>2, <5>3, <5>4 DEF Elems
        <5> QED BY <5>5 DEF x
      <4> QED BY <3>2, <4>2
    <3>4. Entry(s, evConn).conn = evConn
      BY DEF Entry
    <3>5. \A e \in Elems(subs') : e.conn \in Accepted
      BY <1>0, <2>1, <3>3, <3>4
    <3> QED BY <2>1, <3>1, <3>5, HandledStep
  <2>3. ASSUME NEW g \in Groups, SubscribeGroup(s, evConn, g)
        PROVE  IInv'
    <3>1. TableInv' /\ subs' = subs
      BY <1>0, <2>1, <2>3, SubscribeGroupStep DEF SubscribeGroup
    <3> QED BY <1>0, <2>1, <3>1, HandledStep
  <2> QED BY <1>1, <2>2, <2>3 DEF HandleSubscribe
<1>2. ASSUME NEW s \in Subscribers, HandleUnsubscribe(s)
      PROVE  IInv'
  <2>1. Handled
    BY <1>2 DEF HandleUnsubscribe
  <2>2. CASE UnsubscribeBroadcast(s)
    <3>1. TableInv' /\ Elems(subs') \subseteq Elems(subs)
      BY <1>0, <2>2, UnsubscribeBroadcastStep
    <3> QED BY <1>0, <2>1, <3>1, HandledStep
  <2>3. ASSUME NEW g \in Groups, UnsubscribeGroup(s, g)
        PROVE  IInv'
    <3>1. TableInv' /\ subs' = subs
      BY <1>0, <2>3, UnsubscribeGroupStep
    <3> QED BY <1>0, <2>1, <3>1, HandledStep
  <2> QED BY <1>2, <2>2, <2>3 DEF HandleUnsubscribe
<1>3. CASE HandleDeleteTopic
  <2>1. Handled /\ TableInv' /\ subs' = << >>
    BY <1>3, UnregisterTopicStep DEF HandleDeleteTopic
  <2>2. Elems(subs') = {}
    BY <2>1 DEF Elems
  <2> QED BY <2>1, <2>2, HandledStep
<1>4. CASE PublishStored
  <2>1. /\ evPc = "frames" /\ evPc' = "broadcast" /\ sendTo' = subs
        /\ UNCHANGED <<tableVars, connVars, evConn, snapshot, target, tried, hbVars>>
    BY <1>4 DEF PublishStored, GetSubscribers
  <2>2. TableInv'
    BY <1>0, <2>1, TableKept
  <2>3. ConnInv'
    BY <2>1 DEF IInv, ConnInv, Accepted, Reading, EventErasing, HeartbeatErasing, connVars, hbVars
  <2>4. BroadcastInv'
    <3>1. subs' = subs /\ Accepted' = Accepted /\ subs \in Seq(Entries)
      BY <1>0, <2>1 DEF tableVars, connVars, Accepted, TableInv, TableType
    <3>2. Elems(sendTo') = Elems(subs') /\ sendTo' \in Seq(Entries)
      BY <2>1, <3>1
    <3> QED BY <1>0, <2>1, <3>1, <3>2 DEF BroadcastInv
  <2>5. SnapshotInv' /\ TargetInv'
    BY <2>1 DEF SnapshotInv, TargetInv
  <2> QED BY <2>2, <2>3, <2>4, <2>5 DEF IInv
<1> QED BY <1>1, <1>2, <1>3, <1>4 DEF Handle

(* SendTo leaves the connections as they are, or closes one and is stuck.  *)
LEMMA SendToStep ==
  ASSUME ConnInv, Reading, NEW c, NEW next \in {"broadcast", "groups"},
         SendToDone(c, next) \/ SendToFails(c), evPc \in {"broadcast", "route"},
         UNCHANGED <<nextConn, conns, watched, evConn, hbVars>>
  PROVE  /\ ConnInv' /\ tried \subseteq tried' /\ closed \subseteq closed'
         /\ evPc' = "stuck" \/ (evPc' = next /\ closed' = closed
                                 /\ (c \in conns \ closed => c \in tried'))
<1>1. CASE SendToDone(c, next)
  <2>1. /\ evPc' = next /\ closed' = closed
        /\ tried' = IF c \in conns \ closed THEN tried \cup {c} ELSE tried
    BY <1>1 DEF SendToDone
  <2>2. ConnInv'
    BY <2>1 DEF ConnInv, Accepted, Reading, EventErasing, HeartbeatErasing, hbVars
  <2> QED BY <2>1, <2>2
<1>2. CASE SendToFails(c)
  <2>1. /\ c \in conns \ closed /\ closed' = closed \cup {c} /\ evPc' = "stuck"
        /\ tried' = tried
    BY <1>2 DEF SendToFails
  <2>2. ConnInv'
    BY <2>1 DEF ConnInv, Accepted, Reading, EventErasing, HeartbeatErasing, hbVars
  <2> QED BY <2>1, <2>2
<1> QED BY <1>1, <1>2

LEMMA PushBroadcastStep ==
  ASSUME IInv, PushBroadcast
  PROVE  IInv'
<1> DEFINE c == Head(sendTo).conn
<1>1. /\ evPc = "broadcast" /\ sendTo # << >> /\ sendTo' = Tail(sendTo)
      /\ SendToDone(c, "broadcast") \/ SendToFails(c)
      /\ UNCHANGED <<tableVars, nextConn, conns, watched, evConn, snapshot, target, hbVars>>
  BY DEF PushBroadcast
<1>2. /\ ConnInv' /\ tried \subseteq tried' /\ closed \subseteq closed'
      /\ evPc' = "stuck" \/ (evPc' = "broadcast" /\ closed' = closed
                              /\ (c \in conns \ closed => c \in tried'))
  BY <1>1, SendToStep DEF IInv, Reading
<1>3. sendTo' \in Seq(Entries) /\ \A d \in Elems(sendTo) : d = Head(sendTo) \/ d \in Elems(sendTo')
  <2>1. sendTo \in Seq(Entries) /\ Len(sendTo) \in Nat
    BY DEF IInv, BroadcastInv
  <2>2. /\ Tail(sendTo) \in Seq(Entries) /\ Len(Tail(sendTo)) = Len(sendTo) - 1
        /\ \A k \in 1..Len(Tail(sendTo)) : Tail(sendTo)[k] = sendTo[k + 1]
    BY <1>1, <2>1, HeadTailProperties
  <2>3. ASSUME NEW k \in 1..Len(sendTo), k # 1
        PROVE  sendTo[k] \in Elems(sendTo')
    <3>1. k - 1 \in 1..Len(sendTo') /\ k - 1 + 1 = k
      BY <1>1, <2>1, <2>2, <2>3
    <3>2. sendTo'[k - 1] = sendTo[k]
      BY <1>1, <2>2, <3>1
    <3> QED BY <3>1, <3>2 DEF Elems
  <2>4. Head(sendTo) = sendTo[1]
    BY <1>1, <2>1
  <2> QED BY <1>1, <2>2, <2>3, <2>4 DEF Elems
<1> HIDE DEF c
<1>4. TableInv' /\ subs' = subs /\ Accepted' = Accepted
  BY <1>1, TableKept DEF IInv, tableVars, Accepted
<1>5. BroadcastInv'
  <2>1. ASSUME evPc' = "broadcast", NEW e \in Elems(subs), e.conn \in conns \ closed'
        PROVE  e.conn \in tried' \/ \E d \in Elems(sendTo') : d.conn = e.conn
    <3>1. e.conn \in tried \/ \E d \in Elems(sendTo) : d.conn = e.conn
      BY <1>1, <1>2, <2>1 DEF IInv, BroadcastInv
    <3>2. ASSUME NEW d \in Elems(sendTo), d.conn = e.conn
          PROVE  e.conn \in tried' \/ \E f \in Elems(sendTo') : f.conn = e.conn
      <4>1. CASE d = Head(sendTo)
        BY <1>2, <2>1, <3>2, <4>1 DEF c
      <4>2. CASE d \in Elems(sendTo')
        BY <3>2, <4>2
      <4> QED BY <1>3, <4>1, <4>2
    <3> QED BY <1>2, <3>1, <3>2
  <2> QED BY <1>1, <1>2, <1>3, <1>4, <2>1 DEF IInv, BroadcastInv
<1>6. SnapshotInv' /\ TargetInv'
  BY <1>2 DEF SnapshotInv, TargetInv
<1> QED BY <1>2, <1>4, <1>5, <1>6 DEF IInv

LEMMA BroadcastDoneStep ==
  ASSUME IInv, BroadcastDone
  PROVE  IInv'
<1>1. /\ evPc = "broadcast" /\ sendTo = << >> /\ evPc' = "groups" /\ snapshot' = groups
      /\ UNCHANGED <<tableVars, connVars, evConn, sendTo, target, tried, hbVars>>
  BY DEF BroadcastDone, GetConsumerGroups
<1>2. TableInv' /\ UNCHANGED <<subs, groups>>
  BY <1>1, TableKept DEF IInv, tableVars
<1>3. ConnInv'
  BY <1>1 DEF IInv, ConnInv, Accepted, Reading, EventErasing, HeartbeatErasing, connVars, hbVars
<1>4. Elems(sendTo) = {}
  BY <1>1 DEF Elems
<1>5. BroadcastInv'
  BY <1>1, <1>2, <1>4 DEF IInv, BroadcastInv, Accepted, connVars
<1>6. SnapshotInv'
  <2>1. \A g \in DOMAIN groups : groups[g].members \in Seq(Entries) /\ Unique(groups[g].members)
    BY DEF IInv, TableInv, TableType, TableSound
  <2> QED BY <1>1, <1>2, <2>1 DEF SnapshotInv
<1>7. TargetInv'
  BY <1>1 DEF TargetInv
<1> QED BY <1>2, <1>3, <1>5, <1>6, <1>7 DEF IInv

(* The member selected is one that the copy has.                           *)
LEMMA SelectMemberStep ==
  ASSUME IInv, NEW g \in Groups, SelectMember(g)
  PROVE  IInv'
<1>1. /\ evPc = "groups" /\ g \in DOMAIN snapshot /\ g \in DOMAIN groups /\ SelectNext({g})
      /\ evPc' = "route" /\ target' = [g |-> g, id |-> Selected(g)]
      /\ UNCHANGED <<connVars, evConn, sendTo, snapshot, tried, hbVars>>
  BY DEF SelectMember, SelectNextMember
<1>2. /\ TableInv' /\ subs' = subs /\ DOMAIN groups' = DOMAIN groups
      /\ \A h \in DOMAIN groups : groups'[h].members = groups[h].members
  <2>1. {g} \in SUBSET DOMAIN groups
    BY <1>1
  <2> QED BY <1>1, <2>1, SelectNextStep DEF IInv
<1>3. ConnInv'
  BY <1>1 DEF IInv, ConnInv, Accepted, Reading, EventErasing, HeartbeatErasing, connVars, hbVars
<1>4. BroadcastInv'
  BY <1>1, <1>2 DEF IInv, BroadcastInv, Accepted, connVars
<1>5. SnapshotInv'
  BY <1>1, <1>2 DEF IInv, SnapshotInv
<1>6. TargetInv'
  <2> DEFINE q == groups[g].members
             i == groups[g].rr % Len(q)
  <2>1. q \in Seq(Entries) /\ q # << >> /\ groups[g].rr \in Nat
    BY <1>1 DEF IInv, TableInv, TableType, TableSound
  <2>2. Len(q) \in Nat \ {0}
    BY <2>1, EmptySeq
  <2>3. i \in 0..Len(q) - 1
    <3> HIDE DEF q
    <3> QED BY <2>1, <2>2, ModDiv
  <2>4. i + 1 \in 1..Len(q)
    <3> HIDE DEF q, i
    <3> QED BY <2>2, <2>3
  <2>5. q[i + 1] \in Elems(q) /\ q[i + 1].id = Selected(g)
    BY <2>4 DEF Elems, Selected
  <2>6. Elems(q) \subseteq Elems(snapshot[g].members)
    BY <1>1 DEF IInv, SnapshotInv
  <2>7. target'.g = g /\ target'.id = Selected(g)
    BY <1>1
  <2> HIDE DEF q, i
  <2> QED BY <1>1, <2>5, <2>6, <2>7 DEF TargetInv
<1> QED BY <1>2, <1>3, <1>4, <1>5, <1>6 DEF IInv

(* The rest of the loop over the copy of the groups.                       *)
LEMMA SelectNobodyStep ==
  ASSUME IInv, NEW g \in Groups, SelectNobody(g)
  PROVE  IInv'
<1>1. /\ evPc = "groups" /\ snapshot' = Served(g)
      /\ UNCHANGED <<tableVars, connVars, evPc, evConn, sendTo, target, tried, hbVars>>
  BY DEF SelectNobody
<1>2. TableInv' /\ UNCHANGED <<subs, groups>>
  BY <1>1, TableKept DEF IInv, tableVars
<1>3. ConnInv'
  BY <1>1 DEF IInv, ConnInv, Accepted, Reading, EventErasing, HeartbeatErasing, connVars, hbVars
<1>4. BroadcastInv'
  BY <1>1, <1>2 DEF IInv, BroadcastInv, Accepted, connVars
<1>5. SnapshotInv'
  BY <1>1, <1>2 DEF IInv, SnapshotInv, Served
<1>6. TargetInv'
  BY <1>1 DEF TargetInv
<1> QED BY <1>2, <1>3, <1>4, <1>5, <1>6 DEF IInv

LEMMA PushToMemberStep ==
  ASSUME IInv, PushToMember
  PROVE  IInv'
<1> DEFINE c == TargetConn
<1>1. /\ evPc = "route" /\ snapshot' = Served(target.g)
      /\ SendToDone(c, "groups") \/ SendToFails(c)
      /\ UNCHANGED <<tableVars, nextConn, conns, watched, evConn, sendTo, hbVars>>
  BY DEF PushToMember
<1> HIDE DEF c
<1>2. /\ ConnInv' /\ tried \subseteq tried' /\ closed \subseteq closed'
      /\ evPc' = "stuck" \/ (evPc' = "groups" /\ closed' = closed)
  BY <1>1, SendToStep DEF IInv, Reading
<1>3. TableInv' /\ UNCHANGED <<subs, groups>> /\ Accepted' = Accepted
  BY <1>1, TableKept DEF IInv, tableVars, Accepted
<1>4. BroadcastInv'
  BY <1>1, <1>2, <1>3 DEF IInv, BroadcastInv
<1>5. SnapshotInv'
  BY <1>1, <1>2, <1>3 DEF IInv, SnapshotInv, Served
<1>6. TargetInv'
  BY <1>2 DEF TargetInv
<1> QED BY <1>2, <1>3, <1>4, <1>5, <1>6 DEF IInv

LEMMA GroupsDoneStep ==
  ASSUME IInv, GroupsDone
  PROVE  IInv'
<1>1. /\ evPc = "groups" /\ evPc' = "respond"
      /\ UNCHANGED <<tableVars, connVars, evConn, sendTo, snapshot, target, hbVars>>
  BY DEF GroupsDone
<1>2. ConnInv'
  BY <1>1 DEF IInv, ConnInv, Accepted, Reading, EventErasing, HeartbeatErasing, connVars, hbVars
<1> QED BY <1>1, <1>2, LoopsKept DEF connVars, Elsewhere, Accepted
-----------------------------------------------------------------------------
LEMMA Initially == Init => IInv
<1> SUFFICES ASSUME Init PROVE IInv
  OBVIOUS
<1>1. TableInv
  BY TableStarts DEF Init
<1>2. ConnInv
  BY DEF Init, ConnInv, Accepted, Reading
<1>3. BroadcastInv
  BY DEF Init, TableInit, BroadcastInv, Elems
<1>4. SnapshotInv /\ TargetInv
  BY DEF Init, SnapshotInv, TargetInv
<1> QED BY <1>1, <1>2, <1>3, <1>4 DEF IInv

LEMMA Preserved == IInv /\ [Next]_vars => IInv'
<1> SUFFICES ASSUME IInv, [Next]_vars PROVE IInv'
  OBVIOUS
<1>1. CASE EventPush
  BY <1>1, PushBroadcastStep, BroadcastDoneStep, SelectMemberStep, SelectNobodyStep,
     PushToMemberStep, GroupsDoneStep DEF EventPush
<1>2. CASE UNCHANGED vars
  <2>1. UNCHANGED <<tableVars, connVars, evVars, hbVars>>
    BY <1>2 DEF vars
  <2>2. ConnInv'
    BY <2>1 DEF IInv, ConnInv, Accepted, Reading, EventErasing, HeartbeatErasing,
                connVars, evVars, hbVars
  <2> QED BY <2>1, <2>2, LoopsKept DEF connVars, evVars, Accepted
<1> QED BY <1>1, <1>2, AcceptStep, EventReadStep, HandleStep, HeartbeatStep DEF Next

(* The invariant holds of every behaviour of the three threads.            *)
THEOREM IInvHolds == Spec => []IInv
BY Initially, Preserved, PTL DEF Spec

(* An open connection is never forgotten, and a closed one is erased by    *)
(* exactly one of the event thread and the heartbeat thread.               *)
THEOREM ConnectionsStaySound == Spec => []ConnectionsSound
<1>1. IInv => ConnectionsSound
  BY ConnInvSound DEF IInv
<1> QED BY <1>1, IInvHolds, PTL

(* HandlePublish reaches every broadcast subscriber that is in the table   *)
(* on an open connection when it is done with the copy it took.            *)
THEOREM BroadcastReachesAll == Spec => []BroadcastReaches
<1>1. IInv => BroadcastReaches
  BY BroadcastInvReaches DEF IInv
<1> QED BY <1>1, IInvHolds, PTL

(* The member SelectNextMember chose is found in the copy of the group.    *)
THEOREM SelectedStaysRoutable == Spec => []SelectedIsRoutable
<1>1. IInv => SelectedIsRoutable
  BY TargetRoutable
<1> QED BY <1>1, IInvHolds, PTL
=============================================================================
