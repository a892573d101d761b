---------------------------- MODULE NetworkProofs ----------------------------
(***************************************************************************)
(* Proofs about the two ends of a connection and the limiter on it.        *)
(* TcpClient: for every heartbeat interval, timeout, delay and lateness    *)
(* that the assumptions on them allow, and for any number of sessions.     *)
(* BrokerLifecycle: for any number of connections, any number of the       *)
(* listening descriptor, with and without heartbeat.                       *)
(* TokenBucket: for every rate, burst and observer.                        *)
(***************************************************************************)
EXTENDS TcpClient, BrokerLifecycle, TokenBucket, SequenceTheorems, TLAPS

(* The client.                                                             *)


(* A session whose broker answers.                                         *)
Live == appPc = "session" /\ alive /\ ~eof

(* Of the flags nothing is needed but whether they are true.               *)
ClientTypes ==
  /\ conn \in {"none", "open", "closed"}
  /\ sincePong \in Nat /\ slept \in Nat /\ pings \in Seq(0..Delay)
  /\ readPc \in {"off", "loop", "take", "read", "done"}
  /\ pingPc \in {"off", "sleep", "send", "check", "close", "done"}
  /\ appPc \in {"idle", "session", "close", "unlock", "join"}
  /\ sessions \in Nat

(* While the broker answers, the connection is open, the ping thread is in *)
(* its loop, unless a full write buffer ended it, and has not decided to   *)
(* close.                                                                  *)
SessionKept ==
  Live => /\ connected /\ conn = "open"
          /\ pingPc \in IF ClientHeartbeat THEN {"sleep", "send", "check", "done"}
                                            ELSE {"off"}

(* How old the last Pong can be.  With no Ping under way it came after the *)
(* sleep began, or after the last one did; otherwise it came at most one   *)
(* turn of the ping thread before the oldest of the Pings under way.       *)
PongAge ==
  Live /\ ClientHeartbeat =>
    /\ slept <= Interval + Slack
    /\ pingPc \in {"send", "check"} => slept = 0
    /\ pings = << >> =>
         /\ pingPc = "sleep" => sincePong <= slept
         /\ pingPc = "send"  => sincePong <= Interval + Slack
         /\ pingPc = "check" => sincePong = 0
    /\ pings # << >> => sincePong <= Interval + Slack + pings[1]

(* The inductive invariant.                                                *)
ClientInv == ClientTypes /\ SessionKept /\ PongAge

(* The Pings under way keep their places when time passes.                 *)
LEMMA OlderPings ==
  ASSUME HeartbeatAssumption, NEW s \in Seq(0..Delay)
  PROVE  LET t == [k \in DOMAIN s |-> Older(s[k], Delay)] IN
           /\ t \in Seq(0..Delay)
           /\ t = << >> <=> s = << >>
           /\ s # << >> => t[1] = Older(s[1], Delay)
<1> DEFINE t == [k \in DOMAIN s |-> Older(s[k], Delay)]
<1>1. Len(s) \in Nat /\ DOMAIN s = 1..Len(s) /\ \A k \in 1..Len(s) : s[k] \in 0..Delay
  OBVIOUS
<1>2. \A k \in 1..Len(s) : Older(s[k], Delay) \in 0..Delay
  BY <1>1 DEF Older, HeartbeatAssumption
<1>3. t \in Seq(0..Delay)
  BY <1>1, <1>2, IsASeq
<1>4. s # << >> => 1 \in 1..Len(s)
  BY EmptySeq, <1>1
<1> QED BY <1>1, <1>3, <1>4

(* No step of the application, the two threads, the broker or the clock    *)
(* breaks the types.                                                       *)
LEMMA ClientTypeStep ==
  ASSUME ClientTypes, [ClientNext]_clientVars  PROVE ClientTypes'
<1> USE HeartbeatAssumption, TimeoutAssumption
    DEF HeartbeatAssumption, TimeoutAssumption, ClientTypes, pongVars, sessVars, appVars
<1>0. << >> \in Seq(0..Delay)
  BY EmptySeq
<1>1. CASE Connect
  BY <1>0, <1>1 DEF Connect
<1>2. CASE DisconnectFlag \/ Disconnecting \/ SendFrameFails \/ BufferFills
  BY <1>2 DEF DisconnectFlag, Disconnecting, DisconnectClose, DisconnectUnlock,
              DisconnectJoin, SendFrameFails, BufferFills
<1>3. CASE ReadLoop
  <2>1. CASE ReadPong
    <3>1. pings' \in Seq(0..Delay)
      BY <2>1, HeadTailProperties DEF ReadPong
    <3> QED BY <2>1, <3>1 DEF ReadPong
  <2>2. CASE ReadTest \/ ReadTake \/ ReadNothing \/ ReadEof
    BY <2>2 DEF ReadTest, ReadTake, ReadNothing, ReadEof
  <2> QED BY <1>3, <2>1, <2>2 DEF ReadLoop
<1>4. CASE PingLoop
  <2>1. 0 \in 0..Delay
    OBVIOUS
  <2>2. Append(pings, 0) \in Seq(0..Delay)
    BY <2>1, AppendProperties
  <2>3. CASE PingSend
    BY <2>2, <2>3 DEF PingSend
  <2>4. CASE PingWakes \/ PingSendFails \/ PingRefused \/ PingCheck \/ PingClose
    BY <2>4 DEF PingWakes, PingSendFails, PingRefused, PingCheck, PingClose
  <2> QED BY <1>4, <2>3, <2>4 DEF PingLoop
<1>5. CASE BrokerCloses \/ BrokerVanishes
  BY <1>5 DEF BrokerCloses, BrokerVanishes
<1>6. CASE Tick
  BY <1>6, OlderPings DEF Tick, Older
<1>7. CASE UNCHANGED clientVars
  BY <1>7 DEF clientVars
<1> QED BY <1>1, <1>2, <1>3, <1>4, <1>5, <1>6, <1>7 DEF ClientNext

(* Nobody closes the connection of a broker that answers, and the ping     *)
(* thread never finds a Pong too old: a whole turn and a Pong's delay fit  *)
(* into the timeout.                                                       *)
LEMMA KeptStep ==
  ASSUME ClientInv, [ClientNext]_clientVars  PROVE SessionKept' /\ PongAge'
<1> USE HeartbeatAssumption, TimeoutAssumption
    DEF HeartbeatAssumption, TimeoutAssumption, ClientInv, ClientTypes, SessionKept, PongAge,
        Live, pongVars, sessVars, appVars
<1>1. CASE Connect
  BY <1>1 DEF Connect
<1>2. CASE DisconnectFlag \/ Disconnecting \/ SendFrameFails \/ BufferFills
  BY <1>2 DEF DisconnectFlag, Disconnecting, DisconnectClose, DisconnectUnlock,
              DisconnectJoin, SendFrameFails, BufferFills, IsConnected
<1>3. CASE ReadTest \/ ReadTake \/ ReadNothing \/ ReadEof
  BY <1>3 DEF ReadTest, ReadTake, ReadNothing, ReadEof
<1>4. CASE ReadPong
  <2>1. pings' \in Seq(0..Delay)
    <3>1. pings \in Seq(0..Delay) /\ pings # << >> /\ pings' = Tail(pings)
      BY <1>4 DEF ReadPong
    <3> QED BY <3>1, HeadTailProperties
  <2>2. pings' # << >> => pings'[1] \in 0..Delay
    BY <2>1
  <2>3. SessionKept'
    BY <1>4 DEF ReadPong
  <2>4. PongAge'
    <3>1. sincePong' = 0 /\ UNCHANGED <<alive, eof, appPc, slept, pingPc>>
      BY <1>4 DEF ReadPong
    <3> QED BY <2>2, <3>1
  <2> QED BY <2>3, <2>4
<1>5. CASE PingWakes
  BY <1>5 DEF PingWakes
<1>6. CASE PingSend
  <2>1. CASE Live
    <3>1. pings' = Append(pings, 0) /\ pings' # << >>
      BY <1>6, <2>1 DEF PingSend
    <3>2. pings'[1] = IF pings = << >> THEN 0 ELSE pings[1]
      BY <3>1
    <3> QED BY <1>6, <2>1, <3>1, <3>2 DEF PingSend
  <2>2. CASE ~Live
    BY <1>6, <2>2 DEF PingSend
  <2> QED BY <2>1, <2>2
<1>7. CASE PingSendFails \/ PingRefused
  BY <1>7 DEF PingSendFails, PingRefused, IsConnected
<1>8. CASE PingCheck
  <2>1. pings # << >> => pings[1] \in 0..Delay
    OBVIOUS
  <2>2. Live /\ ClientHeartbeat => sincePong <= Timeout
    BY <1>8, <2>1 DEF PingCheck
  <2> QED BY <1>8, <2>2 DEF PingCheck, TimedOut
<1>9. CASE PingClose
  BY <1>9 DEF PingClose
<1>10. CASE BrokerCloses \/ BrokerVanishes
  BY <1>10 DEF BrokerCloses, BrokerVanishes
<1>11. CASE Tick
  <2>1. /\ pings' = << >> <=> pings = << >>
        /\ pings # << >> => pings'[1] = Older(pings[1], Delay) /\ pings[1] \in 0..Delay
    BY <1>11, OlderPings DEF Tick
  <2> QED BY <1>11, <2>1 DEF Tick, Older
<1>12. CASE UNCHANGED clientVars
  BY <1>12 DEF clientVars
<1> QED BY <1>1, <1>2, <1>3, <1>4, <1>5, <1>6, <1>7, <1>8, <1>9, <1>10, <1>11, <1>12
        DEF ClientNext, ReadLoop, PingLoop

(* The inductive invariant holds in every reachable state.                 *)
THEOREM ClientInvHolds == ClientSpec => []ClientInv
<1>1. ClientInit => ClientInv
  BY HeartbeatAssumption, EmptySeq DEF HeartbeatAssumption, ClientInit, ClientInv,
                                       ClientTypes, SessionKept, PongAge, Live
<1>2. ClientInv /\ [ClientNext]_clientVars => ClientInv'
  BY ClientTypeStep, KeptStep DEF ClientInv
<1> QED BY <1>1, <1>2, PTL DEF ClientSpec

(* The session of a broker that answers in time is never given up, for     *)
(* every interval and timeout that leave room for one turn and one delay.  *)
THEOREM LiveSessionIsKept == ClientSpec => []LiveIsKept
<1>1. ClientInv => LiveIsKept
  BY DEF ClientInv, SessionKept, Live, LiveIsKept, IsConnected
<1> QED BY <1>1, ClientInvHolds, PTL
-----------------------------------------------------------------------------
(* The broker.                                                             *)


StopPcs == {"no", "flag", "fds", "collect", "close", "handler", "stopped"}

(* The parts of the state that the argument looks into.                    *)
BrokerTypes ==
  /\ nextConn \in Nat \ {0} /\ stops \in Nat
  /\ conns \subseteq 1..(nextConn - 1) /\ stopList \subseteq 1..(nextConn - 1)
  /\ acPc \in {"off", "loop", "accept", "insert", "watch", "done"}
  /\ evPc \in {"off", "loop", "poll", "batch", "read", "erase", "stuck", "done"}
  /\ hbPc \in {"off", "sleep", "close", "erase", "done"}
  /\ acPc = "insert" => acConn \in 1..(nextConn - 1)
  /\ mainPc \in {"new", "running", "stopping", "store"}
  /\ stopPc \in StopPcs

(* Whoever runs the close handler of a connection has closed it.           *)
ErasedIsClosed ==
  /\ evPc = "erase" => evConn \in closed
  /\ hbPc = "erase" => hbConn \in closed

(* A connection that was accepted is closed, or somebody who will close it *)
(* can find it: in connections_, in conns_to_close of Stop, or about to be *)
(* put into connections_ by the accept thread.                             *)
Accounted ==
  \A c \in 1..(nextConn - 1) :
    c \in closed \/ c \in conns \/ c \in stopList \/ (acPc = "insert" /\ acConn = c)

(* Where main is.  A Stop that has returned has joined the threads, so the *)
(* next one finds them ended from its first line, and what it takes out of *)
(* connections_ is all there will ever be.                                 *)
ShutdownOrder ==
  /\ mainPc = "new" => acPc = "off" /\ evPc = "off" /\ hbPc = "off"
  /\ mainPc \in {"new", "running"} <=> stopPc = "no"
  /\ mainPc \in {"new", "running"} => stops = 0
  /\ stops >= 2 \/ stopPc = "stopped" => ThreadsEnded
  /\ stopPc \notin {"close", "handler"} => stopList = {}
  /\ stops >= 2 /\ stopPc \in {"close", "handler", "stopped"} => conns = {}
  /\ mainPc = "store" => stopPc = "stopped" /\ stops >= 2

(* The threads of the store outlive the server; its destructor joins them. *)
StoreOrder ==
  /\ mainPc # "store" => dtorPc = "no"
  /\ dtorPc = "gone" => rtPc = "done" /\ exPc = "done"

(* The inductive invariant.                                                *)
BrokerInv == BrokerTypes /\ ErasedIsClosed /\ Accounted /\ ShutdownOrder /\ StoreOrder

(* No action of the server's threads starts another one: a thread that has *)
(* ended takes no step.                                                    *)
LEMMA ThreadsStep ==
  ASSUME BrokerInv, AcceptThread \/ EventThread \/ Pushing \/ Heartbeat,
         UNCHANGED <<storeVars, mainPc, stops>>
  PROVE  BrokerInv'
<1> USE DEF BrokerInv, BrokerTypes, StopPcs, ErasedIsClosed, Accounted, ShutdownOrder,
            StoreOrder, ThreadsEnded, storeVars, peerVars, flagVars, connVars, acVars,
            evVars, hbVars, stopVars
<1>1. CASE AcceptTest \/ AcceptAgain \/ AcceptFails
  <2>1. CASE AcceptTest
    BY <2>1 DEF AcceptTest
  <2>2. CASE AcceptAgain
    BY <2>2 DEF AcceptAgain
  <2>3. CASE AcceptFails
    BY <2>3 DEF AcceptFails
  <2> QED BY <1>1, <2>1, <2>2, <2>3
<1>2. CASE AcceptTake
  BY <1>2 DEF AcceptTake
<1>3. CASE AcceptInsert
  <2>1. BrokerTypes' /\ ErasedIsClosed' /\ StoreOrder'
    BY <1>3 DEF AcceptInsert
  <2>2. Accounted'
    BY <1>3 DEF AcceptInsert
  <2>3. ShutdownOrder'
    BY <1>3 DEF AcceptInsert
  <2> QED BY <2>1, <2>2, <2>3
<1>4. CASE AcceptWatch
  BY <1>4 DEF AcceptWatch
<1>5. CASE EventTest \/ EventPoll \/ EventBatchDone \/ ReadClosed \/ ReadAgain
  <2>1. CASE EventTest
    BY <2>1 DEF EventTest
  <2>2. CASE EventPoll
    BY <2>2 DEF EventPoll
  <2>3. CASE EventBatchDone
    BY <2>3 DEF EventBatchDone
  <2>4. CASE ReadClosed
    BY <2>4 DEF ReadClosed
  <2>5. CASE ReadAgain
    BY <2>5 DEF ReadAgain
  <2> QED BY <1>5, <2>1, <2>2, <2>3, <2>4, <2>5
<1>6. CASE ReadCloses
  BY <1>6 DEF ReadCloses
<1>7. CASE EventErase
  BY <1>7 DEF EventErase, Erase
<1>8. CASE HeartbeatEnd \/ HeartbeatScan \/ HeartbeatDone
  <2>1. CASE HeartbeatEnd
    BY <2>1 DEF HeartbeatEnd
  <2>2. CASE HeartbeatScan
    BY <2>2 DEF HeartbeatScan
  <2>3. CASE HeartbeatDone
    BY <2>3 DEF HeartbeatDone
  <2> QED BY <1>8, <2>1, <2>2, <2>3
<1>9. CASE HeartbeatErase
  <2>1. BrokerTypes' /\ ErasedIsClosed' /\ StoreOrder'
    BY <1>9 DEF HeartbeatErase, Erase
  <2>2. Accounted'
    BY <1>9 DEF HeartbeatErase, Erase
  <2>3. ShutdownOrder'
    BY <1>9 DEF HeartbeatErase, Erase
  <2> QED BY <2>1, <2>2, <2>3
<1>10. ASSUME NEW c \in Conns, HeartbeatClose(c)
       PROVE  BrokerInv'
  BY <1>10 DEF HeartbeatClose
<1>11. ASSUME NEW c \in Conns, PushFails(c)
       PROVE  BrokerInv'
  BY <1>11 DEF PushFails
<1> QED BY <1>1, <1>2, <1>3, <1>4, <1>5, <1>6, <1>7, <1>8, <1>9, <1>10, <1>11
        DEF AcceptThread, EventThread, Pushing, Heartbeat

(* Stop empties connections_ into its own list, and returns when that is   *)
(* closed and the threads have ended.                                      *)
LEMMA StopStep ==
  ASSUME BrokerInv, Stop, UNCHANGED <<storeVars, mainPc, stops>>
  PROVE  BrokerInv'
<1> USE DEF BrokerInv, BrokerTypes, StopPcs, ErasedIsClosed, Accounted, ShutdownOrder,
            StoreOrder, ThreadsEnded, storeVars, peerVars, flagVars, connVars, acVars,
            evVars, hbVars
<1>1. CASE StopFlag \/ StopFds
  <2>1. CASE StopFlag
    BY <2>1 DEF StopFlag
  <2>2. CASE StopFds
    BY <2>2 DEF StopFds
  <2> QED BY <1>1, <2>1, <2>2
<1>2. CASE StopCollect
  BY <1>2 DEF StopCollect
<1>3. ASSUME NEW c \in Conns, StopClose(c)
      PROVE  BrokerInv'
  BY <1>3 DEF StopClose
<1>4. CASE StopHandler
  BY <1>4 DEF StopHandler
<1>5. CASE StopJoin
  BY <1>5 DEF StopJoin
<1> QED BY <1>1, <1>2, <1>3, <1>4, <1>5 DEF Stop

(* main, the peers and the threads of the store.                           *)
LEMMA OtherStep ==
  ASSUME BrokerInv,
         \/ StartOk \/ StartFails \/ CallStop \/ DestroyServer
         \/ ServerSide(Environment) \/ ServerSide(\E c \in Conns : EventLookup(c))
         \/ StoreSide(StoreDtor) \/ StoreSide(RetryThread) \/ StoreSide(ExpireThread)
         \/ UNCHANGED vars
  PROVE  BrokerInv'
<1> USE DEF BrokerInv, BrokerTypes, StopPcs, ErasedIsClosed, Accounted, ShutdownOrder,
            StoreOrder, ThreadsEnded, serverVars, storeVars, peerVars, flagVars,
            connVars, acVars, evVars, hbVars, stopVars
<1>1. CASE StartOk \/ StartFails
  <2>1. CASE StartOk
    BY <2>1 DEF StartOk, Start
  <2>2. CASE StartFails
    BY <2>2 DEF StartFails
  <2> QED BY <1>1, <2>1, <2>2
<1>2. CASE CallStop
  BY <1>2 DEF CallStop
<1>3. CASE DestroyServer
  BY <1>3 DEF DestroyServer
<1>4. CASE ServerSide(Environment)
  <2>1. /\ UNCHANGED <<flagVars, connVars, acVars, evVars, hbVars, stopVars>>
        /\ UNCHANGED <<storeVars, mainPc, stops>>
    BY <1>4 DEF ServerSide, Environment, PeerCloses, PeerVanishes, TimePasses
  <2> QED BY <2>1
<1>5. CASE ServerSide(\E c \in Conns : EventLookup(c))
  BY <1>5 DEF ServerSide, EventLookup
<1>6. CASE StoreSide(StoreDtor)
  BY <1>6 DEF StoreSide, StoreDtor, DtorFlag, DtorNotify, DtorJoin
<1>7. CASE StoreSide(RetryThread)
  BY <1>7 DEF StoreSide, RetryThread, RetryTest, RetryWakes, RetryScanned
<1>8. CASE StoreSide(ExpireThread)
  BY <1>8 DEF StoreSide, ExpireThread, ExpireTest, ExpireWaits, ExpireWakes,
              ExpireScanned
<1>9. CASE UNCHANGED vars
  BY <1>9 DEF vars
<1> QED BY <1>1, <1>2, <1>3, <1>4, <1>5, <1>6, <1>7, <1>8, <1>9

(* The inductive invariant holds in every reachable state.                 *)
THEOREM BrokerInvHolds == Spec => []BrokerInv
<1>1. Init => BrokerInv
  BY DEF Init, ServerInit, StoreInit, BrokerInv, BrokerTypes, StopPcs, ErasedIsClosed,
         Accounted, ShutdownOrder, StoreOrder, ThreadsEnded
<1>2. BrokerInv /\ [Next]_vars => BrokerInv'
  BY ThreadsStep, StopStep, OtherStep DEF Next, Shutdown, ServerSide
<1> QED BY <1>1, <1>2, PTL DEF Spec

(* After the destructors nothing of the broker runs and every connection   *)
(* was closed, however many there were and whenever they came: the second  *)
(* Stop closes what the accept thread put aside behind the first.          *)
THEOREM DestructionIsQuiet == Spec => []DestroyedIsQuiet
<1>1. BrokerInv => DestroyedIsQuiet
  BY DEF BrokerInv, BrokerTypes, Accounted, ShutdownOrder, StoreOrder, ThreadsEnded,
         DestroyedIsQuiet
<1> QED BY <1>1, BrokerInvHolds, PTL
-----------------------------------------------------------------------------
(* The rate limiter.                                                       *)


(* A bucket that is used at or after its last refill.                      *)
Buckets(t) == [tokens : Nat, last : 0..t, rate : Nat, burst : Nat]

(* One more tick brings one more time the rate.                            *)
LEMMA OneMoreTick ==
  ASSUME NEW d \in Nat, NEW r \in Nat
  PROVE  (d + 1) * r = d * r + r /\ d * r \in Nat
OBVIOUS

(* Refill yields a natural number that is at most the burst.               *)
LEMMA AvailableProps ==
  ASSUME NEW t \in Nat, NEW b \in Buckets(t)
  PROVE  /\ Earned(b, t) \in Nat
         /\ Available(b, t) \in Nat
         /\ Available(b, t) <= b.burst * Unit
         /\ b.burst * Unit \in Nat
<1>1. /\ b.tokens \in Nat /\ b.last \in Nat /\ b.last <= t
      /\ b.rate \in Nat /\ b.burst \in Nat
  BY DEF Buckets
<1>2. t - b.last \in Nat
  BY <1>1
<1>3. (t - b.last) * b.rate \in Nat
  BY <1>1, <1>2
<1>4. b.burst * Unit \in Nat
  BY <1>1, UnitAssumption
<1>5. Earned(b, t) \in Nat
  BY <1>1, <1>3 DEF Earned
<1> QED
  BY <1>4, <1>5 DEF Available

(* A bucket refilled or spent at t is a bucket that was last used at t.    *)
LEMMA AcquiredProps ==
  ASSUME NEW t \in Nat, NEW b \in Buckets(t), NEW n \in Nat
  PROVE  /\ Acquired(b, t, n) \in Buckets(t)
         /\ Acquired(b, t, n).last = t
         /\ Acquired(b, t, n).rate = b.rate
         /\ Acquired(b, t, n).burst = b.burst
         /\ Acquired(b, t, n).tokens =
              IF Grants(b, t, n) THEN Available(b, t) - n * Unit
                                 ELSE Available(b, t)
<1>1. b.tokens \in Nat /\ b.rate \in Nat /\ b.burst \in Nat
  BY DEF Buckets
<1> DEFINE left == IF Grants(b, t, n) THEN Available(b, t) - n * Unit
                                      ELSE Available(b, t)
<1>3. Acquired(b, t, n) = [tokens |-> left, last |-> t,
                           rate |-> b.rate, burst |-> b.burst]
  BY DEF Acquired
<1>4. left \in Nat
  <2>1. n * Unit \in Nat
    BY UnitAssumption
  <2> QED
    BY <2>1, AvailableProps DEF Grants
<1> HIDE DEF left
<1>5. Acquired(b, t, n) \in Buckets(t)
  BY <1>1, <1>3, <1>4 DEF Buckets
<1>6. Acquired(b, t, n).tokens = left
  BY <1>3
<1> QED
  BY <1>3, <1>5, <1>6 DEF left

(* A bucket used at t has what it holds, if that is at most one burst.     *)
LEMMA FreshAvailable ==
  ASSUME NEW t \in Nat, NEW b \in Buckets(t), b.last = t,
         b.tokens <= b.burst * Unit
  PROVE  Available(b, t) = b.tokens
<1>1. /\ b.tokens \in Nat /\ b.rate \in Nat /\ b.burst \in Nat
  BY DEF Buckets
<1>2. (t - t) * b.rate = 0
  BY <1>1
<1>3. Earned(b, t) = b.tokens
  BY <1>1, <1>2 DEF Earned
<1>4. b.burst * Unit \in Nat
  BY <1>1, UnitAssumption
<1> QED
  BY <1>1, <1>3, <1>4 DEF Available
-----------------------------------------------------------------------------
(* A new bucket is full and nothing was granted yet.                       *)
LEMMA InitRateInv == BucketInit => RateInv
<1> SUFFICES ASSUME BucketInit PROVE RateInv
  OBVIOUS
<1>1. PICK s \in Settings : bucket = NewBucket(s[1], s[2], now)
  BY DEF BucketInit
<1>2. s[1] \in Nat /\ s[2] \in Nat
  BY SettingsAssumption
<1>3. s[2] * Unit \in Nat
  BY <1>2, UnitAssumption
<1>4. now = 0 /\ since = 0 /\ granted = 0
  BY DEF BucketInit
<1>5. /\ bucket \in Buckets(now)
      /\ bucket.last = now /\ bucket.rate = s[1] /\ bucket.burst = s[2]
      /\ bucket.tokens = s[2] * Unit
  BY <1>1, <1>2, <1>3, <1>4 DEF NewBucket, Buckets
<1>6. BucketTypeOK
  BY <1>4, <1>5, MaxTimeAssumption DEF BucketTypeOK, Buckets
<1>7. Available(bucket, now) = bucket.tokens
  BY <1>3, <1>4, <1>5, FreshAvailable
<1>8. (now - since) * bucket.rate = 0 /\ granted * Unit = 0
  BY <1>2, <1>4, <1>5, UnitAssumption
<1> QED
  BY <1>3, <1>5, <1>6, <1>7, <1>8 DEF RateInv, BoundInv, FillInv

(* Acquire moves tokens from what is available to what was granted.        *)
LEMMA AcquireKeepsBound ==
  ASSUME RateInv, NEW n \in Nat, Acquire(n)
  PROVE  RateInv'
<1> USE DEF RateInv
<1>1. /\ now \in Nat /\ since \in Nat /\ since <= now /\ granted \in Nat
      /\ bucket \in Buckets(now) /\ now <= MaxTime
  BY MaxTimeAssumption DEF BucketTypeOK, Buckets
<1>2. now' = now /\ since' = since /\ bucket' = Acquired(bucket, now, n)
  BY DEF Acquire
<1>3. /\ bucket' \in Buckets(now) /\ bucket'.last = now
      /\ bucket'.rate = bucket.rate /\ bucket'.burst = bucket.burst
      /\ bucket'.tokens = IF Grants(bucket, now, n)
                            THEN Available(bucket, now) - n * Unit
                            ELSE Available(bucket, now)
  BY <1>1, <1>2, AcquiredProps
<1>4. /\ n * Unit \in Nat /\ granted * Unit \in Nat
      /\ (granted + n) * Unit = granted * Unit + n * Unit
  BY <1>1, UnitAssumption
<1>5. /\ Available(bucket, now) \in Nat /\ bucket.burst * Unit \in Nat
      /\ Available(bucket, now) <= bucket.burst * Unit
  BY <1>1, AvailableProps
<1>6. bucket'.tokens <= bucket'.burst * Unit
  BY <1>3, <1>4, <1>5
<1>7. Available(bucket', now) = bucket'.tokens
  BY <1>1, <1>3, <1>6, FreshAvailable
<1>8. BucketTypeOK'
  BY <1>1, <1>2, <1>3, Acquire(n), UnitAssumption DEF BucketTypeOK, Buckets, Acquire
<1>9. granted' * Unit + bucket'.tokens = granted * Unit + Available(bucket, now)
  BY <1>3, <1>4, <1>5 DEF Acquire
<1>10. Available(bucket, now)' = Available(bucket', now)
  BY <1>2
<1>11. BoundInv'
  BY <1>2, <1>3, <1>7, <1>9, <1>10 DEF BoundInv
<1>12. FillInv'
  <2> SUFFICES ASSUME granted' = 0
               PROVE  granted = 0 /\ bucket'.tokens = Available(bucket, now)
    BY <1>2, <1>3, <1>7, <1>10 DEF FillInv
  <2>1. granted = 0 /\ (Grants(bucket, now, n) => n = 0)
    BY <1>1 DEF Acquire
  <2>2. n = 0 => n * Unit = 0
    BY UnitAssumption
  <2> QED
    BY <1>3, <1>5, <2>1, <2>2
<1> QED
  BY <1>2, <1>3, <1>6, <1>8, <1>11, <1>12

(* A tick brings at most one tick's worth of tokens, and all of it unless  *)
(* the bucket is full.                                                     *)
LEMMA TickKeepsBound ==
  ASSUME RateInv, ClockTick
  PROVE  RateInv'
<1> USE DEF RateInv
<1>1. /\ now \in Nat /\ since \in Nat /\ since <= now /\ granted \in Nat
      /\ bucket \in Buckets(now) /\ now < MaxTime
  BY MaxTimeAssumption DEF BucketTypeOK, Buckets, ClockTick
<1>2. now' = now + 1 /\ since' = since /\ granted' = granted /\ bucket' = bucket
  BY DEF ClockTick
<1>3. /\ bucket.tokens \in Nat /\ bucket.last \in Nat /\ bucket.last <= now
      /\ bucket.rate \in Nat /\ bucket.burst \in Nat
  BY <1>1 DEF Buckets
<1>4. BucketTypeOK'
  BY <1>1, <1>2, <1>3, MaxTimeAssumption DEF BucketTypeOK, Buckets
<1>5. bucket \in Buckets(now + 1)
  BY <1>1, <1>3 DEF Buckets
<1>6. Earned(bucket, now + 1) = Earned(bucket, now) + bucket.rate
  <2> DEFINE d == now - bucket.last
  <2>1. d \in Nat /\ (now + 1) - bucket.last = d + 1
    BY <1>1, <1>3
  <2>2. (d + 1) * bucket.rate = d * bucket.rate + bucket.rate /\ d * bucket.rate \in Nat
    BY <1>3, <2>1, OneMoreTick
  <2>3. Earned(bucket, now + 1) = bucket.tokens + (d + 1) * bucket.rate
    BY <2>1 DEF Earned
  <2>4. Earned(bucket, now) = bucket.tokens + d * bucket.rate
    BY DEF Earned
  <2> HIDE DEF d
  <2> QED
    BY <1>3, <2>2, <2>3, <2>4
<1>7. ((now + 1) - since) * bucket.rate = (now - since) * bucket.rate + bucket.rate
  <2> DEFINE d == now - since
  <2>1. d \in Nat /\ (now + 1) - since = d + 1
    BY <1>1
  <2>2. (d + 1) * bucket.rate = d * bucket.rate + bucket.rate
    BY <1>3, <2>1, OneMoreTick
  <2> QED
    BY <2>1, <2>2
<1>8. /\ Earned(bucket, now) \in Nat /\ bucket.burst * Unit \in Nat
      /\ granted * Unit \in Nat /\ (now - since) * bucket.rate \in Nat
  BY <1>1, <1>3, AvailableProps, UnitAssumption
<1>9. Available(bucket, now)' = Available(bucket, now + 1)
  BY <1>2
<1>10. BoundInv'
  BY <1>2, <1>3, <1>6, <1>7, <1>8, <1>9 DEF BoundInv, Available
<1>11. FillInv'
  BY <1>2, <1>3, <1>6, <1>7, <1>8, <1>9 DEF FillInv, Available
<1> QED
  BY <1>2, <1>4, <1>10, <1>11

(* SetRate leaves at most the new burst in the bucket.                     *)
LEMMA SetRateKeepsBound ==
  ASSUME RateInv, NEW s \in Settings, SetRate(s)
  PROVE  RateInv'
<1> USE DEF RateInv
<1>1. /\ now \in Nat /\ bucket \in Buckets(now) /\ now <= MaxTime
  BY MaxTimeAssumption DEF BucketTypeOK, Buckets
<1>2. s[1] \in Nat /\ s[2] \in Nat
  BY SettingsAssumption
<1>3. s[2] * Unit \in Nat /\ Available(bucket, now) \in Nat
  BY <1>1, <1>2, UnitAssumption, AvailableProps
<1>4. now' = now /\ since' = now /\ granted' = 0
  BY DEF SetRate
<1>5. /\ bucket' \in Buckets(now) /\ bucket'.last = now
      /\ bucket'.rate = s[1] /\ bucket'.burst = s[2]
      /\ bucket'.tokens <= bucket'.burst * Unit
  BY <1>1, <1>2, <1>3 DEF SetRate, Reset, Buckets
<1>6. Available(bucket', now) = bucket'.tokens
  BY <1>1, <1>5, FreshAvailable
<1>7. BucketTypeOK'
  BY <1>1, <1>4, <1>5 DEF BucketTypeOK, Buckets
<1>8. (now - now) * bucket'.rate = 0 /\ 0 * Unit = 0
  BY <1>1, <1>2, <1>5, UnitAssumption
<1>9. Available(bucket, now)' = Available(bucket', now) /\ bucket'.tokens \in Nat
  BY <1>4, <1>5 DEF Buckets
<1> QED
  BY <1>3, <1>4, <1>5, <1>6, <1>7, <1>8, <1>9 DEF BoundInv, FillInv

(* An observer may start at any time: a bucket holds at most one burst.    *)
LEMMA StartKeepsBound ==
  ASSUME RateInv, StartCounting
  PROVE  RateInv'
<1> USE DEF RateInv
<1>1. /\ now \in Nat /\ bucket \in Buckets(now) /\ now <= MaxTime
  BY MaxTimeAssumption DEF BucketTypeOK, Buckets
<1>2. now' = now /\ since' = now /\ granted' = 0 /\ bucket' = bucket
  BY DEF StartCounting
<1>3. /\ Available(bucket, now) \in Nat /\ bucket.burst * Unit \in Nat
      /\ Available(bucket, now) <= bucket.burst * Unit
  BY <1>1, AvailableProps
<1>4. (now - now) * bucket.rate = 0 /\ 0 * Unit = 0
  BY <1>1, UnitAssumption DEF Buckets
<1>5. BucketTypeOK'
  BY <1>1, <1>2 DEF BucketTypeOK, Buckets
<1>6. Available(bucket, now)' = Available(bucket, now)
  BY <1>2
<1> QED
  BY <1>2, <1>3, <1>4, <1>5, <1>6 DEF BoundInv, FillInv
-----------------------------------------------------------------------------
(* The inductive invariant of the rate limiter: Refill, Acquire and        *)
(* SetRate keep both the bound and the progress of the filling.            *)
THEOREM RateInvHolds == BucketSpec => []RateInv
<1>1. BucketInit => RateInv
  BY InitRateInv
<1>2. RateInv /\ [BucketNext]_bucketVars => RateInv'
  <2> SUFFICES ASSUME RateInv, [BucketNext]_bucketVars PROVE RateInv'
    OBVIOUS
  <2>1. CASE ClockTick
    BY <2>1, TickKeepsBound
  <2>2. ASSUME NEW n \in 0..bucket.burst + 1, Acquire(n) PROVE RateInv'
    <3>1. bucket.burst \in Nat
      BY DEF RateInv, BucketTypeOK
    <3>2. n \in Nat
      BY <2>2, <3>1
    <3> QED
      BY <2>2, <3>2, AcquireKeepsBound
  <2>3. ASSUME NEW s \in Settings, SetRate(s) PROVE RateInv'
    BY <2>3, SetRateKeepsBound
  <2>4. CASE StartCounting
    BY <2>4, StartKeepsBound
  <2>5. CASE UNCHANGED bucketVars
    BY <2>5 DEF bucketVars, RateInv, BucketTypeOK, BoundInv, FillInv, Available,
                Earned
  <2> QED
    BY <2>1, <2>2, <2>3, <2>4, <2>5 DEF BucketNext
<1> QED
  BY <1>1, <1>2, PTL DEF BucketSpec

(* In every interval at most one burst plus rate times duration is         *)
(* granted by TokenBucket::Acquire.                                        *)
THEOREM RateIsBounded == BucketSpec => []RateBound
<1>1. RateInv => RateBound
  <2> SUFFICES ASSUME RateInv PROVE RateBound
    OBVIOUS
  <2>1. /\ now \in Nat /\ since \in Nat /\ since <= now /\ granted \in Nat
        /\ bucket \in Buckets(now)
    BY MaxTimeAssumption DEF RateInv, BucketTypeOK, Buckets
  <2>2. /\ Available(bucket, now) \in Nat /\ bucket.burst * Unit \in Nat
        /\ granted * Unit \in Nat /\ (now - since) * bucket.rate \in Nat
    BY <2>1, AvailableProps, UnitAssumption DEF Buckets
  <2> QED
    BY <2>2 DEF RateInv, BoundInv, RateBound
<1> QED
  BY <1>1, RateInvHolds, PTL

(* A caller that was granted nothing is served once enough time passed,    *)
(* whatever it and others asked for in between.                            *)
THEOREM PatienceIsRewarded == BucketSpec => []WaitingPays
<1>1. RateInv => WaitingPays
  <2> SUFFICES ASSUME RateInv, granted = 0, NEW n \in 0..bucket.burst,
                      (now - since) * bucket.rate >= n * Unit
               PROVE  Available(bucket, now) >= n * Unit
    BY DEF WaitingPays, Grants
  <2>1. /\ now \in Nat /\ since \in Nat /\ since <= now /\ bucket \in Buckets(now)
        /\ bucket.burst \in Nat /\ bucket.rate \in Nat
    BY MaxTimeAssumption DEF RateInv, BucketTypeOK, Buckets
  <2>2. n \in Nat /\ n <= bucket.burst
    BY <2>1
  <2>3. n * Unit <= bucket.burst * Unit
    <3>1. PICK d \in Nat : bucket.burst = n + d
      <4>1. bucket.burst - n \in Nat /\ bucket.burst = n + (bucket.burst - n)
        BY <2>1, <2>2
      <4> QED
        BY <4>1
    <3>2. (n + d) * Unit = n * Unit + d * Unit /\ d * Unit \in Nat
          /\ n * Unit \in Nat
      BY <2>2, <3>1, UnitAssumption
    <3> QED
      BY <3>1, <3>2
  <2>4. /\ Available(bucket, now) \in Nat /\ bucket.burst * Unit \in Nat
        /\ n * Unit \in Nat /\ (now - since) * bucket.rate \in Nat
    BY <2>1, <2>2, AvailableProps, UnitAssumption
  <2> QED
    BY <2>3, <2>4 DEF RateInv, FillInv
<1> QED
  BY <1>1, RateInvHolds, PTL
=============================================================================
