----------------------------- MODULE TcpClient -----------------------------
(***************************************************************************)
(* The sessions of a client (src/network/tcp_client.cpp): the application  *)
(* that calls Connect and Disconnect, the read thread and the ping thread, *)
(* and a broker that answers Pings, closes the connection, or vanishes     *)
(* without a word.                                                         *)
(*                                                                         *)
(* Times are ages: `slept' since the ping thread went to sleep, sincePong  *)
(* since last_pong_time_ms_, and how long ago each unanswered Ping was     *)
(* sent.  An age stops where nothing compares it any more.  conn_mutex_    *)
(* protects connection_; each of its critical sections is one action, but  *)
(* for Disconnect's, inside which Close runs.                              *)
(***************************************************************************)
EXTENDS Naturals, Sequences

CONSTANTS
  ClientHeartbeat,   \* heartbeat_enabled, or true without a configuration
  Interval,          \* heartbeat_interval_ms
  Timeout,           \* heartbeat_timeout_ms
  Slack,             \* bound: how much later than asked the ping thread wakes
  Delay,             \* bound: from a Ping to its Pong, the read thread's
                     \* sleep included, while the broker lives
  MaxSessions        \* bound: successful calls of Connect

ASSUME HeartbeatAssumption ==
  /\ ClientHeartbeat \in BOOLEAN /\ MaxSessions \in Nat
  /\ Interval \in Nat \ {0} /\ Slack \in Nat /\ Delay \in Nat

(* The timeout leaves room for one lost turn (by default 15 s after 5 s).  *)
ASSUME TimeoutAssumption == Timeout \in Nat /\ Interval + Slack + Delay <= Timeout

VARIABLES
  connected,  \* connected_
  conn,       \* connection_: "none", "open", or "closed" once it is closed
  full,       \* write_buffer_ has no room for another frame
  locked,     \* Disconnect holds conn_mutex_
  sincePong,  \* age of last_pong_time_ms_
  slept,      \* age of the ping thread's sleep
  pings,      \* ages of the Pings that will be answered, oldest first
  alive,      \* the broker still answers
  eof,        \* the broker has closed the connection
  readPc, pingPc, appPc, sessions

pongVars == <<pings, alive, eof>>
sessVars == <<connected, conn, full, locked>>
appVars  == <<appPc, sessions>>
clientVars == <<pongVars, sessVars, appVars, sincePong, slept, readPc, pingPc>>

ClientInit ==
  /\ connected = FALSE /\ conn = "none" /\ full = FALSE /\ locked = FALSE
  /\ sincePong = 0 /\ slept = 0
  /\ pings = << >> /\ alive = TRUE /\ eof = FALSE
  /\ readPc = "off" /\ pingPc = "off"
  /\ appPc = "idle" /\ sessions = 0

IsConnected == connected /\ conn = "open"
-----------------------------------------------------------------------------
(* Connect, of an application that has no session; after one it called     *)
(* Disconnect.  When a step fails nothing of the session is there.         *)
Connect ==
  /\ appPc = "idle" /\ sessions < MaxSessions
  /\ sessions' = sessions + 1 /\ appPc' = "session"
  /\ pings' = << >> /\ alive' = TRUE /\ eof' = FALSE
  /\ conn' = "open" /\ connected' = TRUE /\ full' = FALSE
  /\ sincePong' = 0 /\ slept' = 0
  /\ readPc' = "loop"
  /\ pingPc' = IF ClientHeartbeat THEN "sleep" ELSE "off"
  /\ UNCHANGED locked

DisconnectFlag ==
  /\ appPc = "session"
  /\ connected' = FALSE
  /\ appPc' = "close"
  /\ UNCHANGED <<pongVars, conn, full, locked, sessions, sincePong, slept, readPc, pingPc>>

DisconnectClose ==
  /\ appPc = "close"
  /\ locked' = TRUE /\ conn' = "none"
  /\ appPc' = "unlock"
  /\ UNCHANGED <<pongVars, connected, full, sessions, sincePong, slept, readPc, pingPc>>

(* Mutant: the lock is held until Disconnect returns.                      *)
DisconnectUnlockLate ==
  /\ appPc = "unlock"
  /\ appPc' = "join"
  /\ UNCHANGED <<pongVars, sessVars, sessions, sincePong, slept, readPc, pingPc>>

DisconnectUnlock ==
  /\ appPc = "unlock"
  /\ locked' = FALSE
  /\ appPc' = "join"
  /\ UNCHANGED <<pongVars, connected, conn, full, sessions, sincePong, slept, readPc,
                 pingPc>>

DisconnectJoin ==
  /\ appPc = "join" /\ {readPc, pingPc} \subseteq {"off", "done"}
  /\ appPc' = "idle" /\ readPc' = "off" /\ pingPc' = "off"
  /\ UNCHANGED <<pongVars, sessVars, sessions, sincePong, slept>>

(* A frame of the application that the kernel refuses for good: SendFrame  *)
(* closes the connection.                                                  *)
SendFrameFails ==
  /\ appPc = "session" /\ ~locked /\ IsConnected /\ ~full /\ (eof \/ ~alive)
  /\ conn' = "closed"
  /\ UNCHANGED <<pongVars, connected, full, locked, appVars, sincePong, slept, readPc, pingPc>>

(* Frames of the application that the kernel had no room for fill the      *)
(* write buffer.  From then on SendFrame refuses every frame before it     *)
(* tries to send, so nothing empties the buffer again.                     *)
BufferFills ==
  /\ appPc = "session" /\ ~locked /\ IsConnected /\ ~full
  /\ full' = TRUE
  /\ UNCHANGED <<pongVars, connected, conn, locked, appVars, sincePong, slept, readPc,
                 pingPc>>
-----------------------------------------------------------------------------
(* ReadLoop.                                                               *)

ReadTest ==
  /\ readPc = "loop"
  /\ readPc' = IF connected THEN "take" ELSE "done"
  /\ UNCHANGED <<pongVars, sessVars, appVars, sincePong, slept, pingPc>>

ReadTake ==
  /\ readPc = "take" /\ ~locked
  /\ readPc' = IF conn = "open" THEN "read" ELSE "done"
  /\ UNCHANGED <<pongVars, sessVars, appVars, sincePong, slept, pingPc>>

(* OnRead finds no frame for the client itself, or the connection closed.  *)
ReadNothing ==
  /\ readPc = "read"
  /\ readPc' = "loop"
  /\ UNCHANGED <<pongVars, sessVars, appVars, sincePong, slept, pingPc>>

(* OnRead hands a Pong to the frame handler, which notes the time.         *)
ReadPong ==
  /\ readPc = "read" /\ conn = "open" /\ pings # << >>
  /\ pings' = Tail(pings)
  /\ sincePong' = 0
  /\ readPc' = "loop"
  /\ UNCHANGED <<alive, eof, sessVars, appVars, slept, pingPc>>

(* OnRead meets the end of the stream, or the handler fails to answer a    *)
(* Ping: Close.                                                            *)
ReadEof ==
  /\ readPc = "read" /\ conn = "open" /\ eof
  /\ conn' = "closed"
  /\ readPc' = "loop"
  /\ UNCHANGED <<pongVars, connected, full, locked, appVars, sincePong, slept, pingPc>>
-----------------------------------------------------------------------------
(* PingLoop.                                                               *)

PingWakes ==
  /\ pingPc = "sleep" /\ slept >= Interval
  /\ pingPc' = IF connected THEN "send" ELSE "done"
  /\ slept' = 0
  /\ UNCHANGED <<pongVars, sessVars, appVars, sincePong, readPc>>

(* Mutant: sending a Ping counts as hearing from the broker.               *)
PingSendCounts ==
  /\ pingPc = "send" /\ ~locked /\ IsConnected /\ ~full
  /\ pings' = IF alive /\ ~eof THEN Append(pings, 0) ELSE pings
  /\ sincePong' = 0
  /\ pingPc' = "check"
  /\ UNCHANGED <<alive, eof, sessVars, appVars, slept, readPc>>

PingSend ==
  /\ pingPc = "send" /\ ~locked /\ IsConnected /\ ~full
  /\ pings' = IF alive /\ ~eof THEN Append(pings, 0) ELSE pings
  /\ pingPc' = "check"
  /\ UNCHANGED <<alive, eof, sessVars, appVars, sincePong, slept, readPc>>

(* SendFrame returns false: there is no open connection any more, or the   *)
(* kernel refuses and SendFrame closes it.                                 *)
PingSendFails ==
  /\ pingPc = "send" /\ ~locked
  /\ ~IsConnected \/ (~full /\ (eof \/ ~alive))
  /\ conn' = IF conn = "open" /\ connected THEN "closed" ELSE conn
  /\ pingPc' = "done"
  /\ UNCHANGED <<pongVars, connected, full, locked, appVars, sincePong, slept, readPc>>

(* SendFrame returns false because the write buffer is full: the ping      *)
(* thread ends, and the connection stays open, with nobody to watch it.    *)
PingRefused ==
  /\ pingPc = "send" /\ ~locked /\ IsConnected /\ full
  /\ pingPc' = "done"
  /\ UNCHANGED <<pongVars, sessVars, appVars, sincePong, slept, readPc>>

(* Mutant: the limit itself is too long already.                           *)
TimedOutEarly == sincePong >= Timeout

TimedOut == sincePong > Timeout

PingCheck ==
  /\ pingPc = "check"
  /\ pingPc' = IF TimedOut THEN "close" ELSE IF connected THEN "sleep" ELSE "done"
  /\ UNCHANGED <<pongVars, sessVars, appVars, sincePong, slept, readPc>>

PingClose ==
  /\ pingPc = "close" /\ ~locked
  /\ conn' = IF conn = "open" THEN "closed" ELSE conn
  /\ pingPc' = "done"
  /\ UNCHANGED <<pongVars, connected, full, locked, appVars, sincePong, slept, readPc>>
-----------------------------------------------------------------------------
(* The broker and the clock.                                               *)

(* The broker closes the connection, or the kernel gives up on a broker    *)
(* that has vanished.                                                      *)
BrokerCloses ==
  /\ conn = "open" /\ ~eof
  /\ eof' = TRUE
  /\ UNCHANGED <<pings, alive, sessVars, appVars, sincePong, slept, readPc, pingPc>>

BrokerVanishes ==
  /\ conn = "open" /\ alive /\ ~eof
  /\ alive' = FALSE
  /\ UNCHANGED <<pings, eof, sessVars, appVars, sincePong, slept, readPc, pingPc>>

Older(age, limit) == IF age < limit THEN age + 1 ELSE age

(* The ping thread works in no time, wakes in time, and the Pongs come.    *)
Tick ==
  /\ pingPc \in {"off", "sleep", "done"}
  /\ pingPc = "sleep" => slept < Interval + Slack
  /\ conn = "open" /\ pings # << >> => pings[1] < Delay
  /\ slept' = IF pingPc = "sleep" THEN slept + 1 ELSE slept
  /\ sincePong' = Older(sincePong, Timeout + 1)
  /\ pings' = [k \in DOMAIN pings |-> Older(pings[k], Delay)]
  /\ UNCHANGED <<alive, eof, sessVars, appVars, readPc, pingPc>>
-----------------------------------------------------------------------------
Disconnecting == DisconnectClose \/ DisconnectUnlock \/ DisconnectJoin
ReadLoop == ReadTest \/ ReadTake \/ ReadNothing \/ ReadPong \/ ReadEof
PingLoop == PingWakes \/ PingSend \/ PingSendFails \/ PingRefused \/ PingCheck \/ PingClose

ClientNext ==
  \/ Connect \/ DisconnectFlag \/ Disconnecting \/ SendFrameFails \/ BufferFills
  \/ ReadLoop \/ PingLoop
  \/ BrokerCloses \/ BrokerVanishes \/ Tick

ClientSpec == ClientInit /\ [][ClientNext]_clientVars

(* Both threads keep running, a Disconnect that has begun goes on, and     *)
(* time passes.  The read thread polls every 10 ms: a Pong that has come,  *)
(* or the end of the stream, is read in the end.                           *)
ClientFairness ==
  /\ WF_clientVars(Disconnecting) /\ WF_clientVars(ReadLoop) /\ WF_clientVars(PingLoop)
  /\ WF_clientVars(Tick) /\ SF_clientVars(ReadPong) /\ SF_clientVars(ReadEof)

FairClientSpec == ClientSpec /\ ClientFairness
-----------------------------------------------------------------------------
(* A session with a broker that lives and keeps its delay stays open until *)
(* the application ends it: no order of sleeping, sending, answering and   *)
(* checking, and no time left over from an earlier session, makes the ping *)
(* thread give it up.                                                      *)
LiveIsKept == appPc = "session" /\ alive /\ ~eof => IsConnected

(* A session whose broker is gone comes to be known as such, IsConnected   *)
(* is false then: by the read thread when the broker closed the            *)
(* connection, and by the ping thread when it vanished without a word,     *)
(* unless the write buffer filled up before the timeout: the ping thread   *)
(* gives up then, but not the connection.                                  *)
LossIsNoticed ==
  /\ appPc = "session" /\ eof ~> ~IsConnected
  /\ ClientHeartbeat =>
       (appPc = "session" /\ ~alive ~> ~IsConnected \/ full)

(* Disconnect returns, wherever the two threads are when it is called.     *)
DisconnectReturns == appPc = "close" ~> appPc = "idle"
=============================================================================
