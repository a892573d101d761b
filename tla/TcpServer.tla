----------------------------- MODULE TcpServer -----------------------------
(***************************************************************************)
(* The life of a server and of its connections (src/network/tcp_server.cpp,*)
(* with OnRead and Close of connection.cpp): the accept, the event and the *)
(* heartbeat thread, and Start and Stop, which another thread calls.       *)
(*                                                                         *)
(* connections_mutex_ protects connections_; each of its critical sections *)
(* is one action.  Close takes two steps: whoever sets closed_ first       *)
(* closes the descriptor and then runs the close handler, which erases the *)
(* connection.  Of the frames that are handled only what may close a       *)
(* connection is here, and of the pushes those that fail; what else they   *)
(* do is in BrokerRouting.                                                 *)
(*                                                                         *)
(* epoll keeps a connection under its id and the listening socket under    *)
(* its descriptor: the event loop takes either for a connection id.        *)
(***************************************************************************)
EXTENDS Naturals, FiniteSets

CONSTANTS Conns,     \* bound: ids of the connections that are accepted
          ListenFd,  \* the number of the listening descriptor
          HeartbeatEnabled   \* heartbeat_enabled of the configuration

ASSUME ServerAssumption ==
  Conns = 1..Cardinality(Conns) /\ ListenFd \in Nat /\ HeartbeatEnabled \in BOOLEAN

VARIABLES
  running,    \* running_
  listening,  \* listen_fd_ >= 0
  polling,    \* epoll_fd_ >= 0
  nextConn,   \* next_conn_id_
  conns,      \* the keys of connections_
  watched,    \* connections registered with epoll
  closed,     \* connections whose closed_ is set
  idle,       \* of the open ones, those inactive for heartbeat_timeout_ms
  gone,       \* those the peer has closed
  silent,     \* those from which nothing, not even an end, comes any more
  acPc, acConn,         \* accept thread, and the connection it sets up
  evPc, evConn,         \* event thread, and the connection it reads;
                        \* "stuck" inside connections_mutex_ for ever
  hbPc, hbClose, hbConn,\* heartbeat thread, idle_conns left to be closed,
                        \* and the one whose close handler it runs
  stopPc, stopList      \* Stop, and its conns_to_close; "handler" is
                        \* the close handler that Stop's Close runs

peerVars == <<idle, gone, silent>>
flagVars == <<running, listening, polling>>
connVars == <<nextConn, conns, watched, closed>>
acVars   == <<acPc, acConn>>
evVars   == <<evPc, evConn>>
hbVars   == <<hbPc, hbClose, hbConn>>
stopVars == <<stopPc, stopList>>
serverVars == <<peerVars, flagVars, connVars, acVars, evVars, hbVars, stopVars>>

ServerInit ==
  /\ running = FALSE /\ listening = FALSE /\ polling = FALSE
  /\ nextConn = 1 /\ conns = {} /\ watched = {} /\ closed = {}
  /\ idle = {} /\ gone = {} /\ silent = {}
  /\ acPc = "off" /\ acConn = 0 /\ evPc = "off" /\ evConn = 0
  /\ hbPc = "off" /\ hbClose = {} /\ hbConn = 0
  /\ stopPc = "no" /\ stopList = {}

(* connections_mutex_ can be had.  Every critical section is one action,   *)
(* so it is held between two steps only by a thread that waits for itself. *)
Unlocked == evPc # "stuck"

(* Start: the descriptors, then the threads.  A failed step undoes the     *)
(* ones before it and Start returns false.                                 *)
Start ==
  /\ running' = TRUE /\ listening' = TRUE /\ polling' = TRUE
  /\ acPc' = "loop" /\ evPc' = "loop"
  /\ hbPc' = IF HeartbeatEnabled THEN "sleep" ELSE "off"
  /\ UNCHANGED <<peerVars, connVars, acConn, evConn, hbClose, hbConn,
                 stopVars>>
-----------------------------------------------------------------------------
(* The peers.                                                              *)

Open == conns \ closed

PeerCloses(c) ==
  /\ c \in Open \ (gone \cup silent)
  /\ gone' = gone \cup {c}
  /\ UNCHANGED <<idle, silent, flagVars, connVars, acVars, evVars, hbVars, stopVars>>

PeerVanishes(c) ==
  /\ c \in Open \ (gone \cup silent)
  /\ silent' = silent \cup {c}
  /\ UNCHANGED <<idle, gone, flagVars, connVars, acVars, evVars, hbVars, stopVars>>

TimePasses(c) ==
  /\ c \in Open \ idle
  /\ idle' = idle \cup {c}
  /\ UNCHANGED <<gone, silent, flagVars, connVars, acVars, evVars, hbVars, stopVars>>

(* The close handler, and with the connection what its peer did.           *)
Erase(c) ==
  /\ conns' = conns \ {c}
  /\ idle' = idle \ {c} /\ gone' = gone \ {c} /\ silent' = silent \ {c}
-----------------------------------------------------------------------------
(* AcceptLoop.                                                             *)

AcceptTest ==
  /\ acPc = "loop"
  /\ acPc' = IF running THEN "accept" ELSE "done"
  /\ UNCHANGED <<peerVars, flagVars, connVars, acConn, evVars, hbVars, stopVars>>

AcceptTake ==
  /\ acPc = "accept" /\ listening /\ nextConn \in Conns
  /\ acConn' = nextConn /\ nextConn' = nextConn + 1
  /\ acPc' = "insert"
  /\ UNCHANGED <<peerVars, flagVars, conns, watched, closed, evVars, hbVars, stopVars>>

AcceptAgain ==
  /\ acPc = "accept" /\ listening
  /\ acPc' = "loop"
  /\ UNCHANGED <<peerVars, flagVars, connVars, acConn, evVars, hbVars, stopVars>>

(* Any other error ends the thread: the descriptor was closed by Stop, the *)
(* process has no descriptor left, or a peer reset its connection.         *)
AcceptFails ==
  /\ acPc = "accept"
  /\ acPc' = "done"
  /\ UNCHANGED <<peerVars, flagVars, connVars, acConn, evVars, hbVars, stopVars>>

AcceptInsert ==
  /\ acPc = "insert" /\ Unlocked
  /\ conns' = conns \cup {acConn}
  /\ acPc' = "watch"
  /\ UNCHANGED <<peerVars, flagVars, nextConn, watched, closed, acConn, evVars,
                 hbVars, stopVars>>

AcceptWatch ==
  /\ acPc = "watch"
  /\ watched' = IF polling /\ acConn \notin closed THEN watched \cup {acConn}
                                                   ELSE watched
  /\ acPc' = "loop" /\ acConn' = 0
  /\ UNCHANGED <<peerVars, flagVars, nextConn, conns, closed, evVars, hbVars, stopVars>>
-----------------------------------------------------------------------------
(* EventLoop and OnRead.                                                   *)

EventTest ==
  /\ evPc = "loop"
  /\ evPc' = IF running THEN "poll" ELSE "done"
  /\ UNCHANGED <<peerVars, flagVars, connVars, acVars, evConn, hbVars, stopVars>>

(* epoll_wait fails once its descriptor is closed.                         *)
EventPoll ==
  /\ evPc = "poll"
  /\ evPc' = IF polling THEN "batch" ELSE "done"
  /\ UNCHANGED <<peerVars, flagVars, connVars, acVars, evConn, hbVars, stopVars>>

EventBatchDone ==
  /\ evPc = "batch"
  /\ evPc' = "loop"
  /\ UNCHANGED <<peerVars, flagVars, connVars, acVars, evConn, hbVars, stopVars>>

(* One of the events: a connection with something to read, or somebody at  *)
(* the listening socket, whose number is looked up among the ids.          *)
HasEvent(c) == c \in watched /\ c \notin silent
EventLookup(c) ==
  /\ evPc = "batch" /\ c \in conns
  /\ HasEvent(c) \/ c = ListenFd
  /\ evPc' = "read" /\ evConn' = c
  /\ UNCHANGED <<peerVars, flagVars, connVars, acVars, hbVars, stopVars>>

ReadClosed ==
  /\ evPc = "read" /\ evConn \in closed
  /\ evPc' = "batch" /\ evConn' = 0
  /\ UNCHANGED <<peerVars, flagVars, connVars, acVars, hbVars, stopVars>>

(* recv returns 0 or an error, or a response cannot be sent: Close, with   *)
(* no lock held.                                                           *)
ReadCloses ==
  /\ evPc = "read" /\ evConn \notin closed
  /\ evConn \notin silent
  /\ closed' = closed \cup {evConn}
  /\ evPc' = "erase"
  /\ UNCHANGED <<peerVars, flagVars, nextConn, conns, watched, acVars, evConn,
                 hbVars, stopVars>>

(* A frame of evConn is pushed to c, and the kernel refuses for good.      *)
(* SendTo has connections_mutex_ locked around SendFrame, whose Close runs *)
(* the close handler, which locks it again: the thread waits for itself.   *)
PushFails(c) ==
  /\ evPc = "read" /\ evConn \notin silent
  /\ c \in Open
  /\ closed' = closed \cup {c}
  /\ evPc' = "stuck"
  /\ UNCHANGED <<peerVars, flagVars, nextConn, conns, watched, acVars, evConn,
                 hbVars, stopVars>>

(* Mutant: the close handler does not erase the connection.                *)
EventEraseForgets ==
  /\ evPc = "erase"
  /\ evPc' = "batch" /\ evConn' = 0
  /\ UNCHANGED <<peerVars, flagVars, connVars, acVars, hbVars, stopVars>>

EventErase ==
  /\ evPc = "erase"
  /\ Erase(evConn)
  /\ evPc' = "batch" /\ evConn' = 0
  /\ UNCHANGED <<flagVars, nextConn, watched, closed, acVars, hbVars, stopVars>>

(* recv ends with EAGAIN, after some bytes or none: last_active_time_ms_   *)
(* is set, and the frames that are complete are handled.                   *)
ReadAgain ==
  /\ evPc = "read" /\ evConn \notin gone \cup closed
  /\ idle' = idle \ {evConn}
  /\ evPc' = "batch" /\ evConn' = 0
  /\ UNCHANGED <<gone, silent, flagVars, connVars, acVars, hbVars, stopVars>>
-----------------------------------------------------------------------------
(* HeartbeatLoop.                                                          *)

HeartbeatEnd ==
  /\ hbPc = "sleep" /\ ~running
  /\ hbPc' = "done"
  /\ UNCHANGED <<peerVars, flagVars, connVars, acVars, evVars, hbClose, hbConn, stopVars>>

(* A scan that finds nobody changes nothing.                               *)
HeartbeatScan ==
  /\ hbPc = "sleep" /\ running /\ Unlocked /\ Open \cap idle # {}
  /\ hbClose' = Open \cap idle
  /\ hbPc' = "close"
  /\ UNCHANGED <<peerVars, flagVars, connVars, acVars, evVars, hbConn, stopVars>>

HeartbeatClose(c) ==
  /\ hbPc = "close" /\ c \in hbClose \ closed
  /\ closed' = closed \cup {c}
  /\ hbClose' = hbClose \ {c}
  /\ hbConn' = c /\ hbPc' = "erase"
  /\ UNCHANGED <<peerVars, flagVars, nextConn, conns, watched, acVars, evVars, stopVars>>

(* Mutant: the close handler does not erase the connection.                *)
HeartbeatEraseForgets ==
  /\ hbPc = "erase" /\ Unlocked
  /\ hbConn' = 0 /\ hbPc' = "close"
  /\ UNCHANGED <<peerVars, flagVars, connVars, acVars, evVars, hbClose, stopVars>>

HeartbeatErase ==
  /\ hbPc = "erase" /\ Unlocked
  /\ Erase(hbConn)
  /\ hbConn' = 0 /\ hbPc' = "close"
  /\ UNCHANGED <<flagVars, nextConn, watched, closed, acVars, evVars, hbClose, stopVars>>

HeartbeatDone ==
  /\ hbPc = "close" /\ hbClose \subseteq closed
  /\ hbClose' = {} /\ hbPc' = "sleep"
  /\ UNCHANGED <<peerVars, flagVars, connVars, acVars, evVars, hbConn, stopVars>>
-----------------------------------------------------------------------------
(* Stop, from the call (stopPc = "flag") to its return ("stopped").        *)

(* Mutant: Stop returns at once when the server is not running.            *)
StopFlagOnce ==
  /\ stopPc = "flag"
  /\ running' = FALSE
  /\ stopPc' = IF running THEN "fds" ELSE "stopped"
  /\ UNCHANGED <<peerVars, listening, polling, connVars, acVars,
                 evVars, hbVars, stopList>>

StopFlag ==
  /\ stopPc = "flag"
  /\ running' = FALSE
  /\ stopPc' = "fds"
  /\ UNCHANGED <<peerVars, listening, polling, connVars, acVars,
                 evVars, hbVars, stopList>>

StopFds ==
  /\ stopPc = "fds"
  /\ listening' = FALSE /\ polling' = FALSE
  /\ stopPc' = "collect"
  /\ UNCHANGED <<peerVars, running, connVars, acVars, evVars, hbVars,
                 stopList>>

StopCollect ==
  /\ stopPc = "collect" /\ Unlocked
  /\ stopList' = conns /\ conns' = {}
  /\ idle' = {} /\ gone' = {} /\ silent' = {}
  /\ stopPc' = "close"
  /\ UNCHANGED <<flagVars, nextConn, watched, closed, acVars, evVars, hbVars>>

(* Close, which does nothing when another thread was first.                *)
StopClose(c) ==
  /\ stopPc = "close" /\ c \in stopList
  /\ closed' = closed \cup {c}
  /\ stopList' = stopList \ {c}
  /\ stopPc' = IF c \in closed THEN "close" ELSE "handler"
  /\ UNCHANGED <<peerVars, flagVars, nextConn, conns, watched, acVars, evVars,
                 hbVars>>

(* The close handler takes the lock and finds nothing to erase.            *)
StopHandler ==
  /\ stopPc = "handler" /\ Unlocked
  /\ stopPc' = "close"
  /\ UNCHANGED <<peerVars, flagVars, connVars, acVars, evVars, hbVars, stopList>>

ThreadsEnded == {acPc, evPc, hbPc} \subseteq {"off", "done"}

StopJoin ==
  /\ stopPc = "close" /\ stopList = {} /\ ThreadsEnded
  /\ stopPc' = "stopped"
  /\ UNCHANGED <<peerVars, flagVars, connVars, acVars, evVars, hbVars, stopList>>
-----------------------------------------------------------------------------
AcceptThread == AcceptTest \/ AcceptTake \/ AcceptAgain \/ AcceptFails
                \/ AcceptInsert \/ AcceptWatch
EventThread  == EventTest \/ EventPoll \/ EventBatchDone \/ ReadClosed
                \/ ReadCloses \/ ReadAgain \/ EventErase
Heartbeat    == HeartbeatEnd \/ HeartbeatScan \/ HeartbeatErase \/ HeartbeatDone
                \/ \E c \in Conns : HeartbeatClose(c)
Pushing      == \E c \in Conns : PushFails(c)
Stop         == StopFlag \/ StopFds \/ StopCollect \/ StopHandler \/ StopJoin
                \/ \E c \in Conns : StopClose(c)
Environment  == \E c \in Conns : PeerCloses(c) \/ PeerVanishes(c) \/ TimePasses(c)
=============================================================================
