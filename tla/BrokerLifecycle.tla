-------------------------- MODULE BrokerLifecycle --------------------------
(***************************************************************************)
(* A broker from its construction to the end of its destructor: the three  *)
(* threads of TcpServer and the two of the store, and the thread that      *)
(* calls Start, Stop and the destructors (src/main/server_main.cpp,        *)
(* src/mq/broker.cpp).  ~Broker calls Stop, ~TcpServer, whose member it    *)
(* is, calls it again, and a signal handler may have called it before      *)
(* both.  The store is the first member of Broker and is destroyed last.   *)
(***************************************************************************)
EXTENDS TcpServer, StoreThreads

VARIABLES
  mainPc,  \* "new", "running", "stopping", "store"
  stops    \* how often Stop was called

vars == <<serverVars, storeVars, mainPc, stops>>

Init ==
  /\ ServerInit /\ StoreInit
  /\ mainPc = "new" /\ stops = 0
-----------------------------------------------------------------------------
StartOk ==
  /\ mainPc = "new" /\ Start
  /\ mainPc' = "running"
  /\ UNCHANGED <<storeVars, stops>>

(* bind, listen or epoll_create1 fails; main returns and g_broker goes.    *)
StartFails ==
  /\ mainPc = "new"
  /\ mainPc' = "running"
  /\ UNCHANGED <<serverVars, storeVars, stops>>

CallStop ==
  /\ \/ mainPc = "running" /\ stopPc = "no"
     \/ mainPc = "stopping" /\ stopPc = "stopped" /\ stops < 3
  /\ mainPc' = "stopping" /\ stopPc' = "flag"
  /\ stops' = stops + 1
  /\ UNCHANGED <<peerVars, flagVars, connVars, acVars, evVars, hbVars, stopList,
                 storeVars>>

(* The last Stop has returned: connections_ goes, then the store.  Up to   *)
(* here nothing depends on where the threads of the store are, so they     *)
(* appear now, at any place they may have come to.                         *)
DestroyServer ==
  /\ mainPc = "stopping" /\ stopPc = "stopped" /\ stops >= 2
  /\ mainPc' = "store"
  /\ rtPc' \in {"top", "wait", "scan"}
  /\ exPc' \in {"top", "tested", "wait", "scan"}
  /\ UNCHANGED <<serverVars, stopBg, notified, dtorPc, stops>>

StoreSide(A)  == mainPc = "store" /\ A /\ UNCHANGED <<serverVars, mainPc, stops>>
ServerSide(A) == A /\ UNCHANGED <<storeVars, mainPc, stops>>

Shutdown ==
  \/ CallStop \/ DestroyServer
  \/ ServerSide(Stop)
  \/ StoreSide(StoreDtor)

Next ==
  \/ StartOk \/ StartFails \/ Shutdown
  \/ ServerSide(Environment) \/ ServerSide(AcceptThread)
  \/ ServerSide(EventThread) \/ ServerSide(\E c \in Conns : EventLookup(c))
  \/ ServerSide(Pushing) \/ ServerSide(Heartbeat)
  \/ StoreSide(RetryThread) \/ StoreSide(ExpireThread)

Spec == Init /\ [][Next]_vars

(* Every thread keeps running: timed waits end, and a mutex is released,   *)
(* except by an event thread that is stuck.  No push need fail.  main goes *)
(* on with the shutdown it has begun, and gets retry_mutex_ because the    *)
(* retry thread waits for a whole interval without it.  epoll_wait returns *)
(* at most kMaxEvents events, so a batch ends.  A peer that has vanished   *)
(* becomes idle, unless something else touches the connection first.  The  *)
(* end of a stream is reported until the event thread has looked it up.    *)
Fairness ==
  /\ WF_vars(Shutdown /\ mainPc # "running")
  /\ WF_vars(ServerSide(AcceptThread)) /\ WF_vars(ServerSide(EventThread))
  /\ WF_vars(ServerSide(Heartbeat))
  /\ SF_vars(ServerSide(EventBatchDone))
  /\ SF_vars(StoreSide(DtorFlag))
  /\ WF_vars(StoreSide(RetryThread)) /\ WF_vars(StoreSide(ExpireThread))
  /\ \A c \in Conns :
       /\ WF_vars(ServerSide(TimePasses(c) /\ c \in silent))
       /\ SF_vars(ServerSide(EventLookup(c) /\ c \in gone))

FairSpec == Spec /\ Fairness
-----------------------------------------------------------------------------
(* Once the server is destroyed none of its threads runs and every         *)
(* connection it ever accepted was closed, the one too that the accept     *)
(* thread put into connections_ after Stop had emptied it.  A connection   *)
(* destroyed open would run its close handler from its own destructor.     *)
(* Once the store is destroyed neither of its threads runs.                *)
DestroyedIsQuiet ==
  /\ mainPc = "store" => /\ ThreadsEnded
                         /\ conns = {} /\ 1..(nextConn - 1) \subseteq closed
  /\ dtorPc = "gone" => rtPc = "done" /\ exPc = "done"

(* What the code gives of progress it gives as long as no push fails: the *)
(* event thread that closes a connection inside SendTo keeps               *)
(* connections_mutex_ for ever, and then Stop, the heartbeat thread and    *)
(* the accept thread wait for it too (CloseOutsideLock of BrokerRouting).  *)

(* A shutdown that has begun comes to its end: every thread notices it,    *)
(* whatever it was doing, also when it missed the notification; unless     *)
(* connections_mutex_ is never released again.                             *)
ShutdownEnds == mainPc = "stopping" ~> dtorPc = "gone" \/ ~Unlocked

(* A connection whose peer has vanished without a word is dropped by the   *)
(* heartbeat thread, unless its id is the number of the listening          *)
(* descriptor: that one is taken for active whenever somebody connects;    *)
(* or unless connections_mutex_ is never released again.                   *)
SilentIsDropped ==
  HeartbeatEnabled =>
    \A c \in Conns \ {ListenFd} : c \in silent ~> c \notin conns \/ ~Unlocked

(* A connection that its peer closed is dropped, by the event thread when  *)
(* it reads the end, or by a thread that closed it for another reason;     *)
(* unless a push, to it or to another one, failed before the end was read. *)
DisconnectIsDropped ==
  \A c \in Conns : c \in gone ~> c \notin conns \/ ~Unlocked
=============================================================================
