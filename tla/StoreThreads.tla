---------------------------- MODULE StoreThreads ----------------------------
(***************************************************************************)
(* The two background threads of the message store and its destructor      *)
(* (src/storage/memory_message_store.cpp): when they run, wait, are woken  *)
(* and end.  What a scan does to a topic is in MemoryMessageStore.         *)
(*                                                                         *)
(* Both threads wait with wait_for: the predicate is tested with the       *)
(* thread's mutex held, then the thread joins the wait set and releases    *)
(* the mutex.  The destructor sets the flag under retry_mutex_, so the     *)
(* retry thread cannot be between its test and its wait at that moment.    *)
(* The expiration thread uses expiration_mutex_, and can.                  *)
(***************************************************************************)

VARIABLES
  stopBg,    \* stop_background_threads_
  rtPc,      \* retry thread: "top", "wait", "scan" or "done"
  exPc,      \* expiration thread: the same, and "tested" before the wait
  notified,  \* of the threads in a wait set, those that were notified
  dtorPc     \* destructor: "no", "notify", "join", and then "gone"

storeVars == <<stopBg, rtPc, exPc, notified, dtorPc>>

StoreInit ==
  /\ stopBg = FALSE /\ rtPc = "top" /\ exPc = "top"
  /\ notified = {} /\ dtorPc = "no"
-----------------------------------------------------------------------------
(* RetryLoop.  retry_mutex_ is held from the wait to the end of the scan.  *)

RetryTest ==
  /\ rtPc = "top"
  /\ rtPc' = IF stopBg THEN "done" ELSE "wait"
  /\ UNCHANGED <<stopBg, exPc, notified, dtorPc>>

(* wait_for ends, by the notification or after retry_interval_ms_.         *)
RetryWakes ==
  /\ rtPc = "wait"
  /\ rtPc' = IF stopBg THEN "done" ELSE "scan"
  /\ notified' = notified \ {"retry"}
  /\ UNCHANGED <<stopBg, exPc, dtorPc>>

RetryScanned ==
  /\ rtPc = "scan" /\ rtPc' = "top"
  /\ UNCHANGED <<stopBg, exPc, notified, dtorPc>>
-----------------------------------------------------------------------------
(* ExpirationLoop.                                                         *)

ExpireTest ==
  /\ exPc = "top"
  /\ exPc' = IF stopBg THEN "done" ELSE "tested"
  /\ UNCHANGED <<stopBg, rtPc, notified, dtorPc>>

ExpireWaits ==
  /\ exPc = "tested" /\ exPc' = "wait"
  /\ UNCHANGED <<stopBg, rtPc, notified, dtorPc>>

(* Mutant: wait in place of wait_for.                                      *)
ExpireTimeoutNever == FALSE

ExpireTimeout == TRUE

ExpireWakes ==
  /\ exPc = "wait" /\ ("expire" \in notified \/ ExpireTimeout)
  /\ exPc' = IF stopBg THEN "done" ELSE "scan"
  /\ notified' = notified \ {"expire"}
  /\ UNCHANGED <<stopBg, rtPc, dtorPc>>

ExpireScanned ==
  /\ exPc = "scan" /\ exPc' = "top"
  /\ UNCHANGED <<stopBg, rtPc, notified, dtorPc>>
-----------------------------------------------------------------------------
(* The destructor.  It gets retry_mutex_ when no retry scan is running; a  *)
(* notification reaches only who is in the wait set.                       *)

DtorFlag ==
  /\ dtorPc = "no" /\ rtPc # "scan"
  /\ stopBg' = TRUE /\ dtorPc' = "notify"
  /\ UNCHANGED <<rtPc, exPc, notified>>

DtorNotify ==
  /\ dtorPc = "notify" /\ dtorPc' = "join"
  /\ notified' = (IF rtPc = "wait" THEN {"retry"} ELSE {})
                   \cup (IF exPc = "wait" THEN {"expire"} ELSE {})
  /\ UNCHANGED <<stopBg, rtPc, exPc>>

DtorJoin ==
  /\ dtorPc = "join" /\ rtPc = "done" /\ exPc = "done"
  /\ dtorPc' = "gone"
  /\ UNCHANGED <<stopBg, rtPc, exPc, notified>>

RetryThread  == RetryTest \/ RetryWakes \/ RetryScanned
ExpireThread == ExpireTest \/ ExpireWaits \/ ExpireWakes \/ ExpireScanned
StoreDtor    == DtorFlag \/ DtorNotify \/ DtorJoin
=============================================================================
