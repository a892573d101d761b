---------------------------- MODULE MessageFifo -----------------------------
(***************************************************************************)
(* What a ring buffer promises: whole messages come out once each, in the  *)
(* order in which they went in.  `last' is the message handed out last.    *)
(***************************************************************************)
EXTENDS Sequences

CONSTANT Message

VARIABLES queue, last

FifoInit == queue = << >> /\ last = << >>

Enqueue == \E m \in Message : queue' = Append(queue, m) /\ UNCHANGED last

Dequeue ==
  /\ queue # << >>
  /\ last' = Head(queue)
  /\ queue' = Tail(queue)

FifoNext == Enqueue \/ Dequeue

FifoSpec == FifoInit /\ [][FifoNext]_<<queue, last>>
=============================================================================
