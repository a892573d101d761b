---------------------------- MODULE FrameStream ----------------------------
(***************************************************************************)
(* A connection from end to end: Connection::SendFrame on one side, the    *)
(* socket, and Connection::OnRead with the streaming decoder on the other. *)
(* The event loop of the server and the read loop of the client call       *)
(* OnRead alike.                                                           *)
(***************************************************************************)
EXTENDS ConnectionWriter, StreamingFrameCodec

CONSTANT Pieces   \* bound: how many bytes arrive between two calls of recv,
                  \* when not all

ASSUME PiecesAssumption == Pieces \subseteq Nat \ {0}

VARIABLES
  rdPc,       \* the reading thread: "wait", or "recv" or "parse" in OnRead
  rdClosed,   \* closed_ of the reading end; closed is the sender's
  readBuf,    \* read_buffer_
  parsed      \* history: number of bytes that were given to the decoder

vars == <<writerVars, codecVars, rdPc, rdClosed, readBuf, parsed>>

Init ==
  /\ WriterInit /\ CodecInit
  /\ rdPc = "wait" /\ rdClosed = FALSE /\ readBuf = << >> /\ parsed = 0

(* Close of the reading end by another thread or by the handler of a frame *)
(* (heartbeat timeout, Stop, Disconnect, an answer that cannot be sent),   *)
(* at any point of OnRead: the descriptor is gone, the loop that parses    *)
(* goes on.                                                                *)
ReaderCloses ==
  /\ ~rdClosed /\ rdClosed' = TRUE
  /\ UNCHANGED <<writerVars, codecVars, rdPc, readBuf, parsed>>

(* The socket became readable, or the read loop's pause is over.  A closed *)
(* connection returns at once.                                             *)
OnRead ==
  /\ rdPc = "wait" /\ ~rdClosed /\ (Unread > 0 \/ closed)
  /\ rdPc' = "recv"
  /\ UNCHANGED <<writerVars, codecVars, rdClosed, readBuf, parsed>>

(* recv returns those of the bytes under way that have arrived, and the    *)
(* next recv finds nothing or the end.  Bytes that arrive between the two  *)
(* are no different from bytes that arrived before the first.              *)
Arrivals == {k \in Pieces \cup {Unread} : 0 < k /\ k <= Unread}

Recv(k) ==
  /\ rdPc = "recv" /\ ~rdClosed /\ readBuf = << >>
  /\ readBuf' = readBuf \o SubSeq(sent, taken + 1, taken + k)
  /\ taken' = taken + k
  /\ UNCHANGED <<zeroCopy, noise, writeBuf, closed, calls, sent, accepted,
                 codecVars, rdPc, rdClosed, parsed>>

(* EAGAIN: nothing more has arrived.  What was read goes to the decoder.   *)
RecvAgain ==
  /\ rdPc = "recv" /\ ~rdClosed
  /\ AppendData(readBuf)
  /\ parsed' = taken
  /\ readBuf' = << >>
  /\ rdPc' = "parse"
  /\ UNCHANGED <<writerVars, rdClosed>>

(* The end of the stream: Close, and what this OnRead had read is dropped. *)
RecvEnd ==
  /\ rdPc = "recv" /\ ~rdClosed /\ closed /\ Unread = 0
  /\ rdClosed' = TRUE /\ rdPc' = "wait"
  /\ UNCHANGED <<writerVars, codecVars, readBuf, parsed>>

(* Another error, also that of a descriptor closed in the meantime: the    *)
(* same.                                                                   *)
RecvFails ==
  /\ rdPc = "recv"
  /\ rdClosed' = TRUE /\ rdPc' = "wait"
  /\ UNCHANGED <<writerVars, codecVars, readBuf, parsed>>

(* Mutant: OnRead takes one frame and leaves the next for later.           *)
OnReadParseOne ==
  /\ rdPc = "parse"
  /\ \/ ParseStep /\ rdPc' = IF parseState = "payload" THEN "wait" ELSE "parse"
     \/ ParseReturns /\ rdPc' = "wait"
  /\ UNCHANGED <<writerVars, rdClosed, readBuf, parsed>>

OnReadParse ==
  /\ rdPc = "parse"
  /\ \/ ParseStep /\ rdPc' = "parse"
     \/ ParseReturns /\ rdPc' = "wait"
  /\ UNCHANGED <<writerVars, rdClosed, readBuf, parsed>>

Writer == (Close \/ \E f \in Frames : SendFrame(f))
          /\ UNCHANGED <<codecVars, rdPc, rdClosed, readBuf, parsed>>
Reader == OnRead \/ (\E k \in Arrivals : Recv(k)) \/ RecvAgain \/ RecvEnd
          \/ RecvFails \/ OnReadParse

Next == Writer \/ Reader \/ ReaderCloses

(* The reading thread keeps running, and bytes that were sent arrive: it   *)
(* does not find the socket empty for ever while some are under way.       *)
(* Nobody need close, and no recv need fail.                               *)
Spec == Init /\ [][Next]_vars
FairSpec == Spec /\ WF_vars(Reader) /\ SF_vars(\E k \in Arrivals : Recv(k))
-----------------------------------------------------------------------------
(* Whatever the pieces in which the stream arrives, at every return of     *)
(* OnRead the streaming decoder has found exactly the frames that the      *)
(* stream received so far contains: no frame is found twice, missed at a   *)
(* boundary of two pieces, or lost behind bytes that only look like one.   *)
DecodesAllReceived ==
  rdPc = "wait" => decoded = FramesIn[SubSeq(sent, 1, parsed)]

(* Between two connections of this code nothing else happens on a stream:  *)
(* the other end decodes the accepted frames, in order, whatever their     *)
(* payloads look like, when each is within kMaxPayloadSize.  SendFrame     *)
(* does not test that limit.                                               *)
Sendable(f) == Len(f.payload) <= MaxPayload
DecodedIsAccepted ==
  noise = << >> /\ ToSet(accepted) \subseteq {f \in Frames : Sendable(f)} =>
    \/ IsPrefix(decoded, accepted)
    \/ closed /\ IsPrefix(accepted, decoded)

(* A frame that is wholly on the wire reaches the handler as long as the   *)
(* reading end is open, also when the sender has closed.  It is lost only  *)
(* when the reading end closes first: on its own, at an error, or because  *)
(* OnRead met the end of the stream and dropped what it had read with it.  *)
Whole(n) == Len(accepted) >= n /\ Len(noise \o Bytes(SubSeq(accepted, 1, n))) <= Len(sent)
FrameArrives ==
  \A n \in 1..MaxFrames :
    noise = << >> /\ Whole(n) /\ (\A k \in 1..n : Sendable(accepted[k]))
      ~> Len(decoded) >= n \/ rdClosed
=============================================================================
