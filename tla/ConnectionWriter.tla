-------------------------- MODULE ConnectionWriter --------------------------
(***************************************************************************)
(* Connection::SendFrame and its write buffer (src/network/connection.cpp).*)
(* A call holds write_buffer_mutex_ throughout, so each of its outcomes is *)
(* one action.  The kernel takes as many bytes as its send buffer has room *)
(* for; the other end makes room by receiving (FrameStream).               *)
(***************************************************************************)
EXTENDS FrameCodec

CONSTANTS Frames,      \* bound: the frames that are sent
          Noises,      \* bound: what a peer may send before its first frame
          MaxFrames,   \* bound: calls of SendFrame that are not refused
          MaxBuffer,   \* max_write_buffer_size
          Window       \* size of the kernel's send buffer

ASSUME WriterAssumption ==
  /\ Frames \subseteq [type : Byte, payload : Seq(Byte)] /\ Noises \subseteq Seq(Byte)
  /\ MaxFrames \in Nat /\ MaxBuffer \in Nat /\ Window \in Nat \ {0}

VARIABLES
  zeroCopy,  \* zero_copy_enabled, set once from the configuration
  noise,     \* what is on the stream before the first frame
  writeBuf,  \* write_buffer_
  closed,    \* closed_ of the sender
  taken,     \* how many bytes the other end has received
  calls,     \* number of calls of SendFrame that got past the limit
  sent,      \* history: the bytes given to the kernel
  accepted   \* history: the frames whose SendFrame returned true

writerVars == <<zeroCopy, noise, writeBuf, closed, taken, calls, sent, accepted>>

Min2(a, b) == IF a < b THEN a ELSE b

WriterInit ==
  /\ zeroCopy \in BOOLEAN /\ noise \in Noises
  /\ writeBuf = << >> /\ closed = FALSE /\ taken = 0 /\ calls = 0
  /\ sent = noise /\ accepted = << >>

(* Free space in the kernel's send buffer.                                 *)
Unread == Len(sent) - taken
Room == IF Unread < Window THEN Window - Unread ELSE 0

(* The early return of a closed connection, and the result of the call.    *)
Called == ~closed /\ calls < MaxFrames
Returns(f, ok) ==
  /\ calls' = calls + 1
  /\ accepted' = IF ok THEN Append(accepted, f) ELSE accepted
-----------------------------------------------------------------------------
(* The buffered path.  A frame that exceeds the limit is refused before    *)
(* anything is sent.                                                       *)

(* Mutant: the frame itself does not count.                                *)
WithinLimitBefore(f) == Len(writeBuf) <= MaxBuffer

Buffered == writeBuf # << >> \/ ~zeroCopy
WithinLimit(f) == Len(writeBuf) + Len(Encode(f)) <= MaxBuffer

BufferedRefused(f) ==
  /\ Called /\ Buffered /\ ~WithinLimit(f)
  /\ UNCHANGED writerVars

(* The frame is queued, and send is repeated until the kernel is full.     *)
BufferedSend(f) ==
  /\ Called /\ Buffered /\ WithinLimit(f)
  /\ LET all == writeBuf \o Encode(f)
         k   == Min2(Room, Len(all))
     IN  /\ sent' = sent \o SubSeq(all, 1, k)
         /\ writeBuf' = SubSeq(all, k + 1, Len(all))
  /\ Returns(f, TRUE)
  /\ UNCHANGED <<zeroCopy, noise, closed, taken>>
-----------------------------------------------------------------------------
(* The zero-copy path: writev, and what it did not take is buffered.       *)

RemainingHeader(f, k) ==
  LET left == IF k < HeaderSize THEN HeaderSize - k ELSE 0
  IN  SubSeq(EncodeHeaderToBuffer(f), HeaderSize - left + 1, HeaderSize)

(* Mutant: the bytes of the header are taken for bytes of the payload.     *)
RemainingPayloadAfterAll(f, k) == SubSeq(f.payload, k + 1, Len(f.payload))

RemainingPayload(f, k) ==
  LET done == IF k > HeaderSize THEN k - HeaderSize ELSE 0
  IN  SubSeq(f.payload, done + 1, Len(f.payload))

DirectSend(f) ==
  /\ Called /\ ~Buffered
  /\ LET k == Min2(Room, Len(Encode(f)))
     IN  /\ sent' = sent \o SubSeq(Encode(f), 1, k)
         /\ writeBuf' = writeBuf \o RemainingHeader(f, k) \o RemainingPayload(f, k)
  /\ Returns(f, TRUE)
  /\ UNCHANGED <<zeroCopy, noise, closed, taken>>
-----------------------------------------------------------------------------
(* The kernel reports an error, on the buffered path at once or after it   *)
(* took what it had room for: Close, and the call returns false.           *)
SendError(f) ==
  /\ Called /\ (Buffered => WithinLimit(f))
  /\ closed' = TRUE
  /\ IF Buffered
       THEN LET all == writeBuf \o Encode(f)
            IN  \E k \in {0, Min2(Room, Len(all))} :
                  /\ sent' = sent \o SubSeq(all, 1, k)
                  /\ writeBuf' = all
       ELSE UNCHANGED <<sent, writeBuf>>
  /\ Returns(f, FALSE)
  /\ UNCHANGED <<zeroCopy, noise, taken>>

(* Connection::Close, called by Disconnect, Stop or a heartbeat thread:    *)
(* what is still in the write buffer is never sent.                        *)
Close ==
  /\ ~closed /\ closed' = TRUE
  /\ UNCHANGED <<zeroCopy, noise, writeBuf, taken, calls, sent, accepted>>

SendFrame(f) ==
  BufferedRefused(f) \/ BufferedSend(f) \/ DirectSend(f) \/ SendError(f)
-----------------------------------------------------------------------------
Bytes(frames) == FlattenSeq([k \in 1..Len(frames) |-> Encode(frames[k])])

(* Framing survives partial writes and a full kernel buffer: what has been *)
(* sent and what is still buffered are together exactly the frames that    *)
(* were accepted, whole and in order, on both paths and across every       *)
(* change from one to the other.  A closed connection was sent those       *)
(* frames, or fewer, or also part of the frame that failed.                *)
StreamIntact ==
  LET stream == noise \o Bytes(accepted)
  IN  /\ ~closed => sent \o writeBuf = stream
      /\ closed => IsPrefix(sent, stream) \/ IsPrefix(stream, sent)

(* The write buffer is bounded.  The limit is tested on the buffered path  *)
(* only, so the zero-copy path may exceed it, but by no more than what     *)
(* writev left of a single frame: nothing is added to it any more.         *)
BufferBound ==
  ~closed /\ Len(writeBuf) > MaxBuffer =>
    zeroCopy /\ IsSuffix(writeBuf, Encode(Last(accepted)))
=============================================================================
