--------------------------- MODULE SpscRingBuffer ---------------------------
(***************************************************************************)
(* The byte ring of src/ring_buffer/spsc_ring_buffer.cpp.  A message is    *)
(* stored as a big-endian length of HeaderLen bytes followed by its bytes; *)
(* bytes are digits of base Radix (the code has HeaderLen = 4 and          *)
(* Radix = 256).  Push writes and Pop reads one byte per step, between     *)
(* loading the two indices and storing its own, so a writer and a reader   *)
(* interleave byte by byte.  The release store of an index publishes the   *)
(* bytes before it: a byte is visible once it is written.                  *)
(***************************************************************************)
EXTENDS Integers, Sequences, FiniteSets

CONSTANTS Capacity,    \* the constructor's argument
          HeaderLen, Radix,
          MaxPayload,  \* kMaxPayloadSize
          Lengths      \* bound: lengths of the messages pushed

ASSUME SizeAssumption ==
  /\ Capacity \in Nat \ {0} /\ HeaderLen \in Nat \ {0} /\ Radix \in Nat \ {0, 1}
  /\ MaxPayload \in Nat /\ Lengths \subseteq Nat

(* One slot more than asked for, to tell a full ring from an empty one.    *)
Size == Capacity + 1

Byte  == 0..Radix - 1
Slots == 0..Size - 1

VARIABLES
  buffer,   \* buffer_
  head,     \* head_, stored by the consumer
  tail,     \* tail_, stored by the producer
  push,     \* the locals of the running Push
  pop,      \* the locals of the running Pop
  tag,      \* what the bytes of the next message are filled with
  last      \* history: the message the last successful Pop returned

vars == <<buffer, head, tail, push, pop, tag, last>>

NoPush == [data |-> << >>, tail |-> 0, i |-> 0]
NoPop  == [stage |-> "idle", head |-> 0, len |-> 0, data |-> << >>]

(* Where the i-th byte from index a on is kept.                            *)
Slot(a, i) == (a + i) % Size

(* How far the reader is behind the writer, and what that leaves free.     *)
Readable(h, t) == (t + Size - h) % Size

(* Mutant: every slot may be filled.                                       *)
WritableAll(h, t) == Size - Readable(h, t)

Writable(h, t) == (h + Size - t - 1) % Size

(* A length shifted right by 0 to HeaderLen bytes, and the number that is  *)
(* put together from the first 0 to HeaderLen of the bytes b.              *)
Shifted(len) ==
  LET s[k \in 0..HeaderLen] == IF k = 0 THEN len ELSE s[k - 1] \div Radix
  IN  s
Gathered(b) ==
  LET g[k \in 0..HeaderLen] == IF k = 0 THEN 0 ELSE g[k - 1] * Radix + b[k - 1]
  IN  g

(* The length header, most significant byte first, and what Pop makes of  *)
(* HeaderLen bytes from index h on.                                        *)
HeaderByte(len, i) == Shifted(len)[HeaderLen - 1 - i] % Radix
DecodeLen(h) == Gathered([i \in 0..HeaderLen - 1 |-> buffer[Slot(h, i)]])[HeaderLen]

(* The bytes Push stores for a message.                                    *)
Encoded(data) ==
  [k \in 1..HeaderLen + Len(data) |->
     IF k <= HeaderLen THEN HeaderByte(Len(data), k - 1)
                       ELSE data[k - HeaderLen]]

(* The messages: two consecutive ones differ in every byte.                *)
Payload(b, len) == [k \in 1..len |-> b]
Messages == {Payload(b, len) : b \in Byte, len \in Lengths}
NextTag == (tag + 1) % Radix

(* A message the ring has room for has a length that fits the header; no   *)
(* ring of 2^32 bytes or more is made.                                     *)
ASSUME HeaderAssumption ==
  \A len \in Lengths : HeaderLen + len <= Capacity => Shifted(len)[HeaderLen] = 0

Init ==
  /\ buffer = [s \in Slots |-> 0]
  /\ head = 0 /\ tail = 0
  /\ push = NoPush
  /\ pop = NoPop
  /\ tag = 0 /\ last = << >>
-----------------------------------------------------------------------------
(* Push.                                                                   *)

Pushing == push # NoPush

(* A message Push does not refuse for its length alone.                    *)
LengthOk(len) == len # 0 /\ len <= Size - 1
Fits(len) == Writable(head, tail) >= HeaderLen + len

PushBegin(len) ==
  /\ ~Pushing
  /\ LengthOk(len) /\ Fits(len)
  /\ push' = [data |-> Payload(tag, len), tail |-> tail, i |-> 0]
  /\ tag' = NextTag
  /\ UNCHANGED <<buffer, head, tail, pop, last>>

(* Push returns false.                                                     *)
PushRefused(len) ==
  /\ ~Pushing
  /\ ~(LengthOk(len) /\ Fits(len))
  /\ UNCHANGED vars

PushByte ==
  /\ Pushing /\ push.i < HeaderLen + Len(push.data)
  /\ buffer' = [buffer EXCEPT
                  ![Slot(push.tail, push.i)] = Encoded(push.data)[push.i + 1]]
  /\ push' = [push EXCEPT !.i = @ + 1]
  /\ UNCHANGED <<head, tail, pop, tag, last>>

(* Mutant: tail_ is stored between the length and the bytes.               *)
PushEndEarly ==
  /\ Pushing /\ push.i = HeaderLen
  /\ tail' = Slot(push.tail, push.i)
  /\ push' = NoPush
  /\ UNCHANGED <<buffer, head, pop, tag, last>>

PushEnd ==
  /\ Pushing /\ push.i = HeaderLen + Len(push.data)
  /\ tail' = Slot(push.tail, push.i)
  /\ push' = NoPush
  /\ UNCHANGED <<buffer, head, pop, tag, last>>
-----------------------------------------------------------------------------
(* Pop.  On an empty ring it returns nullopt without a step.               *)

PopBegin ==
  /\ pop.stage = "idle" /\ head # tail
  /\ pop' = [NoPop EXCEPT !.stage = "header", !.head = head]
  /\ UNCHANGED <<buffer, head, tail, push, tag, last>>

(* Mutant: the limit is taken to include the header.                       *)
LengthPlausibleStrict(len) == len # 0 /\ len + HeaderLen < MaxPayload

LengthPlausible(len) == len # 0 /\ len <= MaxPayload

PopHeader ==
  /\ pop.stage = "header" /\ LengthPlausible(DecodeLen(pop.head))
  /\ pop' = [pop EXCEPT !.stage = "data", !.len = DecodeLen(pop.head)]
  /\ UNCHANGED <<buffer, head, tail, push, tag, last>>

(* The length is taken for corrupt: nullopt, and head stays where it is.   *)
PopCorrupt ==
  /\ pop.stage = "header" /\ ~LengthPlausible(DecodeLen(pop.head))
  /\ pop' = NoPop
  /\ UNCHANGED <<buffer, head, tail, push, tag, last>>

PopByte ==
  /\ pop.stage = "data" /\ Len(pop.data) < pop.len
  /\ pop' = [pop EXCEPT !.data =
               Append(@, buffer[Slot(pop.head, HeaderLen + Len(@))])]
  /\ UNCHANGED <<buffer, head, tail, push, tag, last>>

(* Mutant: head_ is moved on by the length without the header.             *)
PopEndShort ==
  /\ pop.stage = "data" /\ Len(pop.data) = pop.len
  /\ head' = Slot(pop.head, pop.len)
  /\ pop' = NoPop
  /\ last' = pop.data
  /\ UNCHANGED <<buffer, tail, push, tag>>

PopEnd ==
  /\ pop.stage = "data" /\ Len(pop.data) = pop.len
  /\ head' = Slot(pop.head, HeaderLen + pop.len)
  /\ pop' = NoPop
  /\ last' = pop.data
  /\ UNCHANGED <<buffer, tail, push, tag>>

PopStep == PopBegin \/ PopHeader \/ PopByte \/ PopEnd

Next ==
  \/ \E len \in Lengths : PushBegin(len) \/ PushRefused(len)
  \/ PushByte \/ PushEnd
  \/ PopStep \/ PopCorrupt

Spec == Init /\ [][Next]_vars

(* A Push that was begun ends, and the consumer keeps calling Pop.         *)
FairSpec ==
  /\ Spec
  /\ WF_vars(PopStep \/ PopCorrupt) /\ WF_vars(PushByte \/ PushEnd)
-----------------------------------------------------------------------------
(* Properties.                                                             *)

TypeOK ==
  /\ buffer \in [Slots -> Byte] /\ head \in Slots /\ tail \in Slots
  /\ push.data \in Seq(Byte) /\ push.tail \in Slots /\ push.i \in Nat
  /\ pop.stage \in {"idle", "header", "data"} /\ pop.head \in Slots
  /\ pop.len \in Nat /\ pop.data \in Seq(Byte)
  /\ tag \in Byte /\ last \in Seq(Byte)

(* The slots Push is allowed to write: those of the message it encodes.    *)
WriteSlots ==
  {Slot(push.tail, i) : i \in 0..HeaderLen + Len(push.data) - 1}
ReadSlots == {Slot(head, i) : i \in 0..Readable(head, tail) - 1}

(* No data race: a Push in progress only writes slots that hold no message *)
(* yet, although it computed the free space from a head_ that the consumer *)
(* may have moved on since; and it never fills the ring so far that tail_  *)
(* would meet head_ and the full ring look empty.                          *)
WriterClearOfReader ==
  Pushing =>
    /\ WriteSlots \cap (ReadSlots \cup {Slot(head, Size - 1)}) = {}
    /\ Cardinality(WriteSlots) = HeaderLen + Len(push.data)

(* A Pop in progress stays within the bytes that were published.           *)
ReaderWithinPublished ==
  pop.stage = "data" => HeaderLen + pop.len <= Readable(head, tail)

(* The messages in the ring, decoded from its bytes: from head_ to tail_   *)
(* they are a sequence of headers and payloads without a gap.  Parsed[n]   *)
(* is what the last n bytes before tail_ hold.  A header that reaches      *)
(* beyond tail_ shows as an empty message, which Push never stores.        *)
MessageAt(h) == [k \in 1..DecodeLen(h) |-> buffer[Slot(h, HeaderLen + k - 1)]]
Parsed ==
  LET from[n \in 0..Size] ==
        IF n = 0 THEN << >>
        ELSE LET h == Slot(tail, Size - n)
                 l == DecodeLen(h)
             IN  IF l + HeaderLen > n THEN << << >> >>
                 ELSE <<MessageAt(h)>> \o from[n - l - HeaderLen]
  IN  from
Contents == Parsed[Readable(head, tail)]

(* The ring implements a FIFO of whole messages.                           *)
Fifo == INSTANCE MessageFifo WITH Message <- Messages, queue <- Contents
ImplementsFifo == Fifo!FifoSpec

(* With a consumer that keeps popping, a published message that has come   *)
(* to head_ is popped after a while, at whatever index it lies, unless it  *)
(* is longer than kMaxPayloadSize: Push accepts such a message when the    *)
(* ring has room for it, and Pop, which takes it for corrupt data, never   *)
(* gets past it.                                                           *)
HeadAdvances ==
  \A s \in Slots : head = s /\ tail # s /\ DecodeLen(s) \in 1..MaxPayload
                     ~> head # s
=============================================================================
