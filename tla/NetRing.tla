------------------------------- MODULE NetRing -------------------------------
(***************************************************************************)
(* One of the two byte rings between the NE2000 on the emulation thread    *)
(* and the page (src/wasm/platform/wasm-net.c): records of a two-byte      *)
(* length and a frame, wrapping around the ring's edge, one producer and   *)
(* one consumer on different threads, no lock, free-running indices that   *)
(* wrap at 2^32.                                                           *)
(*                                                                         *)
(* Each access to shared memory is a step, the two copies of a record that *)
(* crosses the edge are one.  The indices are accessed with acquire and    *)
(* release, so that a step sees the bytes published before what it loads.  *)
(* Frames are given as sequences of bytes; a byte has Base values.         *)
(***************************************************************************)
EXTENDS Integers, Sequences

CONSTANTS
    Size,      \* NET_RING_SIZE
    Wrap,      \* what the indices wrap at, 2^32
    Base,      \* values of a byte, 2^8
    FrameMax,  \* NET_FRAME_MAX
    Frames,    \* the frames that are sent
    NoFrame

ASSUME SizeAssumption ==
    /\ Size \in Nat \ {0} /\ Wrap \in Nat /\ Wrap > Size /\ Wrap % Size = 0
    /\ Base \in Nat \ {0, 1} /\ FrameMax \in 1 .. Base * Base - 1
    /\ \A f \in Frames : f \in Seq(0 .. Base - 1) /\ Len(f) \in 1 .. FrameMax
    /\ NoFrame \notin Frames

VARIABLES
    buf,      \* the bytes
    head,     \* written by the producer
    tail,     \* written by the consumer
    push,     \* where ring_push is, and with which frame
    pop,      \* where ring_pop is, with what it has loaded and read
    pending,  \* history: the frames published and not yet popped
    out       \* the frame ring_pop returned last

vars == <<buf, head, tail, push, pop, pending, out>>

Bytes == 0 .. Base - 1
Offsets == 0 .. Size - 1
Indices == 0 .. Wrap - 1
NoPush == [at |-> "out", frame |-> NoFrame]
NoPop == [at |-> "out", seen |-> 0, count |-> 0, len |-> 0, got |-> NoFrame]

\* header, payload: about to copy it in.  publish: about to store the index.
TypeOK ==
    /\ buf \in [Offsets -> Bytes]
    /\ head \in Indices /\ tail \in Indices
    /\ push \in [at : {"header", "payload", "publish"}, frame : Frames] \cup {NoPush}
    /\ pop.at \in {"out", "header", "payload", "publish"}
    /\ pop.seen \in Indices /\ pop.len \in 0 .. FrameMax
    /\ pending \in Seq(Frames)
    /\ out \in Seq(Bytes) \cup {NoFrame}

Init ==
    /\ buf = [o \in Offsets |-> 0]
    /\ head = 0 /\ tail = 0
    /\ push = NoPush /\ pop = NoPop
    /\ pending = <<>> /\ out = NoFrame

----------------------------------------------------------------------------
(* Data *)

\* ring_used, in the width of the indices.
Used(h, t) == (h - t) % Wrap

\* Mutant: only the low byte of the length is written.
HeaderOneByte(len) == <<len % Base, 0>>

Header(len) == <<len % Base, len \div Base>>

Length(header) == header[1] + header[2] * Base
Need(frame) == 2 + Len(frame)

\* ring_write_bytes and ring_read_bytes.
Written(pos, bytes) ==
    [o \in Offsets |-> LET i == (o - pos) % Size
                       IN IF i < Len(bytes) THEN bytes[i + 1] ELSE buf[o]]
BytesAt(pos, len) == [i \in 1 .. len |-> buf[(pos + i - 1) % Size]]

\* Mutant: the room for the length is forgotten.
FitsWithoutHeader(frame) == Size - Used(head, tail) >= Len(frame)

\* Free-running indices: the ring may be filled to the last byte.
Fits(frame) == Size - Used(head, tail) >= Need(frame)

----------------------------------------------------------------------------
(* The producer: ring_push *)

\* The tail is loaded and there is room; otherwise the frame is dropped.
BeginPush(f) ==
    /\ push = NoPush
    /\ Fits(f)
    /\ push' = [at |-> "header", frame |-> f]
    /\ UNCHANGED <<buf, head, tail, pop, pending, out>>

WriteHeader ==
    /\ push.at = "header"
    /\ buf' = Written(head, Header(Len(push.frame)))
    /\ push' = [push EXCEPT !.at = "payload"]
    /\ UNCHANGED <<head, tail, pop, pending, out>>

WritePayload ==
    /\ push.at = "payload"
    /\ buf' = Written(head + 2, push.frame)
    /\ push' = [push EXCEPT !.at = "publish"]
    /\ UNCHANGED <<head, tail, pop, pending, out>>

\* Mutant: the index does not wrap.
PublishedUnwrapped(frame) == head + Need(frame)

Published(frame) == (head + Need(frame)) % Wrap

PublishHead ==
    /\ push.at = "publish"
    /\ head' = Published(push.frame)
    /\ pending' = Append(pending, push.frame)
    /\ push' = NoPush
    /\ UNCHANGED <<buf, tail, pop, out>>

----------------------------------------------------------------------------
(* The consumer: ring_pop *)

\* The head is loaded; an empty ring returns 0.
BeginPop ==
    /\ pop.at = "out"
    /\ head # tail
    /\ pop' = [NoPop EXCEPT !.at = "header", !.seen = head, !.count = Len(pending)]
    /\ UNCHANGED <<buf, head, tail, push, pending, out>>

\* A length that no frame has: drain to the head that was loaded.
ReadHeader ==
    /\ pop.at = "header"
    /\ LET len == Length(BytesAt(tail, 2)) IN
       IF len <= FrameMax
       THEN /\ pop' = [pop EXCEPT !.at = "payload", !.len = len]
            /\ UNCHANGED <<tail, pending>>
       ELSE /\ pop' = NoPop
            /\ tail' = pop.seen
            /\ pending' = SubSeq(pending, pop.count + 1, Len(pending))
    /\ UNCHANGED <<buf, head, push, out>>

ReadPayload ==
    /\ pop.at = "payload"
    /\ pop' = [pop EXCEPT !.at = "publish", !.got = BytesAt(tail + 2, pop.len)]
    /\ UNCHANGED <<buf, head, tail, push, pending, out>>

Released(len) == (tail + 2 + len) % Wrap

PublishTail ==
    /\ pop.at = "publish"
    /\ tail' = Released(pop.len)
    /\ pending' = Tail(pending)
    /\ out' = pop.got
    /\ pop' = NoPop
    /\ UNCHANGED <<buf, head, push>>

\* Mutant: only the producer's index is reset.
ResetIndicesHead == head' = 0 /\ UNCHANGED tail

ResetIndices == head' = 0 /\ tail' = 0

\* slirp_new and slirp_cleanup, on the main thread with emu_mutex: that thread is
\* one end of the ring itself and the other runs only with the mutex.
Reset ==
    /\ push = NoPush /\ pop = NoPop
    /\ ResetIndices
    /\ pending' = <<>>
    /\ UNCHANGED <<buf, push, pop, out>>

----------------------------------------------------------------------------

Next ==
    \/ \E f \in Frames : BeginPush(f)
    \/ WriteHeader \/ WritePayload \/ PublishHead
    \/ BeginPop \/ ReadHeader \/ ReadPayload \/ PublishTail
    \/ Reset

Spec == Init /\ [][Next]_vars

----------------------------------------------------------------------------
(* Properties *)

\* At this position lies the whole record of a frame.
RecordAt(pos, frame) ==
    BytesAt(pos, Need(frame)) = Header(Len(frame)) \o frame

\* The published part of the ring is exactly the records of the pending frames, one
\* behind the other (off[k] bytes up to the end of the k-th), across the edge of the
\* ring and the wrap of the indices, whatever the producer is writing: the reader can
\* never lose the record boundaries, which it has no way to find again.
RingHoldsPending ==
    \E off \in [0 .. Len(pending) -> 0 .. Size] :
        /\ off[0] = 0 /\ off[Len(pending)] = Used(head, tail)
        /\ \A k \in 1 .. Len(pending) :
            /\ off[k] = off[k - 1] + Need(pending[k])
            /\ RecordAt(tail + off[k - 1], pending[k])

\* "corrupt record - should be impossible" (wasm-net.c:140, ring_pop): what the
\* reader takes for a length is that of the oldest frame, and the record lies in the
\* published part, from the look at the head to the store of the tail, even while the
\* producer goes on.
LengthIsTrue ==
    pop.at # "out" =>
        /\ pending # <<>>
        /\ Length(BytesAt(tail, 2)) = Len(Head(pending))
        /\ pop.at # "header" => pop.len = Len(Head(pending))
        /\ Need(Head(pending)) <= Used(head, tail)

\* The bytes and indices implement a lossy queue of whole frames.
Fifo == INSTANCE LossyFifo WITH queue <- pending
LossyFifo == Fifo!Spec
=============================================================================
