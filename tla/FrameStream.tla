---------------------------- MODULE FrameStream ----------------------------
(***************************************************************************)
(* One direction of one connection, byte by byte: maester_queue_bytes and  *)
(* maester_flush_send_buffer at the sender, the kernel's stream, and       *)
(* maester_receive_placeholder with frame_buffer_extract at the receiver.  *)
(* The frames are numbered in the order in which they are sent; frame f is *)
(* the bytes <<f, 1>> .. <<f, FrameSize>>.                                 *)
(***************************************************************************)
EXTENDS Naturals, Sequences

CONSTANTS
    FrameSize,      \* FRAME_MAX_SIZE (320 in the code)
    WireCapacity,   \* bytes the kernel holds between the two processes
    MaxFrames,      \* bound on the frames sent
    Corrupt,        \* frames whose checksum is wrong; this code sends none
    MayClose        \* whether the connection may be closed

ASSUME StreamAssumption ==
    /\ FrameSize \in Nat \ {0}
    /\ WireCapacity \in Nat \ {0}
    /\ MaxFrames \in Nat
    /\ Corrupt \subseteq 1..MaxFrames
    /\ MayClose \in BOOLEAN

VARIABLES
    sendBuffer,     \* sender's ConnectionEntry.send_buffer
    wire,           \* sent and not yet read
    recvBuffer,     \* receiver's ConnectionEntry.recv_buffer
    senderOpen,     \* the sender's sockfd >= 0
    receiverOpen,   \* the receiver's sockfd >= 0
    offered,        \* frames given to maester_send_frame so far
    accepted,       \* history: those for which it returned 0
    delivered       \* history: those given to maester_process_incoming_frame

sender == <<sendBuffer, senderOpen, offered, accepted>>
receiver == <<recvBuffer, receiverOpen, delivered>>
vars == <<sender, wire, receiver>>

Capacity == 4 * FrameSize       \* FRAME_BUFFER_CAPACITY

Byte == (1..MaxFrames) \X (1..FrameSize)

Bytes(f) == [i \in 1..FrameSize |-> <<f, i>>]

Drop(s, n) == SubSeq(s, n + 1, Len(s))
Take(s, n) == SubSeq(s, 1, n)

\* Mutant of Fits: the capacity is not looked at.
FitsAlways(buffer, bytes) == TRUE

\* frame_buffer_append: all of the bytes or, when they do not fit, none.
Fits(buffer, bytes) == Len(buffer) + Len(bytes) <= Capacity

----------------------------------------------------------------------------
(* Sender                                                                  *)

Room == WireCapacity - Len(wire)

\* What send() took.  A receiver that has closed gets nothing more of it.
OnWire(bytes) == wire' = IF receiverOpen THEN wire \o bytes ELSE wire

\* Mutant of Queued: the bytes overtake those that wait in send_buffer.
QueuedAtOnce(f) ==
    \E n \in 0..FrameSize :
        /\ n <= Room
        /\ OnWire(Take(Bytes(f), n))
        /\ Fits(sendBuffer, Drop(Bytes(f), n))
        /\ sendBuffer' = sendBuffer \o Drop(Bytes(f), n)
        /\ accepted' = Append(accepted, f)

\* Mutant of Queued: bytes that do not fit are dropped and 0 is returned.
QueuedInSilence(f) ==
    /\ accepted' = Append(accepted, f)
    /\ \/ /\ sendBuffer # <<>>
          /\ UNCHANGED wire
          /\ sendBuffer' = IF Fits(sendBuffer, Bytes(f))
                           THEN sendBuffer \o Bytes(f) ELSE sendBuffer
       \/ /\ sendBuffer = <<>>
          /\ \E n \in 0..FrameSize :
                /\ n <= Room
                /\ OnWire(Take(Bytes(f), n))
                /\ sendBuffer' = Drop(Bytes(f), n)

\* maester_queue_bytes.  With bytes waiting, the new ones wait behind them
\* or are refused; otherwise send() takes what it will, or fails when the
\* receiver has closed, and nothing is left waiting.
Queued(f) ==
    \/ /\ sendBuffer # <<>>
       /\ UNCHANGED wire
       /\ IF Fits(sendBuffer, Bytes(f))
          THEN /\ sendBuffer' = sendBuffer \o Bytes(f)
               /\ accepted' = Append(accepted, f)
          ELSE UNCHANGED <<sendBuffer, accepted>>
    \/ /\ sendBuffer = <<>>
       /\ \E n \in 0..FrameSize :
            /\ n <= Room
            /\ OnWire(Take(Bytes(f), n))
            /\ sendBuffer' = Drop(Bytes(f), n)
       /\ accepted' = Append(accepted, f)
    \/ /\ sendBuffer = <<>>
       /\ ~receiverOpen
       /\ UNCHANGED <<wire, sendBuffer, accepted>>

\* maester_send_frame
SendFrame ==
    /\ senderOpen
    /\ offered < MaxFrames
    /\ offered' = offered + 1
    /\ Queued(offered + 1)
    /\ UNCHANGED <<senderOpen, receiver>>

\* Mutant of Flush: it waits until everything can go at once.
FlushWhole ==
    /\ senderOpen
    /\ sendBuffer # <<>>
    /\ Len(sendBuffer) <= Room
    /\ OnWire(sendBuffer)
    /\ sendBuffer' = <<>>
    /\ UNCHANGED <<senderOpen, offered, accepted, receiver>>

\* maester_flush_send_buffer on POLLOUT: as much as the kernel takes.
Flush ==
    /\ senderOpen
    /\ \E n \in 1..Len(sendBuffer) :
        /\ n <= Room
        /\ OnWire(Take(sendBuffer, n))
        /\ sendBuffer' = Drop(sendBuffer, n)
    /\ UNCHANGED <<senderOpen, offered, accepted, receiver>>

\* maester_close_connection_entry at the sender, also after a flush that
\* failed: what waits is dropped, what the kernel has taken still arrives.
CloseSender ==
    /\ MayClose
    /\ senderOpen
    /\ senderOpen' = FALSE
    /\ sendBuffer' = <<>>
    /\ UNCHANGED <<wire, offered, accepted, receiver>>

----------------------------------------------------------------------------
(* Receiver                                                                *)

\* frame_deserialize accepts the first FrameSize bytes: they are one frame,
\* from its first byte to its last, with the right checksum.  Bytes of two
\* frames never add up to a checksum here.
IsFrame(bytes) ==
    \E f \in 1..MaxFrames : f \notin Corrupt /\ bytes = Bytes(f)

\* The number of whole frames' worth of bytes in a buffer, and the k-th.
Whole(buffer) == Len(buffer) \div FrameSize

Chunk(buffer, k) ==
    SubSeq(buffer, (k - 1) * FrameSize + 1, k * FrameSize)

\* How many frames the extraction loop finds before it stops.
Extracted(buffer) ==
    CHOOSE n \in 0..Whole(buffer) :
        /\ \A k \in 1..n : IsFrame(Chunk(buffer, k))
        /\ n < Whole(buffer) => ~IsFrame(Chunk(buffer, n + 1))

\* Mutant of Unread: a bad frame stays in the buffer.
UnreadKept(buffer) == Drop(buffer, Extracted(buffer) * FrameSize)

\* What frame_buffer_extract leaves.  A bad checksum or an invalid frame
\* resets the whole buffer, the bytes after it included.
Unread(buffer) ==
    IF Extracted(buffer) = Whole(buffer)
    THEN Drop(buffer, Extracted(buffer) * FrameSize)
    ELSE <<>>

Found(buffer) == [k \in 1..Extracted(buffer) |-> Chunk(buffer, k)[1][1]]

\* maester_receive_placeholder: one read() of at most a frame's size, then
\* every frame the buffer holds.
Read ==
    /\ receiverOpen
    /\ \E n \in 1..FrameSize :
        /\ n <= Len(wire)
        /\ wire' = Drop(wire, n)
        /\ IF Fits(recvBuffer, Take(wire, n))
           THEN LET buffer == recvBuffer \o Take(wire, n) IN
                /\ delivered' = delivered \o Found(buffer)
                /\ recvBuffer' = Unread(buffer)
           ELSE recvBuffer' = <<>> /\ UNCHANGED delivered
    /\ UNCHANGED <<receiverOpen, sender>>

\* read() returns 0
EndOfFile ==
    /\ receiverOpen
    /\ ~senderOpen
    /\ wire = <<>>
    /\ receiverOpen' = FALSE
    /\ recvBuffer' = <<>>
    /\ UNCHANGED <<sender, wire, delivered>>

\* POLLERR or POLLHUP: the receiver closes at once, what it has not read is
\* lost, and the sender has yet to notice.
Hangup ==
    /\ MayClose
    /\ receiverOpen
    /\ receiverOpen' = FALSE
    /\ recvBuffer' = <<>>
    /\ wire' = <<>>
    /\ UNCHANGED <<sender, delivered>>

----------------------------------------------------------------------------

Init ==
    /\ sendBuffer = <<>> /\ wire = <<>> /\ recvBuffer = <<>>
    /\ senderOpen = TRUE /\ receiverOpen = TRUE
    /\ offered = 0 /\ accepted = <<>> /\ delivered = <<>>

Next ==
    \/ SendFrame \/ Flush \/ CloseSender
    \/ Read \/ EndOfFile \/ Hangup

Spec == Init /\ [][Next]_vars

\* poll() reports what is readable and, while bytes wait, what is writable.
FairSpec == Spec /\ WF_vars(Flush) /\ WF_vars(Read) /\ WF_vars(EndOfFile)

----------------------------------------------------------------------------
(* Properties                                                              *)

StreamTypeOK ==
    /\ sendBuffer \in Seq(Byte) /\ Len(sendBuffer) <= Capacity
    /\ wire \in Seq(Byte) /\ Len(wire) <= WireCapacity
    /\ recvBuffer \in Seq(Byte)
    /\ senderOpen \in BOOLEAN /\ receiverOpen \in BOOLEAN
    /\ offered \in 0..MaxFrames
    /\ accepted \in Seq(1..MaxFrames)
    /\ delivered \in Seq(1..MaxFrames)

\* Between two reads the receive buffer holds less than one frame, whatever
\* the kernel cuts and whatever is corrupt: the branch of
\* maester_receive_placeholder that drops data on overflow is never taken.
RecvBufferBounded == Len(recvBuffer) < FrameSize

\* What the receiver has handled is a beginning of what maester_send_frame
\* took: a frame it refused never arrives, one it took arrives once, in its
\* turn, and never behind one that is lost.  (Good frames behind a corrupt
\* one are lost: GoodFramesArrive.)
ArrivedAsAccepted ==
    /\ Len(delivered) <= Len(accepted)
    /\ delivered = Take(accepted, Len(delivered))

\* Every frame that maester_send_frame took is handled by the receiver, or
\* the connection is closed at one of its ends.  A corrupt frame is not
\* handled, and it may cost the frames after it (GoodFramesArrive).
AcceptedArrive ==
    \A f \in {g \in 1..MaxFrames : \A c \in Corrupt : g < c} :
        (\E i \in DOMAIN accepted : accepted[i] = f)
        ~> \/ \E i \in DOMAIN delivered : delivered[i] = f
           \/ ~senderOpen
           \/ ~receiverOpen

\* Of the frames taken only the corrupt ones are discarded (the statement of
\* the project: send a NACK and discard the incorrect message).
GoodFramesArrive ==
    \A f \in (1..MaxFrames) \ Corrupt :
        (\E i \in DOMAIN accepted : accepted[i] = f)
        ~> (\E i \in DOMAIN delivered : delivered[i] = f)

----------------------------------------------------------------------------
(* Refinement: the stream is a FrameChannel whose queue is the frames with *)
(* their last byte still on the way, as long as no good frame follows a    *)
(* corrupt one: that one is a lost tail of the channel.                    *)

\* Nothing of what waits for a receiver that has closed will arrive.
InFlight ==
    IF receiverOpen THEN recvBuffer \o wire \o sendBuffer ELSE <<>>

\* The frames whose last byte is among these, in their order.
FramesIn(bytes) ==
    LET upTo[i \in 0..Len(bytes)] ==
            IF i = 0 THEN <<>>
            ELSE IF bytes[i][2] = FrameSize
                 THEN Append(upTo[i - 1], bytes[i][1])
                 ELSE upTo[i - 1]
    IN  upTo[Len(bytes)]

Channel == INSTANCE FrameChannel WITH
    Frames    <- 1..MaxFrames,
    queue     <- FramesIn(InFlight),
    delivered <- delivered

KeepsTheChannel == Channel!ChannelSpec

=============================================================================
