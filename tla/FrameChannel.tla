---------------------------- MODULE FrameChannel ----------------------------
(***************************************************************************)
(* What one direction of a connection promises: frames come out whole,     *)
(* once and in the order in which they went in.  Closing may lose frames   *)
(* from the end of the queue, never from its middle.                       *)
(***************************************************************************)
EXTENDS Naturals, Sequences

CONSTANT Frames         \* what is sent

VARIABLES
    queue,              \* frames on their way
    delivered           \* frames handed to the receiver's handler

channel == <<queue, delivered>>

ChannelInit == queue = <<>> /\ delivered = <<>>

Put(f) == queue' = Append(queue, f) /\ UNCHANGED delivered

\* One or more frames, in order: one read may complete several.
Deliver ==
    \E n \in 1..Len(queue) :
        /\ delivered' = delivered \o SubSeq(queue, 1, n)
        /\ queue' = SubSeq(queue, n + 1, Len(queue))

LoseTail ==
    /\ \E n \in 0..Len(queue) : queue' = SubSeq(queue, 1, n)
    /\ UNCHANGED delivered

ChannelNext == (\E f \in Frames : Put(f)) \/ Deliver \/ LoseTail

ChannelSpec == ChannelInit /\ [][ChannelNext]_channel

=============================================================================
