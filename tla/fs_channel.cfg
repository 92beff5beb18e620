\* Partial sends, cut reads, closes, and a last frame that is corrupt: the
\* frames still form a channel, an open connection delivers every good frame
\* that was taken, and the receive buffer never overflows.
\* The frames carry names of up to three characters in fields of two.
SPECIFICATION FairSpec
CONSTANTS
    FrameSize = 3
    WireCapacity <- ShortWire
    MaxFrames = 7
    Corrupt = {7}
    MayClose = TRUE
    ByteValues = 3
    FieldLen = 2
    MaxData = 2
    MaxText = 3
INVARIANTS
    StreamTypeOK
    RecvBufferBounded
    HandledAsSent
    ChecksumTells
    ArrivedAsAccepted
PROPERTIES
    KeepsTheChannel
    AcceptedArrive
\* Everything may have been sent and read, or the connection be closed.
CHECK_DEADLOCK FALSE
