\* One corrupt frame, and what becomes of the good ones after it.
SPECIFICATION FairSpec
CONSTANTS
    FrameSize = 3
    WireCapacity <- LongWire
    MaxFrames = 3
    Corrupt = {1}
    MayClose = FALSE
    ByteValues = 3
    FieldLen = 2
    MaxData = 2
    MaxText = 3
PROPERTIES
    GoodFramesArrive
\* Everything may have been sent and read, or the connection be closed.
CHECK_DEADLOCK FALSE
