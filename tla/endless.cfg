\* Default routes that point at each other, and a DISCONNECT nobody owns.
SPECIFICATION FairSpec
CONSTANTS
    D = D
    K = K
    V = V
    VAmp = VAmp
    DEFAULT = DEFAULT
    NoRealm = NoRealm
    Realms <- Three
    Names <- AllNames
    Cleaned <- CleanedNames
    Routes <- SampleRoutes
    Targets <- OuterPledges
    Traders = {}
    Leavers = {V}
    Crashers = {}
    LaterPhase = {}
    LongAddresses = {}
    MaxAlliances = 2
    MaxConns = 4
    KernelFrames = 2
    SendBufferFrames = 1
    MaxCommands = 2
    MaxRestarts = 0
PROPERTIES
    FramesDrain
\* The users may have typed all they will, and every process may be gone.
CHECK_DEADLOCK FALSE
