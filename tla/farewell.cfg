\* A realm that leaves, and an ally it reaches by the default route.
SPECIFICATION FairSpec
CONSTANTS
    D = D
    K = K
    V = V
    VAmp = VAmp
    DEFAULT = DEFAULT
    NoRealm = NoRealm
    Realms <- Three
    Names <- AllNames
    Cleaned <- CleanedNames
    Routes <- SampleRoutes
    Targets <- OnlyDPledges
    Traders = {}
    Leavers = {D}
    Crashers = {}
    LaterPhase = {}
    LongAddresses = {}
    MaxAlliances = 2
    MaxConns = 4
    KernelFrames = 2
    SendBufferFrames = 1
    MaxCommands = 2
    MaxRestarts = 0
PROPERTIES
    AlliesLearnOfExit
\* The users may have typed all they will, and every process may be gone.
CHECK_DEADLOCK FALSE
