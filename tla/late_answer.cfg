\* An answer to a pledge that timed out, while another pledge is active.
SPECIFICATION Spec
CONSTANTS
    D = D
    K = K
    V = V
    VAmp = VAmp
    DEFAULT = DEFAULT
    NoRealm = NoRealm
    Realms <- Three
    Names <- AllNames
    Cleaned <- CleanedNames
    Routes <- SampleRoutes
    Targets <- FromDToBoth
    Traders = {}
    Leavers = {}
    Crashers = {}
    LaterPhase = {}
    LongAddresses = {}
    MaxAlliances = 2
    MaxConns = 4
    KernelFrames = 2
    SendBufferFrames = 1
    MaxCommands = 3
    MaxRestarts = 0
INVARIANTS
    AllyEndpointIsItsOwn
\* The users may have typed all they will, and every process may be gone.
CHECK_DEADLOCK FALSE
