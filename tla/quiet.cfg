\* What must happen: pledges end, frames are delivered or dropped, closed
\* connections are closed at the other end too.
SPECIFICATION FairSpec
CONSTANTS
    D = D
    K = K
    V = V
    VAmp = VAmp
    DEFAULT = DEFAULT
    NoRealm = NoRealm
    Realms <- Three
    Names <- AllNames
    Cleaned <- CleanedNames
    Routes <- LineRoutes
    Targets <- OnlyDPledges
    Traders = {}
    Leavers = {K}
    Crashers = {V}
    LaterPhase = {}
    LongAddresses = {}
    MaxAlliances = 2
    MaxConns = 4
    KernelFrames = 2
    SendBufferFrames = 1
    MaxCommands = 3
    MaxRestarts = 0
PROPERTIES
    PledgeEnds
    FramesDrain
    ClosedIsNoticed
\* The users may have typed all they will, and every process may be gone.
CHECK_DEADLOCK FALSE
