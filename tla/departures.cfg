\* The sample topology with processes that leave, die and come back, and a
\* user who types the name of V with an ampersand.
SPECIFICATION Spec
CONSTANTS
    D = D
    K = K
    V = V
    VAmp = VAmp
    DEFAULT = DEFAULT
    NoRealm = NoRealm
    Realms <- Three
    Names <- AllNames
    Cleaned <- CleanedNames
    Routes <- SampleRoutes
    Targets <- DMisspells
    Traders = {}
    Leavers = {V}
    Crashers = {D, K, V}
    LaterPhase = {}
    LongAddresses = {}
    MaxAlliances = 2
    MaxConns = 4
    KernelFrames = 1
    SendBufferFrames = 1
    MaxCommands = 2
    MaxRestarts = 1
INVARIANTS
    DuplicatesAreMisspelt
    EntriesHaveOrigin
    MissionTracked
    FarewellsMissOpeners
PROPERTIES
    KeepsTheLedger
\* The users may have typed all they will, and every process may be gone.
CHECK_DEADLOCK FALSE
