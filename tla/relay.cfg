\* The sample topology: D pledges to K and, through it, to V; V answers
\* directly, pledges to D and sends the requests of a later phase; D also
\* trades, and the address of K is too long for the origin of a frame.  Full
\* queues, error loops, a table of one entry.
SPECIFICATION Spec
CONSTANTS
    D = D
    K = K
    V = V
    VAmp = VAmp
    DEFAULT = DEFAULT
    NoRealm = NoRealm
    Realms <- Three
    Names <- AllNames
    Cleaned <- CleanedNames
    Routes <- SampleRoutes
    Targets <- DPledgesToBoth
    Traders = {D}
    Leavers = {}
    Crashers = {}
    LaterPhase = {V}
    LongAddresses = {K}
    MaxAlliances = 1
    MaxConns = 4
    KernelFrames = 1
    SendBufferFrames = 1
    MaxCommands = 3
    MaxRestarts = 0
INVARIANTS
    TypeOK
    OneConnectionPerLabel
    LocalConsent
PROPERTIES
    OneAnswerPerPledge
    MissionNotReplaced
\* The users may have typed all they will, and every process may be gone.
CHECK_DEADLOCK FALSE
