\* Six connections over five descriptors: the array grows from four entries
\* to eight, in the middle of a turn or between two.
SPECIFICATION Spec
CONSTANTS
    H1 = H1
    H2 = H2
    NoLabel = NoLabel
    Hops <- TwoHops
    MaxFds = 5
    MaxConns = 6
SYMMETRY HopSymmetry
INVARIANTS
    PoolTypeOK
    FdsTracked
    EventsReachTheirConnection
    FourConnectionsAreSafe
\* The process may have ended, and nothing is said of it once it uses freed
\* memory.
CHECK_DEADLOCK FALSE
