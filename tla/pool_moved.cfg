\* A fifth connection while an event is handled.
SPECIFICATION Spec
CONSTANTS
    H1 = H1
    H2 = H2
    NoLabel = NoLabel
    Hops <- TwoHops
    MaxFds = 5
    MaxConns = 6
SYMMETRY HopSymmetry
INVARIANTS
    PointersStayGood
\* The process may have ended, and nothing is said of it once it uses freed
\* memory.
CHECK_DEADLOCK FALSE
