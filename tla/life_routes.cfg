\* A route section with an empty line.
SPECIFICATION Spec
CONSTANTS
    Bread = Bread
    Salt = Salt
    Wine = Wine
    D = D
    K = K
    V = V
    DEFAULT = DEFAULT
    NoRealm = NoRealm
    Products <- ThreeProducts
    Inventory <- FullInventory
    MaxLines = 2
    MaxInt = 3
    MaxLives = 1
    Names <- MCNames
    Hops <- MCHops
    Me = D
    ConfigFiles <- ShortFiles
INVARIANTS
    RoutesAreReadUntilEOF
\* The process may have been started as often as it will be.
CHECK_DEADLOCK FALSE
