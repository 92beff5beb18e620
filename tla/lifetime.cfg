\* Two lives of a Maester with three products, interrupts and kills at every
\* step, and a cart whose quantities overflow.
SPECIFICATION FairSpec
CONSTANTS
    Bread = Bread
    Salt = Salt
    Wine = Wine
    D = D
    K = K
    V = V
    DEFAULT = DEFAULT
    NoRealm = NoRealm
    Products <- ThreeProducts
    Inventory <- FullInventory
    MaxLines = 2
    MaxInt = 3
    MaxLives = 2
    Names <- MCNames
    Hops <- MCHops
    Me = D
    ConfigFiles <- ShortFiles
INVARIANTS
    LifetimeTypeOK
    StockIsABeginning
    OrderlyEndsKeepTheStock
    OnlyOverflowSpoilsLines
    LoadedRoutesAreTheTable
PROPERTIES
    CartIsABasket
    InterruptEndsTheLoop
\* The process may have been started as often as it will be.
CHECK_DEADLOCK FALSE
