\* Seven parts of the backend and of the administration, one at a time.
SPECIFICATION ServicesSpec
CONSTANTS
    BtcHandlers = {h1, h2}
    BtcIds = {b1, b2, b3}
    PayerKeys = {k1}
    BtcLimit = 1
    NoBtcHandler = none
    LedgerWallets = {"wa", "tr"}
    Treasury = "tr"
    SimIds = {"s1"}
    LedgerTxs = {"x1", "x2"}
    LedgerAmounts = {1}
    TrackHandlers = {"t1", "t2"}
    QuoteHandlers = {"q1", "q2"}
    MaxTime = 5
    QuoteTtl = 2
    CurrenciesTtl = 3
    Scale = 2
    AssetDecimals = 3
    TokenTexts <- MCTokens
    TierTexts <- MCTiers
    SpotTexts <- MCSpots
    MaxPurchases = 2
    BlogAdmins = {e1, e2}
    PostIds = {p1, p2}
    ImageIds = {i1}
    Slugs = {"a", "b"}
    AdminEmails = {"e1", "e2"}
    LegacyAdmin = "e1"
    Passwords = {"pw"}
    AdminHandlers = {a1, a2}
    MaxRedirects = 2
INVARIANTS
    ServicesTypeOK
    DerivedIndexIsFree
    
    LedgerIsEarned
    RowSpendsSimulation
    PricesAreRecent
    NeverOvercharged
    AverageIsNotDearer
    MigrationsApply
    RevertRestores
    
    AddressesDistinct
    AdminRowsInOrder
    RedirectsEnd
PROPERTIES
    AllocatesInOrder
    
    ImagesLeaveByOwner
VIEW RunningService
CHECK_DEADLOCK FALSE
