\* One checkout on three chains with a reader of the books; the buy page with two checkouts.
SPECIFICATION ViewsSpec
CONSTANTS
    Intents = {1}
    Actions = {1}
    Txs = {t1}
    NoTx = NoTx
    Senders = {w}
    NoSender = NoSender
    Chains = {"ETHEREUM", "SOLANA", "BITCOIN"}
    Amounts = {1, 2}
    IntentTTL = 1
    Grace = 1
    ActionTTL = 1
    Confirmations = 1
    ScanWindow = 2
    BatchSize = 1
    OpenBtcLimit = 3
    Handlers = {h1}
    Scanners = {s1}
    NoScanner = NoScanner
    MaxTime = 2
    Checkouts = {1, 2}
    Runs = {1}
    MaxFailures = 2
    MaxReloads = 1
INVARIANT CountedIsShown
PROPERTY SettlementShown
CHECK_DEADLOCK FALSE
