\* Two requests at a time and two server processes that scan, off Ethereum.
SPECIFICATION Spec
CONSTANTS
    Intents = {1}
    Actions = {1}
    Txs = {t1, t2}
    NoTx = NoTx
    Senders = {w}
    NoSender = NoSender
    Chains = {"SOLANA", "BITCOIN", "TRON"}
    Amounts = {1}
    IntentTTL = 2
    Grace = 1
    ActionTTL = 1
    Confirmations = 2
    ScanWindow = 2
    BatchSize = 2
    OpenBtcLimit = 3
    Handlers = {h1, h2}
    Scanners = {s1, s2}
    NoScanner = NoScanner
    MaxTime = 4
PROPERTY SignatureKept
PROPERTY UsedWithPayment
 
 
SYMMETRY Symmetry
