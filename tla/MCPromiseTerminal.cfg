\* The webhook and the scanner on one Ethereum checkout.
SPECIFICATION Spec
CONSTANTS
    Intents = {1}
    Actions = {}
    Txs = {t1, t2}
    NoTx = NoTx
    Senders = {w}
    NoSender = NoSender
    Chains = {"ETHEREUM"}
    Amounts = {1}
    IntentTTL = 1
    Grace = 1
    ActionTTL = 1
    Confirmations = 2
    ScanWindow = 2
    BatchSize = 2
    OpenBtcLimit = 3
    Handlers = {h1}
    Scanners = {s1}
    NoScanner = NoScanner
    MaxTime = 3
PROPERTY TerminalIsFinal
SYMMETRY Symmetry
