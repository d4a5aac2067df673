\* One TRON checkout whose action expires before the grace period ends.
SPECIFICATION Spec
CONSTANTS
    Intents = {1}
    Actions = {1}
    Txs = {t1}
    NoTx = NoTx
    Senders = {w}
    NoSender = NoSender
    Chains = {"TRON"}
    Amounts = {1}
    IntentTTL = 1
    Grace = 1
    ActionTTL = 1
    Confirmations = 2
    ScanWindow = 2
    BatchSize = 2
    OpenBtcLimit = 3
    Handlers = {h1}
    Scanners = {s1}
    NoScanner = NoScanner
    MaxTime = 3
INVARIANT BroadcastStaysSubmittable
SYMMETRY Symmetry
