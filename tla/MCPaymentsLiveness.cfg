\* Two Bitcoin checkouts that expire, under the fairness of the cron.
SPECIFICATION FairSpec
CONSTANTS
    Intents = {1, 2}
    Actions = {1}
    Txs = {t1}
    NoTx = NoTx
    Senders = {w}
    NoSender = NoSender
    Chains = {"BITCOIN"}
    Amounts = {1}
    IntentTTL = 1
    Grace = 1
    ActionTTL = 1
    Confirmations = 2
    ScanWindow = 2
    BatchSize = 2
    OpenBtcLimit = 3
    Handlers = {h1}
    Scanners = {s1}
    NoScanner = NoScanner
    MaxTime = 2
PROPERTY OverdueCloses
PROPERTY LockReleased
