\* Two checkouts with overlapping runs and a reload; two wallet accounts and their sessions.
SPECIFICATION PageSpec
CONSTANTS
    Checkouts = {1, 2}
    Runs = {1, 2}
    MaxFailures = 1
    MaxReloads = 1
    WalletAccounts = {"a1", "a2"}
    VerifyAccounts = {"a1", "a2"}
    ChallengeIds = {"c1"}
    MaxSessions = 2
    MaxRequests = 2
    WalletHooks = {"nav", "buy"}
    ConnectAccounts = {"a1", "a2"}
    MaxOrphans = 2
INVARIANTS
    PageTypeOK
    
    SpinnerIsBacked
    PaidByPayer
    CookieIsLive
    SessionsAreSigned
    VerifiedHasSession
    SpinnerHasCause
PROPERTIES
    
    PromptsAreWanted
VIEW RunningPart
CHECK_DEADLOCK FALSE
