------------------------------ MODULE WalletProofs ------------------------------
(***************************************************************************)
(* Proofs about WalletSend, ProviderSync and WalletSession, for any set of *)
(* accounts, any finite number of hooks, any number of challenges,         *)
(* sessions and requests at work.                                          *)
(***************************************************************************)
EXTENDS WalletSend, ProviderSync, WalletSession, FiniteSetTheorems, TLAPS

-----------------------------------------------------------------------------
(* Paying.                                                                 *)

(* A payment under way holds a connection, and one that was checked has    *)
(* asked one.                                                              *)
PaymentIsConnected ==
    /\ payment # NoPayment => payment.held \in Connections
    /\ payment.stage \in {"sign", "broadcast"} => payment.asked \in Connections

(* Why the account is right: an Ethereum wallet is asked by the account,   *)
(* the Solana and TRON transactions name it.                               *)
PayerIsNamed ==
    /\ rail = "ETHEREUM" /\ payment.stage = "sign" => payment.asked.account = payment.payer
    /\ rail \in {"SOLANA", "TRON"} /\ payment.stage \in {"check", "sign", "broadcast"} =>
           payment.owner = payment.payer
    /\ payment.stage = "broadcast" => rail = "TRON"

SendInv == SendTypeOK /\ PaymentIsConnected /\ PayerIsNamed /\ PaidByPayer

LEMMA SendInitHolds == SendInit => SendInv
BY DEF SendInit, SendInv, SendTypeOK, PaymentIsConnected, PayerIsNamed, PaidByPayer, NoPayment,
       NoTransfer, Connectors

(* A row of a payment with a field or two replaced.                        *)
LEMMA PaymentRows ==
    ASSUME payment \in PaymentType
    PROVE  /\ \A stage \in PaymentStages :
                  LET new == [payment EXCEPT !.stage = stage]
                  IN  /\ new \in PaymentType
                      /\ new.stage = stage /\ new.payer = payment.payer /\ new.owner = payment.owner
                      /\ new.held = payment.held /\ new.asked = payment.asked
           /\ \A owner \in WalletAccounts \cup {NoAccount} :
                  LET new == [payment EXCEPT !.stage = "check", !.owner = owner]
                  IN  /\ new \in PaymentType
                      /\ new.stage = "check" /\ new.payer = payment.payer /\ new.owner = owner
                      /\ new.held = payment.held
           /\ \A asked \in Connections :
                  LET new == [payment EXCEPT !.stage = "sign", !.asked = asked]
                  IN  /\ new \in PaymentType
                      /\ new.stage = "sign" /\ new.payer = payment.payer
                      /\ new.owner = payment.owner /\ new.held = payment.held /\ new.asked = asked
BY DEF PaymentType, PaymentStages

LEMMA SendStep == SendInv /\ [SendNext]_sendVars => SendInv'
<1> SUFFICES ASSUME SendInv, [SendNext]_sendVars PROVE SendInv'
    OBVIOUS
<1> USE DEF SendInv
<1>1. ASSUME UNCHANGED <<rail, payment, transfer>>, SendTypeOK' PROVE SendInv'
    BY <1>1 DEF PaymentIsConnected, PayerIsNamed, PaidByPayer
<1>2. ASSUME NEW c \in Connectors, SelectConnector(c) PROVE SendInv'
    BY <1>1, <1>2 DEF SelectConnector, SendTypeOK
<1>3. ASSUME NEW c \in Connectors, ConnectRuntime(c) PROVE SendInv'
    BY <1>1, <1>3 DEF ConnectRuntime, SendTypeOK, Connections
<1>4. ASSUME NEW c \in Connectors, NEW a \in WalletAccounts \cup {NoAccount}, UseWallet(c, a)
      PROVE  SendInv'
    BY <1>1, <1>4 DEF UseWallet, SendTypeOK
<1>5. CASE OpenSelector
    BY <1>1, <1>5 DEF OpenSelector, ResolveRuntime, Configured, ConnectorsOf, Connectors, SendTypeOK
<1>6. CASE ConnectSolana \/ DisconnectWallet
    <2>1. connection' \in Connections \cup {NoConnection}
        BY <1>6 DEF ConnectSolana, DisconnectWallet, Connectors, Connections, SendTypeOK
    <2>2. QED
        BY <1>1, <1>6, <2>1 DEF ConnectSolana, DisconnectWallet, SendTypeOK
<1>7. CASE Follow
    <2>1. PICK c \in Connectors :
              connection' = IF extensions[c] = NoAccount THEN NoConnection
                            ELSE [connector |-> c, account |-> extensions[c]]
        BY <1>7 DEF Follow, Connectors, Connections, SendTypeOK
    <2>2. connection' \in Connections \cup {NoConnection}
        BY <2>1 DEF Connections, SendTypeOK
    <2>3. QED
        BY <1>1, <1>7, <2>2 DEF Follow, SendTypeOK
<1>8. ASSUME NEW payer \in WalletAccounts, StartPayment(payer) PROVE SendInv'
    BY <1>8 DEF StartPayment, walletVars, SendTypeOK, PaymentType, PaymentStages, PaymentIsConnected,
                PayerIsNamed, PaidByPayer
<1>9. CASE CreatedIntent
    BY <1>9 DEF CreatedIntent, Pay, walletVars, SendTypeOK, PaymentType, PaymentStages,
                PaymentIsConnected, PayerIsNamed, PaidByPayer, NoPayment
<1>10. CASE PreparedAction
    <2>1. /\ payment.stage = "prepare" /\ payment \in PaymentType /\ payment # NoPayment
          /\ UNCHANGED <<rail, walletVars, transfer>>
        BY <1>10 DEF PreparedAction, SendTypeOK, NoPayment
    <2>2. payment.payer \in WalletAccounts
        BY <2>1 DEF PaymentType
    <2>3. PICK owner \in WalletAccounts \cup {NoAccount} :
              /\ payment' = [payment EXCEPT !.stage = "check", !.owner = owner]
              /\ rail \in {"SOLANA", "TRON"} => owner = payment.payer
        BY <1>10, <2>2 DEF PreparedAction, EthereumAction, SolanaAction, TronAction, BitcoinAction,
                           SendTypeOK, Rails
    <2>4. /\ payment' \in PaymentType
          /\ payment'.stage = "check" /\ payment'.payer = payment.payer /\ payment'.owner = owner
          /\ payment'.held = payment.held
        BY <2>1, <2>3, PaymentRows
    <2>5. QED
        BY <2>1, <2>3, <2>4
           DEF walletVars, SendTypeOK, PaymentIsConnected, PayerIsNamed, PaidByPayer
<1>11. CASE CheckAccount
    <2>1. /\ payment.stage = "check" /\ payment \in PaymentType /\ payment # NoPayment
          /\ UNCHANGED <<rail, walletVars, transfer>>
        BY <1>11 DEF CheckAccount, SendTypeOK, NoPayment
    <2>2. payment.held \in Connections /\ payment.payer \in WalletAccounts
        BY <2>1 DEF PaymentIsConnected, PaymentType
    <2>3. PICK asked \in Connections :
              /\ payment' = [payment EXCEPT !.stage = "sign", !.asked = asked]
              /\ rail = "ETHEREUM" => asked.account = payment.payer
        <3>1. CASE rail = "ETHEREUM" /\ CheckEthereum
            <4>1. [connector |-> payment.held.connector, account |-> payment.payer] \in Connections
                BY <2>2 DEF Connections
            <4>2. payment' = [payment EXCEPT !.stage = "sign",
                      !.asked = [connector |-> payment.held.connector, account |-> payment.payer]]
                BY <3>1 DEF CheckEthereum, Ask
            <4>3. QED
                BY <4>1, <4>2
        <3>2. CASE rail = "SOLANA" /\ CheckSolana
            BY <3>2 DEF CheckSolana, Ask, Connections, SendTypeOK
        <3>3. CASE rail = "TRON" /\ CheckTron
            BY <2>2, <3>3 DEF CheckTron, Ask, Connections, Connectors, ResolveRuntime, Configured,
                              ConnectorsOf
        <3>4. CASE rail = "BITCOIN" /\ CheckBitcoin
            BY <2>2, <3>4 DEF CheckBitcoin, Ask, Connections, Connectors, ResolveRuntime, Configured,
                              ConnectorsOf
        <3>5. QED
            BY <1>11, <3>1, <3>2, <3>3, <3>4 DEF CheckAccount
    <2>4. /\ payment' \in PaymentType
          /\ payment'.stage = "sign" /\ payment'.payer = payment.payer
          /\ payment'.owner = payment.owner /\ payment'.held = payment.held
          /\ payment'.asked = asked
        BY <2>1, <2>3, PaymentRows
    <2>5. QED
        BY <2>1, <2>2, <2>3, <2>4
           DEF walletVars, SendTypeOK, PaymentIsConnected, PayerIsNamed, PaidByPayer
<1>12. CASE SignAndSend
    <2>1. PICK from \in WalletAccounts :
              /\ ChainAccepts(from)
              /\ rail # "BITCOIN" => from = payment.asked.account
              /\ transfer' = [payer |-> payment.payer, from |-> from]
        BY <1>12 DEF SignAndSend, SendTypeOK, PaymentIsConnected, Connections
    <2>2. /\ payment.stage = "sign" /\ rail # "TRON" /\ payment \in PaymentType
          /\ payment' = NoPayment /\ UNCHANGED <<rail, walletVars>>
        BY <1>12 DEF SignAndSend, SendTypeOK, NoPayment
    <2>3. payment.payer \in WalletAccounts
        BY <2>2 DEF PaymentType
    <2>4. rail # "BITCOIN" => from = payment.payer
        BY <2>1, <2>2, <2>3, WalletAssumption DEF ChainAccepts, PayerIsNamed, SendTypeOK, Rails
    <2>5. QED
        BY <2>1, <2>2, <2>3, <2>4
           DEF walletVars, SendTypeOK, PaymentIsConnected, PayerIsNamed, PaidByPayer, NoPayment
<1>13. CASE SignTron
    <2>1. /\ payment.stage = "sign" /\ rail = "TRON" /\ payment \in PaymentType
          /\ payment.asked \in Connections /\ payment.held \in Connections
          /\ UNCHANGED <<rail, walletVars, transfer>>
        BY <1>13 DEF SignTron, SendTypeOK, PaymentIsConnected, NoPayment
    <2>2. PICK a \in WalletAccounts :
              payment' = [payment EXCEPT !.stage = "broadcast", !.asked.account = a]
        BY <1>13, <2>1 DEF SignTron, SendTypeOK, Connections
    <2>3. [payment.asked EXCEPT !.account = a] \in Connections
        BY <2>1 DEF Connections
    <2>4. /\ payment' \in PaymentType
          /\ payment'.stage = "broadcast" /\ payment'.payer = payment.payer
          /\ payment'.owner = payment.owner /\ payment'.held = payment.held
          /\ payment'.asked \in Connections
        <3>1. payment' = [payment EXCEPT !.stage = "broadcast",
                              !.asked = [payment.asked EXCEPT !.account = a]]
            BY <2>2
        <3>2. QED
            BY <2>1, <2>3, <3>1 DEF PaymentType, PaymentStages
    <2>5. QED
        BY <2>1, <2>4 DEF walletVars, SendTypeOK, PaymentIsConnected, PayerIsNamed, PaidByPayer
<1>14. CASE BroadcastTron
    <2>1. /\ payment.stage = "broadcast" /\ payment \in PaymentType
          /\ payment.asked \in Connections
          /\ ChainAccepts(payment.asked.account)
          /\ transfer' = [payer |-> payment.payer, from |-> payment.asked.account]
          /\ payment' = NoPayment /\ UNCHANGED <<rail, walletVars>>
        BY <1>14 DEF BroadcastTron, SendTypeOK, PaymentIsConnected, NoPayment
    <2>2. payment.payer \in WalletAccounts /\ payment.asked.account \in WalletAccounts
        BY <2>1 DEF PaymentType, Connections
    <2>3. payment.asked.account = payment.payer
        BY <2>1, <2>2, WalletAssumption DEF ChainAccepts, PayerIsNamed
    <2>4. QED
        BY <2>1, <2>2, <2>3
           DEF walletVars, SendTypeOK, PaymentIsConnected, PayerIsNamed, PaidByPayer, NoPayment
<1>15. CASE PaymentFails
    BY <1>15 DEF PaymentFails, walletVars, SendTypeOK, PaymentIsConnected, PayerIsNamed, PaidByPayer,
                 NoPayment
<1>16. CASE UNCHANGED sendVars
    BY <1>1, <1>16 DEF sendVars, walletVars, SendTypeOK
<1>17. QED
    BY <1>2, <1>3, <1>4, <1>5, <1>6, <1>7, <1>8, <1>9, <1>10, <1>11, <1>12, <1>13, <1>14, <1>15, <1>16
       DEF SendNext

(* However the buyer switches accounts and wallets between the steps of a  *)
(* payment, and whenever a wallet answers, an account other than the one   *)
(* the checkout was opened for never pays it on the rails of Ethereum,     *)
(* Solana and TRON.                                                        *)
THEOREM PaidByPayerHolds == SendSpec => []PaidByPayer
<1>1. SendInit => SendInv
    BY SendInitHolds
<1>2. SendInv /\ [SendNext]_sendVars => SendInv'
    BY SendStep
<1>3. SendInv => PaidByPayer
    BY DEF SendInv
<1>4. QED
    BY <1>1, <1>2, <1>3, PTL DEF SendSpec

-----------------------------------------------------------------------------
(* Connecting.                                                             *)

(* A page that is closed watches no connect and waits for nothing.         *)
ClosedIsQuiet == ~mounted => mutation = AllIdle /\ asking = {} /\ leaving = {}

(* A hook looks for a wallet only while a prompt is wanted.                *)
AskingIsDue ==
    \A h \in asking :
        /\ h \in WalletHooks
        /\ wagmiAccount = NoProvider /\ ~provider.suppressed /\ provider.issue = "none"

SyncInv == ProviderTypeOK /\ ClosedIsQuiet /\ AskingIsDue /\ SpinnerHasCause

LEMMA SyncInitHolds == SyncInit => SyncInv
<1> SUFFICES ASSUME SyncInit PROVE SyncInv
    OBVIOUS
<1>1. initialProviderState \in [address : ConnectAccounts \cup {NoProvider}, pending : BOOLEAN,
          issue : MarketingWalletConnectionErrorCode \cup {"none"}, suppressed : BOOLEAN]
    BY DEF initialProviderState
<1>2. ProviderTypeOK
    <2>1. mounted \in BOOLEAN
        BY DEF SyncInit
    <2>2. provider = initialProviderState
        BY DEF SyncInit
    <2>3. mutation \in [WalletHooks -> {"idle", "clicked", "hydrated", "failed"}]
          /\ orphans \in 0..MaxOrphans /\ wagmiAccount \in ConnectAccounts \cup {NoProvider}
          /\ asking \subseteq WalletHooks /\ leaving \subseteq WalletHooks
        BY SyncAssumption DEF SyncInit, AllIdle
    <2>4. QED
        BY <1>1, <2>1, <2>2, <2>3 DEF ProviderTypeOK
<1>3. ClosedIsQuiet /\ AskingIsDue /\ SpinnerHasCause
    BY DEF SyncInit, ClosedIsQuiet, AskingIsDue, SpinnerHasCause
<1>4. QED
    BY <1>2, <1>3 DEF SyncInv

Mutations == [WalletHooks -> {"idle", "clicked", "hydrated", "failed"}]

Providers ==
    [address : ConnectAccounts \cup {NoProvider}, pending : BOOLEAN,
     issue : MarketingWalletConnectionErrorCode \cup {"none"}, suppressed : BOOLEAN]

(* The spinner turns for one of the mutations.                             *)
Caused(m, p) == p.pending => \E h \in WalletHooks : Pending(m, h)

(* A render of typed arguments keeps what it concerns of the invariant.    *)
LEMMA RenderKeeps ==
    ASSUME NEW m \in Mutations, NEW acct \in ConnectAccounts \cup {NoProvider},
           NEW p \in Providers, mounted => Caused(m, p),
           Render(m, acct, p), mounted' = mounted, mounted,
           orphans' \in 0..MaxOrphans, leaving' \subseteq WalletHooks
    PROVE  SyncInv'
BY DEF Render, Hydrating, Caused, Pending, SyncInv, ProviderTypeOK, ClosedIsQuiet, AskingIsDue,
       SpinnerHasCause, Mutations, Providers

(* What the effect of a hook writes.                                       *)
LEMMA SyncedState ==
    ASSUME NEW p \in Providers, NEW acct \in ConnectAccounts \cup {NoProvider},
           NEW m \in Mutations, NEW h \in WalletHooks
    PROVE  /\ syncProviderState(p, acct, m, h) \in Providers
           /\ Caused(m, syncProviderState(p, acct, m, h))
<1> DEFINE q == syncProviderState(p, acct, m, h)
<1>1. Pending(m, h) \in BOOLEAN
    BY DEF Pending
<1>2. (IF acct # NoProvider THEN "none" ELSE p.issue) \in MarketingWalletConnectionErrorCode \cup {"none"}
    BY DEF Providers
<1>3. q = [p EXCEPT !.address = acct, !.pending = Pending(m, h),
                    !.issue = IF acct # NoProvider THEN "none" ELSE p.issue]
    BY DEF syncProviderState
<1>4. q \in Providers /\ q.pending = Pending(m, h)
    <2>1. PICK pending \in BOOLEAN : pending = Pending(m, h)
        BY <1>1
    <2>2. PICK issue \in MarketingWalletConnectionErrorCode \cup {"none"} :
              issue = IF acct # NoProvider THEN "none" ELSE p.issue
        BY <1>2
    <2>3. q = [p EXCEPT !.address = acct, !.pending = pending, !.issue = issue]
        BY <1>3, <2>1, <2>2
    <2>4. q \in Providers /\ q.pending = pending
        <3>1. [p EXCEPT !.address = acct, !.pending = pending, !.issue = issue] \in Providers
            BY DEF Providers
        <3>2. [p EXCEPT !.address = acct, !.pending = pending, !.issue = issue].pending = pending
            BY DEF Providers
        <3>3. QED
            BY <2>3, <3>1, <3>2, Zenon
    <2>5. QED
        BY <2>1, <2>4
<1>5. QED
    BY <1>4 DEF Caused

LEMMA IssueKeeps ==
    ASSUME NEW p \in Providers, NEW m, NEW code \in MarketingWalletConnectionErrorCode \cup {"none"}
    PROVE  /\ WithIssue(p, code) \in Providers
           /\ Caused(m, p) => Caused(m, WithIssue(p, code))
BY DEF WithIssue, Providers, Caused

LEMMA AccountKeeps ==
    ASSUME SyncInv, NEW acct \in ConnectAccounts \cup {NoProvider}, NEW m \in Mutations,
           NEW p \in Providers, Caused(m, p), AccountIs(acct, m, p), mounted' = mounted,
           orphans' \in 0..MaxOrphans, leaving' \subseteq WalletHooks, mounted \/ leaving' = {}
    PROVE  SyncInv'
<1>1. CASE ~mounted
    BY <1>1 DEF AccountIs, SyncInv, ProviderTypeOK, ClosedIsQuiet, AskingIsDue, SpinnerHasCause
<1>2. CASE mounted /\ acct = wagmiAccount
    BY <1>2, RenderKeeps DEF AccountIs
<1>3. CASE mounted /\ acct # wagmiAccount
    <2>1. PICK h \in WalletHooks : Render(m, acct, syncProviderState(p, acct, m, h))
        BY <1>3 DEF AccountIs
    <2>2. QED
        BY <1>3, <2>1, SyncedState, RenderKeeps
<1>4. QED
    BY <1>1, <1>2, <1>3

LEMMA SyncStep == SyncInv /\ [SyncNext]_syncVars => SyncInv'
<1> SUFFICES ASSUME SyncInv, [SyncNext]_syncVars PROVE SyncInv'
    OBVIOUS
<1>1. /\ mutation \in Mutations /\ provider \in Providers
      /\ wagmiAccount \in ConnectAccounts \cup {NoProvider}
      /\ orphans \in 0..MaxOrphans /\ leaving \subseteq WalletHooks
      /\ asking \subseteq WalletHooks
    BY DEF SyncInv, ProviderTypeOK, Mutations, Providers
<1>2. mounted => Caused(mutation, provider)
    BY DEF SyncInv, SpinnerHasCause, Caused
<1>3. ~mounted => /\ asking = {} /\ leaving = {}
                  /\ \A h \in WalletHooks : ~Pending(mutation, h)
    BY DEF SyncInv, ClosedIsQuiet, AllIdle, Pending
<1>4. \A h \in WalletHooks, to \in {"idle", "clicked", "hydrated", "failed"} :
          [mutation EXCEPT ![h] = to] \in Mutations
    BY <1>1 DEF Mutations
<1>5. AllIdle \in Mutations
    BY DEF AllIdle, Mutations
<1>6. \A issue \in MarketingWalletConnectionErrorCode \cup {"none"}, suppressed \in BOOLEAN :
          LET p == [provider EXCEPT !.issue = issue, !.suppressed = suppressed]
          IN  p \in Providers /\ (p.pending <=> provider.pending)
    BY <1>1 DEF Providers
<1>7. CASE Open
    <2>1. PICK h \in WalletHooks :
              Render(AllIdle, wagmiAccount, syncProviderState(provider, wagmiAccount, AllIdle, h))
        BY <1>7 DEF Open
    <2>2. PICK p \in Providers : p = syncProviderState(provider, wagmiAccount, AllIdle, h)
        BY <1>1, <1>5, SyncedState
    <2>3. ~p.pending
        <3>1. Caused(AllIdle, p)
            BY <1>1, <1>5, <2>2, SyncedState
        <3>2. QED
            BY <3>1 DEF Caused, AllIdle, Pending
    <2>4. Render(AllIdle, wagmiAccount, p) /\ mounted' /\ UNCHANGED <<orphans, leaving>>
        BY <1>7, <2>1, <2>2 DEF Open
    <2>5. QED
        BY <1>1, <1>5, <2>3, <2>4
           DEF Render, Hydrating, AllIdle, Pending, SyncInv, ProviderTypeOK, ClosedIsQuiet, AskingIsDue,
               SpinnerHasCause, Mutations, Providers
<1>8. CASE Navigate
    <2>1. Cardinality({h \in WalletHooks : Pending(mutation, h)}) \in Nat
        <3>1. IsFiniteSet({h \in WalletHooks : Pending(mutation, h)})
            BY SyncAssumption, FS_Subset
        <3>2. QED
            BY <3>1, FS_CardinalityType
    <2>2. orphans' \in 0..MaxOrphans
        BY <1>1, <1>8, <2>1, SyncAssumption DEF Navigate
    <2>3. ~mounted' /\ mounted' \in BOOLEAN
        BY <1>8 DEF Navigate, Closed
    <2>4. /\ mutation' = AllIdle /\ asking' = {} /\ leaving' = {}
          /\ UNCHANGED <<wagmiAccount, provider>>
        BY <1>8 DEF Navigate, Closed
    <2>5. ProviderTypeOK'
        BY <1>1, <1>5, <2>2, <2>3, <2>4 DEF ProviderTypeOK, Mutations, Providers
    <2>6. QED
        BY <2>3, <2>4, <2>5 DEF SyncInv, ClosedIsQuiet, AskingIsDue, SpinnerHasCause
<1>9. CASE LoadAgain
    <2>1. initialProviderState \in Providers
        BY DEF initialProviderState, Providers
    <2>2. ~mounted' /\ mounted' \in BOOLEAN
        BY <1>9 DEF LoadAgain, Closed
    <2>3. /\ mutation' = AllIdle /\ asking' = {} /\ leaving' = {} /\ orphans' = 0
          /\ wagmiAccount' = NoProvider /\ provider' = initialProviderState
        BY <1>9 DEF LoadAgain, Closed
    <2>4. ProviderTypeOK'
        BY <1>5, <2>1, <2>2, <2>3, SyncAssumption DEF ProviderTypeOK, Mutations, Providers
    <2>5. QED
        BY <2>2, <2>3, <2>4 DEF SyncInv, ClosedIsQuiet, AskingIsDue, SpinnerHasCause
<1>10. ASSUME NEW h \in WalletHooks, HydrateAuthorizedInjectedWallet(h) PROVE SyncInv'
    <2>1. mounted
        BY <1>3, <1>10 DEF HydrateAuthorizedInjectedWallet
    <2> DEFINE p == [provider EXCEPT !.issue = "none", !.pending = TRUE, !.suppressed = FALSE]
    <2>2. p \in Providers
        BY <1>1 DEF Providers
    <2>3. Caused([mutation EXCEPT ![h] = "hydrated"], p)
        BY <1>1 DEF Caused, Pending, Mutations
    <2>4. CASE Render([mutation EXCEPT ![h] = "hydrated"], wagmiAccount, p)
        BY <1>1, <1>4, <1>10, <2>1, <2>2, <2>3, <2>4, RenderKeeps DEF HydrateAuthorizedInjectedWallet
    <2>5. CASE asking' = asking \ {h} /\ UNCHANGED <<mutation, wagmiAccount, provider>>
        BY <1>10, <2>5 DEF HydrateAuthorizedInjectedWallet, SyncInv, ProviderTypeOK, ClosedIsQuiet,
                           AskingIsDue, SpinnerHasCause
    <2>6. QED
        BY <1>10, <2>4, <2>5 DEF HydrateAuthorizedInjectedWallet
<1>11. ASSUME NEW code \in MarketingWalletConnectionErrorCode \cup {"none"}, mounted,
              Render(mutation, wagmiAccount, WithIssue(provider, code)),
              UNCHANGED <<mounted, orphans>>, leaving' \subseteq leaving
       PROVE  SyncInv'
    BY <1>1, <1>2, <1>11, IssueKeeps, RenderKeeps
<1>12. ASSUME NEW h \in WalletHooks, ConnectUnavailable(h) \/ ConnectConnected(h) PROVE SyncInv'
    BY <1>11, <1>12 DEF ConnectUnavailable, ConnectConnected, MarketingWalletConnectionErrorCode
<1>13. ASSUME NEW h \in WalletHooks, LogoutFails(h) PROVE SyncInv'
    BY <1>3, <1>11, <1>13 DEF LogoutFails, MarketingWalletConnectionErrorCode
<1>14. ASSUME NEW h \in WalletHooks, ConnectByName(h) PROVE SyncInv'
    <2> DEFINE m == [mutation EXCEPT ![h] = "clicked"]
               p == [provider EXCEPT !.issue = "none", !.suppressed = FALSE]
    <2>1. Render(m, wagmiAccount, syncProviderState(p, wagmiAccount, m, h))
        BY <1>14 DEF ConnectByName
    <2>2. p \in Providers /\ m \in Mutations
        BY <1>4, <1>6
    <2>3. QED
        BY <1>1, <1>14, <2>1, <2>2, SyncedState, RenderKeeps DEF ConnectByName
<1>15. ASSUME NEW h \in WalletHooks, ConnectSucceeds(h) PROVE SyncInv'
    <2> DEFINE m == [mutation EXCEPT ![h] = "idle"]
    <2>1. PICK a \in ConnectAccounts : AccountIs(a, m, syncProviderState(provider, a, m, h))
        BY <1>15 DEF ConnectSucceeds
    <2>2. m \in Mutations /\ mounted
        BY <1>3, <1>4, <1>15 DEF ConnectSucceeds
    <2>3. /\ syncProviderState(provider, a, m, h) \in Providers
          /\ Caused(m, syncProviderState(provider, a, m, h))
        BY <1>1, <2>2, SyncedState
    <2>4. QED
        BY <1>1, <1>15, <2>1, <2>2, <2>3, AccountKeeps DEF ConnectSucceeds
<1>16. ASSUME NEW h \in WalletHooks, ConnectFails(h) PROVE SyncInv'
    <2> DEFINE m == [mutation EXCEPT ![h] = "failed"]
               p == syncProviderState(provider, wagmiAccount, m, h)
    <2>1. PICK code \in MarketingWalletConnectionErrorCode : Render(m, wagmiAccount, WithIssue(p, code))
        BY <1>16 DEF ConnectFails, MarketingWalletConnectionErrorCode
    <2>2. m \in Mutations /\ mounted
        BY <1>3, <1>4, <1>16 DEF ConnectFails
    <2>3. p \in Providers /\ Caused(m, p)
        BY <1>1, <2>2, SyncedState
    <2>4. WithIssue(p, code) \in Providers /\ Caused(m, WithIssue(p, code))
        BY <2>3, IssueKeeps
    <2>5. QED
        BY <1>1, <1>16, <2>1, <2>2, <2>4, RenderKeeps DEF ConnectFails
<1>17. ASSUME NEW a \in ConnectAccounts \cup {NoProvider}, AccountIs(a, mutation, provider),
              mounted' = mounted, orphans' \in 0..MaxOrphans, leaving' \subseteq leaving
       PROVE  SyncInv'
    <2>1. CASE mounted
        BY <1>1, <1>2, <1>17, <2>1, AccountKeeps
    <2>2. CASE ~mounted
        BY <1>3, <1>17, <2>2
           DEF AccountIs, SyncInv, ProviderTypeOK, ClosedIsQuiet, AskingIsDue, SpinnerHasCause
    <2>3. QED
        BY <2>1, <2>2
<1>18. CASE OrphanAnswers
    <2>1. orphans' \in 0..MaxOrphans
        BY <1>1, <1>18, SyncAssumption DEF OrphanAnswers
    <2>2. CASE UNCHANGED <<wagmiAccount, mutation, asking, provider>>
        BY <1>18, <2>1, <2>2
           DEF OrphanAnswers, SyncInv, ProviderTypeOK, ClosedIsQuiet, AskingIsDue, SpinnerHasCause
    <2>3. QED
        BY <1>17, <1>18, <2>1, <2>2 DEF OrphanAnswers
<1>19. CASE AccountChanges
    BY <1>1, <1>17, <1>19 DEF AccountChanges
<1>20. ASSUME NEW h \in WalletHooks, LogoutDone(h) PROVE SyncInv'
    BY <1>1, <1>17, <1>20 DEF LogoutDone
<1>21. ASSUME NEW h \in WalletHooks, LeaveWallet(h) PROVE SyncInv'
    <2> DEFINE m == [mutation EXCEPT ![h] = "idle"]
               p == [provider EXCEPT !.issue = "none", !.suppressed = TRUE]
    <2>1. m \in Mutations /\ p \in Providers
        BY <1>4, <1>6
    <2>2. orphans' \in 0..MaxOrphans /\ leaving' \subseteq WalletHooks /\ mounted /\ mounted' = mounted
        BY <1>1, <1>21, SyncAssumption DEF LeaveWallet
    <2>3. CASE Pending(mutation, h)
        <3>1. Render(m, wagmiAccount, syncProviderState(p, wagmiAccount, m, h))
            BY <1>21, <2>3 DEF LeaveWallet
        <3>2. QED
            BY <1>1, <2>1, <2>2, <3>1, SyncedState, RenderKeeps
    <2>4. CASE ~Pending(mutation, h)
        <3>1. Render(m, wagmiAccount, p)
            BY <1>21, <2>4 DEF LeaveWallet
        <3>2. p.pending <=> provider.pending
            BY <1>6
        <3>3. Caused(m, p)
            BY <1>1, <1>2, <2>2, <2>4, <3>2 DEF Caused, Pending, Mutations
        <3>4. QED
            BY <1>1, <2>1, <2>2, <3>1, <3>3, RenderKeeps
    <2>5. QED
        BY <2>3, <2>4
<1>22. CASE UNCHANGED syncVars
    BY <1>22 DEF syncVars, SyncInv, ProviderTypeOK, ClosedIsQuiet, AskingIsDue, SpinnerHasCause
<1>23. QED
    BY <1>7, <1>8, <1>9, <1>10, <1>12, <1>13, <1>14, <1>15, <1>16, <1>18, <1>19, <1>20, <1>21, <1>22
       DEF SyncNext

(* Whatever the hooks, their mutations, the orphaned connects and the      *)
(* wallet do, the connect buttons wait only for a connect at work.         *)
THEOREM SpinnerHasCauseHolds == SyncSpec => []SpinnerHasCause
<1>1. SyncInit => SyncInv
    BY SyncInitHolds
<1>2. SyncInv /\ [SyncNext]_syncVars => SyncInv'
    BY SyncStep
<1>3. SyncInv => SpinnerHasCause
    BY DEF SyncInv
<1>4. QED
    BY <1>1, <1>2, <1>3, PTL DEF SyncSpec

PromptWanted ==
    \A h \in WalletHooks :
        mutation'[h] = "hydrated" /\ mutation[h] # "hydrated" =>
            wagmiAccount = NoProvider /\ ~provider.suppressed /\ provider.issue = "none"

LEMMA PromptStep == SyncInv /\ [SyncNext]_syncVars => PromptWanted
<1> SUFFICES ASSUME SyncInv, [SyncNext]_syncVars,
                    NEW h \in WalletHooks, mutation'[h] = "hydrated", mutation[h] # "hydrated"
             PROVE  wagmiAccount = NoProvider /\ ~provider.suppressed /\ provider.issue = "none"
    BY DEF PromptWanted
<1>1. mutation \in Mutations
    BY DEF SyncInv, ProviderTypeOK, Mutations
<1>2. \A g \in WalletHooks, to \in {"idle", "clicked", "failed"} :
          mutation' # [mutation EXCEPT ![g] = to]
    BY <1>1 DEF Mutations
<1>3. mutation' # mutation /\ mutation' # AllIdle
    BY <1>1 DEF AllIdle
<1>4. ASSUME NEW acct, NEW m, NEW p, AccountIs(acct, m, p) PROVE mutation' \in {mutation, m}
    BY <1>4 DEF AccountIs, Render
<1>5. ~Open /\ ~Navigate /\ ~LoadAgain /\ ~UNCHANGED syncVars
    BY <1>3 DEF Open, Render, Navigate, LoadAgain, Closed, syncVars
<1>6. ~OrphanAnswers /\ ~AccountChanges
    BY <1>3, <1>4 DEF OrphanAnswers, AccountChanges
<1>7. ASSUME NEW g \in WalletHooks
      PROVE  /\ ~ConnectUnavailable(g) /\ ~ConnectConnected(g) /\ ~LogoutFails(g)
             /\ ~ConnectByName(g) /\ ~ConnectFails(g) /\ ~LeaveWallet(g)
    BY <1>2, <1>3 DEF ConnectUnavailable, ConnectConnected, LogoutFails, ConnectByName, ConnectFails,
                      LeaveWallet, Render
<1>8. ASSUME NEW g \in WalletHooks PROVE ~ConnectSucceeds(g) /\ ~LogoutDone(g)
    BY <1>2, <1>3, <1>4 DEF ConnectSucceeds, LogoutDone
<1>9. PICK g \in WalletHooks : HydrateAuthorizedInjectedWallet(g)
    BY <1>5, <1>6, <1>7, <1>8 DEF SyncNext
<1>10. g \in asking
    BY <1>9 DEF HydrateAuthorizedInjectedWallet
<1>11. QED
    BY <1>10 DEF SyncInv, AskingIsDue

(* The page opens the prompt of a wallet on its own only while no wallet   *)
(* is connected, none was disconnected on purpose and none just refused,   *)
(* whichever hook had begun to look for one.                               *)
THEOREM PromptsAreWantedHolds == SyncSpec => PromptsAreWanted
<1>1. SyncInit => SyncInv
    BY SyncInitHolds
<1>2. SyncInv /\ [SyncNext]_syncVars => SyncInv'
    BY SyncStep
<1>3. SyncInv /\ [SyncNext]_syncVars => PromptWanted
    BY PromptStep
<1>4. SyncSpec => [][PromptWanted]_syncVars
    BY <1>1, <1>2, <1>3, PTL DEF SyncSpec
<1>5. QED
    BY <1>4 DEF PromptsAreWanted, PromptWanted

-----------------------------------------------------------------------------
(* Verified sessions: the inductive invariant.                             *)

HasSession(w) == \E s \in SessionIds : sessions[s].wallet = w

FlowTypeOK ==
    \/ flow = IdleFlow
    \/ flow \in [stage : {"sign", "post"}, wallet : VerifyAccounts, challenge : ChallengeIds]
    \/ flow \in [stage : {"refetch"}, wallet : VerifyAccounts]

(* The rows of the sessions are written one after the other.               *)
RowsInOrder ==
    \E n \in 0 .. MaxSessions :
        \A s \in SessionIds : sessions[s] # NoSessionRow <=> s <= n

(* A cookie is that of a session in the table.                             *)
Issued(cookie) == cookie \in SessionIds => sessions[cookie] # NoSessionRow

CookiesIssued ==
    /\ Issued(sessionCookie)
    /\ Issued(query.fetch)
    /\ \A r \in AuthRequests : requests[r] # NoRequest => Issued(requests[r].cookie)

(* A verification answers a challenge that was given.                      *)
ChallengesGiven ==
    \A r \in AuthRequests :
        requests[r].op = "verify" => challenges[requests[r].challenge] # NoChallenge

(* A request that was accepted carries the signature of its account.       *)
AcceptedIsSigned ==
    \A r \in AuthRequests :
        requests[r].op = "verify" /\ requests[r].stage \in {"mark", "insert"}
        => requests[r].signer = requests[r].wallet

(* Whatever the page may come to show as verified has a session.           *)
AnswersHaveSession ==
    /\ \A r \in AuthRequests :
           requests[r].op = "reply" /\ requests[r].verified # NoWallet
           => HasSession(requests[r].verified)
    /\ query.data # NoWallet => HasSession(query.data)
    /\ flow # IdleFlow /\ flow.stage = "refetch" => HasSession(flow.wallet)
    /\ verification.status = "verified" => verification.wallet # NoWallet

(* The session of a reply under way is live, and nobody else has its       *)
(* cookie yet.                                                             *)
RepliesAreFresh ==
    \A r \in AuthRequests :
        requests[r].op = "reply" /\ requests[r].cookie \in SessionIds =>
            /\ sessions[requests[r].cookie].state = "live"
            /\ sessionCookie # requests[r].cookie
            /\ \A q \in AuthRequests \ {r} :
                   requests[q] # NoRequest => requests[q].cookie # requests[r].cookie

(* A request whose reply will replace or clear the cookie.                 *)
ReplacesCookie(q) ==
    \/ q.op = "verify" /\ q.stage \in {"select", "mark", "insert"}
    \/ q.op = "reply" /\ q.cookie # Kept

CookieIsCovered ==
    /\ ~replyLost
    /\ sessionCookie # NoSessionCookie
    /\ sessions[sessionCookie].state = "invalidated"
    => \E r \in AuthRequests : ReplacesCookie(requests[r])

SessionInv ==
    /\ SessionTypeOK
    /\ FlowTypeOK
    /\ RowsInOrder
    /\ CookiesIssued
    /\ ChallengesGiven
    /\ AcceptedIsSigned
    /\ AnswersHaveSession
    /\ RepliesAreFresh
    /\ CookieIsCovered
    /\ SessionsAreSigned
    /\ VerifiedHasSession

LEMMA SessionInitHolds == SessionInit => SessionInv
<1> SUFFICES ASSUME SessionInit PROVE SessionInv
    OBVIOUS
<1>1. SessionTypeOK
    BY SessionAssumption
       DEF SessionInit, SessionTypeOK, Unverified, CookieValues, NoSessionCookie, Wallets
<1>2. RowsInOrder
    BY SessionAssumption DEF SessionInit, RowsInOrder, SessionIds
<1>3. CookiesIssued
    BY DEF SessionInit, CookiesIssued, Issued, SessionIds, NoSessionCookie, NoFetch
<1>4. ChallengesGiven /\ AcceptedIsSigned /\ AnswersHaveSession /\ RepliesAreFresh
    BY DEF SessionInit, ChallengesGiven, AcceptedIsSigned, AnswersHaveSession, RepliesAreFresh, NoRequest,
           IdleFlow, Unverified
<1>5. CookieIsCovered /\ SessionsAreSigned /\ VerifiedHasSession
    BY DEF SessionInit, CookieIsCovered, SessionsAreSigned, VerifiedHasSession,
           NoSessionRow, Unverified
<1>6. QED
    BY <1>1, <1>2, <1>3, <1>4, <1>5 DEF SessionInv, FlowTypeOK, SessionInit

(* The fields of a request at work, and of none.                           *)
LEMMA RequestFields ==
    ASSUME SessionTypeOK, NEW r \in AuthRequests
    PROVE  /\ requests[r].op \in {"none", "verify", "logout", "reply"}
           /\ requests[r].op = "none" <=> requests[r] = NoRequest
           /\ requests[r].op \in {"verify", "logout"} =>
                  requests[r].cookie \in CookieValues /\ requests[r].mine \in BOOLEAN
           /\ requests[r].op = "verify" =>
                  /\ requests[r].stage \in {"clear", "select", "mark", "insert"}
                  /\ requests[r].challenge \in ChallengeIds
                  /\ requests[r].wallet \in VerifyAccounts
                  /\ requests[r].signer \in VerifyAccounts
           /\ requests[r].op = "logout" => requests[r].stage = "clear"
           /\ requests[r].op = "reply" =>
                  /\ requests[r].of \in {"verify", "logout"}
                  /\ requests[r].mine \in BOOLEAN
                  /\ requests[r].cookie \in CookieValues \cup {Kept}
                  /\ requests[r].verified \in Wallets
BY DEF SessionTypeOK, RequestRows, NoRequest

(* A verification that goes on keeps its fields but for the stage.         *)
LEMMA ContinueFields ==
    ASSUME SessionTypeOK, NEW r \in AuthRequests, NEW stage, requests[r].op = "verify",
           Continue(r, stage)
    PROVE  /\ \A i \in AuthRequests \ {r} : requests'[i] = requests[i]
           /\ requests'[r].op = "verify"
           /\ requests'[r].stage = stage
           /\ requests'[r].cookie = requests[r].cookie
           /\ requests'[r].challenge = requests[r].challenge
           /\ requests'[r].wallet = requests[r].wallet
           /\ requests'[r].signer = requests[r].signer
<1>1. requests[r] \in [op : {"verify"}, mine : BOOLEAN,
                       stage : {"clear", "select", "mark", "insert"}, cookie : CookieValues,
                       challenge : ChallengeIds, wallet : VerifyAccounts, signer : VerifyAccounts]
    BY DEF SessionTypeOK, RequestRows, NoRequest
<1>2. requests' = [requests EXCEPT ![r] = [requests[r] EXCEPT !.stage = stage]]
    BY DEF Continue
<1>3. QED
    BY <1>1, <1>2 DEF SessionTypeOK

(* The row InsertSession writes is the first that is free.                 *)
LEMMA FirstFreeRow ==
    ASSUME RowsInOrder, NEW s,
           s = 1 + Cardinality({i \in SessionIds : sessions[i] # NoSessionRow})
    PROVE  s \in Nat /\ \A i \in SessionIds : sessions[i] # NoSessionRow <=> i < s
<1>1. PICK n \in 0 .. MaxSessions :
          \A i \in SessionIds : sessions[i] # NoSessionRow <=> i <= n
    BY DEF RowsInOrder
<1>2. n \in Nat /\ n <= MaxSessions
    BY <1>1, SessionAssumption
<1>3. {i \in SessionIds : sessions[i] # NoSessionRow} = 1 .. n
    BY <1>1, <1>2, SessionAssumption DEF SessionIds
<1>4. Cardinality(1 .. n) = n
    BY <1>2, FS_Interval
<1>5. s = 1 + n
    BY <1>3, <1>4
<1>6. \A i \in SessionIds : i <= n <=> i < s
    BY <1>2, <1>5, SessionAssumption DEF SessionIds
<1>7. QED
    BY <1>1, <1>2, <1>5, <1>6

LEMMA SessionTypesKept == SessionInv /\ [SessionNext]_sessionVars => SessionTypeOK' /\ FlowTypeOK'
<1> SUFFICES ASSUME SessionInv, [SessionNext]_sessionVars PROVE SessionTypeOK' /\ FlowTypeOK'
    OBVIOUS
<1> USE SessionAssumption, RequestFields DEF SessionInv
<1> DEFINE Typed == SessionTypeOK' /\ FlowTypeOK'
<1>1. ASSUME NEW r \in AuthRequests, ClearWalletSession(r) PROVE Typed
    <2>1. sessions' \in [SessionIds -> {NoSessionRow} \cup
                           [wallet : VerifyAccounts, signer : VerifyAccounts,
                            state : {"live", "invalidated"}]]
        BY <1>1 DEF ClearWalletSession, Invalidated, SessionTypeOK, CookiesIssued, Issued,
                    CookieValues, NoRequest
    <2>2. requests' \in [AuthRequests -> RequestRows \cup {NoRequest}]
        BY <1>1 DEF ClearWalletSession, Answer, Continue, Reply, SessionTypeOK, RequestRows,
                    CookieValues, Wallets, NoRequest
    <2>3. QED
        BY <1>1, <2>1, <2>2 DEF ClearWalletSession, SessionTypeOK, FlowTypeOK, pageVars
<1>2. ASSUME NEW r \in AuthRequests, SelectChallenge(r) PROVE Typed
    <2>2. requests' \in [AuthRequests -> RequestRows \cup {NoRequest}]
        BY <1>2 DEF SelectChallenge, FailedReply, Continue, Reply, SessionTypeOK, RequestRows,
                    CookieValues, Wallets, NoRequest
    <2>3. QED
        BY <1>2, <2>2 DEF SelectChallenge, SessionTypeOK, FlowTypeOK, pageVars, serverVars
<1>3. ASSUME NEW r \in AuthRequests, MarkUsed(r) PROVE Typed
    <2>1. challenges' \in [ChallengeIds -> {NoChallenge} \cup
                        [wallet : VerifyAccounts, state : {"fresh", "used", "expired"}]]
        BY <1>3 DEF MarkUsed, ChallengesGiven, SessionTypeOK
    <2>2. requests' \in [AuthRequests -> RequestRows \cup {NoRequest}]
        BY <1>3 DEF MarkUsed, Continue, SessionTypeOK, RequestRows, NoRequest
    <2>3. QED
        BY <1>3, <2>1, <2>2 DEF MarkUsed, SessionTypeOK, FlowTypeOK, pageVars
<1>4. ASSUME NEW r \in AuthRequests, InsertSession(r) PROVE Typed
    <2>2. requests' \in [AuthRequests -> RequestRows \cup {NoRequest}]
        BY <1>4 DEF InsertSession, Answer, Reply, SessionTypeOK, RequestRows,
                    CookieValues, Wallets, NoRequest
    <2>3. QED
        BY <1>4, <2>2 DEF InsertSession, SessionTypeOK, FlowTypeOK, pageVars
<1>5. ASSUME NEW r \in AuthRequests, StatementFails(r) PROVE Typed
    <2>2. requests' \in [AuthRequests -> RequestRows \cup {NoRequest}]
        BY <1>5 DEF StatementFails, FailedReply, Reply, SessionTypeOK, RequestRows,
                    CookieValues, Wallets, NoRequest
    <2>3. QED
        BY <1>5, <2>2 DEF StatementFails, SessionTypeOK, FlowTypeOK, pageVars, serverVars
<1>6. ASSUME NEW r \in AuthRequests, ReplyArrives(r) PROVE Typed
    BY <1>6 DEF ReplyArrives, VerificationEffect, setVerificationState,
                resetVerificationState, Unverified, SessionTypeOK, FlowTypeOK, serverVars,
                CookieValues, Wallets
<1>7. ASSUME NEW r \in AuthRequests, ReplyIsLost(r) PROVE Typed
    BY <1>7 DEF ReplyIsLost, resetVerificationState, Unverified, SessionTypeOK, FlowTypeOK,
                serverVars, Wallets
<1>8. ASSUME NEW r \in AuthRequests, NEW mine \in BOOLEAN, PostLogout(r, mine) PROVE Typed
    <2>2. requests' \in [AuthRequests -> RequestRows \cup {NoRequest}]
        BY <1>8 DEF PostLogout, SessionTypeOK, RequestRows
    <2>3. QED
        BY <1>8, <2>2 DEF PostLogout, resetVerificationState, Unverified, SessionTypeOK,
                          FlowTypeOK, serverVars, Wallets
<1>9. ASSUME NEW r \in AuthRequests, NEW mine \in BOOLEAN, NEW c \in ChallengeIds,
             NEW signer \in VerifyAccounts, PostVerify(r, c, signer, mine)
      PROVE  Typed
    <2>1. challenges[c].wallet \in VerifyAccounts
        BY <1>9 DEF PostVerify, SessionTypeOK
    <2>2. requests' \in [AuthRequests -> RequestRows \cup {NoRequest}]
        BY <1>9, <2>1 DEF PostVerify, SessionTypeOK, RequestRows
    <2>3. QED
        BY <1>9, <2>2 DEF PostVerify, SessionTypeOK, FlowTypeOK, IdleFlow, serverVars
<1>10. ASSUME NEW a \in Wallets, ReportAccount(a) PROVE Typed
    BY <1>10 DEF ReportAccount, VerificationEffect, setVerificationState,
                 resetVerificationState, Unverified, SessionTypeOK, FlowTypeOK, serverVars,
                 Wallets
<1>11. CASE FetchSession
    BY <1>11 DEF FetchSession, SessionTypeOK, FlowTypeOK, serverVars
<1>12. CASE SessionFetched
    <2>1. PICK w \in ReadWalletSession(query.fetch) \cup {query.data} :
              query' = [data |-> w, fetch |-> NoFetch] /\ VerificationEffect(account, w)
        BY <1>12 DEF SessionFetched
    <2>2. w \in Wallets
        BY <1>12 DEF SessionFetched, ReadWalletSession, SessionTypeOK, Wallets, NoSessionRow,
                     CookieValues
    <2>3. QED
        BY <1>12, <2>1, <2>2
           DEF SessionFetched, VerificationEffect, setVerificationState,
               resetVerificationState, Unverified, SessionTypeOK, FlowTypeOK, serverVars,
               Wallets
<1>13. ASSUME NEW c \in ChallengeIds, CreateWalletChallenge(c) PROVE Typed
    BY <1>13 DEF CreateWalletChallenge, setVerificationState, SessionTypeOK, FlowTypeOK,
                 Wallets
<1>14. ASSUME NEW c \in ChallengeIds, ExpireChallenge(c) PROVE Typed
    BY <1>14 DEF ExpireChallenge, SessionTypeOK, FlowTypeOK, pageVars, NoChallenge
<1>15. CASE VerifyEnds
    BY <1>15 DEF VerifyEnds, setVerificationState, resetVerificationState, Unverified,
                 SessionTypeOK, FlowTypeOK, IdleFlow, serverVars, Wallets
<1>16. CASE EnsureTables
    BY <1>16 DEF EnsureTables, SessionTypeOK, FlowTypeOK, pageVars
<1>17. CASE UNCHANGED sessionVars
    BY <1>17 DEF sessionVars, SessionTypeOK, FlowTypeOK, pageVars, serverVars
<1>18. QED
    BY <1>1, <1>2, <1>3, <1>4, <1>5, <1>6, <1>7, <1>8, <1>9, <1>10, <1>11, <1>12, <1>13,
       <1>14, <1>15, <1>16, <1>17 DEF SessionNext

(* A row of the sessions keeps its account and its signer for good.        *)
LEMMA SessionsAreKept ==
    SessionInv /\ [SessionNext]_sessionVars
    => /\ RowsInOrder'
       /\ \A s \in SessionIds : sessions[s] # NoSessionRow =>
              /\ sessions'[s] # NoSessionRow
              /\ sessions'[s].wallet = sessions[s].wallet
              /\ sessions'[s].signer = sessions[s].signer
<1> SUFFICES ASSUME SessionInv, [SessionNext]_sessionVars
             PROVE  /\ RowsInOrder'
                    /\ \A s \in SessionIds : sessions[s] # NoSessionRow =>
                           /\ sessions'[s] # NoSessionRow
                           /\ sessions'[s].wallet = sessions[s].wallet
                           /\ sessions'[s].signer = sessions[s].signer
    OBVIOUS
<1> USE SessionAssumption, RequestFields DEF SessionInv
<1>1. ASSUME NEW r \in AuthRequests, InsertSession(r)
      PROVE  /\ RowsInOrder'
             /\ \A s \in SessionIds : sessions[s] # NoSessionRow => sessions'[s] = sessions[s]
    <2>1. PICK s \in SessionIds :
              /\ s = 1 + Cardinality({i \in SessionIds : sessions[i] # NoSessionRow})
              /\ sessions' = [sessions EXCEPT ![s] =
                     [wallet |-> requests[r].wallet, signer |-> requests[r].signer,
                      state |-> "live"]]
        BY <1>1 DEF InsertSession
    <2>2. s \in Nat /\ \A i \in SessionIds : sessions[i] # NoSessionRow <=> i < s
        BY <2>1, FirstFreeRow
    <2>3. sessions'[s] # NoSessionRow
        BY <1>1, <2>1 DEF InsertSession, SessionTypeOK, NoSessionRow
    <2>4. \A i \in SessionIds : sessions'[i] # NoSessionRow <=> i <= s
        BY <2>1, <2>2, <2>3 DEF SessionTypeOK, SessionIds
    <2>5. s \in 0 .. MaxSessions
        BY <2>1 DEF SessionIds
    <2>6. RowsInOrder'
        BY <2>4, <2>5 DEF RowsInOrder
    <2>7. \A i \in SessionIds : sessions[i] # NoSessionRow => sessions'[i] = sessions[i]
        BY <2>1, <2>2 DEF SessionTypeOK, SessionIds
    <2>8. QED
        BY <2>6, <2>7
<1>2. ASSUME NEW r \in AuthRequests, ClearWalletSession(r)
      PROVE  \A s \in SessionIds : /\ sessions'[s] # NoSessionRow <=> sessions[s] # NoSessionRow
                                   /\ sessions'[s].wallet = sessions[s].wallet
                                   /\ sessions'[s].signer = sessions[s].signer
    BY <1>2 DEF ClearWalletSession, Invalidated, SessionTypeOK, CookiesIssued, Issued,
                CookieValues, NoRequest, NoSessionRow
<1>3. ASSUME UNCHANGED sessions PROVE RowsInOrder'
    BY <1>3 DEF RowsInOrder
<1>4. UNCHANGED sessions \/ \E r \in AuthRequests : ClearWalletSession(r) \/ InsertSession(r)
    BY DEF SessionNext, EnsureTables, SelectChallenge, MarkUsed, StatementFails, ExpireChallenge,
           ReportAccount, FetchSession, SessionFetched, CreateWalletChallenge, PostVerify,
           PostLogout, ReplyArrives, ReplyIsLost, VerifyEnds, sessionVars, serverVars, pageVars
<1>5. ASSUME NEW r \in AuthRequests, ClearWalletSession(r) PROVE RowsInOrder'
    BY <1>2, <1>5 DEF RowsInOrder
<1>6. QED
    BY <1>1, <1>2, <1>3, <1>4, <1>5

LEMMA RequestsKeepTheirWord ==
    SessionInv /\ [SessionNext]_sessionVars => ChallengesGiven' /\ AcceptedIsSigned'
<1> SUFFICES ASSUME SessionInv, [SessionNext]_sessionVars
             PROVE  ChallengesGiven' /\ AcceptedIsSigned'
    OBVIOUS
<1> USE SessionAssumption, RequestFields DEF SessionInv
<1> DEFINE Given == \A c \in ChallengeIds : challenges[c] # NoChallenge => challenges'[c] # NoChallenge
           Goal(r) == /\ requests'[r].op = "verify" => challenges'[requests'[r].challenge] # NoChallenge
                      /\ requests'[r].op = "verify" /\ requests'[r].stage \in {"mark", "insert"}
                         => requests'[r].signer = requests'[r].wallet
           Goals == \A r \in AuthRequests : Goal(r)
<1>1. ASSUME Given, NEW r \in AuthRequests, requests'[r] = requests[r] PROVE Goal(r)
    BY <1>1 DEF ChallengesGiven, AcceptedIsSigned
<1>2. ASSUME Given, NEW r \in AuthRequests, requests'[r].op # "verify" PROVE Goal(r)
    BY <1>2
<1>3. ASSUME NEW r \in AuthRequests, ClearWalletSession(r) PROVE Goals
    <2>1. \A i \in AuthRequests \ {r} : requests'[i] = requests[i]
        BY <1>3, ContinueFields DEF ClearWalletSession, Answer, SessionTypeOK
    <2>2. Goal(r)
        BY <1>3, ContinueFields
           DEF ClearWalletSession, Answer, Reply, SessionTypeOK, ChallengesGiven
    <2>3. QED
        BY <1>1, <1>3, <2>1, <2>2 DEF ClearWalletSession
<1>4. ASSUME NEW r \in AuthRequests, SelectChallenge(r) PROVE Goals
    <2>1. \A i \in AuthRequests \ {r} : requests'[i] = requests[i]
        BY <1>4, ContinueFields DEF SelectChallenge, SessionTypeOK
    <2>2. Goal(r)
        BY <1>4, ContinueFields
           DEF SelectChallenge, Accepts, FailedReply, Reply, SessionTypeOK, ChallengesGiven, serverVars
    <2>3. QED
        BY <1>1, <1>4, <2>1, <2>2 DEF SelectChallenge, serverVars
<1>5. ASSUME NEW r \in AuthRequests, MarkUsed(r) PROVE Goals
    <2>1. \A i \in AuthRequests \ {r} : requests'[i] = requests[i]
        BY <1>5, ContinueFields DEF MarkUsed, SessionTypeOK
    <2>2. Given
        BY <1>5 DEF MarkUsed, SessionTypeOK, ChallengesGiven, NoChallenge
    <2>3. Goal(r)
        BY <1>5, <2>2, ContinueFields DEF MarkUsed, SessionTypeOK, ChallengesGiven, AcceptedIsSigned
    <2>4. QED
        BY <1>1, <2>1, <2>2, <2>3
<1>6. ASSUME NEW r \in AuthRequests,
             \/ InsertSession(r) \/ StatementFails(r) \/ ReplyArrives(r) \/ ReplyIsLost(r)
             \/ \E mine \in BOOLEAN : PostLogout(r, mine)
      PROVE  Goals
    <2>1. \A i \in AuthRequests \ {r} : requests'[i] = requests[i]
        BY <1>6 DEF InsertSession, StatementFails, ReplyArrives, ReplyIsLost, PostLogout, Answer,
                    SessionTypeOK
    <2>2. Given
        BY <1>6 DEF InsertSession, StatementFails, ReplyArrives, ReplyIsLost, PostLogout, serverVars
    <2>3. requests'[r].op # "verify"
        BY <1>6 DEF InsertSession, StatementFails, ReplyArrives, ReplyIsLost, PostLogout, Answer,
                    Reply, FailedReply, NoRequest, SessionTypeOK
    <2>4. QED
        BY <1>1, <1>2, <2>1, <2>2, <2>3
<1>7. ASSUME NEW r \in AuthRequests, NEW mine \in BOOLEAN, NEW c \in ChallengeIds,
             NEW signer \in VerifyAccounts, PostVerify(r, c, signer, mine)
      PROVE  Goals
    <2>1. \A i \in AuthRequests \ {r} : requests'[i] = requests[i]
        BY <1>7 DEF PostVerify, SessionTypeOK
    <2>2. Goal(r)
        BY <1>7 DEF PostVerify, SessionTypeOK, serverVars
    <2>3. QED
        BY <1>1, <1>7, <2>1, <2>2 DEF PostVerify, serverVars
<1>8. ASSUME NEW c \in ChallengeIds, CreateWalletChallenge(c) \/ ExpireChallenge(c) PROVE Goals
    <2>1. Given
        BY <1>8 DEF CreateWalletChallenge, ExpireChallenge, SessionTypeOK, NoChallenge
    <2>2. QED
        BY <1>1, <1>8, <2>1 DEF CreateWalletChallenge, ExpireChallenge
<1>9. ASSUME \/ EnsureTables \/ FetchSession \/ SessionFetched \/ VerifyEnds
             \/ \E a \in Wallets : ReportAccount(a)
             \/ UNCHANGED sessionVars
      PROVE  Goals
    BY <1>1, <1>9 DEF EnsureTables, FetchSession, SessionFetched, VerifyEnds, ReportAccount,
                      sessionVars, serverVars
<1>10. Goals
    BY <1>3, <1>4, <1>5, <1>6, <1>7, <1>8, <1>9 DEF SessionNext
<1>11. QED
    BY <1>10 DEF ChallengesGiven, AcceptedIsSigned

LEMMA SessionsStaySigned ==
    SessionInv /\ [SessionNext]_sessionVars => SessionsAreSigned'
<1> SUFFICES ASSUME SessionInv, [SessionNext]_sessionVars, NEW s \in SessionIds
             PROVE  sessions'[s].signer = sessions'[s].wallet
    BY DEF SessionsAreSigned
<1> USE SessionAssumption, RequestFields DEF SessionInv
<1>1. CASE sessions[s] # NoSessionRow
    BY <1>1, SessionsAreKept DEF SessionsAreSigned
<1>2. CASE sessions[s] = NoSessionRow /\ sessions'[s] # NoSessionRow
    <2>1. PICK r \in AuthRequests : ClearWalletSession(r) \/ InsertSession(r)
        BY <1>2
           DEF SessionNext, EnsureTables, SelectChallenge, MarkUsed, StatementFails, ExpireChallenge,
               ReportAccount, FetchSession, SessionFetched, CreateWalletChallenge, PostVerify,
               PostLogout, ReplyArrives, ReplyIsLost, VerifyEnds, sessionVars, serverVars, pageVars
    <2>2. CASE ClearWalletSession(r)
        BY <1>2, <2>2 DEF ClearWalletSession, Invalidated, SessionTypeOK, NoSessionRow
    <2>3. CASE InsertSession(r)
        BY <1>2, <2>3 DEF InsertSession, SessionTypeOK, AcceptedIsSigned
    <2>4. QED
        BY <2>1, <2>2, <2>3
<1>3. CASE sessions'[s] = NoSessionRow
    BY <1>3 DEF NoSessionRow
<1>4. QED
    BY <1>1, <1>2, <1>3

LEMMA CookiesStayIssued ==
    SessionInv /\ [SessionNext]_sessionVars => CookiesIssued'
<1> SUFFICES ASSUME SessionInv, [SessionNext]_sessionVars PROVE CookiesIssued'
    OBVIOUS
<1> USE SessionAssumption, RequestFields DEF SessionInv
<1> DEFINE IssuedNow(cookie) == cookie \in SessionIds => sessions'[cookie] # NoSessionRow
<1>1. \A cookie : Issued(cookie) => IssuedNow(cookie)
    BY SessionsAreKept DEF Issued
<1>2. IssuedNow(NoSessionCookie) /\ IssuedNow(Kept) /\ IssuedNow(NoFetch)
    BY DEF SessionIds, NoSessionCookie, Kept, NoFetch
<1> DEFINE Goal == /\ IssuedNow(sessionCookie')
                   /\ IssuedNow(query'.fetch)
                   /\ \A r \in AuthRequests :
                          requests'[r] # NoRequest => IssuedNow(requests'[r].cookie)
<1>3. SUFFICES Goal
    BY DEF CookiesIssued, Issued
<1>4. /\ IssuedNow(sessionCookie) /\ IssuedNow(query.fetch)
      /\ \A r \in AuthRequests : requests[r] # NoRequest => IssuedNow(requests[r].cookie)
    BY <1>1 DEF CookiesIssued
<1> HIDE DEF IssuedNow
<1>5. ASSUME NEW r \in AuthRequests,
             ClearWalletSession(r) \/ SelectChallenge(r) \/ MarkUsed(r) \/ StatementFails(r)
      PROVE  Goal
    <2>1. \A i \in AuthRequests \ {r} : requests'[i] = requests[i]
        BY <1>5, ContinueFields
           DEF ClearWalletSession, SelectChallenge, MarkUsed, StatementFails, Answer, SessionTypeOK
    <2>2. requests[r] # NoRequest
        BY <1>5 DEF ClearWalletSession, SelectChallenge, MarkUsed, StatementFails, NoRequest
    <2>3. requests'[r].cookie \in {requests[r].cookie, NoSessionCookie, Kept}
        BY <1>5, ContinueFields
           DEF ClearWalletSession, SelectChallenge, MarkUsed, StatementFails, Answer, Reply,
               FailedReply, SessionTypeOK
    <2>4. UNCHANGED <<sessionCookie, query>>
        BY <1>5 DEF ClearWalletSession, SelectChallenge, MarkUsed, StatementFails, pageVars
    <2>5. QED
        BY <1>2, <1>4, <2>1, <2>2, <2>3, <2>4
<1>6. ASSUME NEW r \in AuthRequests, InsertSession(r) PROVE Goal
    <2>1. PICK s \in SessionIds :
              /\ requests' = [requests EXCEPT ![r] = Reply(requests[r], s, requests[r].wallet)]
              /\ sessions' = [sessions EXCEPT ![s] =
                     [wallet |-> requests[r].wallet, signer |-> requests[r].signer,
                      state |-> "live"]]
        BY <1>6 DEF InsertSession, Answer
    <2>2. IssuedNow(s)
        BY <2>1 DEF IssuedNow, SessionTypeOK, NoSessionRow
    <2>3. requests'[r].cookie = s /\ \A i \in AuthRequests \ {r} : requests'[i] = requests[i]
        BY <2>1 DEF Reply, SessionTypeOK
    <2>4. QED
        BY <1>4, <1>6, <2>2, <2>3 DEF InsertSession, pageVars
<1>7. ASSUME NEW r \in AuthRequests, ReplyArrives(r) PROVE Goal
    <2>1. requests[r] # NoRequest
        BY <1>7 DEF ReplyArrives, NoRequest
    <2>2. sessionCookie' \in {sessionCookie, requests[r].cookie}
        BY <1>7 DEF ReplyArrives
    <2>3. query'.fetch \in {query.fetch, NoFetch, sessionCookie'}
        BY <1>7 DEF ReplyArrives, SessionTypeOK
    <2>4. requests'[r] = NoRequest /\ \A i \in AuthRequests \ {r} : requests'[i] = requests[i]
        BY <1>7 DEF ReplyArrives, SessionTypeOK
    <2>5. QED
        BY <1>2, <1>4, <2>1, <2>2, <2>3, <2>4
<1>8. ASSUME NEW r \in AuthRequests, ReplyIsLost(r) PROVE Goal
    BY <1>4, <1>8 DEF ReplyIsLost, SessionTypeOK
<1>9. ASSUME NEW r \in AuthRequests, NEW mine \in BOOLEAN,
             \/ PostLogout(r, mine)
             \/ \E c \in ChallengeIds, signer \in VerifyAccounts : PostVerify(r, c, signer, mine)
      PROVE  Goal
    <2>1. requests'[r].cookie = sessionCookie
          /\ \A i \in AuthRequests \ {r} : requests'[i] = requests[i]
        BY <1>9 DEF PostLogout, PostVerify, SessionTypeOK
    <2>2. QED
        BY <1>4, <1>9, <2>1 DEF PostLogout, PostVerify
<1>10. CASE FetchSession
    BY <1>4, <1>10 DEF FetchSession, SessionTypeOK
<1>11. CASE SessionFetched
    BY <1>2, <1>4, <1>11 DEF SessionFetched, SessionTypeOK
<1>12. ASSUME \/ EnsureTables \/ VerifyEnds
              \/ \E a \in Wallets : ReportAccount(a)
              \/ \E c \in ChallengeIds : CreateWalletChallenge(c) \/ ExpireChallenge(c)
              \/ UNCHANGED sessionVars
       PROVE  Goal
    BY <1>4, <1>12
       DEF EnsureTables, VerifyEnds, ReportAccount, CreateWalletChallenge, ExpireChallenge,
           sessionVars, pageVars
<1> HIDE DEF Goal
<1>13. QED
    BY <1>5, <1>6, <1>7, <1>8, <1>9, <1>10, <1>11, <1>12 DEF SessionNext

(* The verification that follows an effect of the page is that of an       *)
(* account with a session, of the one before, or none.                     *)
LEMMA EffectOfSession ==
    ASSUME SessionInv, NEW a, NEW data, VerificationEffect(a, data)
    PROVE  verification'.status = "verified" =>
               \/ verification' = verification
               \/ verification'.wallet = data /\ data # NoWallet
BY DEF VerificationEffect, setVerificationState, resetVerificationState, Unverified

LEMMA AnswersStaySound ==
    SessionInv /\ [SessionNext]_sessionVars => AnswersHaveSession' /\ VerifiedHasSession'
<1> SUFFICES ASSUME SessionInv, [SessionNext]_sessionVars
             PROVE  AnswersHaveSession' /\ VerifiedHasSession'
    OBVIOUS
<1> USE SessionAssumption DEF SessionInv
<1> DEFINE Has(w) == \E s \in SessionIds : sessions'[s].wallet = w
           Replies == \A r \in AuthRequests :
                          requests'[r].op = "reply" /\ requests'[r].verified # NoWallet
                          => Has(requests'[r].verified)
           Page == /\ query'.data # NoWallet => Has(query'.data)
                   /\ flow' # IdleFlow /\ flow'.stage = "refetch" => Has(flow'.wallet)
           Shown == verification'.status = "verified" =>
                        verification'.wallet # NoWallet /\ Has(verification'.wallet)
           Goal == Replies /\ Page /\ Shown
<1>1. \A w \in VerifyAccounts : HasSession(w) => Has(w)
    BY SessionsAreKept DEF HasSession, NoSessionRow
<1>2. SUFFICES Goal
    BY DEF AnswersHaveSession, VerifiedHasSession, HasSession
<1> HIDE DEF Has
<1>3. ASSUME UNCHANGED requests PROVE Replies
    BY <1>1, <1>3, RequestFields DEF AnswersHaveSession, Wallets
<1>4. ASSUME UNCHANGED <<query, flow>> PROVE Page
    BY <1>1, <1>4 DEF AnswersHaveSession, SessionTypeOK, FlowTypeOK, IdleFlow, Wallets
<1>5. ASSUME UNCHANGED verification PROVE Shown
    BY <1>1, <1>5 DEF AnswersHaveSession, VerifiedHasSession, HasSession, SessionTypeOK, Wallets
<1>6. ASSUME NEW r \in AuthRequests, \A i \in AuthRequests \ {r} : requests'[i] = requests[i],
             requests'[r].op = "reply" => requests'[r].verified = NoWallet
      PROVE  Replies
    BY <1>1, <1>6, RequestFields DEF AnswersHaveSession, Wallets
<1>7. ASSUME NEW r \in AuthRequests,
             \/ ClearWalletSession(r) \/ SelectChallenge(r) \/ MarkUsed(r) \/ StatementFails(r)
      PROVE  Goal
    <2>1. /\ \A i \in AuthRequests \ {r} : requests'[i] = requests[i]
          /\ requests'[r].op = "reply" => requests'[r].verified = NoWallet
        BY <1>7, ContinueFields, RequestFields
           DEF ClearWalletSession, SelectChallenge, MarkUsed, StatementFails, Answer, Reply,
               FailedReply, SessionTypeOK
    <2>2. UNCHANGED <<query, flow, verification>>
        BY <1>7 DEF ClearWalletSession, SelectChallenge, MarkUsed, StatementFails, pageVars
    <2>3. QED
        BY <1>4, <1>5, <1>6, <2>1, <2>2
<1>8. ASSUME NEW r \in AuthRequests, InsertSession(r) PROVE Goal
    <2>1. PICK s \in SessionIds :
              /\ requests' = [requests EXCEPT ![r] = Reply(requests[r], s, requests[r].wallet)]
              /\ sessions' = [sessions EXCEPT ![s] =
                     [wallet |-> requests[r].wallet, signer |-> requests[r].signer,
                      state |-> "live"]]
        BY <1>8 DEF InsertSession, Answer
    <2>2. Has(requests[r].wallet)
        BY <2>1 DEF Has, SessionTypeOK
    <2>3. /\ requests'[r].verified = requests[r].wallet
          /\ \A i \in AuthRequests \ {r} : requests'[i] = requests[i]
        BY <2>1 DEF Reply, SessionTypeOK
    <2>4. Replies
        BY <1>1, <2>2, <2>3, RequestFields DEF AnswersHaveSession, Wallets
    <2>5. QED
        BY <1>4, <1>5, <1>8, <2>4 DEF InsertSession, pageVars
<1>9. ASSUME NEW r \in AuthRequests, ReplyArrives(r) PROVE Goal
    <2>1. Replies
        BY <1>6, <1>9 DEF ReplyArrives, SessionTypeOK, NoRequest
    <2>2. query'.data \in {query.data, NoWallet}
        BY <1>9 DEF ReplyArrives, SessionTypeOK
    <2>3. \/ flow' = flow \/ flow' = IdleFlow
          \/ flow' = [stage |-> "refetch", wallet |-> requests[r].verified]
             /\ requests[r].verified # NoWallet /\ requests[r].op = "reply"
        BY <1>9 DEF ReplyArrives
    <2>4. query'.data # NoWallet => Has(query'.data)
        BY <1>1, <2>2 DEF AnswersHaveSession, SessionTypeOK, Wallets
    <2>5. flow' # IdleFlow /\ flow'.stage = "refetch" => Has(flow'.wallet)
        BY <1>1, <2>3, RequestFields DEF AnswersHaveSession, FlowTypeOK, IdleFlow, Wallets
    <2>6. Shown
        BY <1>5, <1>9, <2>4, EffectOfSession
           DEF ReplyArrives, resetVerificationState, Unverified
    <2>7. QED
        BY <2>1, <2>4, <2>5, <2>6
<1>10. ASSUME NEW r \in AuthRequests, ReplyIsLost(r) PROVE Goal
    <2>1. Replies
        BY <1>6, <1>10 DEF ReplyIsLost, SessionTypeOK, NoRequest
    <2>2. Page
        BY <1>1, <1>10 DEF ReplyIsLost, AnswersHaveSession, SessionTypeOK, FlowTypeOK, IdleFlow, Wallets
    <2>3. Shown
        BY <1>5, <1>10 DEF ReplyIsLost, resetVerificationState, Unverified
    <2>4. QED
        BY <2>1, <2>2, <2>3
<1>11. ASSUME NEW r \in AuthRequests, NEW mine \in BOOLEAN,
              \/ PostLogout(r, mine)
              \/ \E c \in ChallengeIds, signer \in VerifyAccounts : PostVerify(r, c, signer, mine)
       PROVE  Goal
    <2>1. Replies
        BY <1>6, <1>11 DEF PostLogout, PostVerify, SessionTypeOK
    <2>2. Page
        BY <1>1, <1>11 DEF PostLogout, PostVerify, AnswersHaveSession, SessionTypeOK, FlowTypeOK,
                           IdleFlow, Wallets
    <2>3. Shown
        BY <1>5, <1>11 DEF PostLogout, PostVerify, resetVerificationState, Unverified
    <2>4. QED
        BY <2>1, <2>2, <2>3
<1>12. ASSUME NEW a \in Wallets, ReportAccount(a) PROVE Goal
    <2>1. Shown
        BY <1>1, <1>5, <1>12, EffectOfSession
           DEF ReportAccount, AnswersHaveSession, SessionTypeOK, Wallets
    <2>2. QED
        BY <1>3, <1>4, <1>12, <2>1 DEF ReportAccount
<1>13. CASE FetchSession
    <2>1. query'.data = query.data
        BY <1>13 DEF FetchSession, SessionTypeOK
    <2>2. Page
        BY <1>1, <1>13, <2>1
           DEF FetchSession, AnswersHaveSession, SessionTypeOK, FlowTypeOK, IdleFlow, Wallets
    <2>3. QED
        BY <1>3, <1>5, <1>13, <2>2 DEF FetchSession
<1>14. CASE SessionFetched
    <2>1. PICK w \in ReadWalletSession(query.fetch) \cup {query.data} :
              query' = [data |-> w, fetch |-> NoFetch] /\ VerificationEffect(account, w)
        BY <1>14 DEF SessionFetched
    <2>2. w \in Wallets /\ (w # NoWallet => HasSession(w))
        BY <1>14
           DEF SessionFetched, ReadWalletSession, HasSession, AnswersHaveSession, SessionTypeOK,
               Wallets, NoSessionRow, CookieValues
    <2>3. w # NoWallet => Has(w)
        BY <1>1, <2>2 DEF Wallets
    <2>4. Page
        BY <1>1, <1>14, <2>1, <2>3
           DEF SessionFetched, AnswersHaveSession, FlowTypeOK, IdleFlow
    <2>5. Shown
        BY <1>5, <2>1, <2>3, EffectOfSession
    <2>6. QED
        BY <1>3, <1>14, <2>4, <2>5 DEF SessionFetched
<1>15. ASSUME NEW c \in ChallengeIds, CreateWalletChallenge(c) PROVE Goal
    <2>1. Page
        BY <1>1, <1>15 DEF CreateWalletChallenge, AnswersHaveSession, SessionTypeOK, Wallets
    <2>2. Shown
        BY <1>15 DEF CreateWalletChallenge, setVerificationState
    <2>3. QED
        BY <1>3, <1>15, <2>1, <2>2 DEF CreateWalletChallenge
<1>16. CASE VerifyEnds
    <2>1. Page
        BY <1>1, <1>16 DEF VerifyEnds, AnswersHaveSession, SessionTypeOK, Wallets
    <2>2. Shown
        BY <1>1, <1>16
           DEF VerifyEnds, setVerificationState, resetVerificationState, Unverified,
               AnswersHaveSession, FlowTypeOK, IdleFlow
    <2>3. QED
        BY <1>3, <1>16, <2>1, <2>2 DEF VerifyEnds
<1>17. ASSUME \/ EnsureTables
              \/ \E c \in ChallengeIds : ExpireChallenge(c)
              \/ UNCHANGED sessionVars
       PROVE  Goal
    BY <1>3, <1>4, <1>5, <1>17 DEF EnsureTables, ExpireChallenge, sessionVars, pageVars
<1> HIDE DEF Goal
<1>18. QED
    BY <1>7, <1>8, <1>9, <1>10, <1>11, <1>12, <1>13, <1>14, <1>15, <1>16, <1>17 DEF SessionNext

(* Enough to keep RepliesAreFresh: no reply gets a session, and a cookie   *)
(* spreads only from the browser.                                          *)
LEMMA FreshIsKept ==
    ASSUME SessionInv,
           UNCHANGED sessionCookie,
           \A i \in AuthRequests :
               \/ requests'[i] = requests[i]
               \/ requests'[i] = NoRequest
               \/ /\ requests'[i].op = "reply" => requests'[i].cookie \notin SessionIds
                  /\ \/ requests'[i].cookie \in {sessionCookie, NoSessionCookie, Kept}
                     \/ requests[i] # NoRequest /\ requests'[i].cookie = requests[i].cookie,
           \A i \in AuthRequests :
               requests[i].op = "reply" /\ requests[i].cookie \in SessionIds
               => sessions'[requests[i].cookie] = sessions[requests[i].cookie]
    PROVE  RepliesAreFresh'
<1> USE SessionAssumption DEF SessionInv
<1> SUFFICES ASSUME NEW r \in AuthRequests,
                    requests'[r].op = "reply" /\ requests'[r].cookie \in SessionIds
             PROVE  /\ sessions'[requests'[r].cookie].state = "live"
                    /\ sessionCookie' # requests'[r].cookie
                    /\ \A q \in AuthRequests \ {r} :
                           requests'[q] # NoRequest => requests'[q].cookie # requests'[r].cookie
    BY DEF RepliesAreFresh
<1>1. requests'[r] = requests[r]
    BY DEF NoRequest
<1>2. sessions'[requests[r].cookie].state = "live" /\ sessionCookie # requests[r].cookie
    BY <1>1 DEF RepliesAreFresh
<1>3. ASSUME NEW q \in AuthRequests \ {r}, requests'[q] # NoRequest
      PROVE  requests'[q].cookie # requests[r].cookie
    BY <1>1, <1>2, <1>3 DEF RepliesAreFresh, SessionIds, NoSessionCookie, Kept
<1>4. QED
    BY <1>1, <1>2, <1>3

LEMMA RepliesStayFresh ==
    SessionInv /\ [SessionNext]_sessionVars => RepliesAreFresh'
<1> SUFFICES ASSUME SessionInv, [SessionNext]_sessionVars PROVE RepliesAreFresh'
    OBVIOUS
<1> USE SessionAssumption DEF SessionInv
<1> DEFINE Goal == RepliesAreFresh'
<1>1. NoSessionCookie \notin SessionIds /\ Kept \notin SessionIds
    BY DEF SessionIds, NoSessionCookie, Kept
<1>2. ASSUME NEW r \in AuthRequests, ClearWalletSession(r) PROVE Goal
    <2>1. requests[r] # NoRequest /\ requests[r].op # "reply"
        BY <1>2 DEF ClearWalletSession, NoRequest
    <2>2. \A i \in AuthRequests :
              requests[i].op = "reply" /\ requests[i].cookie \in SessionIds
              => sessions'[requests[i].cookie] = sessions[requests[i].cookie]
        BY <1>2, <2>1 DEF ClearWalletSession, Invalidated, RepliesAreFresh, SessionTypeOK
    <2>3. /\ \A i \in AuthRequests \ {r} : requests'[i] = requests[i]
          /\ requests'[r].op = "reply" => requests'[r].cookie = NoSessionCookie
          /\ requests'[r].cookie \in {requests[r].cookie, NoSessionCookie}
        BY <1>2, ContinueFields DEF ClearWalletSession, Answer, Reply, SessionTypeOK
    <2>4. UNCHANGED sessionCookie
        BY <1>2 DEF ClearWalletSession
    <2>5. QED
        BY <1>1, <2>1, <2>2, <2>3, <2>4, FreshIsKept
<1>3. ASSUME NEW r \in AuthRequests,
             SelectChallenge(r) \/ MarkUsed(r) \/ StatementFails(r)
      PROVE  Goal
    <2>1. requests[r] # NoRequest
        BY <1>3 DEF SelectChallenge, MarkUsed, StatementFails, NoRequest
    <2>2. /\ \A i \in AuthRequests \ {r} : requests'[i] = requests[i]
          /\ requests'[r].op = "reply" => requests'[r].cookie \in {NoSessionCookie, Kept}
          /\ requests'[r].cookie \in {requests[r].cookie, NoSessionCookie, Kept}
        BY <1>3, ContinueFields
           DEF SelectChallenge, MarkUsed, StatementFails, Reply, FailedReply, SessionTypeOK
    <2>3. UNCHANGED <<sessions, sessionCookie>>
        BY <1>3 DEF SelectChallenge, MarkUsed, StatementFails, serverVars
    <2>4. QED
        BY <1>1, <2>1, <2>2, <2>3, FreshIsKept
<1>4. ASSUME NEW r \in AuthRequests, InsertSession(r) PROVE Goal
    <2>1. PICK s \in SessionIds :
              /\ s = 1 + Cardinality({i \in SessionIds : sessions[i] # NoSessionRow})
              /\ requests' = [requests EXCEPT ![r] = Reply(requests[r], s, requests[r].wallet)]
              /\ sessions' = [sessions EXCEPT ![s] =
                     [wallet |-> requests[r].wallet, signer |-> requests[r].signer,
                      state |-> "live"]]
        BY <1>4 DEF InsertSession, Answer
    <2>2. sessions[s] = NoSessionRow
        BY <2>1, FirstFreeRow DEF SessionIds
    <2>3. /\ sessionCookie # s
          /\ \A i \in AuthRequests : requests[i] # NoRequest => requests[i].cookie # s
        BY <2>2 DEF CookiesIssued, Issued
    <2>4. /\ requests'[r].cookie = s
          /\ \A i \in AuthRequests \ {r} : requests'[i] = requests[i]
          /\ sessions'[s].state = "live"
          /\ \A i \in SessionIds \ {s} : sessions'[i] = sessions[i]
        BY <2>1 DEF Reply, SessionTypeOK
    <2>5. UNCHANGED sessionCookie
        BY <1>4 DEF InsertSession
    <2>6. QED
        BY <2>3, <2>4, <2>5 DEF RepliesAreFresh, NoRequest
<1>5. ASSUME NEW r \in AuthRequests, ReplyArrives(r) PROVE Goal
    <2>1. /\ requests'[r] = NoRequest
          /\ \A i \in AuthRequests \ {r} : requests'[i] = requests[i]
          /\ sessionCookie' \in {sessionCookie, requests[r].cookie}
          /\ requests[r].op = "reply" /\ requests[r] # NoRequest
          /\ UNCHANGED sessions
        BY <1>5 DEF ReplyArrives, SessionTypeOK, serverVars, NoRequest
    <2>2. QED
        BY <2>1 DEF RepliesAreFresh, NoRequest
<1>6. ASSUME NEW r \in AuthRequests, ReplyIsLost(r) PROVE Goal
    BY <1>6, FreshIsKept DEF ReplyIsLost, SessionTypeOK, serverVars
<1>7. ASSUME NEW r \in AuthRequests, NEW mine \in BOOLEAN,
             \/ PostLogout(r, mine)
             \/ \E c \in ChallengeIds, signer \in VerifyAccounts : PostVerify(r, c, signer, mine)
      PROVE  Goal
    <2>1. /\ requests'[r].op # "reply" /\ requests'[r].cookie = sessionCookie
          /\ \A i \in AuthRequests \ {r} : requests'[i] = requests[i]
          /\ UNCHANGED <<sessions, sessionCookie>>
        BY <1>7 DEF PostLogout, PostVerify, SessionTypeOK, serverVars
    <2>2. QED
        BY <2>1, FreshIsKept
<1>8. ASSUME \/ EnsureTables \/ FetchSession \/ SessionFetched \/ VerifyEnds
             \/ \E a \in Wallets : ReportAccount(a)
             \/ \E c \in ChallengeIds : CreateWalletChallenge(c) \/ ExpireChallenge(c)
             \/ UNCHANGED sessionVars
      PROVE  UNCHANGED <<sessions, requests, sessionCookie>>
    BY <1>8 DEF EnsureTables, FetchSession, SessionFetched, VerifyEnds, ReportAccount,
                CreateWalletChallenge, ExpireChallenge, sessionVars, serverVars
<1>9. ASSUME UNCHANGED <<sessions, requests, sessionCookie>> PROVE Goal
    BY <1>9 DEF RepliesAreFresh
<1>10. QED
    BY <1>2, <1>3, <1>4, <1>5, <1>6, <1>7, <1>8, <1>9 DEF SessionNext

LEMMA CookieStaysCovered ==
    SessionInv /\ [SessionNext]_sessionVars => CookieIsCovered'
<1> SUFFICES ASSUME SessionInv, [SessionNext]_sessionVars PROVE CookieIsCovered'
    OBVIOUS
<1> USE SessionAssumption DEF SessionInv
<1> DEFINE Goal == CookieIsCovered'
<1>1. ASSUME UNCHANGED <<replyLost, sessionCookie>>,
             sessionCookie \in SessionIds => sessions'[sessionCookie] = sessions[sessionCookie],
             \A i \in AuthRequests : ReplacesCookie(requests[i]) => ReplacesCookie(requests'[i])
      PROVE  Goal
    BY <1>1 DEF CookieIsCovered, SessionTypeOK, CookieValues
<1>2. ASSUME NEW r \in AuthRequests,
             ClearWalletSession(r) \/ SelectChallenge(r) \/ MarkUsed(r) \/ InsertSession(r)
      PROVE  Goal
    <2>1. ReplacesCookie(requests'[r])
        BY <1>2, ContinueFields, RequestFields
           DEF ClearWalletSession, SelectChallenge, MarkUsed, InsertSession, ReplacesCookie,
               Answer, Reply, FailedReply, SessionTypeOK, SessionIds, NoSessionCookie, Kept
    <2>2. QED
        BY <2>1 DEF CookieIsCovered
<1>3. ASSUME NEW r \in AuthRequests, StatementFails(r) PROVE Goal
    <2>1. \A i \in AuthRequests \ {r} : requests'[i] = requests[i]
        BY <1>3 DEF StatementFails, SessionTypeOK
    <2>2. ReplacesCookie(requests[r]) => ReplacesCookie(requests'[r])
        BY <1>3 DEF StatementFails, ReplacesCookie, Reply, FailedReply, SessionTypeOK,
                    NoSessionCookie, Kept
    <2>3. QED
        BY <1>1, <1>3, <2>1, <2>2 DEF StatementFails, serverVars
<1>4. ASSUME NEW r \in AuthRequests, ReplyArrives(r) PROVE Goal
    <2>1. /\ \A i \in AuthRequests \ {r} : requests'[i] = requests[i]
          /\ requests[r].op = "reply"
          /\ sessionCookie' = IF requests[r].cookie = Kept THEN sessionCookie
                              ELSE requests[r].cookie
          /\ UNCHANGED <<sessions, replyLost>>
        BY <1>4 DEF ReplyArrives, SessionTypeOK, serverVars
    <2>2. CASE requests[r].cookie = Kept
        BY <2>1, <2>2 DEF CookieIsCovered, ReplacesCookie
    <2>3. CASE requests[r].cookie \in SessionIds
        BY <2>1, <2>3 DEF CookieIsCovered, RepliesAreFresh, SessionIds, Kept
    <2>4. CASE requests[r].cookie = NoSessionCookie
        BY <2>1, <2>4 DEF CookieIsCovered, NoSessionCookie, Kept
    <2>5. QED
        BY <2>1, <2>2, <2>3, <2>4, RequestFields DEF CookieValues
<1>5. ASSUME NEW r \in AuthRequests, ReplyIsLost(r) PROVE Goal
    BY <1>5 DEF ReplyIsLost, CookieIsCovered
<1>6. ASSUME NEW r \in AuthRequests, NEW mine \in BOOLEAN,
             \/ PostLogout(r, mine)
             \/ \E c \in ChallengeIds, signer \in VerifyAccounts : PostVerify(r, c, signer, mine)
      PROVE  Goal
    <2>1. /\ requests[r] = NoRequest
          /\ \A i \in AuthRequests \ {r} : requests'[i] = requests[i]
          /\ UNCHANGED <<sessions, sessionCookie, replyLost>>
        BY <1>6 DEF PostLogout, PostVerify, FreeSlot, SessionTypeOK, serverVars
    <2>2. ~ReplacesCookie(requests[r])
        BY <2>1 DEF ReplacesCookie, NoRequest
    <2>3. QED
        BY <1>1, <2>1, <2>2
<1>7. ASSUME \/ EnsureTables \/ FetchSession \/ SessionFetched \/ VerifyEnds
             \/ \E a \in Wallets : ReportAccount(a)
             \/ \E c \in ChallengeIds : CreateWalletChallenge(c) \/ ExpireChallenge(c)
             \/ UNCHANGED sessionVars
      PROVE  UNCHANGED <<sessions, requests, sessionCookie, replyLost>>
    BY <1>7 DEF EnsureTables, FetchSession, SessionFetched, VerifyEnds, ReportAccount,
                CreateWalletChallenge, ExpireChallenge, sessionVars, serverVars
<1>8. ASSUME UNCHANGED <<sessions, requests, sessionCookie, replyLost>> PROVE Goal
    BY <1>1, <1>8
<1>9. QED
    BY <1>2, <1>3, <1>4, <1>5, <1>6, <1>7, <1>8 DEF SessionNext

LEMMA SessionStep == SessionInv /\ [SessionNext]_sessionVars => SessionInv'
<1> SUFFICES ASSUME SessionInv, [SessionNext]_sessionVars PROVE SessionInv'
    OBVIOUS
<1>1. SessionTypeOK' /\ FlowTypeOK' /\ RowsInOrder'
    BY SessionTypesKept, SessionsAreKept
<1>2. CookiesIssued' /\ ChallengesGiven' /\ AcceptedIsSigned'
    BY CookiesStayIssued, RequestsKeepTheirWord
<1>3. AnswersHaveSession' /\ VerifiedHasSession' /\ SessionsAreSigned'
    BY AnswersStaySound, SessionsStaySigned
<1>4. RepliesAreFresh' /\ CookieIsCovered'
    BY RepliesStayFresh, CookieStaysCovered
<1>5. QED
    BY <1>1, <1>2, <1>3, <1>4 DEF SessionInv

-----------------------------------------------------------------------------
(* The invariant holds in every state of the wallet sessions.              *)
THEOREM SessionInvariant == SessionSpec => []SessionInv
BY SessionInitHolds, SessionStep, PTL DEF SessionSpec

(* A browser that has all its answers holds no invalidated session,        *)
(* whatever statements failed and whoever else logged out beside it        *)
(* (clearWalletSession, setWalletSessionCookie, clearWalletSessionCookie). *)
THEOREM CookieIsLiveHolds == SessionSpec => []CookieIsLive
<1>1. SessionInv => CookieIsLive
    BY DEF SessionInv, CookieIsCovered, CookieIsLive, ReplacesCookie, NoRequest
<1>2. QED
    BY <1>1, SessionInvariant, PTL

(* Whoever has a session has signed for its account (the verify handler).  *)
THEOREM SessionsAreSignedHolds == SessionSpec => []SessionsAreSigned
<1>1. SessionInv => SessionsAreSigned
    BY DEF SessionInv
<1>2. QED
    BY <1>1, SessionInvariant, PTL

(* The page shows no account as verified that never got a session          *)
(* (verifyWallet and the effect that compares account and session data).   *)
THEOREM VerifiedHasSessionHolds == SessionSpec => []VerifiedHasSession
<1>1. SessionInv => VerifiedHasSession
    BY DEF SessionInv
<1>2. QED
    BY <1>1, SessionInvariant, PTL
=============================================================================
