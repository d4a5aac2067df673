------------------------------ MODULE WalletSend ------------------------------
(***************************************************************************)
(* A wallet signs and sends the prepared action of a checkout, on each of  *)
(* the four rails: the wallet adapters of the buy page, the executors of   *)
(* the backend that prepare the action, and the wallets, which belong to   *)
(* the buyer and change under the page.                                    *)
(*                                                                         *)
(* CheckoutClient has the page's checkout machine; here a checkout is the  *)
(* account it was opened for, and the subject is which account in the end  *)
(* pays.  Networks, amounts and encodings only add reasons to refuse, and  *)
(* every step may be refused.                                              *)
(***************************************************************************)
EXTENDS Naturals

CONSTANT WalletAccounts     \* accounts the buyer has in the wallets

Rails == {"ETHEREUM", "SOLANA", "TRON", "BITCOIN"}

(* The connectors of a rail in the order of the page's lists.              *)
Connectors == {"metamask", "other"}

ConnectorsOf(r) == IF r = "SOLANA" THEN {"metamask"} ELSE Connectors

NoAccount == "no account"

ASSUME WalletAssumption == NoAccount \notin WalletAccounts

NoConnection == [connector |-> "none", account |-> NoAccount]
Connections == [connector : Connectors, account : WalletAccounts]
NoTransfer == [payer |-> NoAccount, from |-> NoAccount]

VARIABLES
    rail,           \* the chain of the selected asset
    extensions,     \* the account each wallet uses now, NoAccount without the wallet
    connection,     \* what the page holds as connected
    picked,         \* the connector selected in the page
    connecting,     \* wallets that were asked to connect and have not answered
    payment,        \* the checkout under way
    transfer        \* the transaction sent last

walletVars == <<extensions, connection, picked, connecting>>
sendVars == <<rail, walletVars, payment, transfer>>

(* held is the connection the handler of the click closed over, owner the  *)
(* account that the prepared transaction itself names, asked the wallet    *)
(* and the account that are finally asked.                                 *)
NoPayment ==
    [stage |-> "idle", payer |-> NoAccount, owner |-> NoAccount,
     held |-> NoConnection, asked |-> NoConnection]

PaymentStages == {"create", "prepare", "check", "sign", "broadcast"}

PaymentType ==
    [stage : PaymentStages, payer : WalletAccounts, owner : WalletAccounts \cup {NoAccount},
     held : Connections \cup {NoConnection}, asked : Connections \cup {NoConnection}]

SendTypeOK ==
    /\ rail \in Rails
    /\ extensions \in [Connectors -> WalletAccounts \cup {NoAccount}]
    /\ connection \in Connections \cup {NoConnection}
    /\ picked \in Connectors
    /\ connecting \subseteq Connectors
    /\ payment \in PaymentType \cup {NoPayment}
    /\ transfer \in [payer : WalletAccounts, from : WalletAccounts] \cup {NoTransfer}

SendInit ==
    /\ rail \in Rails
    /\ extensions = [c \in Connectors |-> NoAccount]
    /\ connection = NoConnection
    /\ picked = "metamask"
    /\ connecting = {}
    /\ payment = NoPayment
    /\ transfer = NoTransfer

-----------------------------------------------------------------------------
(* Connecting.                                                             *)

Configured == {c \in ConnectorsOf(rail) : extensions[c] # NoAccount}

(* The connector asked for, the first of the configured ones without it.   *)
ResolveRuntime(preferred) ==
    IF preferred \in Configured THEN {preferred}
    ELSE IF "metamask" \in Configured THEN {"metamask"} ELSE Configured

SelectConnector(c) ==
    /\ c \in ConnectorsOf(rail) /\ c # picked
    /\ picked' = c
    /\ UNCHANGED <<rail, extensions, connection, connecting, payment, transfer>>

OpenSelector ==
    /\ \E c \in ResolveRuntime(picked) : connecting' = connecting \cup {c}
    /\ UNCHANGED <<rail, extensions, connection, picked, payment, transfer>>

(* The page stops waiting for a wallet after a while; the answer may come  *)
(* later all the same, after a disconnect or in the middle of a payment.   *)
ConnectRuntime(c) ==
    /\ rail # "SOLANA" /\ c \in connecting
    /\ connecting' = connecting \ {c}
    /\ \/ /\ extensions[c] # NoAccount
          /\ connection' = [connector |-> c, account |-> extensions[c]]
          /\ picked' = c
       \/ UNCHANGED <<connection, picked>>
    /\ UNCHANGED <<rail, extensions, payment, transfer>>

(* MetaMask Solana has no other connector to choose.                       *)
ConnectSolana ==
    /\ "metamask" \in connecting
    /\ connecting' = connecting \ {"metamask"}
    /\ connection' = IF extensions["metamask"] = NoAccount THEN connection
           ELSE [connector |-> "metamask", account |-> extensions["metamask"]]
    /\ UNCHANGED <<rail, extensions, picked, payment, transfer>>

DisconnectWallet ==
    /\ connection # NoConnection
    /\ connection' = NoConnection
    /\ UNCHANGED <<rail, extensions, picked, connecting, payment, transfer>>

(* Only MetaMask TRON and the Ethereum wallets report a change of account; *)
(* MetaMask TRON also connects itself when it reports one.                 *)
Follow ==
    /\ \/ rail = "ETHEREUM" /\ connection # NoConnection
       \/ rail = "TRON" /\ connection.connector \in {"none", "metamask"}
    /\ LET c == IF rail = "TRON" THEN "metamask" ELSE connection.connector IN
       /\ connection.account # extensions[c]
       /\ connection' = IF extensions[c] = NoAccount THEN NoConnection
                        ELSE [connector |-> c, account |-> extensions[c]]
    /\ UNCHANGED <<rail, extensions, picked, connecting, payment, transfer>>

(* The buyer installs, removes, locks or switches a wallet.                *)
UseWallet(c, a) ==
    /\ extensions[c] # a
    /\ extensions' = [extensions EXCEPT ![c] = a]
    /\ UNCHANGED <<rail, connection, picked, connecting, payment, transfer>>

-----------------------------------------------------------------------------
(* Paying.                                                                 *)

Pay(stage) == payment' = [payment EXCEPT !.stage = stage]

(* startWalletPayment.  The Ethereum checkout is opened for the wallet     *)
(* that was verified last, whatever the wallet uses by then.               *)
StartPayment(payer) ==
    /\ payment = NoPayment
    /\ connection # NoConnection
    /\ rail \in {"TRON", "BITCOIN"} => Configured # {}
    /\ rail = "ETHEREUM" \/ payer = connection.account
    /\ payment' = [stage |-> "create", payer |-> payer, owner |-> NoAccount,
                   held |-> connection, asked |-> NoConnection]
    /\ UNCHANGED <<rail, walletVars, transfer>>

CreatedIntent ==
    /\ payment.stage = "create"
    /\ Pay("prepare")
    /\ UNCHANGED <<rail, walletVars, transfer>>

(* An Ethereum request is a recipient and a value, and so is a Bitcoin     *)
(* transfer; the fee payer of a Solana transaction and the owner of a TRON *)
(* contract call are the account the checkout was opened for.              *)
EthereumAction(payer) == NoAccount
SolanaAction(payer) == payer
TronAction(payer) == payer
BitcoinAction(payer) == NoAccount

PreparedAction ==
    /\ payment.stage = "prepare"
    /\ LET payer == payment.payer IN
       payment' = [payment EXCEPT !.stage = "check",
                       !.owner = CASE rail = "ETHEREUM" -> EthereumAction(payer)
                                   [] rail = "SOLANA" -> SolanaAction(payer)
                                   [] rail = "TRON" -> TronAction(payer)
                                   [] rail = "BITCOIN" -> BitcoinAction(payer)]
    /\ UNCHANGED <<rail, walletVars, transfer>>

Ask(c, account) ==
    payment' = [payment EXCEPT !.stage = "sign",
                    !.asked = [connector |-> c, account |-> account]]

(* Faulty: the account is read and not compared.                           *)
MutantCheckEthereum ==
    LET c == payment.held.connector IN
    /\ extensions[c] # NoAccount
    /\ Ask(c, extensions[c])

(* sendBuyTransaction: eth_accounts names the account that will be asked.  *)
CheckEthereum ==
    LET c == payment.held.connector IN
    /\ extensions[c] = payment.payer
    /\ Ask(c, payment.payer)

(* The Solana adapter asks whatever account it holds now.                  *)
CheckSolana ==
    /\ connection # NoConnection
    /\ Ask(connection.connector, connection.account)

CheckTron ==
    \E c \in ResolveRuntime(payment.held.connector) :
        /\ extensions[c] = payment.payer /\ payment.held.account = payment.payer
        /\ Ask(c, payment.payer)

CheckBitcoin ==
    \E c \in ResolveRuntime(payment.held.connector) :
        /\ extensions[c] = payment.held.account
        /\ Ask(c, payment.held.account)

CheckAccount ==
    /\ payment.stage = "check"
    /\ \/ rail = "ETHEREUM" /\ CheckEthereum
       \/ rail = "SOLANA" /\ CheckSolana
       \/ rail = "TRON" /\ CheckTron
       \/ rail = "BITCOIN" /\ CheckBitcoin
    /\ UNCHANGED <<rail, walletVars, transfer>>

(* A chain takes a transaction that names its owner only with the          *)
(* signature of the owner.                                                 *)
ChainAccepts(from) == payment.owner # NoAccount => from = payment.owner

(* Ethereum and Solana requests name the account that is to sign; a        *)
(* Bitcoin transfer names none and is paid by the account of the moment.   *)
SignAndSend ==
    /\ payment.stage = "sign" /\ rail # "TRON"
    /\ LET c == payment.asked.connector
           from == IF rail = "BITCOIN" THEN extensions[c] ELSE payment.asked.account IN
       /\ extensions[c] # NoAccount
       /\ ChainAccepts(from)
       /\ transfer' = [payer |-> payment.payer, from |-> from]
    /\ payment' = NoPayment
    /\ UNCHANGED <<rail, walletVars>>

(* TRON is signed first, by the account of the moment.                     *)
SignTron ==
    /\ payment.stage = "sign" /\ rail = "TRON"
    /\ LET c == payment.asked.connector IN
       /\ extensions[c] # NoAccount
       /\ payment' = [payment EXCEPT !.stage = "broadcast", !.asked.account = extensions[c]]
    /\ UNCHANGED <<rail, walletVars, transfer>>

(* The backend hands the signed transaction on as it was prepared.         *)
BroadcastTron ==
    /\ payment.stage = "broadcast"
    /\ ChainAccepts(payment.asked.account)
    /\ transfer' = [payer |-> payment.payer, from |-> payment.asked.account]
    /\ payment' = NoPayment
    /\ UNCHANGED <<rail, walletVars>>

(* A refusal, an error or an expired quote, at any step.                   *)
PaymentFails ==
    /\ payment # NoPayment
    /\ payment' = NoPayment
    /\ UNCHANGED <<rail, walletVars, transfer>>

SendNext ==
    \/ \E c \in Connectors :
           \/ SelectConnector(c)
           \/ ConnectRuntime(c)
           \/ \E a \in WalletAccounts \cup {NoAccount} : UseWallet(c, a)
    \/ OpenSelector \/ ConnectSolana \/ DisconnectWallet \/ Follow
    \/ \E payer \in WalletAccounts : StartPayment(payer)
    \/ CreatedIntent \/ PreparedAction \/ CheckAccount
    \/ SignAndSend \/ SignTron \/ BroadcastTron \/ PaymentFails

SendSpec == SendInit /\ [][SendNext]_sendVars

-----------------------------------------------------------------------------
(* However the buyer switches accounts and wallets while a payment is      *)
(* under way, and whenever a wallet answers, an account other than the one *)
(* the checkout was opened for never pays it.  Bitcoin is left out: its    *)
(* account may change between getAddresses and sendTransfer, and the       *)
(* backend matches by the address that is paid.                            *)
PaidByPayer == rail # "BITCOIN" => transfer.from = transfer.payer
=============================================================================
