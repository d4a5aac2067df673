------------------------------ MODULE Payments ------------------------------
(***************************************************************************)
(* The payments backend (be/src/modules/payments): checkout requests, the  *)
(* Ethereum webhook and the cron scanner over the tables payment_intents,  *)
(* payment_wallet_actions and payments, with the chains and their provider *)
(* as the environment.                                                     *)
(*                                                                         *)
(* A database statement or transaction is one step; a handler that reads,  *)
(* awaits a provider and writes is several, and holds what it read in req  *)
(* or scan.  The database runs at READ COMMITTED and TypeORM's save()      *)
(* writes every column of the loaded entity, so a late save overwrites the *)
(* mutable columns of the row with what the handler read.                  *)
(***************************************************************************)
EXTENDS PaymentRules

CONSTANTS
    Handlers,   \* request handlers that may be in flight at once
    Scanners,   \* server processes whose cron fires scanOpenIntents
    NoScanner,  \* holder of a free advisory lock
    MaxTime     \* bound on the clock

ASSUME ProcessesAssumption ==
    /\ NoScanner \notin Scanners
    /\ MaxTime \in Nat \ {0}
    /\ Actions \subseteq Nat \ {0}

VARIABLES
    now,        \* the clock and the height of every chain
    txs,        \* the chains: what became of each transaction
    intents,    \* table payment_intents
    actions,    \* table payment_wallet_actions
    payments,   \* table payments, by its unique intent_id
    req,        \* in-flight requests and webhook deliveries
    scan,       \* in-flight scans
    lock        \* PAYMENT_SCANNER_ADVISORY_LOCK

tables == <<intents, actions, payments>>
vars == <<now, txs, intents, actions, payments, req, scan, lock>>

-----------------------------------------------------------------------------
(* Transactions on the chains.  ref is the intent a transaction is bound   *)
(* to by data: the output address on Bitcoin, the reference on Solana.     *)

TxRows ==
    [state : {"UNSENT", "PENDING", "MINED", "REVERTED"},
     chain : Chains \cup {"NONE"}, sender : Senders \cup {NoSender},
     ref : Intents \cup {0}, amount : Amounts \cup {0}, block : Nat]

NoTxRow ==
    [state |-> "UNSENT", chain |-> "NONE", sender |-> NoSender, ref |-> 0,
     amount |-> 0, block |-> 0]

InBlock(t) == txs[t].state \in {"MINED", "REVERTED"}

ConfirmationsOf(t) == IF InBlock(t) THEN now - txs[t].block + 1 ELSE 0

Confirmed(t) == ConfirmationsOf(t) >= Confirmations

(* What a handler keeps between its steps.                                 *)
ReqRows ==
    [op : {"idle", "prepare", "submit", "sending", "saving", "hook", "persist"},
     intent : Intents \cup {0}, seen : IntentStatuses \cup {"ABSENT"},
     action : Actions \cup {0}, tx : Txs \cup {NoTx}, match : PaymentRows]

IdleReq ==
    [op |-> "idle", intent |-> 0, seen |-> "ABSENT", action |-> 0,
     tx |-> NoTx, match |-> NoMatch]

(* The entity of an open intent as the scanner's batch loaded it.          *)
BatchRows == [status : IntentStatuses \cup {"ABSENT"}, checked : BOOLEAN]
NotInBatch == [status |-> "ABSENT", checked |-> FALSE]
EmptyBatch == [i \in Intents |-> NotInBatch]

ScanRows ==
    [pc : {"idle", "next", "find", "expire", "save"},
     batch : [Intents -> BatchRows], intent : Intents \cup {0},
     seen : IntentStatuses \cup {"ABSENT"}, tx : Txs \cup {NoTx},
     match : PaymentRows]

IdleScan ==
    [pc |-> "idle", batch |-> EmptyBatch, intent |-> 0, seen |-> "ABSENT",
     tx |-> NoTx, match |-> NoMatch]

TypeOK ==
    /\ now \in Nat
    /\ txs \in [Txs -> TxRows]
    /\ intents \in [Intents -> IntentRows]
    /\ actions \in [Actions -> ActionRows]
    /\ payments \in [Intents -> PaymentRows]
    /\ req \in [Handlers -> ReqRows]
    /\ scan \in [Scanners -> ScanRows]
    /\ lock \in Scanners \cup {NoScanner}

Init ==
    /\ now = 1
    /\ txs = [t \in Txs |-> NoTxRow]
    /\ intents = [i \in Intents |-> NoIntent]
    /\ actions = [a \in Actions |-> NoAction]
    /\ payments = [i \in Intents |-> NoPayment]
    /\ req = [h \in Handlers |-> IdleReq]
    /\ scan = [s \in Scanners |-> IdleScan]
    /\ lock = NoScanner

-----------------------------------------------------------------------------
(* The environment: wallets broadcast, chains mine.                        *)

Reserved(t) == \E a \in Actions : actions[a].prepared = t

(* The holder of the checkout of i transfers an amount of its own choice.  *)
Send(i, t, amount) ==
    /\ intents[i].status # "ABSENT"
    /\ txs[t].state = "UNSENT" /\ ~Reserved(t)
    /\ txs' = [txs EXCEPT ![t] =
           [state |-> "PENDING", chain |-> intents[i].chain,
            sender |-> intents[i].sender, ref |-> i, amount |-> amount,
            block |-> 0]]
    /\ UNCHANGED <<now, tables, req, scan, lock>>

(* The next block: good and bad are the pending transactions it includes.  *)
Tick(good, bad) ==
    /\ now < MaxTime
    /\ good \cap bad = {}
    /\ \A t \in good \cup bad : txs[t].state = "PENDING"
    /\ \A t \in bad : txs[t].chain # "BITCOIN"
    /\ now' = now + 1
    /\ txs' = [t \in Txs |->
           IF t \in good \cup bad
           THEN [txs[t] EXCEPT !.block = now + 1,
                               !.state = IF t \in good THEN "MINED" ELSE "REVERTED"]
           ELSE txs[t]]
    /\ UNCHANGED <<tables, req, scan, lock>>

-----------------------------------------------------------------------------
(* createIntent.                                                           *)

OpenBtcIntents(sender) ==
    {i \in Intents : /\ intents[i].chain = "BITCOIN"
                     /\ intents[i].sender = sender
                     /\ intents[i].status \in OpenStatuses}

(* buildChainSpecificIntentFields: the block height of the moment.  The    *)
(* Ethereum one may be unknown (0), without the TRON one nothing is made.  *)
CreatedBlock(chain, created) == created = now \/ (created = 0 /\ chain = "ETHEREUM")

CreateIntent(i, chain, sender, amount, created) ==
    /\ intents[i].status = "ABSENT"
    /\ \A j \in Intents : j < i => intents[j].status # "ABSENT"
    /\ SenderRequired(chain) => sender # NoSender
    /\ CreatedBlock(chain, created)
    /\ chain = "BITCOIN" /\ sender # NoSender =>
           Cardinality(OpenBtcIntents(sender)) < OpenBtcLimit
    /\ intents' = [intents EXCEPT ![i] =
           [chain |-> chain, sender |-> sender, expected |-> amount,
            created |-> created, expiresAt |-> now + IntentTTL,
            status |-> "WAITING", checked |-> FALSE]]
    /\ UNCHANGED <<now, txs, actions, payments, req, scan, lock>>

-----------------------------------------------------------------------------
(* prepareWalletAction: the intent is read and judged, the provider is     *)
(* awaited (Solana and TRON), the action is inserted.                      *)

PrepareRead(h, i) ==
    /\ req[h] = IdleReq
    /\ CanPrepare(intents[i], now)
    /\ req' = [req EXCEPT ![h] = [IdleReq EXCEPT !.op = "prepare", !.intent = i]]
    /\ UNCHANGED <<now, txs, tables, scan, lock>>

NewAction(a) ==
    /\ actions[a].status = "ABSENT"
    /\ \A b \in Actions : b < a => actions[b].status # "ABSENT"

PrepareSave(h, a, t) ==
    LET i == req[h].intent IN
    /\ req[h].op = "prepare"
    /\ NewAction(a)
    /\ IF intents[i].chain = "TRON"
       THEN t \in Txs /\ txs[t].state = "UNSENT" /\ ~Reserved(t)
       ELSE t = NoTx
    /\ actions' = [actions EXCEPT ![a] =
           [intent |-> i, status |-> "PREPARED", txId |-> NoTx, prepared |-> t,
            expiresAt |-> now + ActionTTL]]
    /\ req' = [req EXCEPT ![h] = IdleReq]
    /\ UNCHANGED <<now, txs, intents, payments, scan, lock>>

-----------------------------------------------------------------------------
(* submitWalletTxResult, one transaction: the intent and the action are    *)
(* read first, the duplicates next, and everything is written at commit.   *)

(* The transaction id has the format of the chain.                         *)
TxIdFits(i, t) ==
    txs[t].state = "UNSENT" \/ txs[t].chain = intents[i].chain

SubmitRead(h, i, a, t) ==
    /\ req[h] = IdleReq
    /\ CanSubmit(intents[i], now)
    /\ actions[a].intent = i
    /\ TxIdFits(i, t)
    /\ ActionUsable(actions[a], now)
    /\ req' = [req EXCEPT ![h] =
           [IdleReq EXCEPT !.op = "submit", !.intent = i, !.action = a, !.tx = t,
                           !.seen = intents[i].status]]
    /\ UNCHANGED <<now, txs, tables, scan, lock>>

(* The unique indexes over the transaction ids of payment_wallet_actions.  *)
(* Migrations create those of Ethereum and Solana; the one the entity      *)
(* declares for TRON exists in no database.                                *)
ActionIndexFree(a, t) ==
    intents[actions[a].intent].chain # "TRON" => \A b \in Actions \ {a} : actions[b].txId # t

(* Faulty: only older intents are asked.                                   *)
OlderPayments(i, t) ==
    {j \in Intents : j < i /\ payments[j].tx = t /\ intents[j].chain = intents[i].chain}

(* The payments of t that belong to other intents of the same chain.       *)
OtherPayments(i, t) ==
    {j \in Intents \ {i} : /\ payments[j].tx = t
                           /\ intents[j].chain = intents[i].chain}

(* Faulty: an existing payment of the intent is not looked at.             *)
SubmitAcceptedAgain(i, a, t, seen) ==
    /\ OtherPayments(i, t) = {}
    /\ ActionIndexFree(a, t)
    /\ TransitionAllowed(seen, "CONFIRMING")

SubmitAccepted(i, a, t, seen) ==
    /\ OtherPayments(i, t) = {}
    /\ payments[i].tx \in {NoTx, t}
    /\ ActionIndexFree(a, t)
    /\ TransitionAllowed(seen, "CONFIRMING")

(* Faulty: the intent keeps the status it has.                             *)
SubmitCommitPayment(h) ==
    LET i == req[h].intent
        a == req[h].action
        t == req[h].tx
    IN
    /\ req[h].op = "submit"
    /\ IF SubmitAccepted(i, a, t, req[h].seen)
       THEN /\ actions' = [actions EXCEPT ![a].status = "SUBMITTED", ![a].txId = t]
            /\ payments' = [payments EXCEPT ![i] =
                   [status |-> "CONFIRMING", tx |-> t, amount |-> intents[i].expected]]
            /\ intents' = [intents EXCEPT ![i].checked = FALSE]
       ELSE UNCHANGED tables
    /\ req' = [req EXCEPT ![h] = IdleReq]
    /\ UNCHANGED <<now, txs, scan, lock>>

SubmitCommit(h) ==
    LET i == req[h].intent
        a == req[h].action
        t == req[h].tx
    IN
    /\ req[h].op = "submit"
    /\ IF SubmitAccepted(i, a, t, req[h].seen)
       THEN /\ actions' = [actions EXCEPT ![a].status = "SUBMITTED", ![a].txId = t]
            /\ payments' = [payments EXCEPT ![i] =
                   [status |-> "CONFIRMING", tx |-> t, amount |-> intents[i].expected]]
            /\ intents' = [intents EXCEPT ![i].status = "CONFIRMING",
                                          ![i].checked = FALSE]
       ELSE UNCHANGED tables
    /\ req' = [req EXCEPT ![h] = IdleReq]
    /\ UNCHANGED <<now, txs, scan, lock>>

-----------------------------------------------------------------------------
(* broadcastPreparedTronTransaction: no transaction; the action read first *)
(* is saved after the provider answered.                                   *)

BroadcastRead(h, i, a) ==
    /\ req[h] = IdleReq
    /\ CanSubmit(intents[i], now)
    /\ intents[i].chain = "TRON"
    /\ actions[a].intent = i
    /\ actions[a].txId = NoTx
    /\ ActionUsable(actions[a], now)
    /\ req' = [req EXCEPT ![h] =
           [IdleReq EXCEPT !.op = "sending", !.intent = i, !.action = a,
                           !.tx = actions[a].prepared]]
    /\ UNCHANGED <<now, txs, tables, scan, lock>>

(* The node accepts the transaction, or already knows it.                  *)
BroadcastAccept(h) ==
    LET i == req[h].intent
        t == req[h].tx
    IN
    /\ req[h].op = "sending"
    /\ txs' = IF txs[t].state = "UNSENT"
              THEN [txs EXCEPT ![t] =
                       [state |-> "PENDING", chain |-> "TRON",
                        sender |-> intents[i].sender, ref |-> i,
                        amount |-> intents[i].expected, block |-> 0]]
              ELSE txs
    /\ req' = [req EXCEPT ![h].op = "saving"]
    /\ UNCHANGED <<now, tables, scan, lock>>

BroadcastSave(h) ==
    LET a == req[h].action
        t == req[h].tx
    IN
    /\ req[h].op = "saving"
    /\ actions' = IF ActionIndexFree(a, t)
                  THEN [actions EXCEPT ![a].status = "PREPARED", ![a].txId = t]
                  ELSE actions
    /\ req' = [req EXCEPT ![h] = IdleReq]
    /\ UNCHANGED <<now, txs, intents, payments, scan, lock>>

-----------------------------------------------------------------------------
(* persistMatch, one transaction.  The payment row is read afresh, the     *)
(* intent is the entity the caller loaded.                                 *)

(* Faulty: only (chain, tx_hash, output_index) is unique, which a null     *)
(* output index never violates.                                            *)
OutputIndexFree(i, t) == TRUE

(* The unique indexes over (chain, tx_hash, receiver) and (chain, tx_hash, *)
(* output_index): every Bitcoin intent has a receiver address of its own.  *)
PaymentIndexFree(i, t) ==
    intents[i].chain = "BITCOIN" \/ OtherPayments(i, t) = {}

(* Faulty: whatever transaction was submitted is taken for the matched one. *)
PersistMatchAnyAction(i, match) ==
    /\ PaymentIndexFree(i, match.tx)
    /\ payments' = [payments EXCEPT ![i] = match]
    /\ actions' = [a \in Actions |->
           IF actions[a].intent = i /\ actions[a].status = "SUBMITTED"
           THEN [actions[a] EXCEPT !.status = "USED"]
           ELSE actions[a]]
    /\ intents' = [intents EXCEPT ![i].status = match.status, ![i].checked = TRUE]

PersistMatch(i, match) ==
    /\ PaymentIndexFree(i, match.tx)
    /\ payments' = [payments EXCEPT ![i] = match]
    /\ actions' = [a \in Actions |->
           IF /\ actions[a].intent = i
              /\ actions[a].txId = match.tx
              /\ actions[a].status = "SUBMITTED"
           THEN [actions[a] EXCEPT !.status = "USED"]
           ELSE actions[a]]
    /\ intents' = [intents EXCEPT ![i].status = match.status, ![i].checked = TRUE]

-----------------------------------------------------------------------------
(* Provider answers about intent i.  healthy is FALSE when a call fails;   *)
(* the client turns that into null or an empty list.                       *)

MatchOf(t, status) == [status |-> status, tx |-> t, amount |-> txs[t].amount]

(* toEthereumMatch: a missing receipt cannot fail the match, a missing     *)
(* height counts no confirmation.                                          *)
EthereumMatch(i, t, receipt, height, matchedAt) ==
    MatchOf(t,
        IF receipt /\ txs[t].state = "REVERTED" THEN "FAILED"
        ELSE ClassifyMatchedAmount(intents[i], txs[t].amount,
                                   height /\ Confirmed(t), matchedAt))

(* The transfers of the sender to the treasury since the created block;    *)
(* getAssetTransfers lists them in block order.                            *)
EthereumTransfers(i) ==
    {t \in Txs : /\ InBlock(t) /\ txs[t].chain = "ETHEREUM"
                 /\ txs[t].sender = intents[i].sender
                 /\ txs[t].block >= intents[i].created}

FirstMined(S) == {t \in S : \A u \in S : txs[t].block <= txs[u].block}

EthereumAnswers(i, healthy) ==
    IF intents[i].created = 0 \/ EthereumTransfers(i) = {} THEN {NoMatch}
    ELSE IF healthy
    THEN {EthereumMatch(i, t, TRUE, TRUE, txs[t].block) :
             t \in FirstMined(EthereumTransfers(i))}
    ELSE {NoMatch} \cup
         {EthereumMatch(i, t, receipt, height, txs[t].block) :
             t \in FirstMined(EthereumTransfers(i)),
             receipt \in BOOLEAN, height \in BOOLEAN}

(* findSubmittedSolanaPaymentMatch: only the recorded signature is looked  *)
(* up; the transfer must carry the reference and pay the recorded amount.  *)
SolanaStatus(i, t) ==
    CASE ~InBlock(t) -> "CONFIRMING"
      [] txs[t].state = "REVERTED" -> "FAILED"
      [] txs[t].state = "MINED" /\ ~Confirmed(t) -> "CONFIRMING"
      [] OTHER ->
           IF /\ txs[t].chain = "SOLANA" /\ txs[t].ref = i
              /\ txs[t].sender = intents[i].sender
              /\ txs[t].amount = payments[i].amount
           THEN ClassifyMatchedAmount(intents[i], payments[i].amount, TRUE, txs[t].block)
           ELSE "FAILED"

SolanaAnswers(i, healthy) ==
    LET t == payments[i].tx IN
    IF payments[i].status # "CONFIRMING" THEN {NoMatch}
    ELSE {[payments[i] EXCEPT !.status = IF healthy THEN SolanaStatus(i, t)
                                                    ELSE "CONFIRMING"]}

(* A USDT transfer log with the sender, the treasury and the exact amount. *)
TronTransferMatches(i, t) ==
    /\ txs[t].state = "MINED" /\ txs[t].chain = "TRON"
    /\ txs[t].sender = intents[i].sender
    /\ txs[t].amount = intents[i].expected

TronMatch(i, t) ==
    MatchOf(t, ClassifyMatchedAmount(intents[i], txs[t].amount, Confirmed(t), txs[t].block))

TronScanned(i) ==
    {t \in Txs : /\ TronTransferMatches(i, t)
                 /\ txs[t].block >= intents[i].created
                 /\ txs[t].block <= intents[i].created + ScanWindow}

(* findTronUsdtMatch: the submitted transaction, or a bounded block scan.  *)
TronAnswers(i, submitted, healthy) ==
    CASE ~healthy -> {NoMatch}
      [] healthy /\ submitted # NoTx ->
           IF ~InBlock(submitted) THEN {NoMatch}
           ELSE IF TronTransferMatches(i, submitted) THEN {TronMatch(i, submitted)}
           ELSE {[status |-> "FAILED", tx |-> submitted,
                  amount |-> intents[i].expected]}
      [] OTHER -> IF TronScanned(i) = {} THEN {NoMatch}
                  ELSE {TronMatch(i, t) : t \in FirstMined(TronScanned(i))}

(* findBitcoinMatch: a transaction with an output to the derived address,  *)
(* mined or not; the submitted one when there is one.                      *)
BitcoinTransfers(i, submitted) ==
    {t \in Txs : /\ txs[t].state \in {"PENDING", "MINED"}
                 /\ txs[t].chain = "BITCOIN" /\ txs[t].ref = i
                 /\ submitted \in {NoTx, t}}

BitcoinMatch(i, t) ==
    MatchOf(t, ClassifyMatchedAmount(intents[i], txs[t].amount, Confirmed(t),
                   IF InBlock(t) THEN txs[t].block ELSE now))

BitcoinAnswers(i, submitted, healthy) ==
    IF ~healthy \/ BitcoinTransfers(i, submitted) = {} THEN {NoMatch}
    ELSE {BitcoinMatch(i, t) : t \in BitcoinTransfers(i, submitted)}

(* findMatch.                                                              *)
Answers(i, submitted, healthy) ==
    CASE intents[i].chain = "ETHEREUM" -> EthereumAnswers(i, healthy)
      [] intents[i].chain = "SOLANA" -> SolanaAnswers(i, healthy)
      [] intents[i].chain = "TRON" -> TronAnswers(i, submitted, healthy)
      [] intents[i].chain = "BITCOIN" -> BitcoinAnswers(i, submitted, healthy)

-----------------------------------------------------------------------------
(* processEthereumWebhookTransfer: one transfer of a delivery.  Deliveries *)
(* are repeated, lost or late as the provider likes.                       *)

HookCandidates(t) ==
    {i \in Intents : /\ intents[i].chain = "ETHEREUM"
                     /\ intents[i].sender = txs[t].sender
                     /\ intents[i].status \in OpenStatuses
                     /\ intents[i].created <= txs[t].block}

(* selectEthereumWebhookIntent: the oldest with the exact amount, or the   *)
(* oldest.                                                                 *)
Oldest(S) == {i \in S : \A j \in S : i <= j}

SelectedIntents(t) ==
    LET exact == {i \in HookCandidates(t) : intents[i].expected = txs[t].amount}
    IN Oldest(IF exact # {} THEN exact ELSE HookCandidates(t))

(* A delivery tells of a transfer with a hash, two addresses and a value.  *)
ProcessableTransfer(t) == txs[t].chain = "ETHEREUM" /\ InBlock(t)

HookReceive(h, t, i) ==
    /\ req[h] = IdleReq
    /\ ProcessableTransfer(t)
    /\ i \in SelectedIntents(t)
    /\ req' = [req EXCEPT ![h] =
           [IdleReq EXCEPT !.op = "hook", !.intent = i, !.tx = t,
                           !.seen = intents[i].status]]
    /\ UNCHANGED <<now, txs, tables, scan, lock>>

(* The payload may carry no block timestamp.                               *)
HookMatch(h, receipt, height, stamped) ==
    LET i == req[h].intent
        t == req[h].tx
        match == EthereumMatch(i, t, receipt, height,
                               IF stamped THEN txs[t].block ELSE now)
    IN
    /\ req[h].op = "hook"
    /\ req' = [req EXCEPT ![h] =
           IF TransitionAllowed(req[h].seen, match.status)
           THEN [req[h] EXCEPT !.op = "persist", !.match = match]
           ELSE IdleReq]
    /\ UNCHANGED <<now, txs, tables, scan, lock>>

HookPersist(h) ==
    LET i == req[h].intent
        match == req[h].match
    IN
    /\ req[h].op = "persist"
    /\ IF PaymentIndexFree(i, match.tx) THEN PersistMatch(i, match) ELSE UNCHANGED tables
    /\ req' = [req EXCEPT ![h] = IdleReq]
    /\ UNCHANGED <<now, txs, scan, lock>>

(* A request ends early: a provider or database error, a crash, a refusal. *)
Abort(h) ==
    /\ req[h] # IdleReq
    /\ req' = [req EXCEPT ![h] = IdleReq]
    /\ UNCHANGED <<now, txs, tables, scan, lock>>

-----------------------------------------------------------------------------
(* scanOpenIntents and checkAndPersistIntent.                              *)

OpenIntents == {i \in Intents : intents[i].status \in OpenStatuses}

(* The oldest BatchSize open intents.                                      *)
OldestOpen ==
    {i \in OpenIntents : Cardinality({j \in OpenIntents : j < i}) < BatchSize}

(* Faulty: a scan starts whether or not it got the lock.                   *)
ScanStartUnlocked(s) ==
    /\ scan[s].pc = "idle"
    /\ lock' = s
    /\ scan' = [scan EXCEPT ![s] =
           [IdleScan EXCEPT !.pc = "next",
               !.batch = [i \in Intents |->
                   IF i \in OldestOpen
                   THEN [status |-> intents[i].status, checked |-> intents[i].checked]
                   ELSE NotInBatch]]]
    /\ UNCHANGED <<now, txs, tables, req>>

ScanStart(s) ==
    /\ scan[s].pc = "idle"
    /\ lock = NoScanner
    /\ lock' = s
    /\ scan' = [scan EXCEPT ![s] =
           [IdleScan EXCEPT !.pc = "next",
               !.batch = [i \in Intents |->
                   IF i \in OldestOpen
                   THEN [status |-> intents[i].status, checked |-> intents[i].checked]
                   ELSE NotInBatch]]]
    /\ UNCHANGED <<now, txs, tables, req>>

Remaining(s) == {i \in Intents : scan[s].batch[i] # NotInBatch}

(* The next intent of the batch, taken out of it, with its entity.         *)
TakeNext(s, i) ==
    /\ scan[s].pc = "next"
    /\ i \in Oldest(Remaining(s))

(* canUseCachedStatus: an entity checked shortly before it was loaded.     *)
ScanSkip(s, i) ==
    /\ TakeNext(s, i)
    /\ scan[s].batch[i].checked
    /\ scan' = [scan EXCEPT ![s].batch[i] = NotInBatch]
    /\ UNCHANGED <<now, txs, tables, req, lock>>

(* Faulty: an action that was only prepared counts as submitted.           *)
LiveActions(i) ==
    {a \in Actions : /\ actions[a].intent = i
                     /\ actions[a].status \in {"PREPARED", "SUBMITTED"}}

SubmittedActions(i) ==
    {a \in Actions : actions[a].intent = i /\ actions[a].status = "SUBMITTED"}

(* The transaction id of the latest one, or none.                          *)
SubmittedTx(i) ==
    IF SubmittedActions(i) = {} THEN {NoTx}
    ELSE {actions[a].txId :
             a \in {b \in SubmittedActions(i) : \A c \in SubmittedActions(i) : c <= b}}

Overdue(i) == intents[i].expiresAt <= now

(* The latest submitted action is read; an overdue intent without one is   *)
(* about to expire, unless that transition throws; any other is looked up. *)
ScanCheck(s, i, tx) ==
    LET seen == scan[s].batch[i].status
        expire == Overdue(i) /\ SubmittedActions(i) = {}
        taken == [scan[s] EXCEPT !.batch[i] = NotInBatch]
    IN
    /\ TakeNext(s, i)
    /\ tx \in SubmittedTx(i)
    /\ scan' = [scan EXCEPT ![s] =
           IF expire /\ ~TransitionAllowed(seen, "EXPIRED") THEN taken
           ELSE [taken EXCEPT !.pc = IF expire THEN "expire" ELSE "find",
                              !.intent = i, !.seen = seen, !.tx = tx]]
    /\ UNCHANGED <<now, txs, tables, req, lock>>

Proceed(s) ==
    [scan[s] EXCEPT !.pc = "next", !.intent = 0, !.seen = "ABSENT",
                    !.tx = NoTx, !.match = NoMatch]

ScanExpire(s) ==
    LET i == scan[s].intent IN
    /\ scan[s].pc = "expire"
    /\ intents' = [intents EXCEPT ![i].status = "EXPIRED", ![i].checked = TRUE]
    /\ scan' = [scan EXCEPT ![s] = Proceed(s)]
    /\ UNCHANGED <<now, txs, actions, payments, req, lock>>

(* The provider answers; an illegal transition throws, which ends the      *)
(* check of this intent only.                                              *)
ScanFind(s, healthy) ==
    /\ scan[s].pc = "find"
    /\ \E match \in Answers(scan[s].intent, scan[s].tx, healthy) :
          scan' = [scan EXCEPT ![s] =
              IF match = NoMatch \/ TransitionAllowed(scan[s].seen, match.status)
              THEN [scan[s] EXCEPT !.pc = "save", !.match = match]
              ELSE Proceed(s)]
    /\ UNCHANGED <<now, txs, tables, req, lock>>

(* The entity is saved with its loaded status, or the match is persisted.  *)
ScanSave(s) ==
    LET i == scan[s].intent
        match == scan[s].match
    IN
    /\ scan[s].pc = "save"
    /\ IF match = NoMatch
       THEN /\ intents' = [intents EXCEPT ![i].status = scan[s].seen,
                                          ![i].checked = TRUE]
            /\ UNCHANGED <<actions, payments>>
       ELSE IF PaymentIndexFree(i, match.tx) THEN PersistMatch(i, match)
       ELSE UNCHANGED tables
    /\ scan' = [scan EXCEPT ![s] = Proceed(s)]
    /\ UNCHANGED <<now, txs, req, lock>>

(* An error while one intent is checked is swallowed by the loop.          *)
ScanError(s) ==
    /\ scan[s].pc \in {"find", "expire", "save"}
    /\ scan' = [scan EXCEPT ![s] = Proceed(s)]
    /\ UNCHANGED <<now, txs, tables, req, lock>>

(* Faulty: the session returns to the pool with the lock.                  *)
ScanEndLocked(s) ==
    /\ scan[s].pc = "next"
    /\ Remaining(s) = {}
    /\ scan' = [scan EXCEPT ![s] = IdleScan]
    /\ UNCHANGED <<now, txs, tables, req, lock>>

ScanEnd(s) ==
    /\ scan[s].pc = "next"
    /\ Remaining(s) = {}
    /\ scan' = [scan EXCEPT ![s] = IdleScan]
    /\ lock' = NoScanner
    /\ UNCHANGED <<now, txs, tables, req>>

(* The process dies; its session, and with it the advisory lock, goes.     *)
ScanCrash(s) ==
    /\ scan[s].pc # "idle"
    /\ scan' = [scan EXCEPT ![s] = IdleScan]
    /\ lock' = NoScanner
    /\ UNCHANGED <<now, txs, tables, req>>

-----------------------------------------------------------------------------
Environment ==
    \/ \E i \in Intents, t \in Txs, amount \in Amounts : Send(i, t, amount)
    \/ \E good, bad \in SUBSET Txs : Tick(good, bad)

Request(h) ==
    \/ \E i \in Intents : PrepareRead(h, i)
    \/ \E a \in Actions, t \in Txs \cup {NoTx} : PrepareSave(h, a, t)
    \/ \E i \in Intents, a \in Actions, t \in Txs : SubmitRead(h, i, a, t)
    \/ SubmitCommit(h)
    \/ \E i \in Intents, a \in Actions : BroadcastRead(h, i, a)
    \/ BroadcastAccept(h)
    \/ BroadcastSave(h)
    \/ \E t \in Txs, i \in Intents : HookReceive(h, t, i)
    \/ \E receipt, height, stamped \in BOOLEAN : HookMatch(h, receipt, height, stamped)
    \/ HookPersist(h)
    \/ Abort(h)

Scan(s) ==
    \/ ScanStart(s)
    \/ \E i \in Intents : ScanSkip(s, i)
    \/ \E i \in Intents, tx \in Txs \cup {NoTx} : ScanCheck(s, i, tx)
    \/ ScanExpire(s)
    \/ \E healthy \in BOOLEAN : ScanFind(s, healthy)
    \/ ScanSave(s)
    \/ ScanError(s)
    \/ ScanEnd(s)
    \/ ScanCrash(s)

Next ==
    \/ Environment
    \/ \E i \in Intents, chain \in Chains, sender \in Senders \cup {NoSender},
          amount \in Amounts, created \in {0, now} :
          CreateIntent(i, chain, sender, amount, created)
    \/ \E h \in Handlers : Request(h)
    \/ \E s \in Scanners : Scan(s)

Spec == Init /\ [][Next]_vars

(* The cron fires for ever on a process that keeps running; the cache of a *)
(* status is shorter than the cron interval, a provider outage ends, and   *)
(* so does a crash loop: each step of a scan is taken if it can be taken   *)
(* again and again.                                                        *)
Fairness ==
    \A s \in Scanners :
        /\ SF_vars(ScanStart(s))
        /\ \A i \in Intents : SF_vars(\E tx \in Txs \cup {NoTx} : ScanCheck(s, i, tx))
        /\ SF_vars(ScanExpire(s))
        /\ SF_vars(ScanFind(s, TRUE))
        /\ SF_vars(ScanSave(s))
        /\ SF_vars(ScanEnd(s))

FairSpec == Spec /\ Fairness /\ WF_vars(\E good, bad \in SUBSET Txs : Tick(good, bad))

-----------------------------------------------------------------------------
(* Properties.                                                             *)

(* A payment listed as CONFIRMED (the leaderboard, the history, the volume *)
(* of the admin statistics) is the only confirmed payment of its transfer: *)
(* no transfer is credited to two checkouts, whatever the webhook, the     *)
(* scanner and the submissions do and however the sender's intents         *)
(* overlap.                                                                *)
CreditedOnce ==
    \A i, j \in Intents :
        /\ payments[i].status = "CONFIRMED"
        /\ payments[j].status = "CONFIRMED"
        /\ payments[i].tx = payments[j].tx
        => i = j

(* What the chain of i must show before i is credited with transaction t.  *)
(* On Ethereum a receipt that could not be fetched counts as success, so   *)
(* there a reverted transfer passes; and only there must the transfer be   *)
(* as young as the checkout, a submitted one is not held to that.          *)
PaidBy(i, t) ==
    /\ t \in Txs /\ txs[t].chain = intents[i].chain
    /\ InBlock(t) /\ Confirmed(t)
    /\ intents[i].chain # "ETHEREUM" => txs[t].state = "MINED"
    /\ txs[t].amount = intents[i].expected
    /\ txs[t].block <= intents[i].expiresAt
    /\ intents[i].chain \in {"BITCOIN", "SOLANA"} => txs[t].ref = i
    /\ intents[i].chain # "BITCOIN" => txs[t].sender = intents[i].sender
    /\ intents[i].chain = "ETHEREUM" => txs[t].block >= intents[i].created

(* A CONFIRMED payment is backed by an on-time transfer of the exact       *)
(* amount with enough confirmations, attributed to the right payer, though *)
(* the match was computed from provider answers some steps earlier.        *)
ConfirmedIsPaid ==
    \A i \in Intents :
        payments[i].status = "CONFIRMED" => PaidBy(i, payments[i].tx)

(* The statuses that persistMatch decides.                                 *)
SettledStatuses == TerminalStatuses \ {"EXPIRED"}

(* A settled intent and its payment row say the same, although requests    *)
(* and scans overwrite intents with statuses they read earlier: the        *)
(* confirmed count of the admin statistics, taken from intents, never      *)
(* exceeds the payments its volume is summed over.                         *)
SettledMatchesPayment ==
    \A i \in Intents :
        intents[i].status \in SettledStatuses => payments[i].status = intents[i].status

(* A Solana checkout settles the signature submitted for it and no other:  *)
(* once a payment row names one, neither a second submission in flight nor *)
(* a scan that loaded the row earlier replaces it.                         *)
SignatureKept ==
    [][\A i \in Intents :
          intents[i].chain = "SOLANA" /\ payments[i].tx # NoTx
          => payments'[i].tx = payments[i].tx]_vars

(* An action becomes USED only in the step that records its transaction as *)
(* the payment of its own intent, and except on Solana, where a signature  *)
(* nobody knows counts as confirming, only for a transaction the chain has *)
(* seen.                                                                   *)
UsedWithPayment ==
    [][\A a \in Actions :
          actions'[a].status = "USED" /\ actions[a].status # "USED" =>
              LET i == actions[a].intent
                  t == actions[a].txId
              IN /\ payments'[i].tx = t
                 /\ payments'[i].status = intents'[i].status
                 /\ intents[i].chain # "SOLANA" => txs[t].state # "UNSENT"]_vars

(* Off Ethereum, where no webhook writes, a confirmed payment keeps its    *)
(* transaction: scans do not overlap, and a submission with another id is  *)
(* refused even if it read the intent while it was open.                   *)
ConfirmedTransferKept ==
    [][\A i \in Intents :
          intents[i].chain # "ETHEREUM" /\ payments[i].status = "CONFIRMED"
          => payments'[i].tx = payments[i].tx]_vars

(* Off Ethereum a closed checkout is reopened only by a submission that    *)
(* was under way when it closed: it becomes CONFIRMING together with its   *)
(* payment, of the transaction it had if it had one, and leaves an action  *)
(* the scanner will look up.  No scan writes back the open status it had   *)
(* loaded.                                                                 *)
OnlySubmissionsReopen ==
    [][\A i \in Intents :
          /\ intents[i].chain # "ETHEREUM" /\ intents[i].status \in TerminalStatuses
          /\ intents'[i].status # intents[i].status
          => /\ intents'[i].status = "CONFIRMING" /\ payments'[i].status = "CONFIRMING"
             /\ payments[i].tx \in {NoTx, payments'[i].tx}
             /\ \E a \in Actions :
                    /\ actions'[a].intent = i /\ actions'[a].status = "SUBMITTED"
                    /\ actions'[a].txId = payments'[i].tx]_vars

(* A checkout still waiting after its expiry, with no submission to look   *)
(* up, is closed or gets a submission: the scanner comes round to it in    *)
(* spite of provider errors, crashes and the checkouts ahead of it.        *)
OverdueCloses ==
    \A i \in Intents :
        (/\ intents[i].status = "WAITING" /\ intents[i].expiresAt <= now
         /\ \A a \in Actions : ~(actions[a].intent = i /\ actions[a].status = "SUBMITTED"))
        ~> (\/ intents[i].status # "WAITING"
            \/ \E a \in Actions : actions[a].intent = i /\ actions[a].status = "SUBMITTED")

(* The scanner's lock is given back again and again, whoever held it.      *)
LockReleased == []<>(lock = NoScanner)

(* The credits of the promised books: the transactions of the payments     *)
(* listed as CONFIRMED.                                                    *)
CreditOf(i) == IF payments[i].status = "CONFIRMED" THEN payments[i].tx ELSE NoTx

Books == INSTANCE TransferCredits WITH credit <- [i \in Intents |-> CreditOf(i)]

(* Webhook, scanner and submissions together implement TransferCredits: a  *)
(* step credits one checkout at most, and never with a transfer that is    *)
(* credited already.                                                       *)
BooksKept == Books!Spec
=============================================================================
