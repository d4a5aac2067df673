--------------------------- MODULE PaymentsProofs ---------------------------
(***************************************************************************)
(* Proofs about Payments.                                                  *)
(***************************************************************************)
EXTENDS Payments, TLAPS

-----------------------------------------------------------------------------
(* The inductive invariant.                                                *)

IntentExists(i) == i \in Intents /\ intents[i].status # "ABSENT"

(* Nothing is mined in the future.                                         *)
BlocksPast == \A t \in Txs : txs[t].block <= now

(* A payment row belongs to an intent and names a transaction.             *)
PaymentsOwned ==
    \A i \in Intents :
        /\ intents[i].status = "ABSENT" => payments[i] = NoPayment
        /\ payments[i].status # "ABSENT" => payments[i].tx \in Txs

(* A checkout is on a chain in use.                                        *)
ChainsKnown ==
    \A i \in Intents : intents[i].status # "ABSENT" => intents[i].chain \in Chains

(* The unique index over (chain, tx_hash, receiver), where the receiver is *)
(* the treasury.                                                           *)
TxsUnique ==
    \A i, j \in Intents :
        /\ payments[i].tx = payments[j].tx /\ payments[i].tx # NoTx
        /\ intents[i].chain = intents[j].chain /\ intents[i].chain # "BITCOIN"
        => i = j

(* A match, persisted or not, is sound: if it confirms, the chain did.     *)
MatchSound(i, match) ==
    /\ match.tx \in Txs
    /\ match.status = "CONFIRMED" => PaidBy(i, match.tx)

(* The transfer a webhook delivery is about fits the intent chosen for it. *)
HookFits(i, t) ==
    /\ t \in Txs /\ InBlock(t)
    /\ txs[t].chain = "ETHEREUM" /\ intents[i].chain = "ETHEREUM"
    /\ txs[t].sender = intents[i].sender
    /\ txs[t].block >= intents[i].created

(* What a request in flight knows: its intent exists, and the match it is  *)
(* about to persist is sound.                                              *)
ReqSound(h) ==
    LET i == req[h].intent IN
    /\ req[h].op # "idle" => IntentExists(i)
    /\ req[h].op = "submit" => req[h].tx \in Txs
    /\ req[h].op = "sending" => intents[i].chain = "TRON"
    /\ req[h].op \in {"hook", "persist"} => HookFits(i, req[h].tx)
    /\ req[h].op = "persist" =>
           req[h].match.status \in PaymentStatuses /\ MatchSound(i, req[h].match)

(* What a scan in flight knows.  The status it loaded was open, so a save  *)
(* of the loaded entity never makes an intent settled.                     *)
ScanSound(s) ==
    LET i == scan[s].intent IN
    /\ \A j \in Intents : scan[s].batch[j] # NotInBatch =>
           intents[j].status # "ABSENT" /\ scan[s].batch[j].status \in OpenStatuses
    /\ scan[s].pc \in {"find", "expire", "save"} =>
           IntentExists(i) /\ scan[s].seen \in OpenStatuses
    /\ scan[s].pc = "save" /\ scan[s].match # NoMatch =>
           scan[s].match.status \in PaymentStatuses /\ MatchSound(i, scan[s].match)

(* The invariant that every step preserves.                                *)
IInv ==
    /\ TypeOK
    /\ BlocksPast
    /\ PaymentsOwned
    /\ ChainsKnown
    /\ TxsUnique
    /\ ConfirmedIsPaid
    /\ SettledMatchesPayment
    /\ \A h \in Handlers : ReqSound(h)
    /\ \A s \in Scanners : ScanSound(s)

(* What every step does to the chains and the checkouts: time goes on,     *)
(* blocks stay, and a row of payment_intents keeps its immutable columns.  *)
SameCheckout(i) ==
    /\ intents'[i].chain = intents[i].chain
    /\ intents'[i].sender = intents[i].sender
    /\ intents'[i].expected = intents[i].expected
    /\ intents'[i].created = intents[i].created
    /\ intents'[i].expiresAt = intents[i].expiresAt

Grows ==
    /\ now <= now'
    /\ \A t \in Txs : InBlock(t) => txs'[t] = txs[t]
    /\ \A i \in Intents : intents[i].status # "ABSENT" =>
           intents'[i].status # "ABSENT" /\ SameCheckout(i)

-----------------------------------------------------------------------------
(* Types.                                                                  *)

(* The empty tables of a new deployment are well typed.                    *)
LEMMA InitTypeOK == Init => TypeOK
  BY IntentsAssumption, NullsAssumption, ProcessesAssumption
  DEF Init, TypeOK, NoTxRow, NoIntent, NoAction, NoPayment, IdleReq, IdleScan,
      NoMatch, EmptyBatch, NotInBatch, TxRows, IntentRows, ActionRows,
      PaymentRows, ReqRows, ScanRows, BatchRows

(* The chains alone change.                                                *)
LEMMA EnvironmentType ==
  ASSUME TypeOK, Environment
  PROVE  TypeOK'
<1>1. ASSUME NEW i \in Intents, NEW t \in Txs, NEW amount \in Amounts,
             Send(i, t, amount)
      PROVE  TypeOK'
  BY <1>1 DEF TypeOK, Send, tables, TxRows, IntentRows
<1>2. ASSUME NEW good \in SUBSET Txs, NEW bad \in SUBSET Txs, Tick(good, bad)
      PROVE  TypeOK'
  <2>1. now' \in Nat
    <3>1. now' = now + 1
      BY <1>2 DEF Tick
    <3>2. now \in Nat
      BY DEF TypeOK
    <3> QED
      BY <3>1, <3>2
  <2>2. ASSUME NEW t \in Txs
        PROVE  txs'[t] \in TxRows
    <3>1. CASE t \in good \cup bad
      <4> DEFINE state == IF t \in good THEN "MINED" ELSE "REVERTED"
      <4>1. txs'[t] = [txs[t] EXCEPT !.block = now + 1, !.state = state]
        BY <1>2, <3>1 DEF Tick
      <4>2. now + 1 \in Nat /\ state \in {"MINED", "REVERTED"} /\ txs[t] \in TxRows
        BY DEF TypeOK
      <4> HIDE DEF state
      <4> QED
        BY <4>1, <4>2 DEF TxRows
    <3>2. CASE t \notin good \cup bad
      BY <1>2, <3>2 DEF Tick, TypeOK
    <3> QED
      BY <3>1, <3>2
  <2>3. txs' \in [Txs -> TxRows]
    <3>1. txs' = [t \in Txs |-> txs'[t]]
      BY <1>2 DEF Tick
    <3> QED
      BY <3>1, <2>2
  <2> QED
    BY <1>2, <2>1, <2>3 DEF Tick, TypeOK, tables
<1> QED
  BY <1>1, <1>2 DEF Environment

(* Rows that are written in more than one place.                           *)
LEMMA IntentStatusWritten ==
  ASSUME TypeOK, NEW i, NEW status \in IntentStatuses, NEW checked \in BOOLEAN
  PROVE  [intents EXCEPT ![i].status = status, ![i].checked = checked]
             \in [Intents -> IntentRows]
  BY DEF TypeOK, IntentRows

(* persistMatch writes well typed rows, whatever match it is given.        *)
LEMMA PersistMatchType ==
  ASSUME TypeOK, NEW i, NEW match \in PaymentRows, match.status # "ABSENT",
         PersistMatch(i, match)
  PROVE  /\ intents' \in [Intents -> IntentRows]
         /\ actions' \in [Actions -> ActionRows]
         /\ payments' \in [Intents -> PaymentRows]
<1>1. match.status \in IntentStatuses
  BY DEF PaymentRows, PaymentStatuses
<1>2. intents' \in [Intents -> IntentRows]
  BY <1>1, IntentStatusWritten DEF PersistMatch
<1>3. actions' \in [Actions -> ActionRows]
  BY DEF PersistMatch, TypeOK, ActionRows, ActionStatuses
<1>4. payments' \in [Intents -> PaymentRows]
  BY DEF PersistMatch, TypeOK
<1> QED
  BY <1>2, <1>3, <1>4

(* toIntentStatus is total: a payment status is an intent status.          *)
LEMMA PaymentStatusTypes == PaymentStatuses \subseteq IntentStatuses
  BY DEF PaymentStatuses

(* classifyMatchedAmount, and with it every answer, names a status of a    *)
(* payment.                                                                *)
LEMMA ClassifyType ==
  ASSUME NEW intent, NEW amount, NEW confirmed, NEW matchedAt
  PROVE  ClassifyMatchedAmount(intent, amount, confirmed, matchedAt) \in PaymentStatuses
  BY DEF ClassifyMatchedAmount, PaymentStatuses, IntentStatuses, OpenStatuses,
         TerminalStatuses

(* A match made from a transaction on a chain is a payment row.            *)
LEMMA MatchOfType ==
  ASSUME TypeOK, NEW t \in Txs, NEW status \in PaymentStatuses
  PROVE  /\ MatchOf(t, status) \in PaymentRows
         /\ MatchOf(t, status).status = status
  BY DEF MatchOf, TypeOK, TxRows, PaymentRows

(* toEthereumMatch returns a payment row, failed receipt or not.           *)
LEMMA EthereumMatchType ==
  ASSUME TypeOK, NEW i, NEW t \in Txs, NEW receipt, NEW height, NEW matchedAt
  PROVE  LET match == EthereumMatch(i, t, receipt, height, matchedAt) IN
         match \in PaymentRows /\ match.status \in PaymentStatuses
<1> DEFINE class == ClassifyMatchedAmount(intents[i], txs[t].amount,
                                          height /\ Confirmed(t), matchedAt)
           status == IF receipt /\ txs[t].state = "REVERTED" THEN "FAILED" ELSE class
<1>1. "FAILED" \in PaymentStatuses
  BY DEF PaymentStatuses, IntentStatuses, OpenStatuses, TerminalStatuses
<1>2. class \in PaymentStatuses
  BY ClassifyType
<1>3. status \in PaymentStatuses
  BY <1>1, <1>2
<1>4. EthereumMatch(i, t, receipt, height, matchedAt) = MatchOf(t, status)
  BY DEF EthereumMatch
<1> QED
  BY <1>3, <1>4, MatchOfType

(* The statuses the Solana and TRON branches write are statuses of a       *)
(* payment.                                                                *)
LEMMA StatusNames ==
  /\ "FAILED" \in PaymentStatuses
  /\ "CONFIRMING" \in PaymentStatuses
  /\ "ABSENT" \notin IntentStatuses
  BY DEF PaymentStatuses, IntentStatuses, OpenStatuses, TerminalStatuses

(* A null match cannot be mistaken for a match.                            *)
LEMMA NoMatchType == NoMatch \in PaymentRows /\ NoMatch.status = "ABSENT"
  BY DEF NoMatch, NoPayment, PaymentRows

(* A match of findEthereumMatch comes from toEthereumMatch on the first    *)
(* transfer.                                                               *)
LEMMA EthereumAnswersShape ==
  ASSUME NEW i, NEW healthy \in BOOLEAN,
         NEW match \in EthereumAnswers(i, healthy), match # NoMatch
  PROVE  \E t \in FirstMined(EthereumTransfers(i)), receipt \in BOOLEAN, height \in BOOLEAN :
             match = EthereumMatch(i, t, receipt, height, txs[t].block)
<1> DEFINE found == FirstMined(EthereumTransfers(i))
           clear == {EthereumMatch(i, t, TRUE, TRUE, txs[t].block) : t \in found}
           dim == {EthereumMatch(i, t, receipt, height, txs[t].block) :
                      t \in found, receipt \in BOOLEAN, height \in BOOLEAN}
<1>1. EthereumAnswers(i, healthy) =
          IF intents[i].created = 0 \/ EthereumTransfers(i) = {} THEN {NoMatch}
          ELSE IF healthy THEN clear ELSE {NoMatch} \cup dim
  BY DEF EthereumAnswers
<1>2. match \in clear \/ match \in dim
  <2> HIDE DEF clear, dim
  <2> QED
    BY <1>1
<1>3. CASE match \in clear
  <2>1. PICK t \in found : match = EthereumMatch(i, t, TRUE, TRUE, txs[t].block)
    BY <1>3
  <2>2. TRUE \in BOOLEAN
    OBVIOUS
  <2> QED
    BY <2>1, <2>2, Zenon
<1>4. CASE match \in dim
  BY <1>4
<1> HIDE DEF clear, dim, found
<1> QED
  BY <1>2, <1>3, <1>4, Zenon

(* findEthereumMatch returns null or a payment row.                        *)
LEMMA EthereumAnswersType ==
  ASSUME TypeOK, NEW i \in Intents, NEW healthy \in BOOLEAN,
         NEW match \in EthereumAnswers(i, healthy), match # NoMatch
  PROVE  match \in PaymentRows /\ match.status \in PaymentStatuses
<1>1. FirstMined(EthereumTransfers(i)) \subseteq Txs
  BY DEF FirstMined, EthereumTransfers
<1> QED
  BY <1>1, EthereumAnswersShape, EthereumMatchType

(* findSubmittedSolanaPaymentMatch returns null or a payment row.          *)
LEMMA SolanaAnswersType ==
  ASSUME TypeOK, NEW i \in Intents, NEW healthy \in BOOLEAN,
         NEW match \in SolanaAnswers(i, healthy), match # NoMatch
  PROVE  match \in PaymentRows /\ match.status \in PaymentStatuses
<1> DEFINE status == IF healthy THEN SolanaStatus(i, payments[i].tx) ELSE "CONFIRMING"
<1>1. match = [payments[i] EXCEPT !.status = status]
  BY DEF SolanaAnswers
<1>2. SolanaStatus(i, payments[i].tx) \in PaymentStatuses
  BY ClassifyType, StatusNames DEF SolanaStatus
<1>3. status \in PaymentStatuses
  BY <1>2, StatusNames
<1>4. payments[i] \in PaymentRows
  BY DEF TypeOK
<1> HIDE DEF status
<1> QED
  BY <1>1, <1>3, <1>4 DEF PaymentRows

(* findTronUsdtMatch returns null or a payment row.                        *)
LEMMA TronAnswersType ==
  ASSUME TypeOK, NEW i \in Intents, NEW healthy \in BOOLEAN, NEW submitted \in Txs \cup {NoTx},
         NEW match \in TronAnswers(i, submitted, healthy), match # NoMatch
  PROVE  match \in PaymentRows /\ match.status \in PaymentStatuses
<1>1. ASSUME NEW t \in Txs, match = TronMatch(i, t)
      PROVE  match \in PaymentRows /\ match.status \in PaymentStatuses
  BY <1>1, MatchOfType, ClassifyType DEF TronMatch
<1>2. CASE submitted = NoTx
  <2>1. match \in {TronMatch(i, t) : t \in FirstMined(TronScanned(i))}
    BY <1>2 DEF TronAnswers
  <2>2. FirstMined(TronScanned(i)) \subseteq Txs
    BY DEF TronScanned, FirstMined
  <2> QED
    BY <1>1, <2>1, <2>2
<1>3. CASE submitted \in Txs
  <2>1. CASE match = TronMatch(i, submitted)
    BY <1>1, <1>3, <2>1
  <2>2. CASE match = [status |-> "FAILED", tx |-> submitted, amount |-> intents[i].expected]
    <3>1. intents[i].expected \in Amounts \cup {0}
      BY DEF TypeOK, IntentRows
    <3> QED
      BY <1>3, <2>2, <3>1, StatusNames DEF PaymentRows
  <2> QED
    BY <1>3, <2>1, <2>2, NullsAssumption DEF TronAnswers
<1> QED
  BY <1>2, <1>3

(* findBitcoinMatch returns null or a payment row.                         *)
LEMMA BitcoinAnswersType ==
  ASSUME TypeOK, NEW i \in Intents, NEW healthy \in BOOLEAN, NEW submitted \in Txs \cup {NoTx},
         NEW match \in BitcoinAnswers(i, submitted, healthy), match # NoMatch
  PROVE  match \in PaymentRows /\ match.status \in PaymentStatuses
<1>1. PICK t \in BitcoinTransfers(i, submitted) : match = BitcoinMatch(i, t)
  BY DEF BitcoinAnswers
<1>2. t \in Txs
  BY DEF BitcoinTransfers
<1> QED
  BY <1>1, <1>2, MatchOfType, ClassifyType DEF BitcoinMatch

(* findMatch returns null or a match with the status of a payment.         *)
LEMMA AnswersType ==
  ASSUME TypeOK, NEW i \in Intents, intents[i].status # "ABSENT",
         intents[i].chain \in AllChains,
         NEW submitted \in Txs \cup {NoTx}, NEW healthy \in BOOLEAN,
         NEW match \in Answers(i, submitted, healthy), match # NoMatch
  PROVE  match \in PaymentRows /\ match.status \in PaymentStatuses
<1>1. CASE intents[i].chain = "ETHEREUM"
  BY <1>1, EthereumAnswersType DEF Answers
<1>2. CASE intents[i].chain = "SOLANA"
  BY <1>2, SolanaAnswersType DEF Answers
<1>3. CASE intents[i].chain = "TRON"
  BY <1>3, TronAnswersType DEF Answers
<1>4. CASE intents[i].chain = "BITCOIN"
  BY <1>4, BitcoinAnswersType DEF Answers
<1> QED
  BY <1>1, <1>2, <1>3, <1>4 DEF AllChains

-----------------------------------------------------------------------------
(* Types of the requests and the scans.                                    *)

(* The rows of idle handlers and scans are well typed.                     *)
LEMMA NullRows == NoPayment = NoMatch /\ IdleReq \in ReqRows /\ IdleScan \in ScanRows
  BY DEF IdleReq, IdleScan, ReqRows, ScanRows, NoMatch, NoPayment, PaymentRows,
         EmptyBatch, NotInBatch, BatchRows

(* Every step of a request or a webhook delivery keeps the types.          *)
LEMMA RequestType ==
  ASSUME IInv, NEW h \in Handlers, Request(h)
  PROVE  TypeOK'
<1> USE DEF IInv
<1>1. ASSUME NEW i \in Intents, PrepareRead(h, i)
      PROVE  TypeOK'
  BY <1>1, NullRows DEF TypeOK, PrepareRead, tables, ReqRows
<1>2. ASSUME NEW a \in Actions, NEW t \in Txs \cup {NoTx}, PrepareSave(h, a, t)
      PROVE  TypeOK'
  <2>1. req' \in [Handlers -> ReqRows]
    BY <1>2, NullRows DEF TypeOK, PrepareSave
  <2>2. req[h].intent \in Intents \cup {0}
    BY DEF TypeOK, ReqRows
  <2>3. actions' \in [Actions -> ActionRows]
    BY <1>2, <2>2, DurationsAssumption DEF TypeOK, PrepareSave, ActionRows, ActionStatuses
  <2> QED
    BY <1>2, <2>1, <2>3 DEF TypeOK, PrepareSave
<1>3. ASSUME NEW i \in Intents, NEW a \in Actions, NEW t \in Txs, SubmitRead(h, i, a, t)
      PROVE  TypeOK'
  <2>1. intents[i].status \in IntentStatuses \cup {"ABSENT"}
    BY DEF TypeOK, IntentRows
  <2> QED
    BY <1>3, <2>1, NullRows DEF TypeOK, SubmitRead, tables, ReqRows
<1>4. CASE SubmitCommit(h)
  <2> DEFINE i == req[h].intent
             a == req[h].action
             t == req[h].tx
  <2>1. req' \in [Handlers -> ReqRows]
    BY <1>4, NullRows DEF TypeOK, SubmitCommit
  <2>2. i \in Intents /\ t \in Txs \cup {NoTx}
    BY <1>4 DEF TypeOK, ReqRows, SubmitCommit, ReqSound, IntentExists
  <2>3. CASE UNCHANGED tables
    BY <1>4, <2>1, <2>3 DEF TypeOK, SubmitCommit, tables
  <2>4. CASE /\ actions' = [actions EXCEPT ![a].status = "SUBMITTED", ![a].txId = t]
             /\ payments' = [payments EXCEPT ![i] =
                    [status |-> "CONFIRMING", tx |-> t, amount |-> intents[i].expected]]
             /\ intents' = [intents EXCEPT ![i].status = "CONFIRMING",
                                           ![i].checked = FALSE]
    <3>1. intents' \in [Intents -> IntentRows]
      BY <2>4, IntentStatusWritten, StatusNames, PaymentStatusTypes
    <3>2. actions' \in [Actions -> ActionRows]
      <4>1. actions \in [Actions -> ActionRows]
        BY DEF TypeOK
      <4> QED
        BY <4>1, <2>4, <2>2 DEF ActionRows, ActionStatuses
    <3>3. intents[i].expected \in Amounts \cup {0}
      BY <2>2 DEF TypeOK, IntentRows
    <3>4. payments' \in [Intents -> PaymentRows]
      BY <2>4, <2>2, <3>3, StatusNames DEF TypeOK, PaymentRows
    <3> QED
      BY <1>4, <2>1, <3>1, <3>2, <3>4 DEF TypeOK, SubmitCommit
  <2> QED
    BY <1>4, <2>3, <2>4 DEF SubmitCommit
<1>5. ASSUME NEW i \in Intents, NEW a \in Actions, BroadcastRead(h, i, a)
      PROVE  TypeOK'
  <2>1. actions[a].prepared \in Txs \cup {NoTx}
    BY DEF TypeOK, ActionRows
  <2> QED
    BY <1>5, <2>1, NullRows DEF TypeOK, BroadcastRead, tables, ReqRows
<1>6. CASE BroadcastAccept(h)
  <2> DEFINE i == req[h].intent
  <2>1. req' \in [Handlers -> ReqRows]
    BY <1>6 DEF TypeOK, BroadcastAccept, ReqRows
  <2>2. i \in Intents /\ intents[i].status # "ABSENT" /\ intents[i].chain = "TRON"
    BY <1>6 DEF BroadcastAccept, ReqSound, IntentExists
  <2>3. "TRON" \in Chains
    BY <2>2 DEF ChainsKnown
  <2>4. /\ intents[i].expected \in Amounts \cup {0}
        /\ intents[i].sender \in Senders \cup {NoSender}
    BY <2>2 DEF TypeOK, IntentRows
  <2>5. txs' \in [Txs -> TxRows]
    BY <1>6, <2>2, <2>3, <2>4 DEF TypeOK, BroadcastAccept, TxRows
  <2> QED
    BY <1>6, <2>1, <2>5 DEF TypeOK, BroadcastAccept, tables
<1>7. CASE BroadcastSave(h)
  <2>1. req' \in [Handlers -> ReqRows]
    BY <1>7, NullRows DEF TypeOK, BroadcastSave
  <2>2. req[h].tx \in Txs \cup {NoTx}
    BY DEF TypeOK, ReqRows
  <2>3. \/ actions' = [actions EXCEPT ![req[h].action].status = "PREPARED",
                                       ![req[h].action].txId = req[h].tx]
        \/ actions' = actions
    BY <1>7 DEF BroadcastSave
  <2>4. actions' \in [Actions -> ActionRows]
    BY <2>2, <2>3 DEF TypeOK, ActionRows, ActionStatuses
  <2> QED
    BY <1>7, <2>1, <2>4 DEF TypeOK, BroadcastSave
<1>8. ASSUME NEW t \in Txs, NEW i \in Intents, HookReceive(h, t, i)
      PROVE  TypeOK'
  <2>1. intents[i].status \in IntentStatuses \cup {"ABSENT"}
    BY DEF TypeOK, IntentRows
  <2> QED
    BY <1>8, <2>1, NullRows DEF TypeOK, HookReceive, tables, ReqRows
<1>9. ASSUME NEW receipt \in BOOLEAN, NEW height \in BOOLEAN, NEW stamped \in BOOLEAN,
             HookMatch(h, receipt, height, stamped)
      PROVE  TypeOK'
  <2> DEFINE match == EthereumMatch(req[h].intent, req[h].tx, receipt, height,
                          IF stamped THEN txs[req[h].tx].block ELSE now)
  <2>1. match \in PaymentRows
    BY <1>9, EthereumMatchType DEF HookMatch, ReqSound, HookFits
  <2>2. \/ req' = [req EXCEPT ![h] = [req[h] EXCEPT !.op = "persist", !.match = match]]
        \/ req' = [req EXCEPT ![h] = IdleReq]
    BY <1>9 DEF HookMatch
  <2> HIDE DEF match
  <2>3. [req[h] EXCEPT !.op = "persist", !.match = match] \in ReqRows
    <3>1. req[h] \in ReqRows
      BY DEF TypeOK
    <3> QED
      BY <2>1, <3>1 DEF ReqRows
  <2>4. req' \in [Handlers -> ReqRows]
    BY <2>2, <2>3, NullRows DEF TypeOK
  <2> QED
    BY <1>9, <2>4 DEF TypeOK, HookMatch, tables
<1>10. CASE HookPersist(h)
  <2>1. req' \in [Handlers -> ReqRows]
    BY <1>10, NullRows DEF TypeOK, HookPersist
  <2>2. CASE UNCHANGED tables
    BY <1>10, <2>1, <2>2 DEF TypeOK, HookPersist, tables
  <2>3. CASE PersistMatch(req[h].intent, req[h].match)
    <3>1. req[h].match \in PaymentRows /\ req[h].match.status # "ABSENT"
      BY <1>10, StatusNames, PaymentStatusTypes DEF TypeOK, ReqRows, HookPersist, ReqSound
    <3> QED
      BY <1>10, <2>1, <2>3, <3>1, PersistMatchType DEF TypeOK, HookPersist
  <2> QED
    BY <1>10, <2>2, <2>3 DEF HookPersist
<1>11. CASE Abort(h)
  BY <1>11, NullRows DEF TypeOK, Abort, tables
<1> QED
  BY <1>1, <1>2, <1>3, <1>4, <1>5, <1>6, <1>7, <1>8, <1>9, <1>10, <1>11 DEF Request

(* The scan that goes on with its batch is well typed.                     *)
LEMMA ProceedType ==
  ASSUME TypeOK, NEW s \in Scanners
  PROVE  Proceed(s) \in ScanRows
<1>1. scan[s] \in ScanRows
  BY DEF TypeOK
<1> QED
  BY <1>1, NoMatchType DEF Proceed, ScanRows

(* Every step of a scan keeps the types, also when it saves what it        *)
(* loaded.                                                                 *)
LEMMA ScanType ==
  ASSUME IInv, NEW s \in Scanners, Scan(s)
  PROVE  TypeOK'
<1> USE DEF IInv
<1>a. scan[s] \in ScanRows /\ scan[s].batch \in [Intents -> BatchRows]
  BY DEF TypeOK, ScanRows
<1>b. NotInBatch \in BatchRows
  BY DEF NotInBatch, BatchRows
<1>1. CASE ScanStart(s)
  <2> DEFINE batch == [i \in Intents |->
                 IF i \in OldestOpen
                 THEN [status |-> intents[i].status, checked |-> intents[i].checked]
                 ELSE NotInBatch]
  <2>1. batch \in [Intents -> BatchRows]
    BY <1>b DEF TypeOK, IntentRows, BatchRows
  <2>2. scan' = [scan EXCEPT ![s] = [IdleScan EXCEPT !.pc = "next", !.batch = batch]]
    BY <1>1 DEF ScanStart
  <2> HIDE DEF batch
  <2>3. [IdleScan EXCEPT !.pc = "next", !.batch = batch] \in ScanRows
    BY <2>1, NullRows DEF ScanRows
  <2> QED
    BY <1>1, <2>2, <2>3 DEF TypeOK, ScanStart, tables
<1>2. ASSUME NEW i \in Intents, ScanSkip(s, i)
      PROVE  TypeOK'
  <2>1. scan' = [scan EXCEPT ![s] = [scan[s] EXCEPT !.batch =
                                        [scan[s].batch EXCEPT ![i] = NotInBatch]]]
    BY <1>2 DEF ScanSkip
  <2>2. [scan[s].batch EXCEPT ![i] = NotInBatch] \in [Intents -> BatchRows]
    BY <1>a, <1>b
  <2>3. scan'\in [Scanners -> ScanRows]
    BY <1>a, <2>1, <2>2 DEF TypeOK, ScanRows
  <2> QED
    BY <1>2, <2>3 DEF TypeOK, ScanSkip, tables
<1>3. ASSUME NEW i \in Intents, NEW tx \in Txs \cup {NoTx}, ScanCheck(s, i, tx)
      PROVE  TypeOK'
  <2> DEFINE taken == [scan[s] EXCEPT !.batch[i] = NotInBatch]
             expire == Overdue(i) /\ SubmittedActions(i) = {}
             pc == IF expire THEN "expire" ELSE "find"
             seen == scan[s].batch[i].status
  <2>1. taken = [scan[s] EXCEPT !.batch = [scan[s].batch EXCEPT ![i] = NotInBatch]]
    OBVIOUS
  <2>2. [scan[s].batch EXCEPT ![i] = NotInBatch] \in [Intents -> BatchRows]
    BY <1>a, <1>b
  <2>3. taken \in ScanRows
    BY <1>a, <2>1, <2>2 DEF ScanRows
  <2>4. seen \in IntentStatuses \cup {"ABSENT"}
    BY <1>a DEF BatchRows
  <2>5. pc \in {"expire", "find"}
    OBVIOUS
  <2>6. \/ scan' = [scan EXCEPT ![s] = taken]
        \/ scan' = [scan EXCEPT ![s] =
               [taken EXCEPT !.pc = pc, !.intent = i, !.seen = seen, !.tx = tx]]
    BY <1>3, Zenon DEF ScanCheck
  <2> HIDE DEF taken, pc, seen
  <2>7. [taken EXCEPT !.pc = pc, !.intent = i, !.seen = seen, !.tx = tx] \in ScanRows
    BY <2>3, <2>4, <2>5 DEF ScanRows
  <2>8. scan' \in [Scanners -> ScanRows]
    BY <2>3, <2>6, <2>7 DEF TypeOK
  <2> QED
    BY <1>3, <2>8 DEF TypeOK, ScanCheck, tables
<1>4. CASE ScanExpire(s)
  <2>1. intents' \in [Intents -> IntentRows]
    BY <1>4, IntentStatusWritten DEF ScanExpire, IntentStatuses, TerminalStatuses
  <2> QED
    BY <1>4, <2>1, ProceedType DEF TypeOK, ScanExpire
<1>5. ASSUME NEW healthy \in BOOLEAN, ScanFind(s, healthy)
      PROVE  TypeOK'
  <2> DEFINE i == scan[s].intent
  <2>1. i \in Intents /\ intents[i].status # "ABSENT" /\ scan[s].tx \in Txs \cup {NoTx}
    BY <1>5, <1>a DEF ScanFind, ScanSound, IntentExists, ScanRows
  <2>2. intents[i].chain \in AllChains
    BY <2>1, ChainsAssumption DEF ChainsKnown
  <2>3. PICK match \in Answers(i, scan[s].tx, healthy) :
            \/ scan' = [scan EXCEPT ![s] = [scan[s] EXCEPT !.pc = "save", !.match = match]]
            \/ scan' = [scan EXCEPT ![s] = Proceed(s)]
    BY <1>5, Zenon DEF ScanFind
  <2>4. match \in PaymentRows
    BY <2>1, <2>2, AnswersType, NoMatchType
  <2>5. [scan[s] EXCEPT !.pc = "save", !.match = match] \in ScanRows
    BY <1>a, <2>4 DEF ScanRows
  <2>6. scan' \in [Scanners -> ScanRows]
    BY <2>3, <2>5, ProceedType DEF TypeOK
  <2> QED
    BY <1>5, <2>6 DEF TypeOK, ScanFind, tables
<1>6. CASE ScanSave(s)
  <2> DEFINE i == scan[s].intent
             match == scan[s].match
  <2>1. scan' \in [Scanners -> ScanRows]
    BY <1>6, ProceedType DEF TypeOK, ScanSave
  <2>2. CASE match = NoMatch
    <3>1. scan[s].seen \in IntentStatuses
      BY <1>6 DEF ScanSave, ScanSound, IntentStatuses
    <3>2. intents' = [intents EXCEPT ![i].status = scan[s].seen, ![i].checked = TRUE]
      BY <1>6, <2>2 DEF ScanSave
    <3>3. intents' \in [Intents -> IntentRows]
      BY <3>1, <3>2, IntentStatusWritten
    <3> QED
      BY <1>6, <2>1, <2>2, <3>3 DEF TypeOK, ScanSave
  <2>3. CASE match # NoMatch
    <3>1. match \in PaymentRows /\ match.status # "ABSENT"
      BY <1>6, <1>a, <2>3, StatusNames, PaymentStatusTypes DEF ScanSave, ScanSound, ScanRows
    <3>2. PersistMatch(i, match) \/ UNCHANGED tables
      BY <1>6, <2>3 DEF ScanSave
    <3>3. CASE PersistMatch(i, match)
      BY <1>6, <2>1, <3>1, <3>3, PersistMatchType DEF TypeOK, ScanSave
    <3>4. CASE UNCHANGED tables
      BY <1>6, <2>1, <3>4 DEF TypeOK, ScanSave, tables
    <3> QED
      BY <3>2, <3>3, <3>4
  <2> QED
    BY <2>2, <2>3
<1>7. CASE ScanError(s)
  BY <1>7, ProceedType DEF TypeOK, ScanError, tables
<1>8. CASE ScanEnd(s)
  BY <1>8, NullRows DEF TypeOK, ScanEnd, tables
<1>9. CASE ScanCrash(s)
  BY <1>9, NullRows DEF TypeOK, ScanCrash, tables
<1> QED
  BY <1>1, <1>2, <1>3, <1>4, <1>5, <1>6, <1>7, <1>8, <1>9 DEF Scan

(* createIntent inserts a well typed row.                                  *)
LEMMA CreateIntentType ==
  ASSUME TypeOK, NEW i \in Intents, NEW chain \in Chains,
         NEW sender \in Senders \cup {NoSender}, NEW amount \in Amounts,
         NEW created \in {0, now}, CreateIntent(i, chain, sender, amount, created)
  PROVE  TypeOK'
BY DurationsAssumption DEF TypeOK, CreateIntent, IntentRows, IntentStatuses, OpenStatuses

(* Every step of the system keeps the types.                               *)
LEMMA NextType ==
  ASSUME IInv, [Next]_vars
  PROVE  TypeOK'
<1>1. CASE Environment
  BY <1>1, EnvironmentType DEF IInv
<1>2. CASE \E i \in Intents, chain \in Chains, sender \in Senders \cup {NoSender},
             amount \in Amounts, created \in {0, now} :
             CreateIntent(i, chain, sender, amount, created)
  BY <1>2, CreateIntentType DEF IInv
<1>3. CASE \E h \in Handlers : Request(h)
  BY <1>3, RequestType
<1>4. CASE \E s \in Scanners : Scan(s)
  BY <1>4, ScanType
<1>5. CASE UNCHANGED vars
  BY <1>5 DEF IInv, TypeOK, vars, tables
<1> QED
  BY <1>1, <1>2, <1>3, <1>4, <1>5 DEF Next

-----------------------------------------------------------------------------
(* Every step grows.                                                       *)

(* Writing the mutable columns of an intent leaves its other columns       *)
(* alone.                                                                  *)
LEMMA StatusWritten ==
  ASSUME TypeOK, NEW i, NEW status \in IntentStatuses, NEW checked \in BOOLEAN,
         intents' = [intents EXCEPT ![i].status = status, ![i].checked = checked]
  PROVE  \A j \in Intents :
             /\ intents[j].status # "ABSENT" => intents'[j].status # "ABSENT"
             /\ SameCheckout(j)
             /\ j # i => intents'[j] = intents[j]
  BY StatusNames DEF TypeOK, IntentRows, SameCheckout

(* A step that leaves the clock, the chains and the intents alone grows.   *)
LEMMA UnchangedGrows ==
  ASSUME TypeOK, UNCHANGED <<now, txs, intents>>
  PROVE  Grows
  BY DEF TypeOK, Grows, SameCheckout

(* A step that only writes the mutable columns of an intent grows.         *)
LEMMA StatusGrows ==
  ASSUME TypeOK, UNCHANGED <<now, txs>>, NEW i, NEW status \in IntentStatuses,
         NEW checked \in BOOLEAN,
         intents' = [intents EXCEPT ![i].status = status, ![i].checked = checked]
  PROVE  Grows
<1>1. now <= now'
  BY DEF TypeOK
<1> QED
  BY <1>1, StatusWritten DEF Grows

(* The chains only ever append.                                            *)
LEMMA EnvironmentGrows ==
  ASSUME TypeOK, Environment
  PROVE  Grows
<1>1. ASSUME NEW i \in Intents, NEW t \in Txs, NEW amount \in Amounts,
             Send(i, t, amount)
      PROVE  Grows
  BY <1>1 DEF TypeOK, Send, tables, Grows, SameCheckout, InBlock
<1>2. ASSUME NEW good \in SUBSET Txs, NEW bad \in SUBSET Txs, Tick(good, bad)
      PROVE  Grows
  <2>1. now <= now'
    <3>1. now \in Nat /\ now' = now + 1
      BY <1>2 DEF Tick, TypeOK
    <3> QED
      BY <3>1
  <2>2. ASSUME NEW t \in Txs, InBlock(t)
        PROVE  txs'[t] = txs[t]
    <3>1. t \notin good \cup bad
      BY <1>2, <2>2 DEF Tick, InBlock
    <3> QED
      BY <1>2, <3>1 DEF Tick
  <2>3. intents' = intents
    BY <1>2 DEF Tick, tables
  <2> QED
    BY <2>1, <2>2, <2>3 DEF Grows, SameCheckout
<1> QED
  BY <1>1, <1>2 DEF Environment

(* createIntent changes no existing row.                                   *)
LEMMA CreateGrows ==
  ASSUME TypeOK, NEW i \in Intents, NEW chain \in Chains,
         NEW sender \in Senders \cup {NoSender}, NEW amount \in Amounts,
         NEW created \in {0, now}, CreateIntent(i, chain, sender, amount, created)
  PROVE  Grows
<1>1. \A j \in Intents : intents[j].status # "ABSENT" => intents'[j] = intents[j]
  BY DEF CreateIntent, TypeOK
<1>2. now' = now /\ txs' = txs /\ now <= now'
  BY DEF CreateIntent, TypeOK
<1> QED
  BY <1>1, <1>2 DEF Grows, SameCheckout

(* persistMatch writes the mutable columns of one intent only.             *)
LEMMA PersistGrows ==
  ASSUME TypeOK, UNCHANGED <<now, txs>>, NEW i, NEW match,
         match.status \in PaymentStatuses, PersistMatch(i, match)
  PROVE  Grows
  BY StatusGrows, PaymentStatusTypes DEF PersistMatch

(* A request keeps the immutable columns of every intent.                  *)
LEMMA RequestGrows ==
  ASSUME IInv, NEW h \in Handlers, Request(h)
  PROVE  Grows
<1> USE DEF IInv
<1>1. CASE SubmitCommit(h)
  <2>1. CASE UNCHANGED tables
    BY <1>1, <2>1, UnchangedGrows DEF SubmitCommit, tables
  <2>2. CASE intents' = [intents EXCEPT ![req[h].intent].status = "CONFIRMING",
                                        ![req[h].intent].checked = FALSE]
    BY <1>1, <2>2, StatusGrows, StatusNames, PaymentStatusTypes DEF SubmitCommit
  <2> QED
    BY <1>1, <2>1, <2>2 DEF SubmitCommit
<1>2. CASE BroadcastAccept(h)
  <2>1. ASSUME NEW t \in Txs, InBlock(t)
        PROVE  txs'[t] = txs[t]
    BY <1>2, <2>1 DEF BroadcastAccept, InBlock, TypeOK
  <2>2. now <= now' /\ intents' = intents
    BY <1>2 DEF BroadcastAccept, tables, TypeOK
  <2> QED
    BY <2>1, <2>2 DEF Grows, SameCheckout
<1>3. CASE HookPersist(h)
  <2>1. req[h].match.status \in PaymentStatuses
    BY <1>3 DEF HookPersist, ReqSound
  <2>2. CASE UNCHANGED tables
    BY <1>3, <2>2, UnchangedGrows DEF HookPersist, tables
  <2>3. CASE PersistMatch(req[h].intent, req[h].match)
    BY <1>3, <2>1, <2>3, PersistGrows DEF HookPersist
  <2> QED
    BY <1>3, <2>2, <2>3 DEF HookPersist
<1>4. CASE UNCHANGED <<now, txs, intents>>
  BY <1>4, UnchangedGrows
<1>5. \/ SubmitCommit(h) \/ BroadcastAccept(h) \/ HookPersist(h)
      \/ UNCHANGED <<now, txs, intents>>
  BY DEF Request, PrepareRead, PrepareSave, SubmitRead, BroadcastRead,
         BroadcastSave, HookReceive, HookMatch, Abort, tables
<1> QED
  BY <1>1, <1>2, <1>3, <1>4, <1>5

(* A scan keeps the immutable columns of every intent, stale as its entity *)
(* may be.                                                                 *)
LEMMA ScanGrows ==
  ASSUME IInv, NEW s \in Scanners, Scan(s)
  PROVE  Grows
<1> USE DEF IInv
<1>1. CASE ScanExpire(s)
  BY <1>1, StatusGrows DEF ScanExpire, IntentStatuses, TerminalStatuses
<1>2. CASE ScanSave(s)
  <2>1. CASE scan[s].match = NoMatch
    <3>1. scan[s].seen \in IntentStatuses
      BY <1>2 DEF ScanSave, ScanSound, IntentStatuses
    <3> QED
      BY <1>2, <2>1, <3>1, StatusGrows DEF ScanSave
  <2>2. CASE scan[s].match # NoMatch
    <3>1. scan[s].match.status \in PaymentStatuses
      BY <1>2, <2>2 DEF ScanSave, ScanSound
    <3>2. CASE UNCHANGED tables
      BY <1>2, <3>2, UnchangedGrows DEF ScanSave, tables
    <3>3. CASE PersistMatch(scan[s].intent, scan[s].match)
      BY <1>2, <3>1, <3>3, PersistGrows DEF ScanSave
    <3> QED
      BY <1>2, <2>2, <3>2, <3>3 DEF ScanSave
  <2> QED
    BY <2>1, <2>2
<1>3. CASE UNCHANGED <<now, txs, intents>>
  BY <1>3, UnchangedGrows
<1>4. ScanExpire(s) \/ ScanSave(s) \/ UNCHANGED <<now, txs, intents>>
  BY DEF Scan, ScanStart, ScanSkip, ScanCheck, ScanFind, ScanError, ScanEnd,
         ScanCrash, tables
<1> QED
  BY <1>1, <1>2, <1>3, <1>4

(* Every step of the system grows.                                         *)
LEMMA NextGrows ==
  ASSUME IInv, [Next]_vars
  PROVE  Grows
<1> USE DEF IInv
<1>1. CASE Environment
  BY <1>1, EnvironmentGrows
<1>2. CASE \E i \in Intents, chain \in Chains, sender \in Senders \cup {NoSender},
             amount \in Amounts, created \in {0, now} :
             CreateIntent(i, chain, sender, amount, created)
  BY <1>2, CreateGrows
<1>3. CASE \E h \in Handlers : Request(h)
  BY <1>3, RequestGrows
<1>4. CASE \E s \in Scanners : Scan(s)
  BY <1>4, ScanGrows
<1>5. CASE UNCHANGED vars
  BY <1>5, UnchangedGrows DEF vars
<1> QED
  BY <1>1, <1>2, <1>3, <1>4, <1>5 DEF Next

(* What a growing step does not disturb.                                   *)
LEMMA PaidByStable ==
  ASSUME TypeOK, TypeOK', Grows, NEW i, IntentExists(i), NEW t, PaidBy(i, t)
  PROVE  PaidBy(i, t)'
<1>1. i \in Intents /\ SameCheckout(i) /\ t \in Txs /\ InBlock(t)
  BY DEF IntentExists, Grows, PaidBy
<1>2. txs'[t] = txs[t] /\ InBlock(t)'
  BY <1>1 DEF Grows, InBlock
<1>3. Confirmed(t)'
  <2>1. now \in Nat /\ now' \in Nat /\ now <= now' /\ txs[t].block \in Nat
    BY <1>1 DEF TypeOK, TxRows, Grows
  <2>2. now - txs[t].block + 1 >= Confirmations
    BY <1>1 DEF PaidBy, Confirmed, ConfirmationsOf
  <2>3. now' - txs[t].block + 1 >= Confirmations
    BY <2>1, <2>2, DurationsAssumption
  <2> QED
    BY <1>2, <2>3 DEF Confirmed, ConfirmationsOf
<1> QED
  BY <1>1, <1>2, <1>3 DEF PaidBy, SameCheckout

(* A transfer that fits its intent fits it for ever.                       *)
LEMMA HookFitsStable ==
  ASSUME Grows, NEW i, IntentExists(i), NEW t, HookFits(i, t)
  PROVE  HookFits(i, t)'
<1>1. i \in Intents /\ SameCheckout(i) /\ t \in Txs /\ InBlock(t)
  BY DEF IntentExists, Grows, HookFits
<1>2. txs'[t] = txs[t] /\ InBlock(t)'
  BY <1>1 DEF Grows, InBlock
<1> QED
  BY <1>1, <1>2 DEF HookFits, SameCheckout

(* Intents are never deleted.                                              *)
LEMMA ExistsStable ==
  ASSUME Grows, NEW i, IntentExists(i)
  PROVE  IntentExists(i)'
  BY DEF Grows, IntentExists

-----------------------------------------------------------------------------
(* A match that confirms tells the truth.                                  *)

(* classifyMatchedAmount answers CONFIRMED for exact, timely and confirmed *)
(* transfers only.                                                         *)
LEMMA ClassifyConfirmed ==
  ASSUME NEW intent, NEW amount \in Nat, NEW confirmed \in BOOLEAN, NEW matchedAt \in Nat,
         intent.expected \in Nat, intent.expiresAt \in Nat,
         ClassifyMatchedAmount(intent, amount, confirmed, matchedAt) = "CONFIRMED"
  PROVE  amount = intent.expected /\ confirmed /\ matchedAt <= intent.expiresAt
<1>1. ~(amount < intent.expected) /\ ~(amount > intent.expected)
      /\ ~(amount = intent.expected /\ matchedAt > intent.expiresAt)
      /\ confirmed
  BY Zenon DEF ClassifyMatchedAmount
<1> QED
  BY <1>1

(* The numbers of well typed rows are naturals.                            *)
LEMMA RowNumbers ==
  ASSUME TypeOK
  PROVE  /\ now \in Nat
         /\ \A i \in Intents : intents[i].expected \in Nat /\ intents[i].expiresAt \in Nat
         /\ \A i \in Intents : payments[i].amount \in Nat
         /\ \A t \in Txs : txs[t].amount \in Nat /\ txs[t].block \in Nat
<1>1. Amounts \cup {0} \subseteq Nat
  BY AmountsAssumption
<1>2. now \in Nat
  BY DEF TypeOK
<1>3. \A i \in Intents : intents[i].expected \in Nat /\ intents[i].expiresAt \in Nat
  BY <1>1 DEF TypeOK, IntentRows
<1>4. \A i \in Intents : payments[i].amount \in Nat
  BY <1>1 DEF TypeOK, PaymentRows
<1>5. \A t \in Txs : txs[t].amount \in Nat /\ txs[t].block \in Nat
  BY <1>1 DEF TypeOK, TxRows
<1> QED
  BY <1>2, <1>3, <1>4, <1>5

(* A transaction with confirmations is in a block.                         *)
LEMMA ConfirmedInBlock ==
  ASSUME NEW t, Confirmed(t)
  PROVE  InBlock(t)
  BY DurationsAssumption DEF Confirmed, ConfirmationsOf

(* The comparison with the required confirmations is a Boolean.            *)
LEMMA ConfirmedBoolean == ASSUME NEW t PROVE Confirmed(t) \in BOOLEAN
  BY DEF Confirmed

(* toEthereumMatch confirms what the chain confirms, for the webhook and   *)
(* the scanner alike.                                                      *)
LEMMA EthereumMatchSound ==
  ASSUME IInv, NEW i \in Intents, NEW t, HookFits(i, t), NEW receipt \in BOOLEAN,
         NEW height \in BOOLEAN, NEW matchedAt \in {txs[t].block, now}
  PROVE  MatchSound(i, EthereumMatch(i, t, receipt, height, matchedAt))
<1> DEFINE class == ClassifyMatchedAmount(intents[i], txs[t].amount,
                                          height /\ Confirmed(t), matchedAt)
           status == IF receipt /\ txs[t].state = "REVERTED" THEN "FAILED" ELSE class
           match == EthereumMatch(i, t, receipt, height, matchedAt)
<1>1. match = MatchOf(t, status)
  BY DEF EthereumMatch
<1>2. match.tx = t /\ match.status = status
  BY <1>1 DEF MatchOf
<1>3. t \in Txs /\ txs[t].block <= now /\ matchedAt \in Nat /\ txs[t].block <= matchedAt
  BY RowNumbers DEF HookFits, IInv, BlocksPast
<1>4. ASSUME class = "CONFIRMED"
      PROVE  /\ txs[t].amount = intents[i].expected /\ Confirmed(t)
             /\ matchedAt <= intents[i].expiresAt
  BY <1>3, <1>4, ClassifyConfirmed, RowNumbers, ConfirmedBoolean DEF IInv
<1>5. ASSUME class = "CONFIRMED"
      PROVE  PaidBy(i, t)
  BY <1>3, <1>4, <1>5, RowNumbers DEF PaidBy, HookFits, IInv
<1> HIDE DEF class
<1> QED
  BY <1>2, <1>3, <1>5 DEF MatchSound

(* What the scanner finds on Ethereum is sound.                            *)
LEMMA EthereumAnswersSound ==
  ASSUME IInv, NEW i \in Intents, intents[i].chain = "ETHEREUM", NEW healthy \in BOOLEAN,
         NEW match \in EthereumAnswers(i, healthy), match # NoMatch
  PROVE  MatchSound(i, match)
<1>1. PICK t \in FirstMined(EthereumTransfers(i)), receipt \in BOOLEAN, height \in BOOLEAN :
          match = EthereumMatch(i, t, receipt, height, txs[t].block)
  BY EthereumAnswersShape
<1>2. HookFits(i, t)
  BY DEF FirstMined, EthereumTransfers, HookFits
<1> QED
  BY <1>1, <1>2, EthereumMatchSound

(* What the scanner finds on Solana is sound.                              *)
LEMMA SolanaAnswersSound ==
  ASSUME IInv, NEW i \in Intents, intents[i].chain = "SOLANA", NEW healthy \in BOOLEAN,
         NEW match \in SolanaAnswers(i, healthy), match # NoMatch
  PROVE  MatchSound(i, match)
<1> DEFINE t == payments[i].tx
           status == IF healthy THEN SolanaStatus(i, t) ELSE "CONFIRMING"
<1>1. match = [payments[i] EXCEPT !.status = status]
  BY DEF SolanaAnswers
<1>2. payments[i] \in PaymentRows
  BY DEF IInv, TypeOK
<1>3. match.tx = t /\ match.status = status
  <2> HIDE DEF status
  <2> QED
    BY <1>1, <1>2 DEF PaymentRows
<1>4. t \in Txs
  BY DEF SolanaAnswers, IInv, PaymentsOwned
<1> SUFFICES ASSUME SolanaStatus(i, t) = "CONFIRMED"
             PROVE  PaidBy(i, t)
  BY <1>3, <1>4 DEF MatchSound
<1>5. InBlock(t) /\ txs[t].state # "REVERTED" /\ Confirmed(t)
  BY Zenon DEF SolanaStatus, InBlock
<1>6. /\ txs[t].chain = "SOLANA" /\ txs[t].ref = i
      /\ txs[t].sender = intents[i].sender
      /\ txs[t].amount = payments[i].amount
      /\ ClassifyMatchedAmount(intents[i], payments[i].amount, TRUE, txs[t].block) = "CONFIRMED"
  BY <1>5, Zenon DEF SolanaStatus, InBlock
<1>7. /\ payments[i].amount = intents[i].expected
      /\ txs[t].block <= intents[i].expiresAt
  BY <1>4, <1>6, ClassifyConfirmed, RowNumbers DEF IInv
<1> QED
  BY <1>4, <1>5, <1>6, <1>7 DEF PaidBy, InBlock

(* toTronMatch confirms what the chain confirms.                           *)
LEMMA TronMatchSound ==
  ASSUME IInv, NEW i \in Intents, intents[i].chain = "TRON", NEW t \in Txs,
         TronTransferMatches(i, t)
  PROVE  MatchSound(i, TronMatch(i, t))
<1> DEFINE class == ClassifyMatchedAmount(intents[i], txs[t].amount, Confirmed(t), txs[t].block)
           match == TronMatch(i, t)
<1>1. match.tx = t /\ match.status = class
  BY DEF TronMatch, MatchOf
<1>2. ASSUME class = "CONFIRMED"
      PROVE  PaidBy(i, t)
  <2>1. Confirmed(t) /\ txs[t].block <= intents[i].expiresAt
    BY <1>2, ClassifyConfirmed, RowNumbers, ConfirmedBoolean DEF IInv
  <2> QED
    BY <2>1 DEF PaidBy, TronTransferMatches, InBlock
<1> HIDE DEF class
<1> QED
  BY <1>1, <1>2 DEF MatchSound

(* What the scanner finds on TRON is sound, submitted or scanned.          *)
LEMMA TronAnswersSound ==
  ASSUME IInv, NEW i \in Intents, intents[i].chain = "TRON", NEW healthy \in BOOLEAN,
         NEW submitted \in Txs \cup {NoTx},
         NEW match \in TronAnswers(i, submitted, healthy), match # NoMatch
  PROVE  MatchSound(i, match)
<1>1. CASE submitted = NoTx
  <2>1. match \in {TronMatch(i, t) : t \in FirstMined(TronScanned(i))}
    BY <1>1 DEF TronAnswers
  <2>2. \A t \in FirstMined(TronScanned(i)) : t \in Txs /\ TronTransferMatches(i, t)
    BY DEF TronScanned, FirstMined
  <2> QED
    BY <2>1, <2>2, TronMatchSound
<1>2. CASE submitted \in Txs
  <2>1. CASE TronTransferMatches(i, submitted) /\ match = TronMatch(i, submitted)
    BY <1>2, <2>1, TronMatchSound
  <2>2. CASE match = [status |-> "FAILED", tx |-> submitted, amount |-> intents[i].expected]
    BY <1>2, <2>2 DEF MatchSound
  <2> QED
    BY <1>2, <2>1, <2>2, NullsAssumption DEF TronAnswers
<1> QED
  BY <1>1, <1>2

(* What the scanner finds on Bitcoin is sound, mined or not.               *)
LEMMA BitcoinAnswersSound ==
  ASSUME IInv, NEW i \in Intents, intents[i].chain = "BITCOIN", NEW healthy \in BOOLEAN,
         NEW submitted \in Txs \cup {NoTx},
         NEW match \in BitcoinAnswers(i, submitted, healthy), match # NoMatch
  PROVE  MatchSound(i, match)
<1>1. PICK t \in BitcoinTransfers(i, submitted) : match = BitcoinMatch(i, t)
  BY DEF BitcoinAnswers
<1>2. /\ t \in Txs /\ txs[t].state \in {"PENDING", "MINED"}
      /\ txs[t].chain = "BITCOIN" /\ txs[t].ref = i
  BY DEF BitcoinTransfers
<1> DEFINE matchedAt == IF InBlock(t) THEN txs[t].block ELSE now
           class == ClassifyMatchedAmount(intents[i], txs[t].amount, Confirmed(t), matchedAt)
<1>3. match.tx = t /\ match.status = class
  BY <1>1 DEF BitcoinMatch, MatchOf
<1>4. ASSUME class = "CONFIRMED"
      PROVE  PaidBy(i, t)
  <2>1. matchedAt \in Nat
    BY <1>2, RowNumbers DEF IInv
  <2>2. /\ txs[t].amount = intents[i].expected /\ Confirmed(t)
        /\ matchedAt <= intents[i].expiresAt
    BY <1>2, <1>4, <2>1, ClassifyConfirmed, RowNumbers, ConfirmedBoolean DEF IInv
  <2>3. InBlock(t)
    BY <2>2, ConfirmedInBlock
  <2> QED
    BY <1>2, <2>2, <2>3 DEF PaidBy, InBlock
<1> HIDE DEF class
<1> QED
  BY <1>2, <1>3, <1>4 DEF MatchSound

(* findMatch returns sound matches on every chain.                         *)
LEMMA AnswersSound ==
  ASSUME IInv, NEW i \in Intents, intents[i].status # "ABSENT",
         NEW submitted \in Txs \cup {NoTx}, NEW healthy \in BOOLEAN,
         NEW match \in Answers(i, submitted, healthy), match # NoMatch
  PROVE  match.status \in PaymentStatuses /\ MatchSound(i, match)
<1>1. intents[i].chain \in AllChains
  BY ChainsAssumption DEF IInv, ChainsKnown
<1>2. match.status \in PaymentStatuses
  BY <1>1, AnswersType DEF IInv
<1>3. CASE intents[i].chain = "ETHEREUM"
  <2>1. match \in EthereumAnswers(i, healthy)
    BY <1>3 DEF Answers
  <2> QED
    BY <1>2, <1>3, <2>1, EthereumAnswersSound
<1>4. CASE intents[i].chain = "SOLANA"
  <2>1. match \in SolanaAnswers(i, healthy)
    BY <1>4 DEF Answers
  <2> QED
    BY <1>2, <1>4, <2>1, SolanaAnswersSound
<1>5. CASE intents[i].chain = "TRON"
  <2>1. match \in TronAnswers(i, submitted, healthy)
    BY <1>5 DEF Answers
  <2> QED
    BY <1>2, <1>5, <2>1, TronAnswersSound
<1>6. CASE intents[i].chain = "BITCOIN"
  <2>1. match \in BitcoinAnswers(i, submitted, healthy)
    BY <1>6 DEF Answers
  <2> QED
    BY <1>2, <1>6, <2>1, BitcoinAnswersSound
<1> QED
  BY <1>1, <1>2, <1>3, <1>4, <1>5, <1>6 DEF AllChains

-----------------------------------------------------------------------------
(* The invariant of the tables.                                            *)

Tables ==
    PaymentsOwned /\ ChainsKnown /\ TxsUnique /\ ConfirmedIsPaid /\ SettledMatchesPayment

(* A sound match stays sound while the handler that holds it waits.        *)
LEMMA MatchSoundStable ==
  ASSUME TypeOK, TypeOK', Grows, NEW i, IntentExists(i), NEW match, MatchSound(i, match)
  PROVE  MatchSound(i, match)'
  BY PaidByStable DEF MatchSound

(* Nothing, or only the status of an intent, is written.                   *)
LEMMA PaymentsUnchanged ==
  ASSUME IInv, TypeOK', Grows, payments' = payments,
         \A i \in Intents : \/ intents'[i] = intents[i]
                            \/ /\ intents[i].status # "ABSENT"
                               /\ intents'[i].status \notin SettledStatuses
  PROVE  Tables'
<1> USE DEF IInv
<1>1. \A i \in Intents : payments[i].status # "ABSENT" => IntentExists(i)
  BY DEF PaymentsOwned, IntentExists, NoPayment
<1>2. ConfirmedIsPaid'
  <2> SUFFICES ASSUME NEW i \in Intents, payments[i].status = "CONFIRMED"
               PROVE  PaidBy(i, payments[i].tx)'
    BY DEF ConfirmedIsPaid
  <2> QED
    BY <1>1, PaidByStable DEF ConfirmedIsPaid
<1>3. \A i \in Intents : intents'[i].status = "ABSENT" => intents[i].status = "ABSENT"
  BY DEF Grows
<1>4. PaymentsOwned' /\ ChainsKnown'
  BY <1>3 DEF PaymentsOwned, ChainsKnown, Grows, SameCheckout
<1>5. \A i \in Intents : intents'[i].chain = intents[i].chain
  BY DEF Grows, SameCheckout
<1>6. TxsUnique'
  BY <1>5 DEF TxsUnique
<1>7. SettledMatchesPayment'
  BY DEF SettledMatchesPayment
<1> QED
  BY <1>2, <1>4, <1>6, <1>7 DEF Tables

(* A payment and the status of its intent are written together.            *)
LEMMA PaymentWritten ==
  ASSUME IInv, TypeOK', Grows, NEW i, IntentExists(i), NEW match,
         match.status \in PaymentStatuses, MatchSound(i, match),
         PaymentIndexFree(i, match.tx), NEW checked \in BOOLEAN,
         payments' = [payments EXCEPT ![i] = match],
         intents' = [intents EXCEPT ![i].status = match.status, ![i].checked = checked]
  PROVE  Tables'
<1> USE DEF IInv
<1>1. i \in Intents /\ payments'[i] = match
      /\ \A j \in Intents : j # i => payments'[j] = payments[j]
  BY DEF IntentExists, TypeOK
<1>2. /\ \A j \in Intents : intents'[j].chain = intents[j].chain
      /\ \A j \in Intents : j # i => intents'[j] = intents[j]
      /\ intents'[i].status = match.status
  <2>1. match.status \in IntentStatuses
    BY PaymentStatusTypes
  <2>2. intents'[i].status = match.status
    BY <1>1 DEF TypeOK, IntentRows
  <2>3. \A j \in Intents : SameCheckout(j) /\ (j # i => intents'[j] = intents[j])
    BY <2>1 DEF TypeOK, IntentRows, SameCheckout
  <2> QED
    BY <2>2, <2>3 DEF SameCheckout
<1>3. match.status # "ABSENT" /\ match.tx \in Txs
  BY StatusNames, PaymentStatusTypes DEF MatchSound
<1>4. PaymentsOwned'
  BY <1>1, <1>2, <1>3 DEF PaymentsOwned
<1>5. ChainsKnown'
  BY <1>1, <1>2 DEF ChainsKnown, IntentExists
<1>6. TxsUnique'
  <2>1. ASSUME NEW j \in Intents, j # i, payments[j].tx = match.tx,
               intents[i].chain = intents[j].chain, intents[i].chain # "BITCOIN"
        PROVE  FALSE
    BY <1>1, <2>1 DEF PaymentIndexFree, OtherPayments
  <2> QED
    BY <1>1, <1>2, <2>1 DEF TxsUnique
<1>7. ConfirmedIsPaid'
  <2>1. MatchSound(i, match)'
    BY MatchSoundStable
  <2>2. ASSUME NEW j \in Intents, j # i, payments[j].status = "CONFIRMED"
        PROVE  PaidBy(j, payments[j].tx)'
    <3>1. PaidBy(j, payments[j].tx) /\ IntentExists(j)
      BY <2>2 DEF ConfirmedIsPaid, PaymentsOwned, NoPayment, IntentExists
    <3>2. ASSUME NEW t, t = payments[j].tx
          PROVE  PaidBy(j, t)'
      BY <3>1, <3>2, PaidByStable
    <3> QED
      BY <1>1, <2>2, <3>1, <3>2
  <2>3. ASSUME NEW j \in Intents, payments'[j].status = "CONFIRMED"
        PROVE  PaidBy(j, payments[j].tx)'
    BY <1>1, <2>1, <2>2, <2>3 DEF MatchSound
  <2> QED
    BY <2>3 DEF ConfirmedIsPaid
<1>8. SettledMatchesPayment'
  BY <1>1, <1>2 DEF SettledMatchesPayment
<1> QED
  BY <1>4, <1>5, <1>6, <1>7, <1>8 DEF Tables

(* createIntent keeps the relations between the tables.                    *)
LEMMA CreateTables ==
  ASSUME IInv, TypeOK', NEW i \in Intents, NEW chain \in Chains,
         NEW sender \in Senders \cup {NoSender}, NEW amount \in Amounts,
         NEW created \in {0, now}, CreateIntent(i, chain, sender, amount, created)
  PROVE  Tables'
<1> USE DEF IInv
<1>1. /\ \A j \in Intents : j # i => intents'[j] = intents[j]
      /\ intents'[i].status = "WAITING" /\ intents'[i].chain = chain
      /\ payments' = payments /\ payments[i] = NoPayment
      /\ intents[i].status = "ABSENT"
  BY DEF CreateIntent, TypeOK, PaymentsOwned
<1>2. Grows
  BY CreateGrows
<1>3. PaymentsOwned' /\ ChainsKnown'
  BY <1>1 DEF PaymentsOwned, ChainsKnown, NoPayment
<1>4. TxsUnique'
  BY <1>1 DEF TxsUnique, NoPayment
<1>5. ConfirmedIsPaid'
  <2> SUFFICES ASSUME NEW j \in Intents, payments[j].status = "CONFIRMED"
               PROVE  PaidBy(j, payments[j].tx)'
    BY <1>1 DEF ConfirmedIsPaid
  <2>1. IntentExists(j) /\ PaidBy(j, payments[j].tx)
    BY DEF ConfirmedIsPaid, PaymentsOwned, NoPayment, IntentExists
  <2>2. ASSUME NEW t, t = payments[j].tx
        PROVE  PaidBy(j, t)'
    BY <1>2, <2>1, <2>2, PaidByStable
  <2> QED
    BY <1>1, <2>2
<1>6. SettledMatchesPayment'
  BY <1>1 DEF SettledMatchesPayment, SettledStatuses, TerminalStatuses
<1> QED
  BY <1>3, <1>4, <1>5, <1>6 DEF Tables

(* A request keeps the relations between the tables.                       *)
LEMMA RequestTables ==
  ASSUME IInv, TypeOK', Grows, NEW h \in Handlers, Request(h)
  PROVE  Tables'
<1> USE DEF IInv
<1>1. CASE UNCHANGED <<intents, payments>>
  BY <1>1, PaymentsUnchanged
<1>2. CASE SubmitCommit(h)
  <2> DEFINE i == req[h].intent
             t == req[h].tx
             match == [status |-> "CONFIRMING", tx |-> t, amount |-> intents[i].expected]
  <2>1. CASE UNCHANGED tables
    BY <2>1, <1>1 DEF tables
  <2>2. CASE /\ SubmitAccepted(i, req[h].action, t, req[h].seen)
             /\ payments' = [payments EXCEPT ![i] = match]
             /\ intents' = [intents EXCEPT ![i].status = "CONFIRMING",
                                           ![i].checked = FALSE]
    <3>1. IntentExists(i) /\ t \in Txs
      BY <1>2 DEF SubmitCommit, ReqSound
    <3>2. match.tx = t /\ match.status = "CONFIRMING"
      OBVIOUS
    <3>3. PaymentIndexFree(i, match.tx)
      BY <2>2, <3>2 DEF SubmitAccepted, PaymentIndexFree
    <3>4. MatchSound(i, match)
      BY <3>1, <3>2 DEF MatchSound
    <3> HIDE DEF match
    <3> QED
      BY <2>2, <3>1, <3>2, <3>3, <3>4, StatusNames, PaymentWritten
  <2> QED
    BY <1>2, <2>1, <2>2 DEF SubmitCommit
<1>3. CASE HookPersist(h)
  <2>1. CASE UNCHANGED tables
    BY <2>1, <1>1 DEF tables
  <2>2. CASE PersistMatch(req[h].intent, req[h].match)
    <3>1. /\ IntentExists(req[h].intent)
          /\ req[h].match.status \in PaymentStatuses
          /\ MatchSound(req[h].intent, req[h].match)
      BY <1>3 DEF HookPersist, ReqSound
    <3> QED
      BY <2>2, <3>1, PaymentWritten DEF PersistMatch
  <2> QED
    BY <1>3, <2>1, <2>2 DEF HookPersist
<1>4. SubmitCommit(h) \/ HookPersist(h) \/ UNCHANGED <<intents, payments>>
  BY DEF Request, PrepareRead, PrepareSave, SubmitRead, BroadcastRead, BroadcastAccept,
         BroadcastSave, HookReceive, HookMatch, Abort, tables
<1> QED
  BY <1>1, <1>2, <1>3, <1>4

(* A scan keeps the relations between the tables, though it saves entities *)
(* loaded earlier.                                                         *)
LEMMA ScanTables ==
  ASSUME IInv, TypeOK', Grows, NEW s \in Scanners, Scan(s)
  PROVE  Tables'
<1> USE DEF IInv
<1>1. CASE UNCHANGED <<intents, payments>>
  BY <1>1, PaymentsUnchanged
<1>2. ASSUME payments' = payments, scan[s].pc \in {"find", "expire", "save"},
             NEW status \in IntentStatuses, status \notin SettledStatuses,
             intents' = [intents EXCEPT ![scan[s].intent].status = status,
                                        ![scan[s].intent].checked = TRUE]
      PROVE  Tables'
  <2>1. IntentExists(scan[s].intent)
    BY <1>2 DEF ScanSound
  <2>2. intents'[scan[s].intent].status = status
    BY <1>2, <2>1 DEF IntentExists, TypeOK, IntentRows
  <2>3. \A j \in Intents : j # scan[s].intent => intents'[j] = intents[j]
    BY <1>2 DEF TypeOK, IntentRows
  <2>4. \A j \in Intents : \/ intents'[j] = intents[j]
                           \/ /\ intents[j].status # "ABSENT"
                              /\ intents'[j].status \notin SettledStatuses
    BY <1>2, <2>1, <2>2, <2>3 DEF IntentExists
  <2> QED
    BY <1>2, <2>4, PaymentsUnchanged
<1>3. CASE ScanExpire(s)
  <2>1. "EXPIRED" \in IntentStatuses /\ "EXPIRED" \notin SettledStatuses
    BY DEF IntentStatuses, TerminalStatuses, SettledStatuses
  <2> QED
    BY <1>2, <1>3, <2>1 DEF ScanExpire
<1>4. CASE ScanSave(s)
  <2> DEFINE i == scan[s].intent
             match == scan[s].match
  <2>1. CASE match = NoMatch
    <3>1. scan[s].seen \in IntentStatuses /\ scan[s].seen \notin SettledStatuses
      BY <1>4 DEF ScanSave, ScanSound, IntentStatuses, OpenStatuses, TerminalStatuses,
                  SettledStatuses
    <3> QED
      BY <1>2, <1>4, <2>1, <3>1 DEF ScanSave
  <2>2. CASE match # NoMatch /\ PersistMatch(i, match)
    <3>1. IntentExists(i) /\ match.status \in PaymentStatuses /\ MatchSound(i, match)
      BY <1>4, <2>2 DEF ScanSave, ScanSound
    <3> QED
      BY <2>2, <3>1, PaymentWritten DEF PersistMatch
  <2>3. CASE UNCHANGED tables
    BY <2>3, <1>1 DEF tables
  <2> QED
    BY <1>4, <2>1, <2>2, <2>3 DEF ScanSave
<1>5. ScanExpire(s) \/ ScanSave(s) \/ UNCHANGED <<intents, payments>>
  BY DEF Scan, ScanStart, ScanSkip, ScanCheck, ScanFind, ScanError, ScanEnd,
         ScanCrash, tables
<1> QED
  BY <1>1, <1>3, <1>4, <1>5

(* Every step keeps the relations between the tables.                      *)
LEMMA NextTables ==
  ASSUME IInv, TypeOK', [Next]_vars
  PROVE  Tables'
<1>1. Grows
  BY NextGrows
<1>2. CASE UNCHANGED <<intents, payments>>
  BY <1>1, <1>2, PaymentsUnchanged
<1>3. CASE Environment \/ UNCHANGED vars
  BY <1>2, <1>3 DEF Environment, Send, Tick, vars, tables
<1>4. CASE \E i \in Intents, chain \in Chains, sender \in Senders \cup {NoSender},
             amount \in Amounts, created \in {0, now} :
             CreateIntent(i, chain, sender, amount, created)
  BY <1>4, CreateTables
<1>5. CASE \E h \in Handlers : Request(h)
  BY <1>1, <1>5, RequestTables
<1>6. CASE \E s \in Scanners : Scan(s)
  BY <1>1, <1>6, ScanTables
<1> QED
  BY <1>3, <1>4, <1>5, <1>6 DEF Next

(* No block is ahead of the clock after a step.                            *)
LEMMA NextBlocksPast ==
  ASSUME IInv, [Next]_vars
  PROVE  BlocksPast'
<1> USE DEF IInv
<1>1. CASE UNCHANGED <<now, txs>>
  BY <1>1 DEF BlocksPast
<1>2. ASSUME NEW i \in Intents, NEW t \in Txs, NEW amount \in Amounts,
             Send(i, t, amount)
      PROVE  BlocksPast'
  BY <1>2 DEF Send, BlocksPast, TypeOK, TxRows
<1>3. ASSUME NEW good \in SUBSET Txs, NEW bad \in SUBSET Txs, Tick(good, bad)
      PROVE  BlocksPast'
  <2> SUFFICES ASSUME NEW t \in Txs
               PROVE  txs'[t].block <= now'
    BY DEF BlocksPast
  <2>1. now \in Nat /\ now' = now + 1 /\ txs[t].block <= now /\ txs[t].block \in Nat
    BY <1>3, RowNumbers DEF Tick, BlocksPast
  <2>2. txs'[t] = txs[t] \/ txs'[t].block = now + 1
    <3>1. CASE t \in good \cup bad
      <4> DEFINE state == IF t \in good THEN "MINED" ELSE "REVERTED"
      <4>1. txs'[t] = [txs[t] EXCEPT !.block = now + 1, !.state = state]
        BY <1>3, <3>1 DEF Tick
      <4>2. txs[t] \in TxRows
        BY DEF TypeOK
      <4> HIDE DEF state
      <4> QED
        BY <4>1, <4>2 DEF TxRows
    <3>2. CASE t \notin good \cup bad
      BY <1>3, <3>2 DEF Tick
    <3> QED
      BY <3>1, <3>2
  <2> QED
    BY <2>1, <2>2
<1>4. ASSUME NEW h \in Handlers, BroadcastAccept(h)
      PROVE  BlocksPast'
  BY <1>4 DEF BroadcastAccept, BlocksPast, TypeOK, TxRows
<1>5. ASSUME NEW h \in Handlers, Request(h)
      PROVE  BroadcastAccept(h) \/ UNCHANGED <<now, txs>>
  BY <1>5 DEF Request, PrepareRead, PrepareSave, SubmitRead, SubmitCommit, BroadcastRead,
              BroadcastSave, HookReceive, HookMatch, HookPersist, Abort
<1>6. ASSUME NEW s \in Scanners, Scan(s)
      PROVE  UNCHANGED <<now, txs>>
  BY <1>6 DEF Scan, ScanStart, ScanSkip, ScanCheck, ScanExpire, ScanFind, ScanSave,
              ScanError, ScanEnd, ScanCrash
<1>7. CASE Environment
  BY <1>2, <1>3, <1>7 DEF Environment
<1>8. CASE \E i \in Intents, chain \in Chains, sender \in Senders \cup {NoSender},
             amount \in Amounts, created \in {0, now} :
             CreateIntent(i, chain, sender, amount, created)
  BY <1>1, <1>8 DEF CreateIntent
<1>9. CASE UNCHANGED vars
  BY <1>1, <1>9 DEF vars
<1> QED
  BY <1>1, <1>4, <1>5, <1>6, <1>7, <1>8, <1>9 DEF Next

-----------------------------------------------------------------------------
(* The invariant of what is in flight.                                     *)

(* What a waiting request knows is not invalidated by the steps of others. *)
LEMMA ReqSoundStable ==
  ASSUME TypeOK, TypeOK', Grows, NEW h, ReqSound(h), req'[h] = req[h]
  PROVE  ReqSound(h)'
<1> DEFINE i == req[h].intent
<1>1. CASE req[h].op = "idle"
  BY <1>1 DEF ReqSound
<1>2. CASE req[h].op # "idle"
  <2>1. IntentExists(i) /\ IntentExists(i)' /\ SameCheckout(i)
    BY <1>2, ExistsStable DEF ReqSound, Grows, IntentExists
  <2>2. req[h].op \in {"hook", "persist"} => HookFits(i, req[h].tx)'
    BY <2>1, HookFitsStable DEF ReqSound
  <2>3. req[h].op = "persist" => MatchSound(i, req[h].match)'
    BY <2>1, MatchSoundStable DEF ReqSound
  <2>4. IntentExists(req[h].intent)'
    BY <2>1
  <2> QED
    BY <2>1, <2>2, <2>3 DEF ReqSound, SameCheckout, IntentExists, HookFits, MatchSound, PaidBy
<1> QED
  BY <1>1, <1>2

(* What a waiting scan knows is not invalidated by the steps of others.    *)
LEMMA ScanSoundStable ==
  ASSUME TypeOK, TypeOK', Grows, NEW s, ScanSound(s), scan'[s] = scan[s]
  PROVE  ScanSound(s)'
<1> DEFINE i == scan[s].intent
<1>1. \A j \in Intents : scan[s].batch[j] # NotInBatch =>
          intents'[j].status # "ABSENT" /\ scan[s].batch[j].status \in OpenStatuses
  BY DEF ScanSound, Grows
<1>2. scan[s].pc \in {"find", "expire", "save"} => IntentExists(i)'
  BY ExistsStable DEF ScanSound
<1>3. scan[s].pc = "save" /\ scan[s].match # NoMatch => MatchSound(i, scan[s].match)'
  BY MatchSoundStable DEF ScanSound
<1> QED
  BY <1>1, <1>2, <1>3 DEF ScanSound, IntentExists, MatchSound, PaidBy

(* After any step, what every request in flight knows is true.             *)
LEMMA NextReqSound ==
  ASSUME IInv, TypeOK', [Next]_vars, NEW h \in Handlers
  PROVE  ReqSound(h)'
<1> USE DEF IInv
<1>a. Grows /\ ReqSound(h)
  BY NextGrows
<1>1. CASE req'[h] = req[h]
  BY <1>1, <1>a, ReqSoundStable
<1>2. CASE req'[h] = IdleReq
  BY <1>2 DEF ReqSound, IdleReq
<1>3. ASSUME NEW i \in Intents, PrepareRead(h, i)
      PROVE  ReqSound(h)'
  <2>1. req'[h] = [IdleReq EXCEPT !.op = "prepare", !.intent = i]
    BY <1>3 DEF PrepareRead, TypeOK
  <2>2. IntentExists(i)'
    BY <1>3, <1>a, StatusNames DEF PrepareRead, CanPrepare, IntentExists, Grows, IntentStatuses
  <2> QED
    BY <2>1, <2>2 DEF ReqSound, IdleReq, IntentExists
<1>4. ASSUME NEW i \in Intents, NEW a \in Actions, NEW t \in Txs, SubmitRead(h, i, a, t)
      PROVE  ReqSound(h)'
  <2>1. req'[h] = [IdleReq EXCEPT !.op = "submit", !.intent = i, !.action = a, !.tx = t,
                                  !.seen = intents[i].status]
    BY <1>4 DEF SubmitRead, TypeOK
  <2>2. IntentExists(i)'
    BY <1>4, <1>a, StatusNames DEF SubmitRead, CanSubmit, IntentExists, Grows, IntentStatuses
  <2> QED
    BY <2>1, <2>2 DEF ReqSound, IdleReq, IntentExists
<1>5. ASSUME NEW i \in Intents, NEW a \in Actions, BroadcastRead(h, i, a)
      PROVE  ReqSound(h)'
  <2>1. req'[h] = [IdleReq EXCEPT !.op = "sending", !.intent = i, !.action = a,
                                  !.tx = actions[a].prepared]
    BY <1>5 DEF BroadcastRead, TypeOK
  <2>2. IntentExists(i)' /\ intents'[i].chain = "TRON"
    BY <1>5, <1>a, StatusNames
    DEF BroadcastRead, CanSubmit, IntentExists, Grows, IntentStatuses, tables
  <2> QED
    BY <2>1, <2>2 DEF ReqSound, IdleReq, IntentExists
<1>6. CASE BroadcastAccept(h)
  <2>1. req'[h] = [req[h] EXCEPT !.op = "saving"] /\ req[h] \in ReqRows
    BY <1>6 DEF BroadcastAccept, TypeOK
  <2>2. IntentExists(req[h].intent)'
    BY <1>6, <1>a, ExistsStable DEF BroadcastAccept, ReqSound
  <2>3. req'[h].op = "saving" /\ req'[h].intent = req[h].intent
    BY <2>1 DEF ReqRows
  <2> QED
    BY <2>2, <2>3 DEF ReqSound, IntentExists
<1>7. ASSUME NEW t \in Txs, NEW i \in Intents, HookReceive(h, t, i)
      PROVE  ReqSound(h)'
  <2>1. req'[h] = [IdleReq EXCEPT !.op = "hook", !.intent = i, !.tx = t,
                                  !.seen = intents[i].status]
    BY <1>7 DEF HookReceive, TypeOK
  <2>2. i \in HookCandidates(t)
    BY <1>7 DEF HookReceive, SelectedIntents, Oldest
  <2>3. IntentExists(i) /\ HookFits(i, t)
    BY <1>7, <2>2, StatusNames
    DEF HookReceive, ProcessableTransfer, HookCandidates, IntentExists, HookFits, IntentStatuses
  <2>4. IntentExists(i)' /\ HookFits(i, t)'
    BY <1>a, <2>3, ExistsStable, HookFitsStable
  <2> QED
    BY <2>1, <2>4 DEF ReqSound, IdleReq, IntentExists, HookFits
<1>8. ASSUME NEW receipt \in BOOLEAN, NEW height \in BOOLEAN, NEW stamped \in BOOLEAN,
             HookMatch(h, receipt, height, stamped), req'[h] # IdleReq
      PROVE  ReqSound(h)'
  <2>1. PICK i, t, matchedAt, match :
            /\ i = req[h].intent /\ t = req[h].tx
            /\ matchedAt = IF stamped THEN txs[t].block ELSE now
            /\ match = EthereumMatch(i, t, receipt, height, matchedAt)
    OBVIOUS
  <2>2. req'[h] = [req[h] EXCEPT !.op = "persist", !.match = match] /\ req[h] \in ReqRows
    BY <1>8, <2>1 DEF HookMatch, TypeOK
  <2>3. IntentExists(i) /\ HookFits(i, t)
    BY <1>8, <1>a, <2>1 DEF HookMatch, ReqSound
  <2>4. match.status \in PaymentStatuses
    BY <2>1, <2>3, EthereumMatchType DEF HookFits
  <2>5. MatchSound(i, match)
    BY <2>1, <2>3, EthereumMatchSound DEF IntentExists
  <2>6. IntentExists(i)' /\ HookFits(i, t)' /\ MatchSound(i, match)'
    BY <1>a, <2>3, <2>5, ExistsStable, HookFitsStable, MatchSoundStable
  <2>7. /\ req'[h].op = "persist" /\ req'[h].intent = i /\ req'[h].tx = t
        /\ req'[h].match = match
    BY <2>1, <2>2 DEF ReqRows
  <2> QED
    BY <2>4, <2>6, <2>7 DEF ReqSound, IntentExists, HookFits, MatchSound, PaidBy
<1>9. CASE Request(h)
  <2>1. CASE SubmitCommit(h) \/ BroadcastSave(h) \/ HookPersist(h) \/ Abort(h)
             \/ \E a \in Actions, t \in Txs \cup {NoTx} : PrepareSave(h, a, t)
    BY <1>2, <2>1 DEF SubmitCommit, BroadcastSave, HookPersist, Abort, PrepareSave, TypeOK
  <2> QED
    BY <1>2, <1>3, <1>4, <1>5, <1>6, <1>7, <1>8, <1>9, <2>1 DEF Request
<1>10. ASSUME NEW g \in Handlers, g # h, Request(g)
       PROVE  req'[h] = req[h]
  BY <1>10 DEF Request, PrepareRead, PrepareSave, SubmitRead, SubmitCommit, BroadcastRead,
               BroadcastAccept, BroadcastSave, HookReceive, HookMatch, HookPersist, Abort,
               TypeOK
<1>11. CASE UNCHANGED req
  BY <1>1, <1>11
<1>12. \/ \E g \in Handlers : Request(g)
       \/ UNCHANGED req
  <2>1. ASSUME NEW s \in Scanners, Scan(s)
        PROVE  UNCHANGED req
    BY <2>1 DEF Scan, ScanStart, ScanSkip, ScanCheck, ScanExpire, ScanFind, ScanSave,
                ScanError, ScanEnd, ScanCrash
  <2> QED
    BY <2>1 DEF Next, Environment, Send, Tick, CreateIntent, vars
<1> QED
  BY <1>1, <1>9, <1>10, <1>11, <1>12

(* After any step, what every scan in flight knows is true.                *)
LEMMA NextScanSound ==
  ASSUME IInv, TypeOK', [Next]_vars, NEW s \in Scanners
  PROVE  ScanSound(s)'
<1> USE DEF IInv
<1>a. Grows /\ ScanSound(s) /\ scan[s] \in ScanRows
  BY NextGrows DEF TypeOK
<1>1. CASE scan'[s] = scan[s]
  BY <1>1, <1>a, ScanSoundStable
<1>2. CASE scan'[s] = IdleScan
  BY <1>2 DEF ScanSound, IdleScan, EmptyBatch
<1>3. ASSUME scan[s].pc \in {"find", "expire", "save"}, scan'[s] = Proceed(s)
      PROVE  ScanSound(s)'
  <2>1. scan'[s].pc = "next" /\ scan'[s].batch = scan[s].batch
    BY <1>3, <1>a DEF Proceed, ScanRows
  <2> QED
    BY <1>a, <2>1 DEF ScanSound, Grows
<1>4. CASE ScanStart(s)
  <2> DEFINE batch == [i \in Intents |->
                 IF i \in OldestOpen
                 THEN [status |-> intents[i].status, checked |-> intents[i].checked]
                 ELSE NotInBatch]
  <2>1. scan'[s] = [IdleScan EXCEPT !.pc = "next", !.batch = batch]
    BY <1>4 DEF ScanStart, TypeOK
  <2>2. \A j \in Intents : batch[j] # NotInBatch =>
            intents[j].status \in OpenStatuses /\ batch[j].status \in OpenStatuses
    BY DEF OldestOpen, OpenIntents
  <2>3. "ABSENT" \notin OpenStatuses
    BY DEF OpenStatuses
  <2>4. scan'[s].pc = "next" /\ scan'[s].batch = batch
    <3> HIDE DEF batch
    <3> QED
      BY <2>1 DEF IdleScan
  <2>5. \A j \in Intents : scan'[s].batch[j] # NotInBatch =>
            intents'[j].status # "ABSENT" /\ scan'[s].batch[j].status \in OpenStatuses
    <3> HIDE DEF batch
    <3> QED
      BY <1>a, <2>2, <2>3, <2>4 DEF Grows
  <2> QED
    BY <2>4, <2>5 DEF ScanSound, NotInBatch
<1>5. ASSUME NEW i \in Intents, ScanSkip(s, i)
      PROVE  ScanSound(s)'
  <2>1. scan'[s] = [scan[s] EXCEPT !.batch = [scan[s].batch EXCEPT ![i] = NotInBatch]]
    BY <1>5 DEF ScanSkip, TypeOK
  <2>2. /\ scan'[s].pc = "next"
        /\ \A j \in Intents : \/ scan'[s].batch[j] = scan[s].batch[j]
                              \/ scan'[s].batch[j] = NotInBatch
    BY <1>5, <1>a, <2>1 DEF ScanSkip, TakeNext, ScanRows
  <2> QED
    BY <1>a, <2>2 DEF ScanSound, Grows
<1>6. ASSUME NEW i \in Intents, NEW tx \in Txs \cup {NoTx}, ScanCheck(s, i, tx)
      PROVE  ScanSound(s)'
  <2>1. PICK seen, pc, taken :
            /\ seen = scan[s].batch[i].status
            /\ pc = IF Overdue(i) /\ SubmittedActions(i) = {} THEN "expire" ELSE "find"
            /\ taken = [scan[s] EXCEPT !.batch = [scan[s].batch EXCEPT ![i] = NotInBatch]]
    OBVIOUS
  <2>2. \/ scan'[s] = taken
        \/ scan'[s] = [taken EXCEPT !.pc = pc, !.intent = i, !.seen = seen, !.tx = tx]
    BY <1>6, <2>1 DEF ScanCheck, TypeOK
  <2>3. scan[s].batch[i] # NotInBatch /\ scan[s].pc = "next"
    BY <1>6 DEF ScanCheck, TakeNext, Oldest, Remaining
  <2>4. intents[i].status # "ABSENT" /\ seen \in OpenStatuses
    BY <1>a, <2>1, <2>3 DEF ScanSound
  <2>5. /\ \/ scan'[s].pc = "next"
           \/ /\ scan'[s].pc \in {"expire", "find"} /\ scan'[s].intent = i
              /\ scan'[s].seen = seen
        /\ \A j \in Intents : \/ scan'[s].batch[j] = scan[s].batch[j]
                              \/ scan'[s].batch[j] = NotInBatch
    <3>1. /\ taken.pc = "next" /\ taken \in ScanRows
          /\ \A j \in Intents : \/ taken.batch[j] = scan[s].batch[j]
                                \/ taken.batch[j] = NotInBatch
      BY <1>a, <2>1, <2>3 DEF ScanRows, BatchRows, NotInBatch
    <3>2. pc \in {"expire", "find"}
      BY <2>1
    <3>3. CASE scan'[s] = taken
      BY <3>1, <3>3
    <3>4. CASE scan'[s] = [taken EXCEPT !.pc = pc, !.intent = i, !.seen = seen, !.tx = tx]
      <4>1. /\ scan'[s].pc = pc /\ scan'[s].intent = i /\ scan'[s].seen = seen
            /\ scan'[s].batch = taken.batch
        BY <3>1, <3>4 DEF ScanRows
      <4> QED
        BY <3>1, <3>2, <4>1
    <3> QED
      BY <2>2, <3>3, <3>4
  <2>6. IntentExists(i)'
    BY <1>a, <2>4, ExistsStable DEF IntentExists
  <2> QED
    BY <1>a, <2>4, <2>5, <2>6 DEF ScanSound, Grows, IntentExists
<1>7. ASSUME NEW healthy \in BOOLEAN, ScanFind(s, healthy), scan'[s] # Proceed(s)
      PROVE  ScanSound(s)'
  <2>1. PICK i : i = scan[s].intent
    OBVIOUS
  <2>2. PICK match \in Answers(i, scan[s].tx, healthy) :
            scan'[s] = [scan[s] EXCEPT !.pc = "save", !.match = match]
    BY <1>7, <2>1, Zenon DEF ScanFind, TypeOK
  <2>3. IntentExists(i) /\ scan[s].seen \in OpenStatuses /\ scan[s].tx \in Txs \cup {NoTx}
    BY <1>7, <1>a, <2>1 DEF ScanFind, ScanSound, ScanRows
  <2>4. match # NoMatch => match.status \in PaymentStatuses /\ MatchSound(i, match)
    BY <2>3, AnswersSound DEF IntentExists
  <2>5. IntentExists(i)' /\ (match # NoMatch => MatchSound(i, match)')
    BY <1>a, <2>3, <2>4, ExistsStable, MatchSoundStable
  <2>6. /\ scan'[s].pc = "save" /\ scan'[s].intent = i /\ scan'[s].match = match
        /\ scan'[s].seen = scan[s].seen /\ scan'[s].batch = scan[s].batch
    BY <1>a, <2>1, <2>2 DEF ScanRows
  <2> QED
    BY <1>a, <2>3, <2>4, <2>5, <2>6 DEF ScanSound, Grows, IntentExists, MatchSound, PaidBy
<1>8. CASE Scan(s)
  <2>1. CASE ScanExpire(s) \/ ScanSave(s) \/ ScanError(s)
    BY <1>3, <2>1 DEF ScanExpire, ScanSave, ScanError, TypeOK
  <2>2. CASE ScanEnd(s) \/ ScanCrash(s)
    BY <1>2, <2>2 DEF ScanEnd, ScanCrash, TypeOK
  <2>3. ASSUME NEW healthy \in BOOLEAN, ScanFind(s, healthy)
        PROVE  ScanSound(s)'
    BY <1>3, <1>7, <2>3 DEF ScanFind
  <2> QED
    BY <1>4, <1>5, <1>6, <1>8, <2>1, <2>2, <2>3 DEF Scan
<1>9. ASSUME NEW r \in Scanners, r # s, Scan(r)
      PROVE  scan'[s] = scan[s]
  BY <1>9 DEF Scan, ScanStart, ScanSkip, ScanCheck, ScanExpire, ScanFind, ScanSave,
              ScanError, ScanEnd, ScanCrash, TypeOK
<1>10. CASE UNCHANGED scan
  BY <1>1, <1>10
<1>11. \/ \E r \in Scanners : Scan(r)
       \/ UNCHANGED scan
  <2>1. ASSUME NEW h \in Handlers, Request(h)
        PROVE  UNCHANGED scan
    BY <2>1 DEF Request, PrepareRead, PrepareSave, SubmitRead, SubmitCommit, BroadcastRead,
                BroadcastAccept, BroadcastSave, HookReceive, HookMatch, HookPersist, Abort
  <2> QED
    BY <2>1 DEF Next, Environment, Send, Tick, CreateIntent, vars
<1> QED
  BY <1>1, <1>8, <1>9, <1>10, <1>11

-----------------------------------------------------------------------------
(* The invariant holds of the empty tables.                                *)
LEMMA InitIInv == Init => IInv
<1> SUFFICES ASSUME Init
             PROVE  IInv
  OBVIOUS
<1>1. TypeOK
  BY InitTypeOK
<1>2. BlocksPast
  BY DEF Init, BlocksPast, NoTxRow
<1>3. PaymentsOwned /\ ChainsKnown /\ TxsUnique
  BY DEF Init, PaymentsOwned, ChainsKnown, TxsUnique, NoIntent, NoPayment
<1>4. ConfirmedIsPaid /\ SettledMatchesPayment
  BY DEF Init, ConfirmedIsPaid, SettledMatchesPayment, SettledStatuses, TerminalStatuses,
         NoIntent, NoPayment
<1>5. \A h \in Handlers : ReqSound(h)
  BY DEF Init, ReqSound, IdleReq
<1>6. \A s \in Scanners : ScanSound(s)
  BY DEF Init, ScanSound, IdleScan, EmptyBatch
<1> QED
  BY <1>1, <1>2, <1>3, <1>4, <1>5, <1>6 DEF IInv

(* Every step preserves the invariant.                                     *)
LEMMA NextIInv == IInv /\ [Next]_vars => IInv'
<1> SUFFICES ASSUME IInv, [Next]_vars
             PROVE  IInv'
  OBVIOUS
<1>1. TypeOK'
  BY NextType
<1>2. BlocksPast'
  BY NextBlocksPast
<1>3. Tables'
  BY <1>1, NextTables
<1>4. \A h \in Handlers : ReqSound(h)'
  BY <1>1, NextReqSound
<1>5. \A s \in Scanners : ScanSound(s)'
  BY <1>1, NextScanSound
<1> QED
  BY <1>1, <1>2, <1>3, <1>4, <1>5 DEF IInv, Tables

(* The tables, the requests and the scans in flight satisfy IInv in every  *)
(* reachable state, for all constants.                                     *)
THEOREM Invariance == Spec => []IInv
<1> QED
  BY InitIInv, NextIInv, PTL DEF Spec

(* The type invariant: whatever a handler or a scan holds and writes back, *)
(* the rows of the three tables keep their columns' values.                *)
THEOREM TypeCorrect == Spec => []TypeOK
<1>1. IInv => TypeOK
  BY DEF IInv
<1> QED
  BY <1>1, Invariance, PTL

(* Every payment listed as CONFIRMED is paid for on its chain, for any     *)
(* number of checkouts, actions, transactions, requests and scanners.      *)
THEOREM ConfirmedPaid == Spec => []ConfirmedIsPaid
<1>1. IInv => ConfirmedIsPaid
  BY DEF IInv
<1> QED
  BY <1>1, Invariance, PTL

(* A settled intent agrees with its payment.                               *)
THEOREM SettledAgrees == Spec => []SettledMatchesPayment
<1>1. IInv => SettledMatchesPayment
  BY DEF IInv
<1> QED
  BY <1>1, Invariance, PTL

(* Confirmed payments of one transaction are on one chain; off Bitcoin the *)
(* unique index forbids two, on Bitcoin the address they pay differs.      *)
LEMMA CreditedOnceFromIInv == IInv => CreditedOnce
<1> SUFFICES ASSUME IInv, NEW i \in Intents, NEW j \in Intents,
                    payments[i].status = "CONFIRMED", payments[j].status = "CONFIRMED",
                    payments[i].tx = payments[j].tx
             PROVE  i = j
  BY DEF CreditedOnce
<1>1. PaidBy(i, payments[i].tx) /\ PaidBy(j, payments[i].tx)
  BY DEF IInv, ConfirmedIsPaid
<1>2. payments[i].tx # NoTx /\ intents[i].chain = intents[j].chain
  BY <1>1, NullsAssumption DEF PaidBy
<1>3. CASE intents[i].chain = "BITCOIN"
  BY <1>1, <1>2, <1>3 DEF PaidBy
<1>4. CASE intents[i].chain # "BITCOIN"
  BY <1>2, <1>4 DEF IInv, TxsUnique
<1> QED
  BY <1>3, <1>4

(* The same of the next state.                                             *)
LEMMA CreditedOnceAfterwards == IInv' => CreditedOnce'
  BY CreditedOnceFromIInv, PTL

(* No transfer is credited to two checkouts.                               *)
THEOREM CreditsUnique == Spec => []CreditedOnce
  BY Invariance, CreditedOnceFromIInv, PTL

-----------------------------------------------------------------------------
(* Payments implements TransferCredits.                                    *)

Credit == [i \in Intents |-> CreditOf(i)]

(* Every write to the table payments writes one row.                       *)
LEMMA OnePaymentWritten ==
  ASSUME [Next]_vars
  PROVE  payments' = payments \/ \E i, p : payments' = [payments EXCEPT ![i] = p]
<1>1. ASSUME NEW h \in Handlers, Request(h)
      PROVE  payments' = payments \/ \E i, p : payments' = [payments EXCEPT ![i] = p]
  BY <1>1 DEF Request, PrepareRead, PrepareSave, SubmitRead, SubmitCommit, BroadcastRead,
              BroadcastAccept, BroadcastSave, HookReceive, HookMatch, HookPersist, Abort,
              PersistMatch, tables
<1>2. ASSUME NEW s \in Scanners, Scan(s)
      PROVE  payments' = payments \/ \E i, p : payments' = [payments EXCEPT ![i] = p]
  BY <1>2 DEF Scan, ScanStart, ScanSkip, ScanCheck, ScanExpire, ScanFind, ScanSave,
              ScanError, ScanEnd, ScanCrash, PersistMatch, tables
<1> QED
  BY <1>1, <1>2 DEF Next, Environment, Send, Tick, CreateIntent, vars, tables

(* A step of the system credits one checkout, or withdraws its credit, or  *)
(* leaves the books alone.                                                 *)
LEMMA CreditStep ==
  ASSUME IInv, IInv', [Next]_vars
  PROVE  [Books!Next]_Credit
<1>1. CASE payments' = payments
  BY <1>1 DEF Credit, CreditOf
<1>2. ASSUME NEW i, NEW p, payments' = [payments EXCEPT ![i] = p], i \in Intents
      PROVE  [Books!Next]_Credit
  <2> DEFINE new == IF p.status = "CONFIRMED" THEN p.tx ELSE NoTx
  <2>1. payments'[i] = p /\ \A j \in Intents : j # i => payments'[j] = payments[j]
    BY <1>2 DEF IInv, TypeOK
  <2>2. Credit' = [Credit EXCEPT ![i] = new]
    BY <2>1 DEF Credit, CreditOf
  <2>3. CASE new = Credit[i]
    <3>1. Credit' = Credit
      BY <2>2, <2>3 DEF Credit
    <3> QED
      BY <3>1
  <2>4. CASE new = NoTx /\ new # Credit[i]
    <3>1. Books!Withdraw(i)
      BY <1>2, <2>2, <2>4 DEF Books!Withdraw, Credit
    <3> QED
      BY <1>2, <3>1 DEF Books!Next
  <2>5. CASE new # NoTx /\ new # Credit[i]
    <3>1. p.status = "CONFIRMED" /\ new = p.tx
      BY <2>5
    <3>2. new \in Txs
      BY <1>2, <2>1, <3>1 DEF IInv, PaymentsOwned
    <3>3. new \notin Books!Credited
      <4>1. ASSUME NEW j \in Intents, CreditOf(j) = new
            PROVE  FALSE
        <5>1. j # i
          BY <2>5, <4>1 DEF Credit
        <5>2. payments'[j].status = "CONFIRMED" /\ payments'[j].tx = new
          BY <2>1, <2>5, <4>1, <5>1 DEF CreditOf
        <5>3. CreditedOnce'
          BY CreditedOnceAfterwards
        <5> QED
          BY <1>2, <2>1, <3>1, <5>1, <5>2, <5>3 DEF CreditedOnce
      <4> QED
        BY <4>1 DEF Books!Credited, Credit
    <3>4. Books!Credit(i, new)
      BY <2>2, <3>3 DEF Books!Credit, Credit
    <3> QED
      BY <1>2, <3>2, <3>4 DEF Books!Next
  <2> QED
    BY <2>3, <2>4, <2>5
<1>3. ASSUME NEW i, NEW p, payments' = [payments EXCEPT ![i] = p], i \notin Intents
      PROVE  payments' = payments
  BY <1>3 DEF IInv, TypeOK
<1> QED
  BY <1>1, <1>2, <1>3, OnePaymentWritten

(* The refinement: read through Credit, every behaviour of the payments    *)
(* backend is one of the promised books.                                   *)
THEOREM BooksImplemented == Spec => BooksKept
<1>1. Init => Books!Init
  BY DEF Init, Books!Init, CreditOf, NoPayment
<1>2. IInv /\ IInv' /\ [Next]_vars => [Books!Next]_Credit
  BY CreditStep
<1> QED
  BY <1>1, <1>2, Invariance, PTL DEF Spec, BooksKept, Books!Spec, Credit
=============================================================================
