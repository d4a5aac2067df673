---------------------------- MODULE PaymentRules ----------------------------
(***************************************************************************)
(* The vocabulary of the presale checkout: rows of the three payment       *)
(* tables, their statuses, and the pure rules of payments.service.ts,      *)
(* payment-state.service.ts, payment-checkout-capability.service.ts and    *)
(* wallet-checkout.guards.ts.                                              *)
(*                                                                         *)
(* Time and block height are one clock: a block is mined at every tick.    *)
(***************************************************************************)
EXTENDS Naturals, FiniteSets

CONSTANTS
    Intents,        \* ids of payment_intents rows, numbered by created_at
    Actions,        \* ids of payment_wallet_actions rows
    Txs,            \* transaction hashes / signatures
    NoTx,           \* a null transaction id
    Senders,        \* wallet addresses of payers
    NoSender,       \* a null senderAddress
    Chains,         \* the payment chains in use
    Amounts,        \* amounts in base units, as quoted and as transferred
    IntentTTL,      \* env.paymentIntentTtlMinutes
    Grace,          \* env.paymentLateSubmissionGraceMinutes
    ActionTTL,      \* PAYMENT_WALLET_ACTION_TTL_MS
    Confirmations,  \* env.<chain>Confirmations, finality on Solana
    ScanWindow,     \* MAX_TRON_SCAN_BLOCKS_PER_INTENT
    BatchSize,      \* env.paymentScannerBatchSize
    OpenBtcLimit    \* OPEN_BTC_INTENT_LIMIT

AllChains == {"ETHEREUM", "SOLANA", "BITCOIN", "TRON"}

ASSUME IntentsAssumption == Intents \subseteq Nat \ {0}
ASSUME NullsAssumption == NoTx \notin Txs /\ NoSender \notin Senders
ASSUME ChainsAssumption == Chains \subseteq AllChains
ASSUME AmountsAssumption == Amounts \subseteq Nat \ {0}
ASSUME DurationsAssumption ==
    /\ IntentTTL \in Nat /\ Grace \in Nat /\ ActionTTL \in Nat
    /\ Confirmations \in Nat \ {0} /\ ScanWindow \in Nat
    /\ BatchSize \in Nat \ {0} /\ OpenBtcLimit \in Nat

-----------------------------------------------------------------------------
(* Statuses.  "ABSENT" stands for a row that does not exist.               *)

OpenStatuses == {"WAITING", "DETECTED", "CONFIRMING"}

TerminalStatuses ==
    {"CONFIRMED", "EXPIRED", "FAILED", "UNDERPAID", "OVERPAID", "LATE_PAID"}

IntentStatuses == OpenStatuses \cup TerminalStatuses

(* Every payment status is the intent status of the same name             *)
(* (toIntentStatus); only EXPIRED has no payment.                          *)
PaymentStatuses == IntentStatuses \ {"WAITING", "EXPIRED"}

(* EXPIRED and CANCELLED are declared; no code writes them.                *)
ActionStatuses == {"PREPARED", "SUBMITTED", "USED", "EXPIRED", "CANCELLED"}

AllowedIntentTransitions ==
    [s \in IntentStatuses |->
        CASE s = "WAITING" -> IntentStatuses \ {"WAITING"}
          [] s = "DETECTED" -> {"CONFIRMING", "CONFIRMED", "FAILED"}
          [] s = "CONFIRMING" -> {"CONFIRMED", "FAILED"}
          [] OTHER -> {}]

(* assertIntentTransition does not throw.                                  *)
TransitionAllowed(from, to) ==
    from = to \/ to \in AllowedIntentTransitions[from]

-----------------------------------------------------------------------------
(* Rows.  What no rule reads (prices, quotes, raw payloads, redacted       *)
(* provider answers) is left out.  created = 0 is a null created block.    *)

IntentRows ==
    [chain : Chains \cup {"NONE"}, sender : Senders \cup {NoSender},
     expected : Amounts \cup {0}, created : Nat, expiresAt : Nat,
     status : IntentStatuses \cup {"ABSENT"}, checked : BOOLEAN]

NoIntent ==
    [chain |-> "NONE", sender |-> NoSender, expected |-> 0, created |-> 0,
     expiresAt |-> 0, status |-> "ABSENT", checked |-> FALSE]

(* prepared is the transaction id of the stored unsigned TRON transaction. *)
ActionRows ==
    [intent : Intents \cup {0}, status : ActionStatuses \cup {"ABSENT"},
     txId : Txs \cup {NoTx}, prepared : Txs \cup {NoTx}, expiresAt : Nat]

NoAction ==
    [intent |-> 0, status |-> "ABSENT", txId |-> NoTx, prepared |-> NoTx,
     expiresAt |-> 0]

(* A payment row, and a MatchResult before it is persisted.                *)
PaymentRows ==
    [status : PaymentStatuses \cup {"ABSENT"}, tx : Txs \cup {NoTx},
     amount : Amounts \cup {0}]

NoPayment == [status |-> "ABSENT", tx |-> NoTx, amount |-> 0]

NoMatch == NoPayment

-----------------------------------------------------------------------------
(* Guards on an intent row and an action row at time t.                    *)

(* createIntent refuses an ETH or TRON checkout without a sender.          *)
SenderRequired(chain) == chain \in {"ETHEREUM", "TRON"}

(* assertCanPrepare and assertWalletIntentIsUsable.                        *)
CanPrepare(intent, t) ==
    /\ intent.status \in OpenStatuses
    /\ intent.expiresAt > t
    /\ intent.sender # NoSender

(* assertCanSubmit: the window stays open for Grace after the expiry.      *)
CanSubmit(intent, t) ==
    /\ intent.status \in OpenStatuses
    /\ intent.expiresAt + Grace > t

(* assertWalletActionIsUsable.                                             *)
ActionUsable(action, t) ==
    /\ action.status = "PREPARED"
    /\ action.expiresAt > t

(* Faulty: a late transfer is filed under the expiry of its intent.        *)
ClassifyLateAsExpired(intent, amount, confirmed, matchedAt) ==
    CASE amount < intent.expected -> "UNDERPAID"
      [] amount > intent.expected -> "OVERPAID"
      [] amount = intent.expected /\ matchedAt > intent.expiresAt -> "EXPIRED"
      [] OTHER -> IF confirmed THEN "CONFIRMED" ELSE "CONFIRMING"

(* Faulty: when the transfer was made is not looked at.                    *)
ClassifyAmountOnly(intent, amount, confirmed, matchedAt) ==
    CASE amount < intent.expected -> "UNDERPAID"
      [] amount > intent.expected -> "OVERPAID"
      [] OTHER -> IF confirmed THEN "CONFIRMED" ELSE "CONFIRMING"

(* classifyMatchedAmount.                                                  *)
ClassifyMatchedAmount(intent, amount, confirmed, matchedAt) ==
    CASE amount < intent.expected -> "UNDERPAID"
      [] amount > intent.expected -> "OVERPAID"
      [] amount = intent.expected /\ matchedAt > intent.expiresAt -> "LATE_PAID"
      [] OTHER -> IF confirmed THEN "CONFIRMED" ELSE "CONFIRMING"
=============================================================================
