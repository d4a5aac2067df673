--------------------------- MODULE PaymentsPromises ---------------------------
(***************************************************************************)
(* What the repository says of the payments backend and Payments, which    *)
(* follows its code, does not keep.  Each statement is quoted in the       *)
(* findings with the line it comes from.                                   *)
(***************************************************************************)
EXTENDS Payments

(* The transition table leaves no way out of a terminal status             *)
(* (payment-state.service.ts).  A submission or a scan that read the       *)
(* intent before it was settled writes its own status over the settled     *)
(* one: the table is consulted about the status that was read.             *)
TerminalIsFinal ==
    [][\A i \in Intents :
          intents[i].status \in TerminalStatuses =>
              intents'[i].status = intents[i].status]_vars

(* i is waiting for t, submitted in time through one of its actions, and   *)
(* the chain shows t as the transfer the checkout asked for.               *)
PaidAndSubmitted(i, t) ==
    /\ intents[i].status = "CONFIRMING"
    /\ \E a \in Actions : /\ actions[a].intent = i /\ actions[a].txId = t
                          /\ actions[a].status = "SUBMITTED"
    /\ txs[t].state = "MINED" /\ txs[t].chain = intents[i].chain
    /\ txs[t].ref = i /\ txs[t].sender = intents[i].sender
    /\ txs[t].block <= intents[i].expiresAt

(* A submitted transaction is checked before expiry logic and remains      *)
(* trackable (checkout design, "Expiry and late payments"): a submitted,   *)
(* exact and timely transfer settles its checkout.  The first match, short *)
(* of confirmations, marks the action USED; after the expiry the intent    *)
(* has no SUBMITTED action, and CONFIRMING may not become EXPIRED, so      *)
(* every later scan gives up on it.                                        *)
SubmittedSettles ==
    \A i \in Intents, t \in Txs :
        PaidAndSubmitted(i, t) /\ txs[t].amount = intents[i].expected
        ~> intents[i].status \in TerminalStatuses

(* A transaction that reaches the receiver with the wrong amount becomes   *)
(* an underpaid or overpaid review state (checkout design, "Error          *)
(* Handling").  Submission has made the intent CONFIRMING, from where the  *)
(* transition table allows neither.                                        *)
ReviewStateReached ==
    \A i \in Intents, t \in Txs :
        PaidAndSubmitted(i, t) /\ txs[t].amount # intents[i].expected
        ~> intents[i].status \in {"UNDERPAID", "OVERPAID"}

(* Action expiry does not discard a txid already returned by the wallet    *)
(* (checkout design, "Txid submission"): an action whose transaction was   *)
(* broadcast through the backend can be submitted while the window of its  *)
(* intent is open.  assertWalletActionIsUsable refuses it once the action  *)
(* has expired.                                                            *)
BroadcastStaysSubmittable ==
    \A a \in Actions :
        LET i == actions[a].intent IN
        /\ actions[a].status = "PREPARED" /\ actions[a].txId # NoTx
        /\ CanSubmit(intents[i], now)
        => ActionUsable(actions[a], now)
=============================================================================
