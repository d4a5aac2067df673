-------------------------- MODULE TransferCredits --------------------------
(***************************************************************************)
(* What the checkout owes the presale's books: a transfer found on a chain *)
(* is credited to at most one checkout, and one step of the system changes *)
(* the credit of one checkout.  How a transfer is found, by whom it is     *)
(* written and how often is left to Payments, which implements this.       *)
(***************************************************************************)
CONSTANTS
    Intents,    \* checkouts
    Txs,        \* transfers
    NoTx        \* no transfer

VARIABLE credit \* the transfer each checkout is credited with

Init == credit = [i \in Intents |-> NoTx]

Credited == {credit[i] : i \in Intents} \ {NoTx}

(* A checkout is credited with a transfer nobody is credited with, in the  *)
(* place of the one it had, if any.                                        *)
Credit(i, t) ==
    /\ t \notin Credited
    /\ credit' = [credit EXCEPT ![i] = t]

(* The payment is confirming again.                                        *)
Withdraw(i) ==
    /\ credit[i] # NoTx
    /\ credit' = [credit EXCEPT ![i] = NoTx]

Next ==
    \E i \in Intents :
        \/ \E t \in Txs : Credit(i, t)
        \/ Withdraw(i)

Spec == Init /\ [][Next]_credit
=============================================================================
