---------------------------- MODULE LedgerTracking ----------------------------
(***************************************************************************)
(* The ledger of simulated wallet transactions (be, modules/transactions): *)
(* a wallet simulates a transfer to the treasury, sends it, and has it     *)
(* tracked; an administrator reconciles the row later.                     *)
(*                                                                         *)
(* track() reads the intent and looks for a duplicate, awaits the chain    *)
(* provider, saves the intent and then inserts the row, in separate        *)
(* statements and without a transaction: each is a step, requests overlap, *)
(* and the server may die between any two of them.                         *)
(*                                                                         *)
(* A transaction of the chain is its sender, its kind and the amount it    *)
(* moves to the treasury (0 when it pays somebody else, another token or   *)
(* nothing).  Addresses are compared normalized.                           *)
(***************************************************************************)
EXTENDS Naturals

CONSTANTS
    LedgerWallets,  \* wallets with a session
    Treasury,       \* the treasury address of the network
    SimIds,         \* simulation intents
    LedgerTxs,      \* transaction hashes
    LedgerAmounts,  \* amounts in base units
    TrackHandlers   \* requests in flight at once

ASSUME LedgerAssumption == LedgerAmounts \subseteq Nat \ {0}

VARIABLES
    sims,       \* simulation_intents
    ledger,     \* ledger_transactions, by hash
    chain,      \* the chain
    tracks      \* requests in flight

ledgerVars == <<sims, ledger, chain, tracks>>

AssetTypes == {"native", "erc20"}

Sims ==
    [wallet : LedgerWallets, kind : AssetTypes, amount : LedgerAmounts,
     status : {"created", "used", "expired"}, overdue : BOOLEAN]
NoSim == [status |-> "none"]

MutantTreasuryExpected(kind) == "treasury"

(* The recipient stored for an erc20 intent is the token contract: it is   *)
(* request.to, not the treasury.                                           *)
ExpectedRecipient(kind) == IF kind = "native" THEN "treasury" ELSE "contract"

LedgerStatuses == {"PENDING", "FAILED", "CONFIRMED"}

LedgerRows ==
    [owner : LedgerWallets, kind : AssetTypes, amount : LedgerAmounts,
     recipient : {"treasury", "contract"}, sim : SimIds, status : LedgerStatuses]
NoRow == [status |-> "NONE"]

ChainTxs ==
    [from : LedgerWallets, kind : AssetTypes, pays : LedgerAmounts \cup {0},
     state : {"pending", "mined", "reverted"}]
NoTx == [state |-> "unknown"]

IdleTrack == [pc |-> "idle"]
Tracks ==
    [pc : {"read"}, sim : SimIds, tx : LedgerTxs]
    \cup [pc : {"verified", "used"}, sim : SimIds, tx : LedgerTxs,
          status : LedgerStatuses]
    \cup [pc : {"expiring"}, sim : SimIds]
    \cup [pc : {"reconciling"}, tx : LedgerTxs]
    \cup [pc : {"reconciled"}, tx : LedgerTxs, status : LedgerStatuses]

LedgerTypeOK ==
    /\ sims \in [SimIds -> Sims \cup {NoSim}]
    /\ ledger \in [LedgerTxs -> LedgerRows \cup {NoRow}]
    /\ chain \in [LedgerTxs -> ChainTxs \cup {NoTx}]
    /\ tracks \in [TrackHandlers -> Tracks \cup {IdleTrack}]

LedgerInit ==
    /\ sims = [s \in SimIds |-> NoSim]
    /\ ledger = [x \in LedgerTxs |-> NoRow]
    /\ chain = [x \in LedgerTxs |-> NoTx]
    /\ tracks = [h \in TrackHandlers |-> IdleTrack]

Tracking(h, track) == tracks' = [tracks EXCEPT ![h] = track]

-----------------------------------------------------------------------------
(* verifyTrackedTransaction().                                             *)

VerifiesNative(tx, amount, recipient) ==
    tx.kind = "native" /\ tx.pays = amount /\ recipient = "treasury"

(* A reverted transfer has a receipt without the Transfer event.           *)
VerifiesErc20(tx, amount, recipient) ==
    /\ tx.kind = "erc20" /\ tx.pays = amount /\ recipient = "treasury"
    /\ tx.state # "reverted"

Verifies(tx, wallet, kind, amount, recipient) ==
    /\ tx # NoTx
    /\ tx.from = wallet
    /\ IF kind = "native" THEN VerifiesNative(tx, amount, recipient)
                           ELSE VerifiesErc20(tx, amount, recipient)

MutantRawStatus(tx) == tx.state

ResolveLedgerStatus(tx) ==
    CASE tx.state = "pending" -> "PENDING"
      [] tx.state = "reverted" -> "FAILED"
      [] tx.state = "mined" -> "CONFIRMED"

(* getTransactionByHash and getTransactionReceipt: a transaction that the  *)
(* provider does not tell of is refused, a receipt it does not tell of is  *)
(* read like that of a pending transaction.                                *)
Seen(tx) == IF tx = NoTx THEN {} ELSE {tx, [tx EXCEPT !.state = "pending"]}

-----------------------------------------------------------------------------
(* The wallet and the chain.                                               *)

MutantSimulateOwnTreasury(s, wallet, kind, amount) ==
    /\ sims[s] = NoSim
    /\ sims' = [sims EXCEPT ![s] =
           [wallet |-> wallet, kind |-> kind, amount |-> amount,
            status |-> "created", overdue |-> FALSE]]
    /\ UNCHANGED <<ledger, chain, tracks>>

Simulate(s, wallet, kind, amount) ==
    /\ sims[s] = NoSim
    /\ wallet # Treasury
    /\ sims' = [sims EXCEPT ![s] =
           [wallet |-> wallet, kind |-> kind, amount |-> amount,
            status |-> "created", overdue |-> FALSE]]
    /\ UNCHANGED <<ledger, chain, tracks>>

PassDeadline(s) ==
    /\ sims[s] # NoSim /\ ~sims[s].overdue
    /\ sims' = [sims EXCEPT ![s].overdue = TRUE]
    /\ UNCHANGED <<ledger, chain, tracks>>

Send(x, wallet, kind, pays) ==
    /\ chain[x] = NoTx
    /\ chain' = [chain EXCEPT ![x] =
           [from |-> wallet, kind |-> kind, pays |-> pays, state |-> "pending"]]
    /\ UNCHANGED <<sims, ledger, tracks>>

Mine(x, state) ==
    /\ chain[x] # NoTx /\ chain[x].state = "pending"
    /\ chain' = [chain EXCEPT ![x].state = state]
    /\ UNCHANGED <<sims, ledger, tracks>>

-----------------------------------------------------------------------------
(* track().                                                                *)

TrackRead(h, wallet, s, x) ==
    /\ tracks[h] = IdleTrack
    /\ sims[s] # NoSim /\ sims[s].wallet = wallet
    /\ sims[s].status # "used" /\ ~sims[s].overdue
    /\ ledger[x] = NoRow
    /\ Tracking(h, [pc |-> "read", sim |-> s, tx |-> x])
    /\ UNCHANGED <<sims, ledger, chain>>

(* assertIntentIsTrackable saves an overdue intent without awaiting it.    *)
TrackReadOverdue(h, wallet, s) ==
    /\ tracks[h] = IdleTrack
    /\ sims[s] # NoSim /\ sims[s].wallet = wallet
    /\ sims[s].status # "used" /\ sims[s].overdue
    /\ Tracking(h, [pc |-> "expiring", sim |-> s])
    /\ UNCHANGED <<sims, ledger, chain>>

SaveExpired(h) ==
    /\ tracks[h].pc = "expiring"
    /\ sims' = [sims EXCEPT ![tracks[h].sim].status = "expired"]
    /\ Tracking(h, IdleTrack)
    /\ UNCHANGED <<ledger, chain>>

TrackVerify(h) ==
    LET sim == sims[tracks[h].sim] IN
    /\ tracks[h].pc = "read"
    /\ \E tx \in Seen(chain[tracks[h].tx]) :
           /\ Verifies(tx, sim.wallet, sim.kind, sim.amount, "treasury")
           /\ Tracking(h, [pc |-> "verified", sim |-> tracks[h].sim,
                           tx |-> tracks[h].tx, status |-> ResolveLedgerStatus(tx)])
    /\ UNCHANGED <<sims, ledger, chain>>

MutantTrackUseLater(h) ==
    /\ tracks[h].pc = "verified"
    /\ Tracking(h, [tracks[h] EXCEPT !.pc = "used"])
    /\ UNCHANGED <<sims, ledger, chain>>

TrackUse(h) ==
    /\ tracks[h].pc = "verified"
    /\ sims' = [sims EXCEPT ![tracks[h].sim].status = "used"]
    /\ Tracking(h, [tracks[h] EXCEPT !.pc = "used"])
    /\ UNCHANGED <<ledger, chain>>

(* The unique index on the hash refuses a second row.                      *)
TrackInsert(h) ==
    LET x == tracks[h].tx
        sim == sims[tracks[h].sim]
    IN
    /\ tracks[h].pc = "used"
    /\ ledger' = IF ledger[x] # NoRow THEN ledger
                 ELSE [ledger EXCEPT ![x] =
                          [owner |-> sim.wallet, kind |-> sim.kind,
                           amount |-> sim.amount,
                           recipient |-> ExpectedRecipient(sim.kind),
                           sim |-> tracks[h].sim, status |-> tracks[h].status]]
    /\ Tracking(h, IdleTrack)
    /\ UNCHANGED <<sims, chain>>

-----------------------------------------------------------------------------
(* reconcileById().                                                        *)

ReconcileRead(h, x) ==
    /\ tracks[h] = IdleTrack
    /\ ledger[x] # NoRow
    /\ Tracking(h, [pc |-> "reconciling", tx |-> x])
    /\ UNCHANGED <<sims, ledger, chain>>

ReconcileVerify(h) ==
    LET x == tracks[h].tx IN
    /\ tracks[h].pc = "reconciling"
    /\ \E tx \in Seen(chain[x]) :
           /\ Verifies(tx, ledger[x].owner, ledger[x].kind, ledger[x].amount,
                       ledger[x].recipient)
           /\ Tracking(h, [pc |-> "reconciled", tx |-> x,
                           status |-> ResolveLedgerStatus(tx)])
    /\ UNCHANGED <<sims, ledger, chain>>

ReconcileSave(h) ==
    /\ tracks[h].pc = "reconciled"
    /\ ledger' = [ledger EXCEPT ![tracks[h].tx].status = tracks[h].status]
    /\ Tracking(h, IdleTrack)
    /\ UNCHANGED <<sims, chain>>

(* A request is refused, its provider fails, or the server dies.           *)
TrackDies(h) ==
    /\ tracks[h] # IdleTrack
    /\ Tracking(h, IdleTrack)
    /\ UNCHANGED <<sims, ledger, chain>>

TrackStep(h) ==
    \/ \E wallet \in LedgerWallets, s \in SimIds :
         \/ \E x \in LedgerTxs : TrackRead(h, wallet, s, x)
         \/ TrackReadOverdue(h, wallet, s)
    \/ SaveExpired(h)
    \/ TrackVerify(h)
    \/ TrackUse(h)
    \/ TrackInsert(h)
    \/ \E x \in LedgerTxs : ReconcileRead(h, x)
    \/ ReconcileVerify(h)
    \/ ReconcileSave(h)
    \/ TrackDies(h)

LedgerNext ==
    \/ \E wallet \in LedgerWallets, kind \in AssetTypes :
         \/ \E s \in SimIds, amount \in LedgerAmounts :
              Simulate(s, wallet, kind, amount)
         \/ \E x \in LedgerTxs, pays \in LedgerAmounts \cup {0} :
              Send(x, wallet, kind, pays)
    \/ \E s \in SimIds : PassDeadline(s)
    \/ \E x \in LedgerTxs, state \in {"mined", "reverted"} : Mine(x, state)
    \/ \E h \in TrackHandlers : TrackStep(h)

LedgerSpec == LedgerInit /\ [][LedgerNext]_ledgerVars

-----------------------------------------------------------------------------
(* Properties.                                                             *)

(* listForWallet and getForWallet.                                         *)
VisibleTo(wallet) == {x \in LedgerTxs : ledger[x] # NoRow /\ ledger[x].owner = wallet}

(* What a wallet sees as its own it sent itself, to a treasury that is not *)
(* the wallet, in the amount it simulated, and a row says CONFIRMED or     *)
(* FAILED only of a transaction that was mined or reverted.                *)
LedgerIsEarned ==
    \A wallet \in LedgerWallets : \A x \in VisibleTo(wallet) :
        /\ wallet # Treasury
        /\ chain[x] # NoTx
        /\ chain[x].from = wallet
        /\ chain[x].pays = ledger[x].amount
        /\ ledger[x].status = "CONFIRMED" => chain[x].state = "mined"
        /\ ledger[x].status = "FAILED" => chain[x].state = "reverted"

(* A simulation with a row in the ledger is spent, however the requests    *)
(* about it overlap and wherever the server dies: nobody tracks another    *)
(* transaction with it from then on.                                       *)
RowSpendsSimulation ==
    \A x \in LedgerTxs :
        ledger[x] # NoRow => sims[ledger[x].sim].status \in {"used", "expired"}

(* The recipient stored for a token transfer is the token contract, and    *)
(* reconcileById expects it to be the recipient of the transfer: the row   *)
(* of a token transfer keeps the status it was tracked with for ever.      *)
TokenRowsAreFrozen ==
    [][\A x \in LedgerTxs :
         ledger[x] # NoRow /\ ledger[x].kind = "erc20" => ledger'[x] = ledger[x]]_ledgerVars
=============================================================================
