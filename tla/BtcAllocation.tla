---------------------------- MODULE BtcAllocation ----------------------------
(***************************************************************************)
(* Bitcoin checkouts: how createIntent limits the open checkouts of a      *)
(* payer and gives each checkout a receive address of its own.             *)
(*                                                                         *)
(* Payments makes one step of createIntent; here its transaction is taken  *)
(* apart.  It runs at READ COMMITTED: the counts and the maximum each see  *)
(* what was committed when their statement began, the advisory lock is     *)
(* taken after the counts and held until the transaction ends.             *)
(***************************************************************************)
EXTENDS Integers, FiniteSets

CONSTANTS
    BtcHandlers,    \* createIntent calls that may be in flight at once
    BtcIds,         \* identifiers of Bitcoin rows of payment_intents
    PayerKeys,      \* sender addresses and request addresses
    BtcLimit,       \* OPEN_BTC_INTENT_LIMIT
    NoBtcHandler    \* holder of a free derivation lock

ASSUME BtcAssumption ==
    /\ IsFiniteSet(BtcHandlers)
    /\ BtcLimit \in Nat \ {0}
    /\ NoBtcHandler \notin BtcHandlers

VARIABLES
    btcRows,        \* committed Bitcoin rows of payment_intents
    btcReq,         \* createIntent calls in flight
    btcLock         \* holder of BTC_DERIVATION_ADVISORY_LOCK

btcVars == <<btcRows, btcReq, btcLock>>

Unindexed == -1

(* keys holds the sender and the request address as far as they are known. *)
BtcRowType ==
    [state : {"ABSENT", "OPEN", "CLOSED"}, index : Nat \cup {Unindexed},
     keys : SUBSET PayerKeys]

BtcReqType ==
    [pc : {"idle", "counted", "locked", "derived"},
     index : Nat \cup {Unindexed}, keys : SUBSET PayerKeys]

NoBtcRow == [state |-> "ABSENT", index |-> Unindexed, keys |-> {}]
IdleBtcReq == [pc |-> "idle", index |-> Unindexed, keys |-> {}]

BtcTypeOK ==
    /\ btcRows \in [BtcIds -> BtcRowType]
    /\ btcReq \in [BtcHandlers -> BtcReqType]
    /\ btcLock \in BtcHandlers \cup {NoBtcHandler}

BtcInit ==
    /\ btcRows = [b \in BtcIds |-> NoBtcRow]
    /\ btcReq = [h \in BtcHandlers |-> IdleBtcReq]
    /\ btcLock = NoBtcHandler

-----------------------------------------------------------------------------

OpenOf(k) == {b \in BtcIds : btcRows[b].state = "OPEN" /\ k \in btcRows[b].keys}

GivenOut == {btcRows[b].index : b \in BtcIds} \ {Unindexed}

(* Faulty: COALESCE(MAX(btc_derivation_index), 0) + 1.                     *)
MutantNextIndexes ==
    {n \in {1} \cup {m + 1 : m \in GivenOut} : \A m \in GivenOut : m < n}

(* COALESCE(MAX(btc_derivation_index), -1) + 1.                            *)
NextIndexes ==
    {n \in {0} \cup {m + 1 : m \in GivenOut} : \A m \in GivenOut : m < n}

(* Faulty: a payer at the limit is let through.                            *)
MutantCountOpenBtc(h, keys) ==
    /\ btcReq[h].pc = "idle"
    /\ \A k \in keys : Cardinality(OpenOf(k)) <= BtcLimit
    /\ btcReq' = [btcReq EXCEPT ![h] =
           [pc |-> "counted", index |-> Unindexed, keys |-> keys]]
    /\ UNCHANGED <<btcRows, btcLock>>

(* assertBtcIntentLimit: a call without sender and address is not limited. *)
CountOpenBtc(h, keys) ==
    /\ btcReq[h].pc = "idle"
    /\ \A k \in keys : Cardinality(OpenOf(k)) < BtcLimit
    /\ btcReq' = [btcReq EXCEPT ![h] =
           [pc |-> "counted", index |-> Unindexed, keys |-> keys]]
    /\ UNCHANGED <<btcRows, btcLock>>

(* Faulty: the lock is of the session and does not keep others out.        *)
MutantLockDerivation(h) ==
    /\ btcReq[h].pc = "counted"
    /\ btcLock' = h
    /\ btcReq' = [btcReq EXCEPT ![h].pc = "locked"]
    /\ UNCHANGED btcRows

LockDerivation(h) ==
    /\ btcReq[h].pc = "counted"
    /\ btcLock = NoBtcHandler
    /\ btcLock' = h
    /\ btcReq' = [btcReq EXCEPT ![h].pc = "locked"]
    /\ UNCHANGED btcRows

DeriveAddress(h) ==
    /\ btcReq[h].pc = "locked"
    /\ \E n \in NextIndexes :
           btcReq' = [btcReq EXCEPT ![h].pc = "derived", ![h].index = n]
    /\ UNCHANGED <<btcRows, btcLock>>

(* The insert and the commit, which frees the lock.  The unique index over *)
(* btc_derivation_index refuses an index that is given out.                *)
CommitBtcIntent(h, b) ==
    /\ btcReq[h].pc = "derived"
    /\ btcRows[b].state = "ABSENT"
    /\ btcReq[h].index \notin GivenOut
    /\ btcRows' = [btcRows EXCEPT ![b] =
           [state |-> "OPEN", index |-> btcReq[h].index, keys |-> btcReq[h].keys]]
    /\ btcReq' = [btcReq EXCEPT ![h] = IdleBtcReq]
    /\ btcLock' = NoBtcHandler

(* The derivation or the insert fails, or the server stops: the database   *)
(* rolls the transaction back.                                             *)
RollBackBtcIntent(h) ==
    /\ btcReq[h].pc # "idle"
    /\ btcReq' = [btcReq EXCEPT ![h] = IdleBtcReq]
    /\ btcLock' = IF btcLock = h THEN NoBtcHandler ELSE btcLock
    /\ UNCHANGED btcRows

(* The scanner settles or expires the checkout; rows are never deleted.    *)
CloseBtcIntent(b) ==
    /\ btcRows[b].state = "OPEN"
    /\ btcRows' = [btcRows EXCEPT ![b].state = "CLOSED"]
    /\ UNCHANGED <<btcReq, btcLock>>

BtcNext ==
    \/ \E h \in BtcHandlers, keys \in SUBSET PayerKeys : CountOpenBtc(h, keys)
    \/ \E h \in BtcHandlers :
           \/ LockDerivation(h)
           \/ DeriveAddress(h)
           \/ \E b \in BtcIds : CommitBtcIntent(h, b)
           \/ RollBackBtcIntent(h)
    \/ \E b \in BtcIds : CloseBtcIntent(b)

BtcSpec == BtcInit /\ [][BtcNext]_btcVars

-----------------------------------------------------------------------------
(* A derived address is still free when its checkout is inserted: the lock *)
(* outlives the read of the maximum, and the unique index never has to     *)
(* refuse a checkout (buildChainSpecificIntentFields).                     *)
DerivedIndexIsFree ==
    \A h \in BtcHandlers :
        btcReq[h].pc = "derived" =>
            /\ btcReq[h].index \notin GivenOut
            /\ \A g \in BtcHandlers \ {h} : btcReq[g].pc # "derived"

(* The limit is counted before the lock is taken, so calls in flight can   *)
(* pass it together; no payer goes over it by more than the other calls    *)
(* that were in flight (assertBtcIntentLimit).                             *)
OpenBtcBounded ==
    \A k \in PayerKeys :
        Cardinality(OpenOf(k)) <= BtcLimit - 1 + Cardinality(BtcHandlers)

(* createIntent implements the allocator: the checkouts are given the      *)
(* indexes 0, 1, 2, ... in the order in which they commit, none is skipped *)
(* by a rollback and none is given out twice.                              *)
Allocator ==
    INSTANCE IndexAllocator
        WITH Owners <- BtcIds, indexOf <- [b \in BtcIds |-> btcRows[b].index]

AllocatesInOrder == Allocator!AllocatorSpec
=============================================================================
