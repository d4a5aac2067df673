---------------------------- MODULE InstanceProofs ----------------------------
(***************************************************************************)
(* Proofs about the modules that gather several parts in one instance: the *)
(* invariant of each part is one of the whole, whichever part runs, for    *)
(* all values of the constants.                                            *)
(***************************************************************************)
EXTENDS MCBuyingPage, MCServices, CheckoutClientProofs, WalletProofs, ServiceProofs,
        PurchaseProofs, AdministrationProofs

-----------------------------------------------------------------------------
(* The buy page.                                                           *)

PageInv == ClientInv /\ SendInv /\ SessionInv /\ SyncInv

LEMMA PageStep == PageInv /\ [PageNext]_buyingVars => PageInv'
<1> SUFFICES ASSUME PageInv, [PageNext]_buyingVars PROVE PageInv'
    OBVIOUS
<1>1. /\ [ClientNext]_clientVars /\ [SendNext]_sendVars
      /\ [SessionNext]_sessionVars /\ [SyncNext]_syncVars
    BY DEF PageNext, buyingVars
<1>2. QED
    BY <1>1, ClientStep, SendStep, SessionStep, SyncStep DEF PageInv

(* Whichever part of the buy page runs, the checkout controller, the       *)
(* wallet, the sessions and the header keep their invariants.              *)
THEOREM PageInvariant == PageSpec => []PageInv
<1>1. PageInit => PageInv
    BY ClientInitHolds, SendInitHolds, SessionInitHolds, SyncInitHolds DEF PageInit, PageInv
<1>2. QED
    BY <1>1, PageStep, PTL DEF PageSpec

(* The stores, cookies and runs of the page hold what the code declares.   *)
THEOREM PageTypesHold == PageSpec => []PageTypeOK
<1>1. PageInv => ClientTypeOK /\ SendTypeOK /\ SessionTypeOK /\ ProviderTypeOK
    BY DEF PageInv, ClientInv, SendInv, SessionInv, SyncInv
<1> DEFINE PartRuns == part \in {"checkout", "wallet", "session", "provider"}
<1>2. PartRuns /\ ClientTypeOK /\ SendTypeOK /\ SessionTypeOK /\ ProviderTypeOK => PageTypeOK
    BY DEF PageTypeOK
<1>3. PageInit => PartRuns
    BY DEF PageInit
<1>4. PartRuns /\ [PageNext]_buyingVars => PartRuns'
    BY DEF PageNext, buyingVars
<1> HIDE DEF PartRuns
<1>5. QED
    BY <1>1, <1>2, <1>3, <1>4, PageInvariant, PTL DEF PageSpec

(* The gathered page is one of its parts at a time: a behaviour of it is a *)
(* behaviour of the checkout controller, of the wallet, of the sessions    *)
(* and of the header, so that what is proved of each holds of it.  Only    *)
(* the fairness of the controller, which safety does not need, is not said *)
(* of the page.                                                            *)
THEOREM PageIsItsParts ==
    PageSpec =>
        /\ ClientInit /\ [][ClientNext]_clientVars
        /\ SendSpec /\ SessionSpec /\ SyncSpec
<1>1. PageInit => ClientInit /\ SendInit /\ SessionInit /\ SyncInit
    BY DEF PageInit
<1>2. [PageNext]_buyingVars =>
          /\ [ClientNext]_clientVars /\ [SendNext]_sendVars
          /\ [SessionNext]_sessionVars /\ [SyncNext]_syncVars
    BY DEF PageNext, buyingVars
<1>3. QED
    BY <1>1, <1>2, PTL DEF PageSpec, SendSpec, SessionSpec, SyncSpec

(* In the gathered page as well: one payment at a time, paid by the payer, *)
(* no cookie of a dead session, no busy state without a cause.             *)
THEOREM PageSafe ==
    PageSpec =>
        /\ [](OnePaymentAtATime /\ SpinnerIsBacked /\ PaidByPayer /\ CookieIsLive)
        /\ [](SessionsAreSigned /\ VerifiedHasSession /\ SpinnerHasCause)
        /\ TransactionIsKept /\ PromptsAreWanted
<1>1. PageInv => OnePaymentAtATime /\ SpinnerIsBacked
    BY OnePaymentFollows DEF PageInv, ClientInv
<1>2. PageInv /\ [PageNext]_buyingVars => TransactionKept
    <2>1. [PageNext]_buyingVars => [ClientNext]_clientVars
        BY DEF PageNext, buyingVars
    <2>2. QED
        BY <2>1, TransactionStep DEF PageInv
<1>3. PageSpec => [][TransactionKept]_clientVars
    BY <1>2, PageInvariant, PTL DEF PageSpec
<1>4. PageSpec => TransactionIsKept
    BY <1>3 DEF TransactionIsKept, TransactionKept
<1>5. QED
    BY <1>1, <1>4, PageInvariant, PageIsItsParts, PaidByPayerHolds, CookieIsLiveHolds,
       SessionsAreSignedHolds, VerifiedHasSessionHolds, SpinnerHasCauseHolds,
       PromptsAreWantedHolds, PTL

-----------------------------------------------------------------------------
(* The backend and the administration.                                     *)

ServicesInv ==
    /\ AllocInv /\ LedgerInv /\ QuoteInv /\ PurchasesInv
    /\ BlogsInv /\ AccessInv

LEMMA ServicesStep == ServicesInv /\ [ServicesNext]_servicesVars => ServicesInv'
<1> SUFFICES ASSUME ServicesInv, [ServicesNext]_servicesVars PROVE ServicesInv'
    OBVIOUS
<1>1. /\ [BtcNext]_btcVars /\ [LedgerNext]_ledgerVars
      /\ [QuoteNext]_quoteVars /\ [PurchasesNext]_purchases
      /\ [BlogsNext]_blogVars /\ [AccessNext]_accessVars
    BY DEF ServicesNext, servicesVars, moneyVars, adminVars
<1>2. QED
    BY <1>1, AllocStep, LedgerStep, QuoteStep, PurchasesStep, BlogsStep, AccessStep
       DEF ServicesInv

(* Whichever part of the backend runs, the parts keep their invariants.    *)
THEOREM ServicesInvariant == ServicesSpec => []ServicesInv
<1>1. ServicesInit => ServicesInv
    BY AllocInit, LedgerInitHolds, QuoteInitHolds, PurchasesInitHolds, BlogsInitHolds,
       AccessInitHolds DEF ServicesInit, ServicesInv
<1>2. QED
    BY <1>1, ServicesStep, PTL DEF ServicesSpec

(* The tables and caches of the backend hold what the code declares.       *)
THEOREM ServicesTypesHold == ServicesSpec => []ServicesTypeOK
<1>1. ServicesInv => BtcTypeOK /\ LedgerTypeOK /\ QuoteTypeOK /\ BlogsTypeOK /\ AccessTypeOK
    BY DEF ServicesInv, AllocInv, LedgerInv, QuoteInv, BlogsInv, AccessInv
<1>2. ServicesInv => PurchasesTypeOK
    BY PurchasesTyped DEF ServicesInv
<1>3. ServicesInv => ServicesTypeOK
    BY <1>1, <1>2 DEF ServicesTypeOK
<1>4. QED
    BY <1>3, ServicesInvariant, PTL

(* The gathered services are one of their parts at a time.                 *)
THEOREM ServicesAreTheirParts ==
    ServicesSpec =>
        /\ BtcSpec /\ LedgerSpec /\ QuoteSpec /\ PurchasesSpec
        /\ MigrationsSpec /\ BlogsSpec /\ AccessSpec
<1>1. ServicesInit =>
          /\ BtcInit /\ LedgerInit /\ QuoteInit /\ PurchasesInit
          /\ MigrationsInit /\ BlogsInit /\ AccessInit
    BY DEF ServicesInit
<1>2. [ServicesNext]_servicesVars =>
          /\ [BtcNext]_btcVars /\ [LedgerNext]_ledgerVars
          /\ [QuoteNext]_quoteVars /\ [PurchasesNext]_purchases
          /\ [MigrationsNext]_migrationVars /\ [BlogsNext]_blogVars /\ [AccessNext]_accessVars
    BY DEF ServicesNext, servicesVars, moneyVars, adminVars
<1>3. QED
    BY <1>1, <1>2, PTL
       DEF ServicesSpec, BtcSpec, LedgerSpec, QuoteSpec, PurchasesSpec, MigrationsSpec,
           BlogsSpec, AccessSpec

(* In the gathered services as well: addresses are given out once and in   *)
(* order, ledgers are earned, prices are recent, nobody is overcharged,    *)
(* posts keep their addresses and images, logins leave rows in order.      *)
THEOREM ServicesSafe ==
    ServicesSpec =>
        /\ [](DerivedIndexIsFree /\ OpenBtcBounded /\ LedgerIsEarned /\ RowSpendsSimulation)
        /\ [](PricesAreRecent /\ NeverOvercharged /\ AverageIsNotDearer)
        /\ [](AddressesDistinct /\ AdminRowsInOrder /\ RedirectsEnd)
        /\ AllocatesInOrder /\ TokenRowsAreFrozen /\ ImagesLeaveByOwner
BY ServicesAreTheirParts, DerivedIndexIsFreeHolds, OpenBtcBoundedHolds, AllocatesInOrderHolds,
   LedgerIsEarnedHolds, RowSpendsSimulationHolds, TokenRowsAreFrozenHolds,
   PricesAreRecentHolds, NeverOverchargedHolds, AverageIsNotDearerHolds,
   AddressesDistinctHolds, ImagesLeaveByOwnerHolds, AdminRowsInOrderHolds, RedirectsEndHolds,
   PTL
=============================================================================
