------------------------------ MODULE MCServices ------------------------------
(***************************************************************************)
(* Small instances, for TLC, of the parts of the backend and of the        *)
(* administration that share no state with one another.  A behaviour is    *)
(* one of a single part, chosen at the start, while the others stay in     *)
(* their initial states.                                                   *)
(***************************************************************************)
EXTENDS BtcAllocation, LedgerTracking, QuoteCache, PurchaseAmounts, Migrations, Blogs,
        AdminAccess

VARIABLE service       \* the part that runs

moneyVars == <<btcVars, ledgerVars, quoteVars, purchases>>
adminVars == <<migrationVars, blogVars, accessVars>>
servicesVars == <<service, moneyVars, adminVars>>

Parts ==
    {"bitcoin", "ledger", "quotes", "amounts", "migrations", "blogs", "access"}

ServicesInit ==
    /\ service \in Parts
    /\ BtcInit
    /\ LedgerInit
    /\ QuoteInit
    /\ PurchasesInit
    /\ MigrationsInit
    /\ BlogsInit
    /\ AccessInit

(* One disjunct for each part.                                             *)
ServicesNext ==
    \/ /\ service = "bitcoin" /\ BtcNext
       /\ UNCHANGED <<service, ledgerVars, quoteVars, purchases, adminVars>>
    \/ /\ service = "ledger" /\ LedgerNext
       /\ UNCHANGED <<service, btcVars, quoteVars, purchases, adminVars>>
    \/ /\ service = "quotes" /\ QuoteNext
       /\ UNCHANGED <<service, btcVars, ledgerVars, purchases, adminVars>>
    \/ /\ service = "amounts" /\ PurchasesNext
       /\ UNCHANGED <<service, btcVars, ledgerVars, quoteVars, adminVars>>
    \/ /\ service = "migrations" /\ MigrationsNext
       /\ UNCHANGED <<service, blogVars, accessVars, moneyVars>>
    \/ /\ service = "blogs" /\ BlogsNext
       /\ UNCHANGED <<service, migrationVars, accessVars, moneyVars>>
    \/ /\ service = "access" /\ AccessNext
       /\ UNCHANGED <<service, migrationVars, blogVars, moneyVars>>

ServicesSpec == ServicesInit /\ [][ServicesNext]_servicesVars

(* What tells two states apart: the variables of the part that runs, since *)
(* those of the others keep their initial values.                          *)
RunningService ==
    CASE service = "bitcoin" -> <<service, btcVars>>
      [] service = "ledger" -> <<service, ledgerVars>>
      [] service = "quotes" -> <<service, quoteVars>>
      [] service = "amounts" -> <<service, purchases>>
      [] service = "migrations" -> <<service, migrationVars>>
      [] service = "blogs" -> <<service, blogVars>>
      [] service = "access" -> <<service, accessVars>>

(* Every table, cache, cookie and store of the running part holds rows of  *)
(* the types the code declares, at every point between two awaits.         *)
ServicesTypeOK ==
    CASE service = "bitcoin" -> BtcTypeOK
      [] service = "ledger" -> LedgerTypeOK
      [] service = "quotes" -> QuoteTypeOK
      [] service = "amounts" -> PurchasesTypeOK
      [] service = "blogs" -> BlogsTypeOK
      [] service = "access" -> AccessTypeOK
      [] OTHER -> TRUE

-----------------------------------------------------------------------------
(* Amounts for PurchaseAmounts: long fractions, exponents as JavaScript    *)
(* writes small and large numbers, a token amount of zero.                 *)
Text(w, f, e) == [neg |-> FALSE, whole |-> w, frac |-> f, exp |-> e]

MCTokens ==
    {Text(<<0>>, <<0, 1>>, 0), Text(<<0>>, <<5>>, 0), Text(<<3>>, <<>>, 0),
     Text(<<1>>, <<0, 5>>, 0), Text(<<1, 0>>, <<9, 9>>, 0), Text(<<0>>, <<>>, 0)}

MCTiers == {Text(<<0>>, <<0, 7>>, 0), Text(<<1>>, <<3>>, 0)}

MCSpots ==
    {Text(<<1>>, <<>>, -1), Text(<<7>>, <<>>, 0), Text(<<3>>, <<2, 5>>, 1),
     Text(<<>>, <<0, 0, 4>>, 0)}
=============================================================================
