----------------------------- MODULE MCBuyerViews -----------------------------
(***************************************************************************)
(* Small instances, for TLC, of what a buyer is shown: the reports of the  *)
(* backend and the status on the buy page.  The two share no state: a      *)
(* behaviour is one of a single part, chosen at the start.                 *)
(***************************************************************************)
EXTENDS PaymentReports, CheckoutClient

VARIABLE part       \* the part that runs

viewsVars == <<part, reportVars, clientVars>>

ViewsInit == part \in {"reports", "page"} /\ ReportsInit /\ ClientInit

ViewsNext ==
    \/ part = "reports" /\ ReportsNext /\ UNCHANGED <<part, clientVars>>
    \/ part = "page" /\ ClientNext /\ UNCHANGED <<part, reportVars>>

(* ClientFairness asks nothing of the reports: on a page that is never     *)
(* used no poll is due, no run is in flight, no checkout is open.          *)
ViewsSpec == ViewsInit /\ [][ViewsNext]_viewsVars /\ ClientFairness
=============================================================================
