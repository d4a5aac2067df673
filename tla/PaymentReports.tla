---------------------------- MODULE PaymentReports ----------------------------
(***************************************************************************)
(* What the payments backend tells of its books: the status of a checkout, *)
(* the portfolio of a wallet, the administrator's list and statistics.     *)
(* Each is put together of two queries, checkouts first, their payments    *)
(* after, with no transaction around them, while Payments goes on.         *)
(* Amounts and prices are left out.                                        *)
(***************************************************************************)
EXTENDS Payments

VARIABLE report     \* a report in the making, or the one shown last

reportVars == <<vars, report>>

(* A status of every checkout reported, ABSENT where it is not.            *)
Statuses == IntentStatuses \cup {"ABSENT"}
Nothing == [i \in Intents |-> "ABSENT"]

ReportRows ==
    [stage : {"none", "intents", "shown"}, intents : [Intents -> Statuses],
     payments : [Intents -> Statuses]]

NoReport == [stage |-> "none", intents |-> Nothing, payments |-> Nothing]

ReportsInit == Init /\ report = NoReport

Listed(S) == [i \in Intents |-> IF i \in S THEN intents[i].status ELSE "ABSENT"]

(* Faulty: only confirmed payments are looked for, as for the leaders.     *)
MutantPaid(S) ==
    [i \in Intents |->
        IF i \in S /\ payments[i].status = "CONFIRMED" THEN "CONFIRMED" ELSE "ABSENT"]

Paid(S) == [i \in Intents |-> IF i \in S THEN payments[i].status ELSE "ABSENT"]

Known == {i \in Intents : intents[i].status # "ABSENT"}

(* The first query of a report on the checkouts S.                         *)
FindIntents(S) ==
    report' = [stage |-> "intents", intents |-> Listed(S), payments |-> Nothing]

GetIntentStatus(i) == i \in Known /\ FindIntents({i})
GetPublicPortfolio(w) == FindIntents({i \in Known : intents[i].sender = w})
ListAdminPayments(status) == FindIntents({i \in Known : intents[i].status = status})
GetAdminStats == FindIntents(Known)

ReportBegins ==
    /\ report.stage # "intents"
    /\ \/ \E i \in Intents : GetIntentStatus(i)
       \/ \E w \in Senders : GetPublicPortfolio(w)
       \/ \E status \in IntentStatuses : ListAdminPayments(status)
       \/ GetAdminStats
    /\ UNCHANGED vars

(* The second query, on the payments of the checkouts the first one found. *)
FindPayments ==
    /\ report.stage = "intents"
    /\ report' = [report EXCEPT !.stage = "shown",
           !.payments = Paid({i \in Intents : report.intents[i] # "ABSENT"})]
    /\ UNCHANGED vars

ReportsNext == (Next /\ UNCHANGED report) \/ ReportBegins \/ FindPayments

ReportsSpec == ReportsInit /\ [][ReportsNext]_reportVars

-----------------------------------------------------------------------------
(* A report never counts what it cannot show: whatever the scanner, the    *)
(* webhook and the payer do between its two queries, a checkout it tells   *)
(* of as detected, confirmed, failed or under review comes with a payment. *)
(* Their statuses may differ: a late save of the scanner in between takes  *)
(* a confirmed payment back (TerminalIsFinal of PaymentsPromises).         *)
CountedIsShown ==
    report.stage = "shown" =>
        \A i \in Intents :
            report.intents[i] \notin {"ABSENT", "WAITING", "EXPIRED"} =>
                report.payments[i] # "ABSENT"
=============================================================================
