---------------------------- MODULE CheckoutClient ----------------------------
(***************************************************************************)
(* The buy page of one browser tab (fe, app/(marketing)/buy): the checkout *)
(* reducer, the controller whose asynchronous runs feed it, the status     *)
(* poll, and what the tab keeps in sessionStorage, with the server and the *)
(* wallet as the environment.                                              *)
(*                                                                         *)
(* A run of the controller holds its own variables between its awaits, and *)
(* several may be in flight: the dialog can be closed and the button       *)
(* pressed again while the wallet still asks.  A transition of the reducer *)
(* and the statements around it up to the next await are one step; React   *)
(* writes the storage in an effect, later.                                 *)
(***************************************************************************)
EXTENDS Naturals, FiniteSets

CONSTANTS
    Checkouts,      \* checkouts of the tab, numbered from 1 as they are created
    Runs,           \* controller runs that may be in flight at once
    MaxFailures,    \* MAX_PAYMENT_STATUS_FAILURES
    MaxReloads      \* reloads of the tab (bound)

ASSUME ClientAssumption ==
    /\ Checkouts \subseteq Nat \ {0}
    /\ Runs \subseteq Nat
    /\ MaxFailures \in Nat \ {0}
    /\ MaxReloads \in Nat

VARIABLES
    server,     \* the status of each checkout on the server
    sent,       \* checkouts whose transaction is broadcast
    prompts,    \* checkouts the wallet is asking about
    page,       \* the state of the React component and its reducer
    runs,       \* controller runs in flight
    poll,       \* the status poll
    stored,     \* sessionStorage
    reloads,    \* reloads so far
    forgotten,  \* checkouts taken from the page by the buyer or a reload
    lost,       \* checkouts broadcast by a wallet whose answer was lost
    displaced   \* checkouts whose payment a late answer for another took from the page

history == <<reloads, forgotten, lost, displaced>>
clientVars == <<server, sent, prompts, page, runs, poll, stored, history>>

-----------------------------------------------------------------------------
(* A session is held under the token of one checkout and shows the intent  *)
(* of a checkout, which is not always the same: STATUS_UPDATED and         *)
(* TRACKING replace the intent and leave the token.  0 is null.            *)

Stages ==
    {"closed", "connecting_wallet", "wallet_ready", "preparing_wallet_action",
     "waiting_for_wallet_approval", "submitting_tx_result", "tracking", "failed"}

BusyStages ==
    {"connecting_wallet", "preparing_wallet_action",
     "waiting_for_wallet_approval", "submitting_tx_result"}

ServerStatuses == {"ABSENT", "OPEN", "CONFIRMING", "SETTLED"}

Ids == Checkouts \cup {0}

Views == [intent : Ids, status : ServerStatuses]
NoView == [intent |-> 0, status |-> "ABSENT"]

Sessions == [token : Ids, intent : Ids, status : ServerStatuses]
NoSession == [token |-> 0, intent |-> 0, status |-> "ABSENT"]

Pages == [stage : Stages, active : Views, session : Sessions, tx : Ids]
InitialPage ==
    [stage |-> "closed", active |-> NoView, session |-> NoSession, tx |-> 0]

RunRows ==
    [pc : {"idle", "switching", "connecting", "creating", "preparing", "approving",
           "submitting", "resubmitting"},
     token : Ids, intent : Ids, tx : Ids]
IdleRun == [pc |-> "idle", token |-> 0, intent |-> 0, tx |-> 0]

Polls == [intent : Ids, seen : ServerStatuses, failures : 0 .. MaxFailures]
NoPoll == [intent |-> 0, seen |-> "ABSENT", failures |-> 0]

Recoveries == [session : Sessions, tx : Ids]
NoRecovery == [session |-> NoSession, tx |-> 0]

ClientTypeOK ==
    /\ server \in [Checkouts -> ServerStatuses]
    /\ sent \subseteq Checkouts
    /\ prompts \subseteq Checkouts
    /\ page \in Pages
    /\ runs \in [Runs -> RunRows]
    /\ poll \in Polls
    /\ stored \in [active : Views, recovery : Recoveries]
    /\ reloads \in 0 .. MaxReloads
    /\ forgotten \subseteq Checkouts
    /\ lost \subseteq Checkouts
    /\ displaced \subseteq Checkouts

ClientInit ==
    /\ server = [i \in Checkouts |-> "ABSENT"]
    /\ sent = {}
    /\ prompts = {}
    /\ page = InitialPage
    /\ runs = [r \in Runs |-> IdleRun]
    /\ poll = NoPoll
    /\ stored = [active |-> NoView, recovery |-> NoRecovery]
    /\ reloads = 0
    /\ forgotten = {}
    /\ lost = {}
    /\ displaced = {}

Terminal(view) == view.status = "SETTLED"

(* Both are kept: the next press submits the transaction again.            *)
HoldsTx == page.session # NoSession /\ page.tx # 0

PollingStopped == poll.failures = MaxFailures

DialogOpen ==
    \/ page.stage \in BusyStages \ {"connecting_wallet"}
    \/ page.stage = "tracking"
    \/ page.stage = "failed" /\ page.tx # 0

MutationPending ==
    \E r \in Runs :
        runs[r].pc \in {"switching", "creating", "preparing", "submitting", "resubmitting"}

(* The button of the form, or "Try again" in the dialog.                   *)
CanPress ==
    \/ ~DialogOpen /\ page.stage \notin BusyStages /\ ~MutationPending
    \/ page.stage = "failed" /\ page.tx # 0
         /\ \A r \in Runs : runs[r].pc # "creating"

(* What the effects write once the page has rendered.                      *)
ToStore ==
    [active |-> page.active,
     recovery |-> IF HoldsTx /\ ~Terminal(page.session)
                  THEN [session |-> page.session, tx |-> page.tx]
                  ELSE NoRecovery]

-----------------------------------------------------------------------------
(* buy() and startWalletPayment().                                         *)

NewRun(r, run) ==
    /\ runs[r].pc = "idle"
    /\ \A q \in Runs : runs[q].pc = "idle" => q >= r
    /\ runs' = [runs EXCEPT ![r] = run]

PressResubmit(r) ==
    /\ CanPress /\ HoldsTx
    /\ NewRun(r, [pc |-> "resubmitting", token |-> page.session.token,
                  intent |-> page.session.intent, tx |-> page.tx])
    /\ page' = [page EXCEPT !.stage = "submitting_tx_result"]
    /\ UNCHANGED <<server, sent, prompts, poll, stored, history>>

PressResume ==
    /\ CanPress /\ ~HoldsTx
    /\ page.active # NoView /\ ~Terminal(page.active)
    /\ page' = [page EXCEPT !.stage = "tracking"]
    /\ UNCHANGED <<server, sent, prompts, runs, poll, stored, history>>

MutantMayStartAnyTime == CanPress /\ ~HoldsTx

MayStart ==
    /\ CanPress /\ ~HoldsTx
    /\ page.active = NoView \/ Terminal(page.active)

(* The wallet is not connected yet.                                        *)
PressConnect(r) ==
    /\ MayStart
    /\ NewRun(r, [IdleRun EXCEPT !.pc = "connecting"])
    /\ page' = [page EXCEPT !.stage = "connecting_wallet"]
    /\ UNCHANGED <<server, sent, prompts, poll, stored, history>>

PressStart(r) ==
    /\ MayStart
    /\ NewRun(r, [IdleRun EXCEPT !.pc = "creating"])
    /\ page' = [page EXCEPT !.stage = "preparing_wallet_action"]
    /\ UNCHANGED <<server, sent, prompts, poll, stored, history>>

(* The wallet is on the wrong network: the page asks it to switch.         *)
PressSwitchNetwork(r) ==
    /\ MayStart
    /\ NewRun(r, [IdleRun EXCEPT !.pc = "switching"])
    /\ UNCHANGED <<server, sent, prompts, page, poll, stored, history>>

(* The wallet cannot send or cannot be verified.                           *)
PressRefused ==
    /\ MayStart
    /\ page' = [page EXCEPT !.stage = "failed", !.active = NoView]
    /\ stored' = [stored EXCEPT !.active = NoView]
    /\ UNCHANGED <<server, sent, prompts, runs, poll, history>>

-----------------------------------------------------------------------------
(* The steps of a run.                                                     *)

EndRun(r) == runs' = [runs EXCEPT ![r] = IdleRun]

(* An answer for checkout i is applied whatever payment is active by now.  *)
Displace(i) ==
    displaced' = displaced \cup
        {k \in {page.active.intent} \ {0, i} : server[k] # "SETTLED" /\ k \notin forgotten}

(* The selector opens, is dismissed or times out after 15 seconds.         *)
ConnectDone(r, stage) ==
    /\ runs[r].pc = "connecting"
    /\ stage \in {"closed", "wallet_ready", "failed"}
    /\ EndRun(r)
    /\ page' = [page EXCEPT !.stage = stage]
    /\ UNCHANGED <<server, sent, prompts, poll, stored, history>>

NetworkSwitched(r, failed) ==
    /\ runs[r].pc = "switching"
    /\ EndRun(r)
    /\ page' = IF failed THEN [page EXCEPT !.stage = "failed"] ELSE page
    /\ UNCHANGED <<server, sent, prompts, poll, stored, history>>

Created(r, i) ==
    /\ runs[r].pc = "creating"
    /\ server[i] = "ABSENT"
    /\ \A j \in Checkouts : j < i => server[j] # "ABSENT"
    /\ server' = [server EXCEPT ![i] = "OPEN"]
    /\ runs' = [runs EXCEPT ![r] = [pc |-> "preparing", token |-> i,
                                    intent |-> i, tx |-> 0]]
    /\ page' = [stage |-> "preparing_wallet_action",
                active |-> [intent |-> i, status |-> "OPEN"],
                session |-> [token |-> i, intent |-> i, status |-> "OPEN"],
                tx |-> 0]
    /\ UNCHANGED <<sent, prompts, poll, stored, history>>

Prepared(r) ==
    /\ runs[r].pc = "preparing"
    /\ server[runs[r].intent] # "SETTLED"
    /\ prompts' = prompts \cup {runs[r].intent}
    /\ runs' = [runs EXCEPT ![r].pc = "approving"]
    /\ page' = [page EXCEPT !.stage = "waiting_for_wallet_approval"]
    /\ UNCHANGED <<server, sent, poll, stored, history>>

Approved(r) ==
    LET i == runs[r].intent IN
    /\ runs[r].pc = "approving"
    /\ prompts' = prompts \ {i}
    /\ sent' = sent \cup {i}
    /\ runs' = [runs EXCEPT ![r].pc = "submitting", ![r].tx = i]
    /\ page' = [page EXCEPT !.stage = "submitting_tx_result", !.tx = i]
    /\ UNCHANGED <<server, poll, stored, history>>

MutantFailBeforeKeepsStage(r) ==
    /\ EndRun(r)
    /\ Displace(runs[r].intent)
    /\ page' = [page EXCEPT !.active = NoView]
    /\ stored' = [stored EXCEPT !.active = NoView]

MutantFailBeforeResets(r) ==
    /\ EndRun(r)
    /\ Displace(runs[r].intent)
    /\ page' = [InitialPage EXCEPT !.stage = "failed"]
    /\ stored' = [stored EXCEPT !.active = NoView]

(* The catch of startWalletPayment before a transaction is known: the      *)
(* active payment goes, be it this run's or not.                           *)
FailBefore(r) ==
    /\ EndRun(r)
    /\ Displace(runs[r].intent)
    /\ page' = [page EXCEPT !.stage = "failed", !.active = NoView]
    /\ stored' = [stored EXCEPT !.active = NoView]

RequestFails(r) ==
    /\ runs[r].pc \in {"creating", "preparing"}
    /\ FailBefore(r)
    /\ UNCHANGED <<server, sent, prompts, poll, reloads, forgotten, lost>>

Rejected(r) ==
    /\ runs[r].pc = "approving"
    /\ prompts' = prompts \ {runs[r].intent}
    /\ FailBefore(r)
    /\ UNCHANGED <<server, sent, poll, reloads, forgotten, lost>>

(* The transaction goes out and the answer of the wallet, or of the server *)
(* that broadcasts for it, does not arrive: a wallet_approval error.       *)
AnswerLost(r) ==
    LET i == runs[r].intent IN
    /\ runs[r].pc = "approving"
    /\ prompts' = prompts \ {i}
    /\ sent' = sent \cup {i}
    /\ lost' = lost \cup {i}
    /\ FailBefore(r)
    /\ UNCHANGED <<server, poll, reloads, forgotten>>

(* The server accepts a transaction under the token of its own checkout.   *)
MayAccept(run) ==
    /\ run.token = run.intent /\ run.tx = run.intent
    /\ server[run.intent] \in {"OPEN", "CONFIRMING"}

Accept(run) == server' = [server EXCEPT ![run.intent] = "CONFIRMING"]

Submitted(r) ==
    LET run == runs[r] IN
    /\ run.pc \in {"submitting", "resubmitting"}
    /\ MayAccept(run)
    /\ Accept(run)
    /\ EndRun(r)
    /\ page' = [page EXCEPT
           !.stage = "tracking",
           !.active = [intent |-> run.intent, status |-> "CONFIRMING"],
           !.session.intent = run.intent, !.session.status = "CONFIRMING"]
    /\ Displace(run.intent)
    /\ UNCHANGED <<sent, prompts, poll, stored, reloads, forgotten, lost>>

(* Refused, or accepted and the answer lost.  The first submission fails   *)
(* with a submit_tx_result error and the payment stays active; a repeated  *)
(* one fails with a bare error and does not.                               *)
SubmitFails(r) ==
    LET run == runs[r] IN
    /\ run.pc \in {"submitting", "resubmitting"}
    /\ \/ UNCHANGED server
       \/ MayAccept(run) /\ Accept(run)
    /\ IF run.pc = "submitting"
       THEN /\ EndRun(r)
            /\ page' = [page EXCEPT !.stage = "failed"]
            /\ UNCHANGED <<stored, displaced>>
       ELSE FailBefore(r)
    /\ UNCHANGED <<sent, prompts, poll, reloads, forgotten, lost>>

-----------------------------------------------------------------------------
(* The status poll.                                                        *)

MutantPollUntilRecorded ==
    page.active.status = "OPEN" /\ ~PollingStopped

MutantPollForever == page.active # NoView /\ ~Terminal(page.active)

PollNeeded == page.active # NoView /\ ~Terminal(page.active) /\ ~PollingStopped

PollStart ==
    /\ PollNeeded /\ poll.intent = 0
    /\ poll' = [poll EXCEPT !.intent = page.active.intent,
                            !.seen = server[page.active.intent]]
    /\ UNCHANGED <<server, sent, prompts, page, runs, stored, history>>

(* The answer, read at any time since, is applied to whatever payment and  *)
(* session the page has now.                                               *)
PollAnswered ==
    /\ poll.intent # 0
    /\ \E seen \in {poll.seen, server[poll.intent]} :
         page' = [page EXCEPT
             !.active = [intent |-> poll.intent, status |-> seen],
             !.session = IF @ = NoSession THEN NoSession
                         ELSE [token |-> @.token, intent |-> poll.intent,
                               status |-> seen]]
    /\ poll' = NoPoll
    /\ Displace(poll.intent)
    /\ UNCHANGED <<server, sent, prompts, runs, stored, reloads, forgotten, lost>>

PollFails ==
    /\ poll.intent # 0
    /\ poll' = [NoPoll EXCEPT !.failures = poll.failures + 1]
    /\ UNCHANGED <<server, sent, prompts, page, runs, stored, history>>

-----------------------------------------------------------------------------
(* The other controls, the effects and the browser.                        *)

(* The dialog is closed or another asset chosen.                           *)
Close ==
    /\ page.stage # "closed"
    /\ page' = [page EXCEPT !.stage = "closed"]
    /\ UNCHANGED <<server, sent, prompts, runs, poll, stored, history>>

Existing == {i \in Checkouts : server[i] # "ABSENT"}

StartNewPayment ==
    /\ page.stage = "tracking"
    /\ page' = InitialPage
    /\ poll' = [poll EXCEPT !.failures = 0]
    /\ stored' = [active |-> NoView, recovery |-> NoRecovery]
    /\ forgotten' = Existing
    /\ UNCHANGED <<server, sent, prompts, runs, reloads, lost, displaced>>

WriteStorage ==
    /\ stored # ToStore
    /\ stored' = ToStore
    /\ UNCHANGED <<server, sent, prompts, page, runs, poll, history>>

(* The effects of the first render read the storage and, still with empty  *)
(* state, erase it; the render that follows writes it back.  A recovery    *)
(* without a token is not restored.  The wallet keeps asking.              *)
Reload ==
    /\ reloads < MaxReloads
    /\ reloads' = reloads + 1
    /\ page' = [stage |-> "closed", active |-> stored.active,
                session |-> IF stored.recovery.session.token = 0 THEN NoSession
                            ELSE stored.recovery.session,
                tx |-> IF stored.recovery.session.token = 0 THEN 0
                       ELSE stored.recovery.tx]
    /\ runs' = [r \in Runs |-> IdleRun]
    /\ poll' = NoPoll
    /\ stored' = [active |-> NoView, recovery |-> NoRecovery]
    /\ forgotten' = forgotten \cup (Existing \ {page'.active.intent, page'.tx})
    /\ UNCHANGED <<server, sent, prompts, lost, displaced>>

(* A prompt nobody waits for any more.                                     *)
Orphans == {i \in prompts : \A r \in Runs : ~(runs[r].pc = "approving" /\ runs[r].intent = i)}

OrphanAnswered(i, approved) ==
    /\ i \in Orphans
    /\ prompts' = prompts \ {i}
    /\ sent' = IF approved THEN sent \cup {i} ELSE sent
    /\ UNCHANGED <<server, page, runs, poll, stored, history>>

(* The scanner confirms or expires a checkout.                             *)
Settle(i) ==
    /\ server[i] \in {"OPEN", "CONFIRMING"}
    /\ server' = [server EXCEPT ![i] = "SETTLED"]
    /\ UNCHANGED <<sent, prompts, page, runs, poll, stored, history>>

Press ==
    \/ \E r \in Runs : PressResubmit(r) \/ PressSwitchNetwork(r) \/ PressConnect(r) \/ PressStart(r)
    \/ PressResume
    \/ PressRefused

RunStep(r) ==
    \/ \E stage \in Stages : ConnectDone(r, stage)
    \/ \E failed \in BOOLEAN : NetworkSwitched(r, failed)
    \/ \E i \in Checkouts : Created(r, i)
    \/ Prepared(r)
    \/ RequestFails(r)
    \/ Submitted(r)
    \/ SubmitFails(r)

WalletStep(r) == Approved(r) \/ Rejected(r) \/ AnswerLost(r)

ClientNext ==
    \/ Press
    \/ \E r \in Runs : RunStep(r) \/ WalletStep(r)
    \/ PollStart
    \/ PollAnswered
    \/ PollFails
    \/ Close
    \/ StartNewPayment
    \/ WriteStorage
    \/ Reload
    \/ \E i \in Checkouts, approved \in BOOLEAN : OrphanAnswered(i, approved)
    \/ \E i \in Checkouts : Settle(i)

(* The interval fires and requests are answered, well or badly; the wallet *)
(* and the buyer may take forever; the server settles every checkout.      *)
ClientFairness ==
    /\ WF_clientVars(PollStart)
    /\ WF_clientVars(PollAnswered \/ PollFails)
    /\ \A r \in Runs : WF_clientVars(RunStep(r))
    /\ \A i \in Checkouts : WF_clientVars(Settle(i))

ClientSpec == ClientInit /\ [][ClientNext]_clientVars /\ ClientFairness

-----------------------------------------------------------------------------
(* Properties.                                                             *)

Unsettled == {i \in sent : server[i] # "SETTLED"}

(* Whatever is closed, pressed again, reloaded or answered late, the page  *)
(* leads the buyer to pay one checkout at a time: of the transactions that *)
(* are broadcast and not settled, at most one is of a checkout the buyer   *)
(* did not leave, whose wallet answered, and which no late answer for      *)
(* another checkout took from the page.                                    *)
OnePaymentAtATime == Cardinality(Unsettled \ (forgotten \cup lost \cup displaced)) <= 1

(* A spinner is backed by a request or a wallet that has still to answer:  *)
(* a run that was overtaken never leaves the page busy for nothing.        *)
Backing(stage) ==
    CASE stage = "connecting_wallet" -> {"connecting"}
      [] stage = "preparing_wallet_action" -> {"creating", "preparing"}
      [] stage = "waiting_for_wallet_approval" -> {"approving"}
      [] stage = "submitting_tx_result" -> {"submitting", "resubmitting"}

SpinnerIsBacked ==
    page.stage \in BusyStages =>
        \E r \in Runs : runs[r].pc \in Backing(page.stage)

(* The page lets go of a transaction the server has not settled only when  *)
(* the buyer starts anew or reloads before it is written, or approves the  *)
(* prompt of a checkout that was left or has expired; or when a late       *)
(* answer for another checkout had displaced one of the two.               *)
TransactionIsKept ==
    [][\A i \in Checkouts :
         page.tx = i /\ page'.tx # i =>
             \/ server[i] = "SETTLED"
             \/ i \in forgotten' \cup displaced
             \/ page'.tx \in forgotten \cup displaced \cup {j \in Checkouts : server[j] = "SETTLED"}
             \/ reloads' # reloads /\ stored.recovery.tx # i]_clientVars

(* While the page shows a payment, it comes to show that it is settled,    *)
(* unless the polling has given up.                                        *)
SettlementShown ==
    \A i \in Checkouts :
        (page.active.intent = i /\ server[i] = "SETTLED") ~>
            \/ page.active = [intent |-> i, status |-> "SETTLED"]
            \/ page.active.intent # i
            \/ PollingStopped

(* What the design asks: the wallet is never asked for a second payment    *)
(* while a transaction the buyer did not leave is broadcast and unsettled. *)
NeverAsksTwice ==
    [][prompts' \ prompts # {} => Unsettled \subseteq forgotten]_clientVars
=============================================================================
