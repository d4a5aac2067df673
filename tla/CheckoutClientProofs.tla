-------------------------- MODULE CheckoutClientProofs --------------------------
(***************************************************************************)
(* Proofs about CheckoutClient, for any number of checkouts, controller    *)
(* runs, poll failures and reloads.                                        *)
(***************************************************************************)
EXTENDS CheckoutClient, FiniteSetTheorems, TLAPS

-----------------------------------------------------------------------------
(* The inductive invariant.                                                *)

Excused == forgotten \cup lost \cup displaced

(* The stages of a run between its checkout and its submission.            *)
AtWork == {"preparing", "approving", "submitting"}

(* The buyer may have paid for checkout i, or be led to, and it counts.    *)
InPlay(i) ==
    /\ server[i] # "SETTLED" /\ i \notin Excused
    /\ \/ i \in prompts \cup sent
       \/ \E r \in Runs : runs[r].pc \in AtWork /\ runs[r].intent = i

(* Whatever is asked, sent, shown, polled or stored exists on the server.  *)
CheckoutsExist ==
    /\ prompts \subseteq Existing /\ sent \subseteq Existing
    /\ {page.active.intent, page.session.intent, poll.intent, stored.active.intent,
        stored.recovery.session.intent} \subseteq Existing \cup {0}
    /\ {page.tx, stored.recovery.tx} \subseteq sent \cup {0}
    /\ \A r \in Runs :
           /\ runs[r].pc \in AtWork => runs[r].intent \in Existing
           /\ runs[r].pc = "resubmitting" =>
                  runs[r].intent \in Existing \cup {0} /\ runs[r].tx # 0

(* A view is of a checkout, and what it shows as settled is.               *)
TrueView(view) ==
    /\ view.intent = 0 => view = NoView
    /\ view.status = "SETTLED" => server[view.intent] = "SETTLED"

ViewsAreTrue ==
    /\ TrueView(page.active)
    /\ TrueView(stored.active)
    /\ poll.intent # 0 /\ poll.seen = "SETTLED" => server[poll.intent] = "SETTLED"

PollIsDue == poll.intent # 0 => poll.failures < MaxFailures

(* One run at most works on a checkout, and on one not sent before.        *)
OneRunEach ==
    /\ \A r, q \in Runs :
           runs[r].pc \in AtWork /\ runs[q].pc \in AtWork /\ runs[r].intent = runs[q].intent
           => r = q
    /\ \A r \in Runs :
           /\ runs[r].pc = "preparing" => runs[r].intent \notin prompts \cup sent
           /\ runs[r].pc = "approving" => runs[r].intent \notin sent
           /\ runs[r].pc = "submitting" => runs[r].intent \notin lost

(* A transaction whose answer was lost is known to nobody.                 *)
LostIsUnknown ==
    /\ lost \subseteq sent
    /\ page.tx \notin lost /\ stored.recovery.tx \notin lost

(* A session loses its token only with the payments of the page.           *)
TokensAreKept ==
    /\ page.session.token = 0 =>
           /\ page.tx \in forgotten \cup {0}
           /\ \A r \in Runs :
                  runs[r].pc \in {"preparing", "approving"} => runs[r].intent \in forgotten
    /\ stored.recovery.session.token = 0 => stored.recovery.tx \in forgotten \cup {0}

(* One checkout is in play, the page shows it or holds a transaction, and  *)
(* none is when another is being created.                                  *)
OneInPlay ==
    /\ \A i, j \in Checkouts : InPlay(i) /\ InPlay(j) => i = j
    /\ \A i \in Checkouts : InPlay(i) => page.active.intent = i \/ HoldsTx
    /\ \A r \in Runs :
           /\ runs[r].pc = "resubmitting" /\ runs[r].intent # 0 /\ InPlay(runs[r].intent)
              => HoldsTx
           /\ runs[r].pc = "creating" =>
                  /\ \A i \in Checkouts : ~InPlay(i)
                  /\ \A q \in Runs : runs[q].pc = "creating" => q = r

ClientInv ==
    /\ ClientTypeOK
    /\ CheckoutsExist
    /\ ViewsAreTrue
    /\ PollIsDue
    /\ OneRunEach
    /\ LostIsUnknown
    /\ TokensAreKept
    /\ OneInPlay
    /\ SpinnerIsBacked

LEMMA ClientInitHolds == ClientInit => ClientInv
<1> SUFFICES ASSUME ClientInit PROVE ClientInv
    OBVIOUS
<1> USE ClientAssumption
<1>1. ClientTypeOK
    BY DEF ClientInit, ClientTypeOK, Pages, InitialPage, Stages, Views, NoView, Sessions, NoSession,
           RunRows, IdleRun, Polls, NoPoll, Recoveries, NoRecovery, Ids, ServerStatuses
<1>2. CheckoutsExist
    BY DEF ClientInit, CheckoutsExist, InitialPage, NoView, NoSession, NoPoll, NoRecovery, IdleRun,
           AtWork, Existing
<1>3. ViewsAreTrue /\ PollIsDue
    BY DEF ClientInit, ViewsAreTrue, PollIsDue, TrueView, InitialPage, NoView, NoPoll
<1>4. OneRunEach /\ LostIsUnknown /\ TokensAreKept
    BY DEF ClientInit, OneRunEach, LostIsUnknown, TokensAreKept, InitialPage, NoSession, NoRecovery,
           IdleRun, AtWork
<1>5. OneInPlay
    BY DEF ClientInit, OneInPlay, InPlay, IdleRun, AtWork
<1>6. SpinnerIsBacked
    BY DEF ClientInit, SpinnerIsBacked, InitialPage, BusyStages
<1>7. QED
    BY <1>1, <1>2, <1>3, <1>4, <1>5, <1>6 DEF ClientInv

(* Two rows with two fields replaced.                                      *)
LEMMA FailedPage ==
    ASSUME NEW p \in Pages
    PROVE  [p EXCEPT !.stage = "failed", !.active = NoView] \in Pages
<1>1. NoView \in Views
    BY DEF NoView, Views, Ids, ServerStatuses
<1>2. ASSUME NEW view \in Views PROVE [p EXCEPT !.stage = "failed", !.active = view] \in Pages
    BY DEF Pages, Stages
<1>3. QED
    BY <1>1, <1>2

LEMMA SubmittingRun ==
    ASSUME NEW run \in RunRows, NEW i \in Ids
    PROVE  [run EXCEPT !.pc = "submitting", !.tx = i] \in RunRows
BY DEF RunRows

LEMMA ClientTypesKept == ClientInv /\ [ClientNext]_clientVars => ClientTypeOK'
<1> SUFFICES ASSUME ClientInv, [ClientNext]_clientVars PROVE ClientTypeOK'
    OBVIOUS
<1> USE ClientAssumption
        DEF ClientInv, ClientTypeOK, Pages, Views, Sessions, Recoveries, Polls, Ids, history
<1>1. CASE Press
    <2>1. ASSUME NEW r \in Runs, PressResubmit(r) PROVE ClientTypeOK'
        BY <2>1 DEF PressResubmit, NewRun, RunRows, Stages
    <2>2. ASSUME NEW r \in Runs, PressSwitchNetwork(r) \/ PressConnect(r) \/ PressStart(r)
          PROVE  ClientTypeOK'
        <3>1. \A pc \in {"switching", "connecting", "creating"} :
                  [IdleRun EXCEPT !.pc = pc] \in RunRows
            BY DEF IdleRun, RunRows
        <3>2. runs' \in [Runs -> RunRows]
            BY <2>2, <3>1 DEF PressSwitchNetwork, PressConnect, PressStart, NewRun
        <3>3. page' \in Pages
            BY <2>2 DEF PressSwitchNetwork, PressConnect, PressStart, Stages
        <3>4. QED
            BY <2>2, <3>2, <3>3 DEF PressSwitchNetwork, PressConnect, PressStart
    <2>3. CASE PressResume
        BY <2>3 DEF PressResume, Stages
    <2>4. CASE PressRefused
        <3>1. page' \in Pages
            BY <2>4, FailedPage DEF PressRefused
        <3>2. stored' \in [active : Views, recovery : Recoveries]
            BY <2>4 DEF PressRefused, NoView, ServerStatuses
        <3>3. QED
            BY <2>4, <3>1, <3>2 DEF PressRefused
    <2>5. QED
        BY <1>1, <2>1, <2>2, <2>3, <2>4 DEF Press
<1>2. ASSUME NEW r \in Runs, RunStep(r) PROVE ClientTypeOK'
    <2>1. ASSUME NEW stage \in Stages, ConnectDone(r, stage) PROVE ClientTypeOK'
        BY <2>1 DEF ConnectDone, EndRun, IdleRun, RunRows
    <2>2. ASSUME NEW failed \in BOOLEAN, NetworkSwitched(r, failed) PROVE ClientTypeOK'
        BY <2>2 DEF NetworkSwitched, EndRun, IdleRun, RunRows, Stages
    <2>3. ASSUME NEW i \in Checkouts, Created(r, i) PROVE ClientTypeOK'
        BY <2>3 DEF Created, RunRows, Stages, ServerStatuses
    <2>4. CASE Prepared(r)
        BY <2>4 DEF Prepared, RunRows, Stages, CheckoutsExist, AtWork, Existing
    <2>5. CASE RequestFails(r)
        BY <2>5 DEF RequestFails, FailBefore, Displace, EndRun, IdleRun, RunRows, Stages, NoView,
                    ServerStatuses
    <2>6. CASE Submitted(r)
        <3>1. page' \in Pages
            <4>1. page.session \in Sessions /\ runs[r].intent \in Ids
                BY DEF RunRows
            <4>2. [page.session EXCEPT !.intent = runs[r].intent, !.status = "CONFIRMING"]
                  \in Sessions
                BY <4>1 DEF ServerStatuses
            <4>3. page' = [page EXCEPT
                      !.stage = "tracking",
                      !.active = [intent |-> runs[r].intent, status |-> "CONFIRMING"],
                      !.session = [page.session EXCEPT !.intent = runs[r].intent,
                                                       !.status = "CONFIRMING"]]
                BY <2>6 DEF Submitted
            <4>4. QED
                BY <4>1, <4>2, <4>3 DEF Stages, ServerStatuses
        <3>2. server' \in [Checkouts -> ServerStatuses]
            BY <2>6 DEF Submitted, Accept, ServerStatuses
        <3>3. runs' \in [Runs -> RunRows] /\ displaced' \subseteq Checkouts
            BY <2>6 DEF Submitted, EndRun, Displace, IdleRun, RunRows
        <3>4. QED
            BY <2>6, <3>1, <3>2, <3>3 DEF Submitted
    <2>7. CASE SubmitFails(r)
        <3>1. page' \in Pages
            <4>1. page' \in {[page EXCEPT !.stage = "failed"],
                             [page EXCEPT !.stage = "failed", !.active = NoView]}
                BY <2>7 DEF SubmitFails, FailBefore
            <4>2. QED
                BY <4>1, FailedPage DEF Stages
        <3>2. server' \in [Checkouts -> ServerStatuses]
            BY <2>7 DEF SubmitFails, Accept, ServerStatuses
        <3>3. runs' \in [Runs -> RunRows] /\ displaced' \subseteq Checkouts
            BY <2>7 DEF SubmitFails, FailBefore, EndRun, Displace, IdleRun, RunRows
        <3>4. stored' \in [active : Views, recovery : Recoveries]
            BY <2>7 DEF SubmitFails, FailBefore, NoView, ServerStatuses
        <3>5. QED
            BY <2>7, <3>1, <3>2, <3>3, <3>4 DEF SubmitFails
    <2>8. QED
        BY <1>2, <2>1, <2>2, <2>3, <2>4, <2>5, <2>6, <2>7 DEF RunStep
<1>3. ASSUME NEW r \in Runs, WalletStep(r) PROVE ClientTypeOK'
    <2>1. runs[r].pc = "approving" /\ runs[r].intent \in Checkouts
        BY <1>3 DEF WalletStep, Approved, Rejected, AnswerLost, CheckoutsExist, AtWork, Existing
    <2>2. CASE Approved(r)
        <3>1. runs' = [runs EXCEPT ![r] = [runs[r] EXCEPT !.pc = "submitting", !.tx = runs[r].intent]]
            BY <2>2 DEF Approved
        <3>2. [runs[r] EXCEPT !.pc = "submitting", !.tx = runs[r].intent] \in RunRows
            BY <2>1, SubmittingRun
        <3>3. page' \in Pages
            BY <2>1, <2>2 DEF Approved, Stages
        <3>4. QED
            BY <2>1, <2>2, <3>1, <3>2, <3>3 DEF Approved
    <2>3. CASE Rejected(r)
        BY <2>1, <2>3 DEF Rejected, FailBefore, Displace, EndRun, IdleRun, RunRows, Stages, NoView,
                          ServerStatuses
    <2>4. CASE AnswerLost(r)
        BY <2>1, <2>4 DEF AnswerLost, FailBefore, Displace, EndRun, IdleRun, RunRows, Stages, NoView,
                          ServerStatuses
    <2>5. QED
        BY <1>3, <2>2, <2>3, <2>4 DEF WalletStep
<1>4. CASE PollStart
    BY <1>4 DEF PollStart, PollNeeded, ViewsAreTrue, TrueView
<1>5. CASE PollAnswered
    <2>1. PICK seen \in {poll.seen, server[poll.intent]} :
              page' = [page EXCEPT
                  !.active = [intent |-> poll.intent, status |-> seen],
                  !.session = IF @ = NoSession THEN NoSession
                              ELSE [token |-> @.token, intent |-> poll.intent, status |-> seen]]
        BY <1>5 DEF PollAnswered
    <2>2. seen \in ServerStatuses
        BY <1>5 DEF PollAnswered
    <2>3. page' \in Pages
        BY <2>1, <2>2 DEF NoSession, ServerStatuses
    <2>4. QED
        BY <1>5, <2>3 DEF PollAnswered, Displace, NoPoll, ServerStatuses
<1>6. CASE PollFails
    BY <1>6 DEF PollFails, PollIsDue, NoPoll, ServerStatuses
<1>7. CASE Close \/ StartNewPayment \/ WriteStorage \/ Reload
    BY <1>7 DEF Close, StartNewPayment, WriteStorage, Reload, InitialPage, ToStore, Existing, IdleRun,
                RunRows, NoPoll, NoView, NoSession, NoRecovery, Stages, ServerStatuses
<1>8. ASSUME NEW i \in Checkouts, NEW approved \in BOOLEAN, OrphanAnswered(i, approved)
      PROVE  ClientTypeOK'
    BY <1>8 DEF OrphanAnswered
<1>9. ASSUME NEW i \in Checkouts, Settle(i) PROVE ClientTypeOK'
    BY <1>9 DEF Settle, ServerStatuses
<1>10. CASE UNCHANGED clientVars
    BY <1>10 DEF clientVars
<1>11. QED
    BY <1>1, <1>2, <1>3, <1>4, <1>5, <1>6, <1>7, <1>8, <1>9, <1>10 DEF ClientNext

(* The steps at which a run starts, goes on or ends, and those at which    *)
(* the runs stay as they are.                                              *)
StartStep(r) == PressResubmit(r) \/ PressSwitchNetwork(r) \/ PressConnect(r) \/ PressStart(r)

QuietStep ==
    \/ PressResume \/ PressRefused \/ PollStart \/ PollAnswered \/ PollFails \/ Close
    \/ StartNewPayment \/ WriteStorage
    \/ \E i \in Checkouts, approved \in BOOLEAN : OrphanAnswered(i, approved)
    \/ \E i \in Checkouts : Settle(i)
    \/ UNCHANGED clientVars

LEMMA StepKinds ==
    ASSUME [ClientNext]_clientVars
    PROVE  \/ \E r \in Runs : StartStep(r) \/ RunStep(r) \/ WalletStep(r)
           \/ QuietStep
           \/ Reload
BY DEF ClientNext, Press, StartStep, QuietStep

LEMMA QuietRuns == ASSUME QuietStep PROVE UNCHANGED runs
BY DEF QuietStep, PressResume, PressRefused, PollStart, PollAnswered, PollFails, Close,
       StartNewPayment, WriteStorage, OrphanAnswered, Settle, clientVars

LEMMA OtherRuns ==
    ASSUME ClientTypeOK, NEW r \in Runs, StartStep(r) \/ RunStep(r) \/ WalletStep(r)
    PROVE  \A q \in Runs \ {r} : runs'[q] = runs[q]
BY DEF ClientTypeOK, StartStep, RunStep, WalletStep, PressResubmit, PressSwitchNetwork,
       PressConnect, PressStart, NewRun, ConnectDone, NetworkSwitched, Created, Prepared,
       RequestFails, Submitted, SubmitFails, Approved, Rejected, AnswerLost, FailBefore, EndRun

(* The stages a run goes through.                                          *)
LEMMA RunGoesOn ==
    ASSUME ClientTypeOK, NEW r \in Runs
    PROVE  /\ StartStep(r) => /\ runs[r].pc = "idle"
                              /\ runs'[r].pc \in {"switching", "connecting", "creating", "resubmitting"}
           /\ RunStep(r) => \/ runs'[r] = IdleRun
                            \/ runs[r].pc = "creating" /\ runs'[r].pc = "preparing"
                            \/ runs[r].pc = "preparing" /\ runs'[r].pc = "approving"
                               /\ runs'[r].intent = runs[r].intent
           /\ WalletStep(r) => /\ runs[r].pc = "approving"
                               /\ \/ runs'[r] = IdleRun
                                  \/ runs'[r].pc = "submitting" /\ runs'[r].intent = runs[r].intent
<1> USE DEF ClientTypeOK
<1>1. ASSUME StartStep(r)
      PROVE  /\ runs[r].pc = "idle"
             /\ runs'[r].pc \in {"switching", "connecting", "creating", "resubmitting"}
    BY <1>1 DEF StartStep, PressResubmit, PressSwitchNetwork, PressConnect, PressStart, NewRun, IdleRun
<1>2. ASSUME Prepared(r)
      PROVE  /\ runs[r].pc = "preparing" /\ runs'[r].pc = "approving"
             /\ runs'[r].intent = runs[r].intent
    BY <1>2 DEF Prepared, RunRows
<1>3. ASSUME RunStep(r)
      PROVE  \/ Prepared(r)
             \/ runs'[r] = IdleRun
             \/ runs[r].pc = "creating" /\ runs'[r].pc = "preparing"
    <2>1. ASSUME \/ \E stage \in Stages : ConnectDone(r, stage)
                 \/ \E failed \in BOOLEAN : NetworkSwitched(r, failed)
                 \/ RequestFails(r) \/ Submitted(r) \/ SubmitFails(r)
          PROVE  runs'[r] = IdleRun
        BY <2>1 DEF ConnectDone, NetworkSwitched, RequestFails, Submitted, SubmitFails, FailBefore,
                    EndRun
    <2>2. ASSUME NEW i \in Checkouts, Created(r, i)
          PROVE  runs[r].pc = "creating" /\ runs'[r].pc = "preparing"
        BY <2>2 DEF Created
    <2>3. QED
        BY <1>3, <2>1, <2>2 DEF RunStep
<1>4. ASSUME Approved(r)
      PROVE  runs'[r].pc = "submitting" /\ runs'[r].intent = runs[r].intent
    <2>1. runs' = [runs EXCEPT ![r] = [runs[r] EXCEPT !.pc = "submitting", !.tx = runs[r].intent]]
        BY <1>4 DEF Approved
    <2>2. QED
        BY <2>1 DEF RunRows
<1>5. ASSUME WalletStep(r)
      PROVE  runs[r].pc = "approving" /\ (Approved(r) \/ runs'[r] = IdleRun)
    BY <1>5 DEF WalletStep, Approved, Rejected, AnswerLost, FailBefore, EndRun
<1>6. QED
    BY <1>1, <1>2, <1>3, <1>4, <1>5

LEMMA SpinnerStaysBacked == ClientInv /\ [ClientNext]_clientVars => SpinnerIsBacked'
<1> SUFFICES ASSUME ClientInv, [ClientNext]_clientVars PROVE SpinnerIsBacked'
    OBVIOUS
<1>1. ClientTypeOK
    BY DEF ClientInv
<1> DEFINE Backed(stage) == stage \in BusyStages => \E r \in Runs : runs'[r].pc \in Backing(stage)
<1>2. SUFFICES Backed(page'.stage)
    BY DEF SpinnerIsBacked, Backing
<1>3. ASSUME NEW r \in Runs, StartStep(r) \/ RunStep(r) \/ WalletStep(r),
             runs[r].pc \in {"idle", "switching"}, page'.stage = page.stage
      PROVE  Backed(page'.stage)
    BY <1>1, <1>3, OtherRuns DEF ClientInv, SpinnerIsBacked, Backing, BusyStages
<1>4. ASSUME NEW r \in Runs, StartStep(r) PROVE Backed(page'.stage)
    <2>1. CASE PressSwitchNetwork(r)
        BY <1>3, <1>4, <2>1 DEF PressSwitchNetwork, NewRun
    <2>2. CASE PressResubmit(r) \/ PressConnect(r) \/ PressStart(r)
        BY <1>1, <2>2 DEF PressResubmit, PressConnect, PressStart, NewRun, IdleRun, ClientTypeOK,
                          Pages, Backing
    <2>3. QED
        BY <1>4, <2>1, <2>2 DEF StartStep
<1>5. ASSUME NEW r \in Runs, RunStep(r) PROVE Backed(page'.stage)
    <2>1. CASE \E stage \in Stages : ConnectDone(r, stage)
        BY <1>1, <2>1 DEF ConnectDone, ClientTypeOK, Pages, BusyStages
    <2>2. CASE \E failed \in BOOLEAN : NetworkSwitched(r, failed)
        BY <1>1, <1>3, <1>5, <2>2 DEF NetworkSwitched, ClientTypeOK, Pages, BusyStages
    <2>3. CASE \E i \in Checkouts : Created(r, i)
        BY <1>1, <2>3 DEF Created, ClientTypeOK, Backing
    <2>4. CASE Prepared(r)
        BY <1>1, <2>4 DEF Prepared, ClientTypeOK, Pages, RunRows, Backing
    <2>5. CASE RequestFails(r) \/ Submitted(r) \/ SubmitFails(r)
        BY <1>1, <2>5 DEF RequestFails, Submitted, SubmitFails, FailBefore, ClientTypeOK, Pages,
                          BusyStages
    <2>6. QED
        BY <1>5, <2>1, <2>2, <2>3, <2>4, <2>5 DEF RunStep
<1>6. ASSUME NEW r \in Runs, WalletStep(r) PROVE Backed(page'.stage)
    <2>1. CASE Approved(r)
        BY <1>1, <1>6, <2>1, RunGoesOn DEF Approved, ClientTypeOK, Pages, Backing, IdleRun
    <2>2. CASE Rejected(r) \/ AnswerLost(r)
        BY <1>1, <2>2 DEF Rejected, AnswerLost, FailBefore, ClientTypeOK, Pages, BusyStages
    <2>3. QED
        BY <1>6, <2>1, <2>2 DEF WalletStep
<1>7. ASSUME QuietStep PROVE Backed(page'.stage)
    <2>1. page'.stage = page.stage \/ page'.stage \notin BusyStages
        <3>1. CASE PressResume \/ PressRefused \/ Close
            BY <1>1, <3>1 DEF PressResume, PressRefused, Close, ClientTypeOK, Pages, BusyStages
        <3>2. CASE PollAnswered
            BY <1>1, <3>2 DEF PollAnswered, ClientTypeOK, Pages
        <3>3. CASE StartNewPayment
            BY <3>3 DEF StartNewPayment, InitialPage, BusyStages
        <3>4. CASE UNCHANGED page
            BY <3>4
        <3>5. QED
            BY <1>7, <3>1, <3>2, <3>3, <3>4
               DEF QuietStep, PollStart, PollFails, WriteStorage, OrphanAnswered, Settle, clientVars
    <2>2. QED
        BY <1>7, <2>1, QuietRuns DEF ClientInv, SpinnerIsBacked, Backing
<1>8. ASSUME Reload PROVE Backed(page'.stage)
    BY <1>8 DEF Reload, BusyStages
<1>9. QED
    BY <1>4, <1>5, <1>6, <1>7, <1>8, StepKinds

(* What a failed start leaves of the page and of the storage.              *)
LEMMA FailedFields ==
    ASSUME ClientTypeOK
    PROVE  /\ page' = [page EXCEPT !.stage = "failed", !.active = NoView] =>
                  page'.active = NoView /\ page'.session = page.session /\ page'.tx = page.tx
           /\ stored' = [stored EXCEPT !.active = NoView] =>
                  stored'.active = NoView /\ stored'.recovery = stored.recovery
<1>1. page \in Pages /\ stored \in [active : Views, recovery : Recoveries]
    BY DEF ClientTypeOK
<1>2. ASSUME NEW view, page' = [page EXCEPT !.stage = "failed", !.active = view]
      PROVE  page'.active = view /\ page'.session = page.session /\ page'.tx = page.tx
    BY <1>1, <1>2 DEF Pages
<1>3. ASSUME NEW view, stored' = [stored EXCEPT !.active = view]
      PROVE  stored'.active = view /\ stored'.recovery = stored.recovery
    BY <1>1, <1>3
<1>4. QED
    BY <1>2, <1>3

(* A checkout on the server stays there, and stays settled.                *)
LEMMA ServerGoesOn ==
    ASSUME ClientTypeOK, [ClientNext]_clientVars
    PROVE  /\ Existing \subseteq Existing'
           /\ \A i \in Checkouts : server[i] = "SETTLED" => server'[i] = "SETTLED"
<1> DEFINE Goal == \A i \in Checkouts : /\ server[i] # "ABSENT" => server'[i] # "ABSENT"
                                        /\ server[i] = "SETTLED" => server'[i] = "SETTLED"
<1>1. ASSUME NEW r \in Runs, NEW i \in Checkouts, Created(r, i) PROVE Goal
    BY <1>1 DEF Created, ClientTypeOK
<1>2. ASSUME NEW r \in Runs, Submitted(r) \/ SubmitFails(r) PROVE Goal
    BY <1>2 DEF Submitted, SubmitFails, MayAccept, Accept, ClientTypeOK
<1>3. ASSUME NEW i \in Checkouts, Settle(i) PROVE Goal
    BY <1>3 DEF Settle, ClientTypeOK
<1>4. ASSUME UNCHANGED server PROVE Goal
    BY <1>4
<1>5. ASSUME NEW r \in Runs, StartStep(r) \/ WalletStep(r) PROVE UNCHANGED server
    BY <1>5 DEF StartStep, PressResubmit, PressSwitchNetwork, PressConnect, PressStart, WalletStep,
                Approved, Rejected, AnswerLost
<1>6. ASSUME NEW r \in Runs, RunStep(r) PROVE Goal
    BY <1>1, <1>2, <1>4, <1>6
       DEF RunStep, ConnectDone, NetworkSwitched, Prepared, RequestFails
<1>7. ASSUME QuietStep PROVE Goal
    BY <1>3, <1>4, <1>7
       DEF QuietStep, PressResume, PressRefused, PollStart, PollAnswered, PollFails, Close,
           StartNewPayment, WriteStorage, OrphanAnswered, clientVars
<1>8. ASSUME Reload PROVE UNCHANGED server
    BY <1>8 DEF Reload
<1>9. Goal
    BY <1>4, <1>5, <1>6, <1>7, <1>8, StepKinds
<1>10. QED
    BY <1>9 DEF Existing

LEMMA CheckoutsStay == ClientInv /\ [ClientNext]_clientVars => CheckoutsExist'
<1> SUFFICES ASSUME ClientInv, [ClientNext]_clientVars PROVE CheckoutsExist'
    OBVIOUS
<1>1. ClientTypeOK /\ CheckoutsExist /\ Existing \subseteq Existing'
    BY ServerGoesOn DEF ClientInv
<1> DEFINE Runnings(r) == /\ runs'[r].pc \in AtWork => runs'[r].intent \in Existing'
                          /\ runs'[r].pc = "resubmitting" =>
                                 runs'[r].intent \in Existing' \cup {0} /\ runs'[r].tx # 0
           Sent == /\ prompts' \subseteq Existing' /\ sent' \subseteq Existing'
                   /\ sent \subseteq sent'
           Shown == {page'.active.intent, page'.session.intent} \subseteq Existing' \cup {0}
                    /\ page'.tx \in sent' \cup {0}
           Kept == {stored'.active.intent, stored'.recovery.session.intent} \subseteq Existing' \cup {0}
                   /\ stored'.recovery.tx \in sent' \cup {0}
           Polled == poll'.intent \in Existing' \cup {0}
           Goal == (\A r \in Runs : Runnings(r)) /\ Sent /\ Shown /\ Kept /\ Polled
<1>2. SUFFICES Goal
    BY DEF CheckoutsExist
<1>3. /\ UNCHANGED <<prompts, sent>> => Sent
      /\ UNCHANGED page /\ Sent => Shown
      /\ UNCHANGED stored /\ Sent => Kept
      /\ UNCHANGED poll => Polled
      /\ \A r \in Runs : runs'[r] = runs[r] \/ runs'[r] = IdleRun => Runnings(r)
    BY <1>1 DEF CheckoutsExist, IdleRun, AtWork
<1> DEFINE Active(view) == view.intent \in Existing \cup {0}
<1>4. ASSUME NEW r \in Runs, StartStep(r) PROVE Goal
    <2>1. UNCHANGED <<prompts, sent, stored, poll>>
        BY <1>4 DEF StartStep, PressResubmit, PressSwitchNetwork, PressConnect, PressStart
    <2>2. Runnings(r)
        BY <1>1, <1>4
           DEF StartStep, PressResubmit, PressSwitchNetwork, PressConnect, PressStart, NewRun, IdleRun,
               HoldsTx, AtWork, CheckoutsExist, ClientTypeOK
    <2>3. page'.active = page.active /\ page'.session = page.session /\ page'.tx = page.tx
        BY <1>1, <1>4
           DEF StartStep, PressResubmit, PressSwitchNetwork, PressConnect, PressStart, ClientTypeOK, Pages
    <2>4. QED
        BY <1>1, <1>3, <1>4, <2>1, <2>2, <2>3, OtherRuns DEF CheckoutsExist
<1>5. ASSUME NEW r \in Runs, RunStep(r) PROVE Goal
    <2>1. ASSUME NEW i \in Checkouts, Created(r, i) PROVE Goal
        <3>1. i \in Existing'
            BY <1>1, <2>1 DEF Created, Existing, ClientTypeOK
        <3>2. Runnings(r)
            BY <1>1, <2>1, <3>1 DEF Created, AtWork, ClientTypeOK
        <3>3. QED
            BY <1>1, <1>3, <1>5, <2>1, <3>1, <3>2, OtherRuns DEF Created
    <2>2. CASE Prepared(r)
        <3>1. runs[r].intent \in Existing /\ runs'[r].pc = "approving"
              /\ runs'[r].intent = runs[r].intent
            BY <1>1, <2>2 DEF Prepared, RunRows, CheckoutsExist, AtWork, ClientTypeOK
        <3>2. Runnings(r) /\ Sent
            BY <1>1, <2>2, <3>1 DEF Prepared, CheckoutsExist, AtWork
        <3>3. Shown
            BY <1>1, <2>2 DEF Prepared, CheckoutsExist, ClientTypeOK, Pages
        <3>4. QED
            BY <1>3, <1>1, <1>5, <2>2, <3>2, <3>3, OtherRuns DEF Prepared
    <2>3. CASE Submitted(r)
        <3>1. runs[r].intent \in Existing \cup {0} /\ runs'[r] = IdleRun
            BY <1>1, <2>3 DEF Submitted, EndRun, CheckoutsExist, AtWork, ClientTypeOK
        <3>2. /\ page'.active.intent = runs[r].intent
              /\ page'.session.intent = runs[r].intent
              /\ page'.tx = page.tx
            BY <1>1, <2>3 DEF Submitted, ClientTypeOK, Pages, Sessions
        <3>3. QED
            BY <1>1, <1>3, <1>5, <2>3, <3>1, <3>2, OtherRuns DEF Submitted, CheckoutsExist
    <2>4. CASE \/ \E stage \in Stages : ConnectDone(r, stage)
               \/ \E failed \in BOOLEAN : NetworkSwitched(r, failed)
               \/ RequestFails(r) \/ SubmitFails(r)
        <3>1. runs'[r] = IdleRun /\ UNCHANGED <<prompts, sent, poll>>
            BY <1>1, <2>4 DEF ConnectDone, NetworkSwitched, RequestFails, SubmitFails, FailBefore, EndRun,
                              ClientTypeOK
        <3>2. /\ page'.session = page.session /\ page'.tx = page.tx
              /\ page'.active.intent \in {page.active.intent, 0}
            <4>1. CASE \/ \E stage \in Stages : ConnectDone(r, stage)
                       \/ \E failed \in BOOLEAN : NetworkSwitched(r, failed)
                BY <1>1, <4>1 DEF ConnectDone, NetworkSwitched, ClientTypeOK, Pages
            <4>2. CASE FailBefore(r)
                BY <1>1, <4>2, FailedFields DEF FailBefore, NoView
            <4>3. CASE page' = [page EXCEPT !.stage = "failed"]
                BY <1>1, <4>3 DEF ClientTypeOK, Pages
            <4>4. QED
                BY <2>4, <4>1, <4>2, <4>3 DEF RequestFails, SubmitFails
        <3>3. /\ stored'.recovery = stored.recovery
              /\ stored'.active.intent \in {stored.active.intent, 0}
            <4>1. CASE FailBefore(r)
                BY <1>1, <4>1, FailedFields DEF FailBefore, NoView
            <4>2. CASE UNCHANGED stored
                BY <4>2
            <4>3. QED
                BY <2>4, <4>1, <4>2 DEF ConnectDone, NetworkSwitched, RequestFails, SubmitFails
        <3>4. QED
            BY <1>1, <1>3, <1>5, <3>1, <3>2, <3>3, OtherRuns DEF CheckoutsExist
    <2>5. QED
        BY <1>5, <2>1, <2>2, <2>3, <2>4 DEF RunStep
<1>6. ASSUME NEW r \in Runs, WalletStep(r) PROVE Goal
    <2>1. runs[r].intent \in Existing /\ UNCHANGED poll
        BY <1>1, <1>6 DEF WalletStep, Approved, Rejected, AnswerLost, CheckoutsExist, AtWork
    <2>2. Sent
        BY <1>1, <1>6, <2>1 DEF WalletStep, Approved, Rejected, AnswerLost, CheckoutsExist
    <2>3. Runnings(r)
        BY <1>1, <1>3, <1>6, <2>1, RunGoesOn
    <2>4. CASE Approved(r)
        <3>1. page'.active = page.active /\ page'.session = page.session
              /\ page'.tx = runs[r].intent /\ runs[r].intent \in sent' /\ UNCHANGED stored
            BY <1>1, <2>1, <2>4 DEF Approved, ClientTypeOK, Pages
        <3>2. QED
            BY <1>1, <1>3, <1>6, <2>1, <2>2, <2>3, <3>1, OtherRuns DEF CheckoutsExist
    <2>5. CASE Rejected(r) \/ AnswerLost(r)
        <3>1. /\ page'.session = page.session /\ page'.tx = page.tx
              /\ page'.active.intent = 0
              /\ stored'.recovery = stored.recovery
              /\ stored'.active.intent = 0
            BY <1>1, <2>5, FailedFields DEF Rejected, AnswerLost, FailBefore, NoView
        <3>2. QED
            BY <1>1, <1>3, <1>6, <2>1, <2>2, <2>3, <3>1, OtherRuns DEF CheckoutsExist
    <2>6. QED
        BY <1>6, <2>4, <2>5 DEF WalletStep
<1>7. ASSUME QuietStep PROVE Goal
    <2>1. \A r \in Runs : Runnings(r)
        BY <1>3, <1>7, QuietRuns
    <2>2. Sent
        <3>1. CASE \E i \in Checkouts, approved \in BOOLEAN : OrphanAnswered(i, approved)
            BY <1>1, <3>1 DEF OrphanAnswered, Orphans, CheckoutsExist
        <3>2. CASE UNCHANGED <<prompts, sent>>
            BY <1>3, <3>2
        <3>3. QED
            BY <1>7, <3>1, <3>2
               DEF QuietStep, PressResume, PressRefused, PollStart, PollAnswered, PollFails, Close,
                   StartNewPayment, WriteStorage, Settle, clientVars
    <2>3. Shown
        <3>1. CASE PressResume \/ Close
            BY <1>1, <2>2, <3>1 DEF PressResume, Close, CheckoutsExist, ClientTypeOK, Pages
        <3>5. CASE PressRefused
            BY <1>1, <2>2, <3>5, FailedFields DEF PressRefused, NoView, CheckoutsExist
        <3>6. CASE StartNewPayment
            BY <3>6 DEF StartNewPayment, InitialPage, NoView, NoSession
        <3>2. CASE PollAnswered
            <4>1. /\ page'.active.intent = poll.intent
                  /\ page'.session.intent \in {0, poll.intent}
                  /\ page'.tx = page.tx
                BY <1>1, <3>2 DEF PollAnswered, NoSession, ClientTypeOK, Pages
            <4>2. QED
                BY <1>1, <2>2, <4>1 DEF CheckoutsExist
        <3>3. CASE UNCHANGED page
            BY <1>3, <2>2, <3>3
        <3>4. QED
            BY <1>7, <3>1, <3>2, <3>3, <3>5, <3>6
               DEF QuietStep, PollStart, PollFails, WriteStorage, OrphanAnswered, Settle, clientVars
    <2>4. Kept
        <3>1. CASE PressRefused \/ StartNewPayment \/ WriteStorage
            BY <1>1, <2>2, <3>1
               DEF PressRefused, StartNewPayment, WriteStorage, ToStore, NoView, NoSession, NoRecovery,
                   CheckoutsExist, ClientTypeOK
        <3>2. CASE UNCHANGED stored
            BY <1>3, <2>2, <3>2
        <3>3. QED
            BY <1>7, <3>1, <3>2
               DEF QuietStep, PressResume, PollStart, PollAnswered, PollFails, Close, OrphanAnswered,
                   Settle, clientVars
    <2>5. Polled
        <3>1. CASE PollStart
            BY <1>1, <3>1 DEF PollStart, CheckoutsExist, ClientTypeOK, Polls
        <3>4. CASE PollAnswered \/ PollFails
            BY <3>4 DEF PollAnswered, PollFails, NoPoll
        <3>5. CASE StartNewPayment
            BY <1>1, <3>5 DEF StartNewPayment, CheckoutsExist, ClientTypeOK, Polls
        <3>2. CASE UNCHANGED poll
            BY <1>3, <3>2
        <3>3. QED
            BY <1>7, <3>1, <3>2, <3>4, <3>5
               DEF QuietStep, PressResume, PressRefused, Close, WriteStorage, OrphanAnswered,
                   Settle, clientVars
    <2>6. QED
        BY <2>1, <2>2, <2>3, <2>4, <2>5
<1>8. ASSUME Reload PROVE Goal
    BY <1>1, <1>3, <1>8
       DEF Reload, NoPoll, NoSession, NoRecovery, NoView, IdleRun, AtWork, CheckoutsExist
<1>9. QED
    BY <1>4, <1>5, <1>6, <1>7, <1>8, StepKinds

(* How the payment on the page, and what is stored of it, move.            *)
PageKept ==
    /\ page'.active = page.active /\ page'.session = page.session /\ page'.tx = page.tx

FailStep(r) ==
    FailBefore(r) /\ (RequestFails(r) \/ Rejected(r) \/ AnswerLost(r) \/ SubmitFails(r))

RunPageStep(r) ==
    \/ FailStep(r)
    \/ \E i \in Checkouts : Created(r, i)
    \/ Approved(r)
    \/ Submitted(r)

LEMMA PageMoves ==
    ASSUME ClientTypeOK, [ClientNext]_clientVars
    PROVE  \/ PageKept
           \/ \E r \in Runs : RunPageStep(r)
           \/ PressRefused \/ PollAnswered \/ StartNewPayment \/ Reload
<1>1. \A stage : page' = [page EXCEPT !.stage = stage] => PageKept
    BY DEF ClientTypeOK, Pages, PageKept
<1>2. UNCHANGED page => PageKept
    BY DEF PageKept
<1>3. ASSUME NEW r \in Runs, StartStep(r) PROVE PageKept
    BY <1>1, <1>2, <1>3 DEF StartStep, PressResubmit, PressSwitchNetwork, PressConnect, PressStart
<1>4. ASSUME NEW r \in Runs, RunStep(r) PROVE PageKept \/ RunPageStep(r)
    BY <1>1, <1>2, <1>4
       DEF RunStep, ConnectDone, NetworkSwitched, Prepared, RequestFails, SubmitFails, RunPageStep, FailStep
<1>5. ASSUME NEW r \in Runs, WalletStep(r) PROVE RunPageStep(r)
    BY <1>5 DEF WalletStep, Rejected, AnswerLost, RunPageStep, FailStep
<1>6. ASSUME QuietStep PROVE PageKept \/ PressRefused \/ PollAnswered \/ StartNewPayment
    BY <1>1, <1>2, <1>6
       DEF QuietStep, PressResume, Close, PollStart, PollFails, WriteStorage, OrphanAnswered, Settle,
           clientVars
<1>7. QED
    BY <1>3, <1>4, <1>5, <1>6, StepKinds

LEMMA StoredMoves ==
    ASSUME ClientTypeOK, [ClientNext]_clientVars
    PROVE  \/ UNCHANGED stored
           \/ stored'.active = NoView /\ stored'.recovery \in {stored.recovery, NoRecovery}
           \/ WriteStorage
<1>1. ASSUME NEW r \in Runs, FailBefore(r)
      PROVE  stored'.active = NoView /\ stored'.recovery = stored.recovery
    BY <1>1, FailedFields DEF FailBefore
<1>2. ASSUME NEW r \in Runs, StartStep(r) PROVE UNCHANGED stored
    BY <1>2 DEF StartStep, PressResubmit, PressSwitchNetwork, PressConnect, PressStart
<1>3. ASSUME NEW r \in Runs, RunStep(r) PROVE UNCHANGED stored \/ FailBefore(r)
    BY <1>3 DEF RunStep, ConnectDone, NetworkSwitched, Created, Prepared, RequestFails, Submitted,
                SubmitFails
<1>4. ASSUME NEW r \in Runs, WalletStep(r) PROVE UNCHANGED stored \/ FailBefore(r)
    BY <1>4 DEF WalletStep, Approved, Rejected, AnswerLost
<1>5. ASSUME QuietStep
      PROVE  \/ UNCHANGED stored
             \/ stored'.active = NoView /\ stored'.recovery \in {stored.recovery, NoRecovery}
             \/ WriteStorage
    BY <1>5, FailedFields
       DEF QuietStep, PressResume, PressRefused, Close, PollStart, PollAnswered, PollFails,
           StartNewPayment, OrphanAnswered, Settle, clientVars
<1>6. Reload => stored'.active = NoView /\ stored'.recovery = NoRecovery
    BY DEF Reload
<1>7. QED
    BY <1>1, <1>2, <1>3, <1>4, <1>5, <1>6, StepKinds

LEMMA SubmittedFields ==
    ASSUME ClientTypeOK, NEW r \in Runs, Submitted(r)
    PROVE  /\ page'.active = [intent |-> runs[r].intent, status |-> "CONFIRMING"]
           /\ page'.session.token = page.session.token
           /\ page'.tx = page.tx
<1>1. page \in Pages /\ page.session \in Sessions
    BY DEF ClientTypeOK, Pages
<1>2. [page.session EXCEPT !.intent = runs[r].intent, !.status = "CONFIRMING"].token
      = page.session.token
    BY <1>1 DEF Sessions
<1>3. page' = [page EXCEPT
          !.stage = "tracking",
          !.active = [intent |-> runs[r].intent, status |-> "CONFIRMING"],
          !.session = [page.session EXCEPT !.intent = runs[r].intent, !.status = "CONFIRMING"]]
    BY DEF Submitted
<1>4. QED
    BY <1>1, <1>2, <1>3 DEF Pages

LEMMA ViewsStayTrue == ClientInv /\ [ClientNext]_clientVars => ViewsAreTrue' /\ PollIsDue'
<1> SUFFICES ASSUME ClientInv, [ClientNext]_clientVars PROVE ViewsAreTrue' /\ PollIsDue'
    OBVIOUS
<1>1. ClientTypeOK /\ CheckoutsExist /\ ViewsAreTrue /\ PollIsDue
    BY DEF ClientInv
<1>2. \A i \in Checkouts : server[i] = "SETTLED" => server'[i] = "SETTLED"
    BY <1>1, ServerGoesOn
<1> DEFINE True(view) == /\ view.intent = 0 => view = NoView
                         /\ view.status = "SETTLED" => server'[view.intent] = "SETTLED"
           Goal == /\ True(page'.active) /\ True(stored'.active)
                   /\ poll'.intent # 0 /\ poll'.seen = "SETTLED" => server'[poll'.intent] = "SETTLED"
                   /\ poll'.intent # 0 => poll'.failures < MaxFailures
<1>3. True(NoView) /\ True(page.active) /\ True(stored.active)
    BY <1>1, <1>2 DEF NoView, ViewsAreTrue, TrueView, ClientTypeOK, Pages, Views, Ids
<1>4. True(page'.active)
    <2>1. CASE PageKept
        BY <1>3, <2>1 DEF PageKept
    <2>2. ASSUME NEW r \in Runs, RunPageStep(r) PROVE True(page'.active)
        <3>1. CASE FailBefore(r)
            BY <1>1, <1>3, <3>1, FailedFields DEF FailBefore
        <3>2. CASE \E i \in Checkouts : Created(r, i)
            BY <3>2, ClientAssumption DEF Created
        <3>3. CASE Approved(r)
            BY <1>1, <1>3, <3>3 DEF Approved, ClientTypeOK, Pages
        <3>4. CASE Submitted(r)
            <4>1. runs[r].intent # 0
                BY <1>1, <3>4, ClientAssumption
                   DEF Submitted, MayAccept, CheckoutsExist, AtWork, Existing
            <4>2. page'.active = [intent |-> runs[r].intent, status |-> "CONFIRMING"]
                BY <1>1, <3>4, SubmittedFields
            <4>3. QED
                BY <4>1, <4>2
        <3>5. QED
            BY <2>2, <3>1, <3>2, <3>3, <3>4 DEF RunPageStep, FailStep
    <2>3. CASE PressRefused
        BY <1>1, <1>3, <2>3, FailedFields DEF PressRefused
    <2>4. CASE PollAnswered
        <3>1. PICK seen \in {poll.seen, server[poll.intent]} :
                  page'.active = [intent |-> poll.intent, status |-> seen]
            BY <1>1, <2>4 DEF PollAnswered, ClientTypeOK, Pages
        <3>2. poll.intent # 0 /\ poll.intent \in Checkouts
            BY <1>1, <2>4 DEF PollAnswered, ClientTypeOK, Polls, Ids
        <3>3. seen = "SETTLED" => server'[poll.intent] = "SETTLED"
            BY <1>1, <1>2, <3>1, <3>2 DEF ViewsAreTrue
        <3>4. QED
            BY <3>1, <3>2, <3>3
    <2>5. CASE StartNewPayment
        BY <1>3, <2>5 DEF StartNewPayment, InitialPage
    <2>6. CASE Reload
        BY <1>3, <2>6 DEF Reload
    <2>7. QED
        BY <1>1, <2>1, <2>2, <2>3, <2>4, <2>5, <2>6, PageMoves
<1>5. True(stored'.active)
    BY <1>1, <1>3, StoredMoves DEF WriteStorage, ToStore
<1>6. \/ poll' \in {poll, NoPoll}
      \/ PollStart
      \/ poll'.intent = 0
      \/ StartNewPayment
    <2>1. ASSUME NEW r \in Runs, StartStep(r) PROVE UNCHANGED poll
        BY <2>1 DEF StartStep, PressResubmit, PressSwitchNetwork, PressConnect, PressStart
    <2>2. ASSUME NEW r \in Runs, RunStep(r) PROVE UNCHANGED poll
        BY <2>2 DEF RunStep, ConnectDone, NetworkSwitched, Created, Prepared, RequestFails, Submitted,
                    SubmitFails
    <2>3. ASSUME NEW r \in Runs, WalletStep(r) PROVE UNCHANGED poll
        BY <2>3 DEF WalletStep, Approved, Rejected, AnswerLost
    <2>4. ASSUME QuietStep
          PROVE  poll' \in {poll, NoPoll} \/ PollStart \/ poll'.intent = 0 \/ StartNewPayment
        BY <2>4 DEF QuietStep, PressResume, PressRefused, Close, PollAnswered, PollFails, NoPoll,
                    WriteStorage, OrphanAnswered, Settle, clientVars
    <2>5. Reload => poll' = NoPoll
        BY DEF Reload
    <2>6. QED
        BY <2>1, <2>2, <2>3, <2>4, <2>5, StepKinds
<1>7. /\ poll'.intent # 0 /\ poll'.seen = "SETTLED" => server'[poll'.intent] = "SETTLED"
      /\ poll'.intent # 0 => poll'.failures < MaxFailures
    <2>1. CASE poll' \in {poll, NoPoll}
        BY <1>1, <1>2, <2>1 DEF NoPoll, ViewsAreTrue, PollIsDue, ClientTypeOK, Polls, Ids
    <2>2. CASE PollStart
        <3>1. poll.failures < MaxFailures
            BY <1>1, <2>2, ClientAssumption DEF PollStart, PollNeeded, PollingStopped, ClientTypeOK, Polls
        <3>2. QED
            BY <1>1, <2>2, <3>1 DEF PollStart, ClientTypeOK, Polls
    <2>3. CASE StartNewPayment
        BY <1>1, <1>2, <2>3, ClientAssumption
           DEF StartNewPayment, ViewsAreTrue, ClientTypeOK, Polls, Ids
    <2>4. QED
        BY <1>6, <2>1, <2>2, <2>3
<1>8. QED
    BY <1>4, <1>5, <1>7 DEF ViewsAreTrue, TrueView, PollIsDue

(* How the prompts and the broadcast transactions move.                    *)
LEMMA BroadcastMoves ==
    /\ QuietStep => \/ UNCHANGED <<prompts, sent, lost>>
                    \/ \E i \in Checkouts, approved \in BOOLEAN : OrphanAnswered(i, approved)
    /\ \A r \in Runs : StartStep(r) => UNCHANGED <<prompts, sent, lost>>
    /\ \A r \in Runs : RunStep(r) => \/ UNCHANGED <<prompts, sent, lost>>
                                     \/ Prepared(r)
    /\ Reload => UNCHANGED <<prompts, sent, lost>>
<1>1. QuietStep => \/ UNCHANGED <<prompts, sent, lost>>
                   \/ \E i \in Checkouts, approved \in BOOLEAN : OrphanAnswered(i, approved)
    BY DEF QuietStep, PressResume, PressRefused, Close, PollStart, PollAnswered, PollFails,
           StartNewPayment, WriteStorage, Settle, clientVars, history
<1>2. ASSUME NEW r \in Runs, StartStep(r) PROVE UNCHANGED <<prompts, sent, lost>>
    BY <1>2 DEF StartStep, PressResubmit, PressSwitchNetwork, PressConnect, PressStart, history
<1>3. ASSUME NEW r \in Runs, RunStep(r) PROVE UNCHANGED <<prompts, sent, lost>> \/ Prepared(r)
    BY <1>3 DEF RunStep, ConnectDone, NetworkSwitched, Created, RequestFails, Submitted, SubmitFails,
                history
<1>4. Reload => UNCHANGED <<prompts, sent, lost>>
    BY DEF Reload
<1>5. QED
    BY <1>1, <1>2, <1>3, <1>4

LEMMA RunsStayApart == ClientInv /\ [ClientNext]_clientVars => OneRunEach'
<1> SUFFICES ASSUME ClientInv, [ClientNext]_clientVars PROVE OneRunEach'
    OBVIOUS
<1>1. ClientTypeOK /\ CheckoutsExist /\ OneRunEach /\ LostIsUnknown
    BY DEF ClientInv
<1> DEFINE Apart(r, q) ==
               runs'[r].pc \in AtWork /\ runs'[q].pc \in AtWork /\ runs'[r].intent = runs'[q].intent
               => r = q
           Fresh(r) == /\ runs'[r].pc = "preparing" => runs'[r].intent \notin prompts' \cup sent'
                       /\ runs'[r].pc = "approving" => runs'[r].intent \notin sent'
                       /\ runs'[r].pc = "submitting" => runs'[r].intent \notin lost'
           Goal == \A r \in Runs : Fresh(r) /\ \A q \in Runs : Apart(r, q)
<1>2. SUFFICES Goal
    BY DEF OneRunEach
<1>3. ASSUME Reload PROVE Goal
    BY <1>3 DEF Reload, IdleRun, AtWork
<1>4. ASSUME QuietStep PROVE Goal
    <2>1. UNCHANGED runs
        BY <1>4, QuietRuns
    <2>2. ASSUME NEW i \in Checkouts, NEW approved \in BOOLEAN, OrphanAnswered(i, approved) PROVE Goal
        BY <1>1, <2>1, <2>2 DEF OrphanAnswered, Orphans, OneRunEach, history
    <2>3. CASE UNCHANGED <<prompts, sent, lost>>
        BY <1>1, <2>1, <2>3 DEF OneRunEach
    <2>4. QED
        BY <1>4, <2>2, <2>3, BroadcastMoves
<1>5. ASSUME NEW r \in Runs, UNCHANGED <<prompts, sent, lost>>, runs'[r].pc \notin AtWork,
             \A q \in Runs \ {r} : runs'[q] = runs[q]
      PROVE  Goal
    BY <1>1, <1>5 DEF OneRunEach, AtWork
<1>6. ASSUME NEW r \in Runs, StartStep(r) PROVE Goal
    BY <1>1, <1>5, <1>6, RunGoesOn, OtherRuns, BroadcastMoves DEF AtWork
<1>7. ASSUME NEW r \in Runs, RunStep(r) PROVE Goal
    <2>1. \A q \in Runs \ {r} : runs'[q] = runs[q]
        BY <1>1, <1>7, OtherRuns
    <2>2. CASE Prepared(r)
        <3>1. /\ runs[r].pc = "preparing" /\ runs'[r].pc = "approving"
              /\ runs'[r].intent = runs[r].intent
              /\ prompts' = prompts \cup {runs[r].intent} /\ UNCHANGED <<sent, lost>>
            BY <1>1, <2>2 DEF Prepared, ClientTypeOK, RunRows, history
        <3>2. QED
            BY <1>1, <2>1, <3>1 DEF OneRunEach, AtWork
    <2>3. ASSUME NEW i \in Checkouts, Created(r, i) PROVE Goal
        <3>1. /\ i \notin Existing
              /\ runs'[r].pc = "preparing" /\ runs'[r].intent = i
              /\ UNCHANGED <<prompts, sent, lost>>
            BY <1>1, <2>3 DEF Created, Existing, ClientTypeOK, history
        <3>2. \A q \in Runs : runs[q].pc \in AtWork => runs[q].intent # i
            BY <1>1, <3>1 DEF CheckoutsExist
        <3>3. i \notin prompts \cup sent
            BY <1>1, <3>1 DEF CheckoutsExist
        <3>4. QED
            BY <1>1, <2>1, <3>1, <3>2, <3>3 DEF OneRunEach, AtWork
    <2>4. CASE runs'[r] = IdleRun /\ UNCHANGED <<prompts, sent, lost>>
        BY <1>5, <2>1, <2>4 DEF IdleRun, AtWork
    <2>5. Prepared(r) \/ (\E i \in Checkouts : Created(r, i)) \/ runs'[r] = IdleRun
        BY <1>1, <1>7 DEF RunStep, ConnectDone, NetworkSwitched, RequestFails, Submitted, SubmitFails,
                          FailBefore, EndRun, ClientTypeOK
    <2>6. QED
        BY <1>7, <2>2, <2>3, <2>4, <2>5, BroadcastMoves
<1>8. ASSUME NEW r \in Runs, WalletStep(r) PROVE Goal
    <2>1. \A q \in Runs \ {r} : runs'[q] = runs[q]
        BY <1>1, <1>8, OtherRuns
    <2>2. /\ runs[r].pc = "approving"
          /\ prompts' \subseteq prompts
          /\ sent' \subseteq sent \cup {runs[r].intent}
          /\ lost' \subseteq lost \cup {runs[r].intent}
        BY <1>8 DEF WalletStep, Approved, Rejected, AnswerLost, history
    <2>3. \/ runs'[r] = IdleRun
          \/ /\ runs'[r].pc = "submitting" /\ runs'[r].intent = runs[r].intent
             /\ lost' = lost
        BY <1>1, <1>8, RunGoesOn DEF WalletStep, Approved, Rejected, AnswerLost, FailBefore, EndRun,
                          ClientTypeOK, history
    <2>4. \A q \in Runs \ {r} : runs[q].pc \in AtWork => runs[q].intent # runs[r].intent
        BY <1>1, <2>2 DEF OneRunEach, AtWork
    <2>5. QED
        BY <1>1, <2>1, <2>2, <2>3, <2>4 DEF OneRunEach, LostIsUnknown, AtWork, IdleRun
<1>9. QED
    BY <1>3, <1>4, <1>6, <1>7, <1>8, StepKinds

(* Where the transaction of the page comes from.                           *)
LEMMA TxMoves ==
    ASSUME ClientTypeOK, [ClientNext]_clientVars
    PROVE  page'.tx \in {page.tx, stored.recovery.tx, 0} \/ \E r \in Runs : Approved(r)
<1>1. ASSUME NEW r \in Runs, RunPageStep(r) PROVE page'.tx \in {page.tx, 0} \/ Approved(r)
    <2>1. FailBefore(r) => page'.tx = page.tx
        BY FailedFields DEF FailBefore
    <2>2. Submitted(r) => page'.tx = page.tx
        BY SubmittedFields
    <2>3. ASSUME NEW i \in Checkouts, Created(r, i) PROVE page'.tx = 0
        BY <2>3 DEF Created
    <2>4. QED
        BY <1>1, <2>1, <2>2, <2>3 DEF RunPageStep, FailStep
<1>2. PressRefused => page'.tx = page.tx
    BY FailedFields DEF PressRefused
<1>3. PollAnswered => page'.tx = page.tx
    BY DEF PollAnswered, ClientTypeOK, Pages
<1>4. StartNewPayment => page'.tx = 0
    BY DEF StartNewPayment, InitialPage
<1>5. Reload => page'.tx \in {stored.recovery.tx, 0}
    BY DEF Reload
<1>6. QED
    BY <1>1, <1>2, <1>3, <1>4, <1>5, PageMoves DEF PageKept

LEMMA LostStaysUnknown == ClientInv /\ [ClientNext]_clientVars => LostIsUnknown'
<1> SUFFICES ASSUME ClientInv, [ClientNext]_clientVars PROVE LostIsUnknown'
    OBVIOUS
<1>1. ClientTypeOK /\ CheckoutsExist /\ OneRunEach /\ LostIsUnknown
    BY DEF ClientInv
<1>2. 0 \notin lost /\ 0 \notin sent
    BY <1>1, ClientAssumption DEF ClientTypeOK
<1>3. stored'.recovery.tx \in {stored.recovery.tx, page.tx, 0}
    BY <1>1, StoredMoves DEF WriteStorage, ToStore, NoRecovery
<1>4. ASSUME NEW r \in Runs, Approved(r) PROVE LostIsUnknown'
    <2>1. runs[r].intent \notin sent /\ page'.tx = runs[r].intent /\ lost' = lost /\ sent \subseteq sent'
        BY <1>1, <1>4 DEF Approved, OneRunEach, ClientTypeOK, Pages, history
    <2>2. stored' = stored
        BY <1>4 DEF Approved
    <2>3. QED
        BY <1>1, <2>1, <2>2 DEF LostIsUnknown
<1>5. ASSUME NEW r \in Runs, AnswerLost(r) PROVE LostIsUnknown'
    <2>1. /\ runs[r].intent \notin sent
          /\ lost' = lost \cup {runs[r].intent} /\ sent' = sent \cup {runs[r].intent}
        BY <1>1, <1>5 DEF AnswerLost, OneRunEach
    <2>2. /\ page'.tx = page.tx
          /\ stored'.recovery = stored.recovery
        BY <1>1, <1>5, FailedFields DEF AnswerLost, FailBefore
    <2>3. runs[r].intent # 0
        BY <1>1, <1>5, ClientAssumption DEF AnswerLost, CheckoutsExist, AtWork, Existing
    <2>4. QED
        BY <1>1, <1>2, <2>1, <2>2, <2>3 DEF LostIsUnknown, CheckoutsExist
<1>6. ASSUME NEW r \in Runs, Prepared(r) \/ Rejected(r) PROVE UNCHANGED <<sent, lost>>
    BY <1>6 DEF Prepared, Rejected, history
<1>7. ASSUME NEW i \in Checkouts, NEW approved \in BOOLEAN, OrphanAnswered(i, approved)
      PROVE  lost' = lost /\ sent \subseteq sent'
    BY <1>7 DEF OrphanAnswered, history
<1>8. \/ lost' = lost /\ sent \subseteq sent'
      \/ \E r \in Runs : Approved(r) \/ AnswerLost(r)
    BY <1>6, <1>7, BroadcastMoves, StepKinds DEF WalletStep
<1>9. CASE lost' = lost /\ sent \subseteq sent'
    <2>1. \/ page'.tx \in {page.tx, stored.recovery.tx, 0}
          \/ \E r \in Runs : Approved(r)
        BY <1>1, TxMoves
    <2>2. QED
        BY <1>1, <1>2, <1>3, <1>4, <1>9, <2>1 DEF LostIsUnknown
<1>10. QED
    BY <1>4, <1>5, <1>8, <1>9

(* What left the page stays left; a payment started anew leaves all.       *)
LEMMA ForgottenGoesOn ==
    ASSUME [ClientNext]_clientVars
    PROVE  forgotten \subseteq forgotten' \/ StartNewPayment
<1>1. ASSUME NEW r \in Runs, StartStep(r) PROVE forgotten' = forgotten
    BY <1>1 DEF StartStep, PressResubmit, PressSwitchNetwork, PressConnect, PressStart, history
<1>2. ASSUME NEW r \in Runs, RunStep(r) PROVE forgotten' = forgotten
    BY <1>2 DEF RunStep, ConnectDone, NetworkSwitched, Created, Prepared, RequestFails, Submitted,
                SubmitFails, history
<1>3. ASSUME NEW r \in Runs, WalletStep(r) PROVE forgotten' = forgotten
    BY <1>3 DEF WalletStep, Approved, Rejected, AnswerLost, history
<1>4. ASSUME QuietStep PROVE forgotten' = forgotten \/ StartNewPayment
    BY <1>4 DEF QuietStep, PressResume, PressRefused, Close, PollStart, PollAnswered, PollFails,
                WriteStorage, OrphanAnswered, Settle, clientVars, history
<1>5. Reload => forgotten \subseteq forgotten'
    BY DEF Reload
<1>6. QED
    BY <1>1, <1>2, <1>3, <1>4, <1>5, StepKinds

LEMMA TokensStay == ClientInv /\ [ClientNext]_clientVars => TokensAreKept'
<1> SUFFICES ASSUME ClientInv, [ClientNext]_clientVars PROVE TokensAreKept'
    OBVIOUS
<1>1. ClientTypeOK /\ CheckoutsExist /\ TokensAreKept
    BY DEF ClientInv
<1> DEFINE Early(pc) == pc \in {"preparing", "approving"}
           OfPage == page'.session.token = 0 =>
                         /\ page'.tx \in forgotten' \cup {0}
                         /\ \A r \in Runs : Early(runs'[r].pc) => runs'[r].intent \in forgotten'
           OfStore == stored'.recovery.session.token = 0 =>
                          stored'.recovery.tx \in forgotten' \cup {0}
<1>2. CASE StartNewPayment
    <2>1. page'.tx = 0 /\ stored'.recovery.tx = 0 /\ forgotten' = Existing /\ runs' = runs
        BY <1>2 DEF StartNewPayment, InitialPage, NoRecovery
    <2>2. QED
        BY <1>1, <2>1 DEF TokensAreKept, CheckoutsExist, AtWork
<1>3. CASE Reload
    <2>1. runs' = [r \in Runs |-> IdleRun] /\ stored'.recovery.tx = 0
        BY <1>3 DEF Reload, NoRecovery
    <2>2. page'.session.token = 0 => page'.tx = 0
        BY <1>3 DEF Reload
    <2>3. QED
        BY <2>1, <2>2 DEF TokensAreKept, IdleRun
<1>4. CASE ~StartNewPayment /\ ~Reload
    <2>1. forgotten \subseteq forgotten'
        BY <1>4, ForgottenGoesOn
    <2>2. OfStore
        BY <1>1, <2>1, StoredMoves DEF TokensAreKept, WriteStorage, ToStore, NoRecovery
    <2>3. ASSUME NEW r \in Runs, NEW i \in Checkouts, Created(r, i) PROVE OfPage
        <3>1. page'.session.token = i
            BY <2>3 DEF Created
        <3>2. QED
            BY <3>1, ClientAssumption
    <2>4. ASSUME \A r \in Runs, i \in Checkouts : ~Created(r, i)
          PROVE  \A r \in Runs : Early(runs'[r].pc) =>
                     Early(runs[r].pc) /\ runs'[r].intent = runs[r].intent
        <3>1. ASSUME NEW r \in Runs, StartStep(r) \/ RunStep(r) \/ WalletStep(r)
              PROVE  Early(runs'[r].pc) => Early(runs[r].pc) /\ runs'[r].intent = runs[r].intent
            <4>1. RunStep(r) => Prepared(r) \/ runs'[r] = IdleRun
                BY <1>1, <2>4 DEF RunStep, ConnectDone, NetworkSwitched, RequestFails, Submitted,
                                  SubmitFails, FailBefore, EndRun, ClientTypeOK
            <4>2. Prepared(r) => runs[r].pc = "preparing" /\ runs'[r].intent = runs[r].intent
                BY <1>1 DEF Prepared, ClientTypeOK, RunRows
            <4>3. ~Early(IdleRun.pc)
                BY DEF IdleRun
            <4>4. QED
                BY <1>1, <3>1, <4>1, <4>2, <4>3, RunGoesOn
        <3>2. QED
            BY <1>1, <1>4, <3>1, OtherRuns, QuietRuns, StepKinds
    <2>5. ASSUME \A r \in Runs, i \in Checkouts : ~Created(r, i),
                 page'.session.token = page.session.token,
                 page'.tx = page.tx \/ \E r \in Runs : Approved(r) /\ page'.tx = runs[r].intent
          PROVE  OfPage
        BY <1>1, <2>1, <2>4, <2>5 DEF TokensAreKept, Approved
    <2>6. ASSUME \A r \in Runs, i \in Checkouts : ~Created(r, i)
          PROVE  /\ page'.session.token = page.session.token
                 /\ page'.tx = page.tx \/ \E r \in Runs : Approved(r) /\ page'.tx = runs[r].intent
        <3>1. ASSUME NEW r \in Runs, Approved(r)
              PROVE  page'.session = page.session /\ page'.tx = runs[r].intent
            BY <1>1, <3>1 DEF Approved, ClientTypeOK, Pages
        <3>2. ASSUME NEW r \in Runs, FailBefore(r)
              PROVE  page'.session = page.session /\ page'.tx = page.tx
            BY <1>1, <3>2, FailedFields DEF FailBefore
        <3>3. PressRefused => page'.session = page.session /\ page'.tx = page.tx
            BY <1>1, FailedFields DEF PressRefused
        <3>4. ASSUME NEW r \in Runs, Submitted(r)
              PROVE  page'.session.token = page.session.token /\ page'.tx = page.tx
            BY <1>1, <3>4, SubmittedFields
        <3>5. PollAnswered => page'.session.token = page.session.token /\ page'.tx = page.tx
            BY <1>1 DEF PollAnswered, NoSession, ClientTypeOK, Pages
        <3>6. QED
            BY <1>1, <1>4, <2>6, <3>1, <3>2, <3>3, <3>4, <3>5, PageMoves DEF PageKept, RunPageStep, FailStep
    <2>7. OfPage
        BY <2>3, <2>5, <2>6
    <2>8. QED
        BY <2>2, <2>7 DEF TokensAreKept
<1>5. QED
    BY <1>2, <1>3, <1>4

LEMMA ExcusesGoOn ==
    ASSUME [ClientNext]_clientVars
    PROVE  lost \cup displaced \subseteq lost' \cup displaced'
<1>1. ASSUME NEW r \in Runs, StartStep(r) PROVE UNCHANGED <<lost, displaced>>
    BY <1>1 DEF StartStep, PressResubmit, PressSwitchNetwork, PressConnect, PressStart, history
<1>2. ASSUME NEW r \in Runs, RunStep(r)
      PROVE  lost' = lost /\ displaced \subseteq displaced'
    BY <1>2 DEF RunStep, ConnectDone, NetworkSwitched, Created, Prepared, RequestFails, Submitted,
                SubmitFails, FailBefore, Displace, history
<1>3. ASSUME NEW r \in Runs, WalletStep(r)
      PROVE  lost \subseteq lost' /\ displaced \subseteq displaced'
    BY <1>3 DEF WalletStep, Approved, Rejected, AnswerLost, FailBefore, Displace, history
<1>4. ASSUME QuietStep PROVE lost' = lost /\ displaced \subseteq displaced'
    BY <1>4 DEF QuietStep, PressResume, PressRefused, Close, PollStart, PollAnswered, PollFails,
                Displace, StartNewPayment, WriteStorage, OrphanAnswered, Settle, clientVars, history
<1>5. Reload => UNCHANGED <<lost, displaced>>
    BY DEF Reload
<1>6. QED
    BY <1>1, <1>2, <1>3, <1>4, <1>5, StepKinds

LEMMA InPlayExists == CheckoutsExist => \A i \in Checkouts : InPlay(i) => i \in Existing
BY DEF CheckoutsExist, InPlay

(* A checkout comes into play when it is created and at no other step.     *)
LEMMA InPlayMoves ==
    ASSUME ClientInv, [ClientNext]_clientVars, NEW i \in Checkouts, InPlay(i)'
    PROVE  \/ InPlay(i)
           \/ \E r \in Runs : Created(r, i)
<1>1. ClientTypeOK /\ CheckoutsExist /\ \A k \in Checkouts : server[k] = "SETTLED" => server'[k] = "SETTLED"
    BY ServerGoesOn DEF ClientInv
<1>2. server[i] # "SETTLED" /\ i \notin Excused'
    BY <1>1 DEF InPlay
<1> DEFINE Worked == i \in prompts \cup sent
                     \/ \E r \in Runs : runs[r].pc \in AtWork /\ runs[r].intent = i
<1>3. Worked \/ \E r \in Runs : Created(r, i)
    <2>1. \/ i \in prompts' \cup sent'
          \/ \E r \in Runs : runs'[r].pc \in AtWork /\ runs'[r].intent = i
        BY DEF InPlay
    <2>2. CASE i \in prompts' \cup sent'
        <3>1. ASSUME NEW r \in Runs, Prepared(r) \/ WalletStep(r)
              PROVE  /\ runs[r].pc \in AtWork
                     /\ prompts' \cup sent' \subseteq prompts \cup sent \cup {runs[r].intent}
            BY <3>1 DEF Prepared, WalletStep, Approved, Rejected, AnswerLost, AtWork
        <3>2. ASSUME NEW k \in Checkouts, NEW approved \in BOOLEAN, OrphanAnswered(k, approved)
              PROVE  prompts' \cup sent' \subseteq prompts \cup sent
            BY <3>2 DEF OrphanAnswered, Orphans
        <3>3. QED
            BY <2>2, <3>1, <3>2, BroadcastMoves, StepKinds
    <2>3. ASSUME NEW r \in Runs, runs'[r].pc \in AtWork, runs'[r].intent = i,
                 ~(runs[r].pc \in AtWork /\ runs[r].intent = i)
          PROVE  \E q \in Runs : Created(q, i)
        <3>1. runs'[r] # runs[r] /\ runs'[r] # IdleRun
            BY <2>3 DEF IdleRun, AtWork
        <3>2. StartStep(r) \/ RunStep(r) \/ WalletStep(r)
            <4>1. ~QuietStep
                BY <3>1, QuietRuns
            <4>2. ~Reload
                BY <3>1 DEF Reload
            <4>3. ASSUME NEW q \in Runs, StartStep(q) \/ RunStep(q) \/ WalletStep(q) PROVE q = r
                BY <1>1, <3>1, <4>3, OtherRuns
            <4>4. QED
                BY <4>1, <4>2, <4>3, StepKinds
        <3>3. RunStep(r)
            BY <1>1, <2>3, <3>1, <3>2, RunGoesOn DEF AtWork
        <3>4. ~Prepared(r)
            BY <1>1, <2>3 DEF Prepared, ClientTypeOK, RunRows, AtWork
        <3>5. PICK k \in Checkouts : Created(r, k)
            BY <1>1, <3>1, <3>3, <3>4
               DEF RunStep, ConnectDone, NetworkSwitched, RequestFails, Submitted, SubmitFails,
                   FailBefore, EndRun, ClientTypeOK
        <3>6. runs'[r].intent = k
            BY <1>1, <3>5 DEF Created, ClientTypeOK
        <3>7. QED
            BY <2>3, <3>5, <3>6
    <2>4. QED
        BY <2>1, <2>2, <2>3
<1>4. ~StartNewPayment \/ \E r \in Runs : Created(r, i)
    <2>1. StartNewPayment => forgotten' = Existing /\ UNCHANGED server
        BY DEF StartNewPayment
    <2>2. i \in Existing \/ \E r \in Runs : Created(r, i)
        BY <1>1, <1>3 DEF CheckoutsExist
    <2>3. QED
        BY <1>2, <2>1, <2>2 DEF Excused
<1>5. i \notin Excused \/ \E r \in Runs : Created(r, i)
    BY <1>2, <1>4, ForgottenGoesOn, ExcusesGoOn DEF Excused
<1>6. QED
    BY <1>2, <1>3, <1>5 DEF InPlay

(* The page lets go of a transaction it holds at three kinds of step.      *)
LEMMA HoldsTxMoves ==
    ASSUME ClientInv, [ClientNext]_clientVars, HoldsTx
    PROVE  \/ HoldsTx'
           \/ \E r \in Runs, i \in Checkouts : Created(r, i)
           \/ StartNewPayment \/ Reload
<1> USE DEF ClientInv
<1>1. page'.session = page.session /\ page'.tx = page.tx => HoldsTx'
    BY DEF HoldsTx
<1>2. ASSUME NEW r \in Runs, FailBefore(r) PROVE HoldsTx'
    BY <1>1, <1>2, FailedFields DEF FailBefore
<1>3. PressRefused => HoldsTx'
    BY <1>1, FailedFields DEF PressRefused
<1>4. ASSUME NEW r \in Runs, Submitted(r) PROVE HoldsTx'
    <2>1. page'.tx = page.tx
        BY <1>4, SubmittedFields
    <2>2. page'.session.status = "CONFIRMING"
        <3>1. page \in Pages /\ page.session \in Sessions
            BY DEF ClientTypeOK, Pages
        <3>2. [page.session EXCEPT !.intent = runs[r].intent, !.status = "CONFIRMING"].status
              = "CONFIRMING"
            BY <3>1 DEF Sessions
        <3>3. page' = [page EXCEPT
                  !.stage = "tracking",
                  !.active = [intent |-> runs[r].intent, status |-> "CONFIRMING"],
                  !.session = [page.session EXCEPT !.intent = runs[r].intent, !.status = "CONFIRMING"]]
            BY <1>4 DEF Submitted
        <3>4. QED
            BY <3>1, <3>2, <3>3 DEF Pages
    <2>3. QED
        BY <2>1, <2>2 DEF HoldsTx, NoSession
<1>5. PollAnswered => HoldsTx'
    BY DEF PollAnswered, HoldsTx, NoSession, ClientTypeOK, Pages
<1>6. ASSUME NEW r \in Runs, Approved(r) PROVE HoldsTx'
    BY <1>6, ClientAssumption
       DEF Approved, HoldsTx, CheckoutsExist, AtWork, Existing, ClientTypeOK, Pages
<1>7. QED
    BY <1>1, <1>2, <1>3, <1>4, <1>5, <1>6, PageMoves DEF PageKept, RunPageStep, FailStep

(* A run that fails, or is overtaken by a late answer, leaves no other     *)
(* checkout in play that the page does not show.                           *)
LEMMA DisplacedLeaves ==
    ASSUME ClientInv, NEW k \in Ids, Displace(k), NEW i \in Checkouts,
           InPlay(i), i \notin displaced', page.active.intent = i
    PROVE  i = k
BY ClientAssumption DEF Displace, InPlay, Excused

LEMMA FailedLeaves ==
    ASSUME ClientInv, [ClientNext]_clientVars, NEW r \in Runs,
           FailStep(r),
           NEW i \in Checkouts, InPlay(i), InPlay(i)'
    PROVE  HoldsTx
<1>1. ClientTypeOK /\ CheckoutsExist /\ OneRunEach /\ OneInPlay
    BY DEF ClientInv
<1> SUFFICES ASSUME ~HoldsTx PROVE FALSE
    OBVIOUS
<1>2. page.active.intent = i
    BY <1>1 DEF OneInPlay
<1>3. i \notin Excused'
    BY DEF InPlay
<1>4. runs[r].intent = i
    BY <1>1, <1>2, <1>3, DisplacedLeaves DEF FailStep, FailBefore, Excused, ClientTypeOK, RunRows
<1>5. runs'[r] = IdleRun /\ \A q \in Runs \ {r} : runs'[q] = runs[q]
    BY <1>1 DEF FailStep, FailBefore, EndRun, ClientTypeOK
<1>6. runs[r].pc \in AtWork => i \in prompts' \cup sent'
    <2>1. \/ i \in prompts' \cup sent'
          \/ \E q \in Runs : runs'[q].pc \in AtWork /\ runs'[q].intent = i
        BY DEF InPlay
    <2>2. ASSUME NEW q \in Runs, runs'[q].pc \in AtWork, runs'[q].intent = i, runs[r].pc \in AtWork
          PROVE  FALSE
        BY <1>1, <1>4, <1>5, <2>2 DEF OneRunEach, IdleRun, AtWork
    <2>3. QED
        BY <2>1, <2>2
<1>7. CASE RequestFails(r)
    <2>1. runs[r].pc \in {"creating", "preparing"} /\ UNCHANGED <<prompts, sent>>
        BY <1>7 DEF RequestFails
    <2>2. runs[r].pc # "creating"
        BY <1>1 DEF OneInPlay
    <2>3. QED
        BY <1>1, <1>4, <1>6, <2>1, <2>2 DEF OneRunEach, AtWork
<1>8. CASE Rejected(r)
    <2>1. runs[r].pc = "approving" /\ prompts' = prompts \ {runs[r].intent} /\ UNCHANGED sent
        BY <1>8 DEF Rejected
    <2>2. QED
        BY <1>1, <1>4, <1>6, <2>1 DEF OneRunEach, AtWork
<1>9. CASE AnswerLost(r)
    BY <1>3, <1>4, <1>9 DEF AnswerLost, Excused
<1>10. CASE SubmitFails(r)
    <2>1. CASE runs[r].pc = "resubmitting"
        BY <1>1, <1>4, <2>1, ClientAssumption DEF OneInPlay
    <2>2. CASE runs[r].pc = "submitting"
        <3>1. page'.active = page.active
            BY <1>1, <1>10, <2>2 DEF SubmitFails, ClientTypeOK, Pages
        <3>2. page'.active = NoView
            BY <1>1, FailedFields DEF FailStep, FailBefore
        <3>3. QED
            BY <1>2, <3>1, <3>2, ClientAssumption DEF NoView
    <2>3. QED
        BY <1>10, <2>1, <2>2 DEF SubmitFails
<1>11. QED
    BY <1>7, <1>8, <1>9, <1>10 DEF FailStep

(* A new checkout may be asked for only with nothing in play.              *)
LEMMA NothingInPlay ==
    ASSUME ClientInv, MayStart
    PROVE  \A i \in Checkouts : ~InPlay(i)
<1> SUFFICES ASSUME NEW i \in Checkouts, InPlay(i) PROVE FALSE
    OBVIOUS
<1>1. page.active.intent = i /\ i # 0
    BY ClientAssumption DEF ClientInv, OneInPlay, MayStart
<1>2. page.active.status = "SETTLED"
    BY <1>1 DEF MayStart, NoView, Terminal
<1>3. QED
    BY <1>1, <1>2 DEF ClientInv, ViewsAreTrue, TrueView, InPlay

(* The page shows what is in play, or holds its transaction.               *)
LEMMA PlayIsShown ==
    ASSUME ClientInv, [ClientNext]_clientVars, NEW i \in Checkouts, InPlay(i)'
    PROVE  page'.active.intent = i \/ HoldsTx'
<1>1. ClientTypeOK /\ CheckoutsExist /\ TokensAreKept /\ OneInPlay
    BY DEF ClientInv
<1>2. i \notin Excused'
    BY DEF InPlay
<1>3. ASSUME NEW r \in Runs, NEW k \in Checkouts, Created(r, k)
      PROVE  page'.active.intent = i
    <2>1. ~InPlay(i)
        BY <1>1, <1>3 DEF OneInPlay, Created
    <2>2. PICK q \in Runs : Created(q, i)
        BY <2>1, InPlayMoves
    <2>3. QED
        BY <2>2 DEF Created
<1>4. CASE StartNewPayment
    <2>1. i \in Existing /\ forgotten' = Existing
        <3>1. runs' = runs /\ prompts' = prompts /\ sent' = sent /\ forgotten' = Existing
            BY <1>4 DEF StartNewPayment
        <3>2. QED
            BY <1>1, <3>1 DEF InPlay, CheckoutsExist
    <2>2. QED
        BY <1>2, <2>1 DEF Excused
<1>5. CASE Reload
    <2>1. i \in Existing
        <3>1. runs' = [r \in Runs |-> IdleRun] /\ prompts' = prompts /\ sent' = sent
            BY <1>5 DEF Reload
        <3>2. QED
            BY <1>1, <3>1 DEF InPlay, CheckoutsExist, IdleRun, AtWork
    <2>2. i \in {page'.active.intent, page'.tx}
        BY <1>2, <1>5, <2>1 DEF Reload, Excused
    <2>3. page'.tx # 0 => page'.session # NoSession
        BY <1>5 DEF Reload, NoSession
    <2>4. QED
        BY <2>2, <2>3, ClientAssumption DEF HoldsTx
<1>6. CASE ~StartNewPayment /\ ~Reload /\ \A r \in Runs, k \in Checkouts : ~Created(r, k)
    <2>1. InPlay(i)
        BY <1>6, InPlayMoves
    <2>2. HoldsTx => HoldsTx'
        BY <1>6, HoldsTxMoves
    <2> SUFFICES ASSUME page.active.intent = i, ~HoldsTx PROVE page'.active.intent = i
        BY <1>1, <2>1, <2>2 DEF OneInPlay
    <2>3. ASSUME NEW r \in Runs, RunPageStep(r) PROVE page'.active.intent = i
        <3>1. ~FailStep(r)
            BY <2>1, FailedLeaves
        <3>2. Approved(r) => page'.active.intent = i
            BY <1>1 DEF Approved, ClientTypeOK, Pages
        <3>3. CASE Submitted(r)
            <4>1. page'.active = [intent |-> runs[r].intent, status |-> "CONFIRMING"]
                BY <1>1, <3>3, SubmittedFields
            <4>2. runs[r].intent \in Ids /\ Displace(runs[r].intent)
                BY <1>1, <3>3 DEF Submitted, ClientTypeOK, RunRows
            <4>3. i = runs[r].intent
                BY <1>2, <2>1, <4>2, DisplacedLeaves DEF Excused
            <4>4. QED
                BY <4>1, <4>3
        <3>4. QED
            BY <1>6, <2>3, <3>1, <3>2, <3>3 DEF RunPageStep
    <2>4. ~PressRefused
        BY <2>1, NothingInPlay DEF PressRefused
    <2>5. CASE PollAnswered
        <3>1. page'.active.intent = poll.intent
            BY <1>1, <2>5 DEF PollAnswered, ClientTypeOK, Pages
        <3>2. poll.intent \in Ids /\ Displace(poll.intent)
            BY <1>1, <2>5 DEF PollAnswered, ClientTypeOK, Polls
        <3>3. i = poll.intent
            BY <1>2, <2>1, <3>2, DisplacedLeaves DEF Excused
        <3>4. QED
            BY <3>1, <3>3
    <2>6. QED
        BY <1>1, <1>6, <2>3, <2>4, <2>5, PageMoves DEF PageKept
<1>7. QED
    BY <1>3, <1>4, <1>5, <1>6

LEMMA OneStaysInPlay == ClientInv /\ [ClientNext]_clientVars => OneInPlay'
<1> SUFFICES ASSUME ClientInv, [ClientNext]_clientVars PROVE OneInPlay'
    OBVIOUS
<1>1. ClientTypeOK /\ CheckoutsExist /\ OneInPlay
    BY DEF ClientInv
<1>2. ASSUME NEW i \in Checkouts, NEW j \in Checkouts, InPlay(i)', InPlay(j)' PROVE i = j
    <2>1. ASSUME NEW r \in Runs, NEW k \in Checkouts, Created(r, k)
          PROVE  /\ \A q \in Runs, l \in Checkouts : Created(q, l) => l = k
                 /\ ~InPlay(i) /\ ~InPlay(j)
        <3>1. \A q \in Runs, l \in Checkouts : Created(q, l) => l = k
            BY <1>1, <2>1 DEF Created, ClientTypeOK
        <3>2. ~InPlay(i) /\ ~InPlay(j)
            BY <1>1, <2>1 DEF OneInPlay, Created
        <3>3. QED
            BY <3>1, <3>2
    <2>2. CASE InPlay(i) /\ InPlay(j)
        BY <1>1, <2>2 DEF OneInPlay
    <2>3. InPlay(i) \/ \E r \in Runs : Created(r, i)
        BY <1>2, InPlayMoves
    <2>4. InPlay(j) \/ \E r \in Runs : Created(r, j)
        BY <1>2, InPlayMoves
    <2>5. QED
        BY <2>1, <2>2, <2>3, <2>4
<1>3. \A i \in Checkouts : InPlay(i)' => page'.active.intent = i \/ HoldsTx'
    BY PlayIsShown
<1>4. ASSUME NEW r \in Runs, NEW k \in Checkouts, InPlay(k)',
             runs'[r].pc = "resubmitting", runs'[r].intent = k, runs'[r] = runs[r]
      PROVE  HoldsTx'
    <2>1. k \in Existing
        BY <1>1, <1>4, ClientAssumption DEF CheckoutsExist
    <2>2. \A q \in Runs : ~Created(q, k)
        BY <2>1 DEF Created, Existing
    <2>3. InPlay(k) /\ runs[r].intent = k /\ k # 0
        BY <1>4, <2>2, InPlayMoves, ClientAssumption
    <2>4. HoldsTx
        BY <1>1, <1>4, <2>3 DEF OneInPlay
    <2>5. \A q \in Runs, l \in Checkouts : ~Created(q, l)
        BY <1>1, <2>3 DEF Created, OneInPlay
    <2>6. ~Reload
        BY <1>4 DEF Reload, IdleRun
    <2>7. ~StartNewPayment
        BY <1>4, <2>1 DEF StartNewPayment, InPlay, Excused
    <2>8. QED
        BY <2>4, <2>5, <2>6, <2>7, HoldsTxMoves
<1>5. ASSUME NEW r \in Runs, PressResubmit(r) PROVE HoldsTx'
    BY <1>1, <1>5 DEF PressResubmit, HoldsTx, ClientTypeOK, Pages
<1>6. ASSUME NEW r \in Runs, runs'[r].pc \in {"resubmitting", "creating"}
      PROVE  \/ runs'[r] = runs[r]
             \/ runs'[r].pc = "resubmitting" /\ PressResubmit(r)
             \/ runs'[r].pc = "creating" /\ PressStart(r)
    <2>1. runs'[r] # IdleRun
        BY <1>6 DEF IdleRun
    <2>2. ~Reload
        BY <2>1 DEF Reload
    <2>3. ASSUME NEW q \in Runs \ {r}, StartStep(q) \/ RunStep(q) \/ WalletStep(q)
          PROVE  runs'[r] = runs[r]
        BY <1>1, <2>3, OtherRuns
    <2>4. ~RunStep(r) /\ ~WalletStep(r)
        BY <1>1, <1>6, <2>1, RunGoesOn
    <2>5. CASE StartStep(r)
        <3>1. PressConnect(r) => runs'[r].pc = "connecting"
            BY <1>1 DEF PressConnect, NewRun, IdleRun, ClientTypeOK
        <3>2. PressSwitchNetwork(r) => runs'[r].pc = "switching"
            BY <1>1 DEF PressSwitchNetwork, NewRun, IdleRun, ClientTypeOK
        <3>3. PressStart(r) => runs'[r].pc = "creating"
            BY <1>1 DEF PressStart, NewRun, IdleRun, ClientTypeOK
        <3>4. PressResubmit(r) => runs'[r].pc = "resubmitting"
            BY <1>1 DEF PressResubmit, NewRun, ClientTypeOK
        <3>5. QED
            BY <1>6, <2>5, <3>1, <3>2, <3>3, <3>4 DEF StartStep
    <2>6. QED
        BY <2>2, <2>3, <2>4, <2>5, QuietRuns, StepKinds
<1>7. ASSUME NEW r \in Runs, runs'[r].pc = "resubmitting", runs'[r].intent # 0,
             InPlay(runs[r].intent)'
      PROVE  HoldsTx'
    <2>1. runs'[r].intent \in Checkouts
        BY <1>7, ClientTypesKept DEF ClientTypeOK, RunRows, Ids
    <2>2. PICK k \in Checkouts : runs'[r].intent = k
        BY <2>1
    <2>3. InPlay(k)'
        BY <1>7, <2>2
    <2>4. QED
        BY <1>4, <1>5, <1>6, <1>7, <2>2, <2>3
<1>8. ASSUME NEW r \in Runs, runs'[r].pc = "creating"
      PROVE  /\ \A i \in Checkouts : ~InPlay(i)'
             /\ \A q \in Runs : runs'[q].pc = "creating" => q = r
    <2>1. CASE PressStart(r)
        <3>1. \A i \in Checkouts : ~InPlay(i)
            BY <2>1, NothingInPlay DEF PressStart
        <3>2. \A q \in Runs : runs[q].pc # "creating"
            BY <2>1 DEF PressStart, MayStart, CanPress, MutationPending
        <3>3. \A q \in Runs \ {r} : runs'[q] = runs[q]
            BY <1>1, <2>1, OtherRuns DEF StartStep
        <3>4. \A q \in Runs, i \in Checkouts : ~Created(q, i)
            BY <3>2 DEF Created
        <3>5. QED
            BY <3>1, <3>2, <3>3, <3>4, InPlayMoves
    <2>2. CASE runs'[r] = runs[r]
        <3>1. /\ \A i \in Checkouts : ~InPlay(i)
              /\ \A q \in Runs : runs[q].pc = "creating" => q = r
            BY <1>1, <1>8, <2>2 DEF OneInPlay
        <3>2. \A q \in Runs, i \in Checkouts : ~Created(q, i)
            BY <1>1, <1>8, <2>2, <3>1 DEF Created, ClientTypeOK
        <3>3. ASSUME NEW q \in Runs, runs'[q].pc = "creating" PROVE q = r
            <4>1. ~PressStart(q)
                BY <1>8, <2>2 DEF PressStart, MayStart, CanPress, MutationPending
            <4>2. runs'[q] = runs[q]
                BY <1>6, <3>3, <4>1
            <4>3. QED
                BY <3>1, <3>3, <4>2
        <3>4. QED
            BY <3>1, <3>2, <3>3, InPlayMoves
    <2>3. QED
        BY <1>6, <1>8, <2>1, <2>2
<1>9. QED
    BY <1>2, <1>3, <1>7, <1>8 DEF OneInPlay

LEMMA ClientStep == ClientInv /\ [ClientNext]_clientVars => ClientInv'
BY ClientTypesKept, CheckoutsStay, ViewsStayTrue, RunsStayApart, LostStaysUnknown, TokensStay,
   OneStaysInPlay, SpinnerStaysBacked DEF ClientInv

-----------------------------------------------------------------------------
(* The theorems.                                                           *)

(* The inductive invariant holds in every state of the buy page: at most   *)
(* one checkout is in play, and the page shows it or holds its transaction.*)
THEOREM ClientInvariant == ClientSpec => []ClientInv
<1>1. ClientInit => ClientInv
    BY ClientInitHolds
<1>2. ClientInv /\ [ClientNext]_clientVars => ClientInv'
    BY ClientStep
<1>3. QED
    BY <1>1, <1>2, PTL DEF ClientSpec

LEMMA OnePaymentFollows == ClientInv => OnePaymentAtATime
<1> SUFFICES ASSUME ClientInv PROVE OnePaymentAtATime
    OBVIOUS
<1> DEFINE Counted == Unsettled \ (forgotten \cup lost \cup displaced)
<1>1. \A i \in Counted : i \in Checkouts /\ InPlay(i)
    BY DEF ClientInv, ClientTypeOK, InPlay, Excused, Unsettled
<1>2. \A i, j \in Counted : i = j
    BY <1>1 DEF ClientInv, OneInPlay
<1>3. CASE Counted = {}
    BY <1>3, FS_EmptySet DEF OnePaymentAtATime
<1>4. CASE Counted # {}
    <2>1. PICK i : Counted = {i}
        BY <1>2, <1>4
    <2>2. QED
        BY <2>1, FS_Singleton DEF OnePaymentAtATime
<1>5. QED
    BY <1>3, <1>4

(* Of the transactions that are broadcast and not settled, one at most is  *)
(* of a checkout the buyer did not leave, whose wallet answered, and which *)
(* no late answer took from the page, whatever the controller's runs, the  *)
(* status poll and the storage effects do in between.                      *)
THEOREM OnePaymentAtATimeHolds == ClientSpec => []OnePaymentAtATime
BY ClientInvariant, OnePaymentFollows, PTL

(* A busy stage of the checkout reducer is backed by a run of the          *)
(* controller that has still to be answered.                               *)
THEOREM SpinnerIsBackedHolds == ClientSpec => []SpinnerIsBacked
<1>1. ClientInv => SpinnerIsBacked
    BY DEF ClientInv
<1>2. QED
    BY ClientInvariant, <1>1, PTL

TransactionKept ==
    \A i \in Checkouts :
        page.tx = i /\ page'.tx # i =>
            \/ server[i] = "SETTLED"
            \/ i \in forgotten' \cup displaced
            \/ page'.tx \in forgotten \cup displaced \cup {j \in Checkouts : server[j] = "SETTLED"}
            \/ reloads' # reloads /\ stored.recovery.tx # i

LEMMA TransactionStep == ClientInv /\ [ClientNext]_clientVars => TransactionKept
<1> SUFFICES ASSUME ClientInv, [ClientNext]_clientVars,
                    NEW i \in Checkouts, page.tx = i, page'.tx # i,
                    server[i] # "SETTLED", i \notin forgotten' \cup displaced
             PROVE  \/ page'.tx \in forgotten \cup displaced
                                    \cup {j \in Checkouts : server[j] = "SETTLED"}
                    \/ reloads' # reloads /\ stored.recovery.tx # i
    BY DEF TransactionKept
<1>1. ClientTypeOK /\ CheckoutsExist /\ OneRunEach /\ LostIsUnknown /\ TokensAreKept /\ OneInPlay
    BY DEF ClientInv
<1>2. i \in sent /\ i \notin lost /\ i # 0 /\ i \in Existing
    BY <1>1, ClientAssumption DEF CheckoutsExist, LostIsUnknown
<1>3. ~StartNewPayment
    BY <1>2 DEF StartNewPayment
<1>4. InPlay(i)
    BY <1>2, <1>3, ForgottenGoesOn DEF InPlay, Excused
<1>5. \A r \in Runs, k \in Checkouts : ~Created(r, k)
    BY <1>1, <1>4 DEF OneInPlay, Created
<1>6. ASSUME NEW r \in Runs, Approved(r)
      PROVE  page'.tx \in forgotten \cup displaced \cup {j \in Checkouts : server[j] = "SETTLED"}
    <2>1. /\ runs[r].pc = "approving" /\ page'.tx = runs[r].intent
          /\ runs[r].intent \in Existing
        BY <1>1, <1>6 DEF Approved, CheckoutsExist, AtWork, ClientTypeOK, Pages
    <2>2. runs[r].intent \notin lost /\ runs[r].intent # i
        BY <1>1, <1>2, <2>1 DEF OneRunEach, LostIsUnknown
    <2>3. ASSUME NEW k \in Checkouts, runs[r].intent = k PROVE ~InPlay(k)
        BY <1>1, <1>4, <2>2, <2>3 DEF OneInPlay
    <2>4. PICK k \in Checkouts : runs[r].intent = k
        BY <2>1 DEF Existing
    <2>5. k \in forgotten \cup displaced \cup {j \in Checkouts : server[j] = "SETTLED"}
        BY <2>1, <2>2, <2>3, <2>4 DEF InPlay, Excused, AtWork
    <2>6. QED
        BY <2>1, <2>4, <2>5
<1>7. ASSUME Reload PROVE reloads' # reloads /\ stored.recovery.tx # i
    <2>1. reloads' # reloads
        BY <1>1, <1>7, ClientAssumption DEF Reload, ClientTypeOK
    <2>2. stored.recovery.tx = i => stored.recovery.session.token # 0
        BY <1>1, <1>2, <1>7 DEF TokensAreKept, Reload
    <2>3. stored.recovery.tx = i => page'.tx = i
        BY <1>7, <2>2 DEF Reload
    <2>4. QED
        BY <2>1, <2>3
<1>8. ASSUME NEW r \in Runs, RunPageStep(r) PROVE Approved(r)
    <2>1. FailStep(r) => page'.tx = page.tx
        BY <1>1, FailedFields DEF FailStep, FailBefore
    <2>2. Submitted(r) => page'.tx = page.tx
        BY <1>1, SubmittedFields
    <2>3. QED
        BY <1>5, <1>8, <2>1, <2>2 DEF RunPageStep
<1>9. ~PressRefused
    BY <1>4, NothingInPlay DEF PressRefused
<1>10. ~PollAnswered
    BY <1>1 DEF PollAnswered, ClientTypeOK, Pages
<1>11. QED
    BY <1>1, <1>3, <1>6, <1>7, <1>8, <1>9, <1>10, PageMoves DEF PageKept

(* The page lets go of an unsettled transaction only when the buyer starts *)
(* anew or reloads too early, approves the prompt of a checkout that was   *)
(* left or has expired, or a late answer for another displaced one of the  *)
(* two.                                                                    *)
THEOREM TransactionIsKeptHolds == ClientSpec => TransactionIsKept
<1>1. ClientInv /\ [ClientNext]_clientVars => TransactionKept
    BY TransactionStep
<1>2. ClientSpec => [][TransactionKept]_clientVars
    BY <1>1, ClientInvariant, PTL DEF ClientSpec
<1>3. QED
    BY <1>2 DEF TransactionIsKept, TransactionKept
=============================================================================
