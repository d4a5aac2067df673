----------------------------- MODULE ProviderSync -----------------------------
(***************************************************************************)
(* The connected wallet of the marketing pages: useMarketingWalletSync and *)
(* the provider part of its store.                                         *)
(*                                                                         *)
(* The buy page mounts the hook several times (the controller and both     *)
(* navigation bars); each has its own connect mutation and looks on its    *)
(* own for a wallet that lets the page in, while account and store are     *)
(* shared.  A render runs the effects of every hook.  Connector names,     *)
(* chains and the checkout form, which these writes clear, are left out.   *)
(***************************************************************************)
EXTENDS Naturals, FiniteSets

CONSTANTS
    WalletHooks,        \* uses of useMarketingWalletSync on the page
    ConnectAccounts,    \* accounts the wallet may report
    MaxOrphans          \* bound on the connects at work that no hook watches

ASSUME SyncAssumption == IsFiniteSet(WalletHooks) /\ MaxOrphans \in Nat

NoProvider == "no account"

VARIABLES
    mounted,        \* the page is open, its hooks mounted
    wagmiAccount,   \* the account of the current connection
    mutation,       \* the connect mutation of every hook, and who began it
    asking,         \* hooks that wait for readAuthorizedInjectedConnector
    orphans,        \* connects at work that were reset or unmounted
    leaving,        \* hooks that wait for the logout of the provider
    provider        \* the provider state of the store

syncVars == <<mounted, wagmiAccount, mutation, asking, orphans, leaving, provider>>

MarketingWalletConnectionErrorCode ==
    {"user_rejected", "connector_failed", "reconnect_required", "connector_unavailable"}

ProviderTypeOK ==
    /\ mounted \in BOOLEAN
    /\ wagmiAccount \in ConnectAccounts \cup {NoProvider}
    /\ mutation \in [WalletHooks -> {"idle", "clicked", "hydrated", "failed"}]
    /\ asking \subseteq WalletHooks
    /\ orphans \in 0..MaxOrphans
    /\ leaving \subseteq WalletHooks
    /\ provider \in [address : ConnectAccounts \cup {NoProvider}, pending : BOOLEAN,
                     issue : MarketingWalletConnectionErrorCode \cup {"none"},
                     suppressed : BOOLEAN]

initialProviderState ==
    [address |-> NoProvider, pending |-> FALSE, issue |-> "none", suppressed |-> FALSE]

AllIdle == [h \in WalletHooks |-> "idle"]

SyncInit ==
    /\ mounted = FALSE
    /\ wagmiAccount = NoProvider
    /\ mutation = AllIdle
    /\ asking = {}
    /\ orphans = 0
    /\ leaving = {}
    /\ provider = initialProviderState

-----------------------------------------------------------------------------
(* The effects of a render.                                                *)

Pending(m, h) == m[h] \in {"clicked", "hydrated"}

WithIssue(p, code) == [p EXCEPT !.issue = code]

(* Faulty: the effect of a hook forgets its mutation.                      *)
MutantSyncProviderState(p, acct, m, h) ==
    [p EXCEPT !.address = acct, !.pending = p.pending \/ Pending(m, h),
              !.issue = IF acct # NoProvider THEN "none" ELSE @]

syncProviderState(p, acct, m, h) ==
    [p EXCEPT !.address = acct, !.pending = Pending(m, h),
              !.issue = IF acct # NoProvider THEN "none" ELSE @]

(* Faulty: a hook that asks already goes on asking.                        *)
MutantHydrating(p, acct, m) ==
    asking \cup {h \in WalletHooks : acct = NoProvider /\ ~Pending(m, h)
                                       /\ ~p.suppressed /\ p.issue = "none"}

(* Hooks that look for a wallet after a render: the clean-up of the effect *)
(* cancels what was under way, the effect begins anew where it may.        *)
Hydrating(p, acct, m) ==
    {h \in WalletHooks : acct = NoProvider /\ ~Pending(m, h)
                           /\ ~p.suppressed /\ p.issue = "none"}

(* The page after a step: a new mutation, account and store.               *)
Render(m, acct, p) ==
    /\ mutation' = m
    /\ wagmiAccount' = acct
    /\ provider' = p
    /\ asking' = Hydrating(p, acct, m)

(* A new account runs the first effect of every hook, the last one counts. *)
AccountIs(acct, m, p) ==
    IF ~mounted THEN wagmiAccount' = acct /\ UNCHANGED <<mutation, asking, provider>>
    ELSE IF acct = wagmiAccount THEN Render(m, acct, p)
    ELSE \E h \in WalletHooks : Render(m, acct, syncProviderState(p, acct, m, h))

Closed == mutation' = AllIdle /\ asking' = {} /\ leaving' = {} /\ mounted' = FALSE

-----------------------------------------------------------------------------
Open ==
    /\ ~mounted
    /\ mounted' = TRUE
    /\ \E h \in WalletHooks :
           Render(AllIdle, wagmiAccount,
                  syncProviderState(provider, wagmiAccount, AllIdle, h))
    /\ UNCHANGED <<orphans, leaving>>

(* Another page of the site: the store and the connects at work stay.      *)
Navigate ==
    /\ mounted
    /\ orphans' = orphans + Cardinality({h \in WalletHooks : Pending(mutation, h)})
    /\ orphans' <= MaxOrphans
    /\ Closed
    /\ UNCHANGED <<wagmiAccount, provider>>

LoadAgain ==
    /\ Closed
    /\ orphans' = 0
    /\ wagmiAccount' = NoProvider
    /\ provider' = initialProviderState

(* No wallet lets the page in without asking the user, or one does.        *)
readAuthorizedInjectedConnector == BOOLEAN

HydrateAuthorizedInjectedWallet(h) ==
    /\ h \in asking
    /\ \E authorized \in readAuthorizedInjectedConnector :
           IF authorized
           THEN Render([mutation EXCEPT ![h] = "hydrated"], wagmiAccount,
                  [provider EXCEPT !.issue = "none", !.pending = TRUE, !.suppressed = FALSE])
           ELSE asking' = asking \ {h} /\ UNCHANGED <<mutation, wagmiAccount, provider>>
    /\ UNCHANGED <<mounted, orphans, leaving>>

-----------------------------------------------------------------------------
(* connectByName, of a wallet that is there or is not, the connected one   *)
(* or another.                                                             *)
ConnectUnavailable(h) ==
    /\ mounted
    /\ Render(mutation, wagmiAccount, WithIssue(provider, "connector_unavailable"))
    /\ UNCHANGED <<mounted, orphans, leaving>>

ConnectConnected(h) ==
    /\ mounted /\ wagmiAccount # NoProvider
    /\ \E issue \in {"none", "reconnect_required"} :
           Render(mutation, wagmiAccount, WithIssue(provider, issue))
    /\ UNCHANGED <<mounted, orphans, leaving>>

ConnectByName(h) ==
    /\ mounted /\ wagmiAccount = NoProvider /\ ~Pending(mutation, h)
    /\ LET m == [mutation EXCEPT ![h] = "clicked"]
       IN  Render(m, wagmiAccount,
                  syncProviderState([provider EXCEPT !.issue = "none", !.suppressed = FALSE],
                                    wagmiAccount, m, h))
    /\ UNCHANGED <<mounted, orphans, leaving>>

ConnectSucceeds(h) ==
    /\ Pending(mutation, h)
    /\ LET m == [mutation EXCEPT ![h] = "idle"]
       IN  \E a \in ConnectAccounts : AccountIs(a, m, syncProviderState(provider, a, m, h))
    /\ UNCHANGED <<mounted, orphans, leaving>>

(* The effects run in order: the state is synchronized, then the error of  *)
(* the mutation becomes the issue.                                         *)
ConnectFails(h) ==
    /\ Pending(mutation, h)
    /\ LET m == [mutation EXCEPT ![h] = "failed"]
       IN  \E code \in {"user_rejected", "connector_failed"} :
               Render(m, wagmiAccount,
                      WithIssue(syncProviderState(provider, wagmiAccount, m, h), code))
    /\ UNCHANGED <<mounted, orphans, leaving>>

(* A connect nobody watches: only the account tells, where it succeeds.    *)
OrphanAnswers ==
    /\ orphans > 0
    /\ orphans' = orphans - 1
    /\ \/ UNCHANGED <<wagmiAccount, mutation, asking, provider>>
       \/ \E a \in ConnectAccounts : AccountIs(a, mutation, provider)
    /\ UNCHANGED <<mounted, leaving>>

(* The wallet switches its account, or takes the page's leave away.        *)
AccountChanges ==
    /\ wagmiAccount # NoProvider
    /\ \E a \in (ConnectAccounts \cup {NoProvider}) \ {wagmiAccount} :
           AccountIs(a, mutation, provider)
    /\ UNCHANGED <<mounted, orphans, leaving>>

-----------------------------------------------------------------------------
(* The button is there where the store has an address.                     *)
LeaveWallet(h) ==
    /\ mounted /\ provider.address # NoProvider /\ h \notin leaving
    /\ orphans' = orphans + (IF Pending(mutation, h) THEN 1 ELSE 0)
    /\ orphans' <= MaxOrphans
    /\ leaving' = leaving \cup {h}
    /\ LET m == [mutation EXCEPT ![h] = "idle"]
           p == [provider EXCEPT !.issue = "none", !.suppressed = TRUE]
       IN  Render(m, wagmiAccount,
                  IF Pending(mutation, h) THEN syncProviderState(p, wagmiAccount, m, h) ELSE p)
    /\ UNCHANGED mounted

LogoutDone(h) ==
    /\ h \in leaving
    /\ leaving' = leaving \ {h}
    /\ AccountIs(NoProvider, mutation, provider)
    /\ UNCHANGED <<mounted, orphans>>

LogoutFails(h) ==
    /\ h \in leaving
    /\ leaving' = leaving \ {h}
    /\ Render(mutation, wagmiAccount, WithIssue(provider, "connector_failed"))
    /\ UNCHANGED <<mounted, orphans>>

SyncNext ==
    \/ Open \/ Navigate \/ LoadAgain \/ OrphanAnswers \/ AccountChanges
    \/ \E h \in WalletHooks :
           \/ HydrateAuthorizedInjectedWallet(h)
           \/ ConnectUnavailable(h) \/ ConnectConnected(h) \/ ConnectByName(h)
           \/ ConnectSucceeds(h) \/ ConnectFails(h)
           \/ LeaveWallet(h) \/ LogoutDone(h) \/ LogoutFails(h)

SyncSpec == SyncInit /\ [][SyncNext]_syncVars

-----------------------------------------------------------------------------
(* The page opens the wallet's prompt on its own only while no wallet is   *)
(* connected, none was disconnected on purpose and none just refused: a    *)
(* rejected prompt does not come back by itself, nor does a wallet the     *)
(* user signed out of, whichever hook had begun to look for one.           *)
PromptsAreWanted ==
    [][\A h \in WalletHooks :
           mutation'[h] = "hydrated" /\ mutation[h] # "hydrated" =>
               wagmiAccount = NoProvider /\ ~provider.suppressed /\ provider.issue = "none"]_syncVars

(* The connect buttons wait only for a connect at work: no order of mounts,*)
(* answers and failures leaves them disabled for good.                     *)
SpinnerHasCause ==
    mounted /\ provider.pending => \E h \in WalletHooks : Pending(mutation, h)
=============================================================================
