----------------------------- MODULE WalletSession -----------------------------
(***************************************************************************)
(* Wallet verification: the handlers under app/api/wallet-auth, their two  *)
(* tables and cookie, and the page that verifies the connected account.    *)
(*                                                                         *)
(* A handler runs one database statement per step, beside the others; any  *)
(* statement may fail and any reply may be lost.  Another tab of the same  *)
(* browser shares the cookie.  Chains and encodings of addresses are left  *)
(* out: an address is an account, a signature is the account that signed.  *)
(***************************************************************************)
EXTENDS Integers, FiniteSets

CONSTANTS
    VerifyAccounts,     \* accounts of the wallet
    ChallengeIds,       \* rows of wallet_auth_challenges, and so the bound on them
    MaxSessions,        \* bound on the rows of wallet_auth_sessions
    MaxRequests         \* bound on the handlers at work at once

NoWallet == "no wallet"

ASSUME SessionAssumption ==
    /\ NoWallet \notin VerifyAccounts
    /\ MaxSessions \in Nat
    /\ MaxRequests \in Nat

NoSessionCookie == 0
Kept == -1                  \* a reply that says nothing of the cookie
NoFetch == -1
NoChallenge == [wallet |-> NoWallet, state |-> "absent"]
NoSessionRow == [wallet |-> NoWallet, signer |-> NoWallet, state |-> "absent"]
NoRequest == [op |-> "none"]
IdleFlow == [stage |-> "idle"]

VARIABLES
    authTables,     \* the promise of ensureWalletAuthTables is fulfilled
    challenges,     \* wallet_auth_challenges
    sessions,       \* wallet_auth_sessions, with the account that signed
    requests,       \* the handlers at work
    sessionCookie,  \* flowdex_wallet_session of the browser
    replyLost,      \* some reply never reached the browser
    account,        \* the account the wallet reports to the page
    query,          \* the session query of the page: its data, its fetch
    verification,   \* the verification state of the store
    flow            \* verifyWallet of the page

serverVars == <<authTables, challenges, sessions>>
pageVars == <<account, query, verification, flow>>
sessionVars == <<serverVars, requests, sessionCookie, replyLost, pageVars>>

AuthRequests == 1..MaxRequests
SessionIds == 1..MaxSessions
Wallets == VerifyAccounts \cup {NoWallet}
CookieValues == SessionIds \cup {NoSessionCookie}

RequestRows ==
    [op : {"verify"}, mine : BOOLEAN, stage : {"clear", "select", "mark", "insert"},
     cookie : CookieValues, challenge : ChallengeIds, wallet : VerifyAccounts,
     signer : VerifyAccounts]
    \cup [op : {"logout"}, mine : BOOLEAN, stage : {"clear"}, cookie : CookieValues]
    \cup [op : {"reply"}, of : {"verify", "logout"}, mine : BOOLEAN,
          cookie : CookieValues \cup {Kept}, verified : Wallets]

SessionTypeOK ==
    /\ authTables \in BOOLEAN
    /\ challenges \in [ChallengeIds -> {NoChallenge} \cup
                        [wallet : VerifyAccounts, state : {"fresh", "used", "expired"}]]
    /\ sessions \in [SessionIds -> {NoSessionRow} \cup
                      [wallet : VerifyAccounts, signer : VerifyAccounts,
                       state : {"live", "invalidated"}]]
    /\ requests \in [AuthRequests -> RequestRows \cup {NoRequest}]
    /\ sessionCookie \in CookieValues
    /\ replyLost \in BOOLEAN
    /\ account \in Wallets
    /\ query \in [data : Wallets, fetch : CookieValues \cup {NoFetch}]
    /\ verification \in [status : {"unverified", "verifying", "verified"}, wallet : Wallets]

Unverified == [status |-> "unverified", wallet |-> NoWallet]

setVerificationState(status, wallet) ==
    verification' = [status |-> status, wallet |-> wallet]
resetVerificationState == verification' = Unverified

SessionInit ==
    /\ authTables = FALSE
    /\ challenges = [c \in ChallengeIds |-> NoChallenge]
    /\ sessions = [s \in SessionIds |-> NoSessionRow]
    /\ requests = [r \in AuthRequests |-> NoRequest]
    /\ sessionCookie = NoSessionCookie
    /\ replyLost = FALSE
    /\ account = NoWallet
    /\ query = [data |-> NoWallet, fetch |-> NoFetch]
    /\ verification = Unverified
    /\ flow = IdleFlow

-----------------------------------------------------------------------------
(* Statements of the handlers.                                             *)

(* ensureWalletAuthTables: one promise for all requests, which all wait    *)
(* for it.  When it fails they fail (StatementFails), and the next request *)
(* tries again.                                                            *)
EnsureTables ==
    /\ ~authTables
    /\ authTables' = TRUE
    /\ UNCHANGED <<challenges, sessions, requests, sessionCookie, replyLost, pageVars>>

Reply(q, cookie, wallet) ==
    [op |-> "reply", of |-> q.op, mine |-> q.mine, cookie |-> cookie, verified |-> wallet]

(* Faulty: a failed verification leaves the cookie alone.                  *)
MutantFailedReply(q) == Reply(q, Kept, NoWallet)

(* A failed verification clears the cookie, a failed logout keeps it.      *)
FailedReply(q) == Reply(q, IF q.op = "verify" THEN NoSessionCookie ELSE Kept, NoWallet)

Answer(r, cookie, wallet) ==
    requests' = [requests EXCEPT ![r] = Reply(requests[r], cookie, wallet)]

Continue(r, stage) == requests' = [requests EXCEPT ![r].stage = stage]

Invalidated(s) ==
    IF s = NoSessionCookie THEN sessions ELSE [sessions EXCEPT ![s].state = "invalidated"]

(* Both handlers first invalidate the session of the cookie; for a logout  *)
(* that is all.                                                            *)
ClearWalletSession(r) ==
    LET q == requests[r] IN
    /\ q.op \in {"verify", "logout"} /\ q.stage = "clear"
    /\ q.cookie # NoSessionCookie => authTables
    /\ sessions' = Invalidated(q.cookie)
    /\ IF q.op = "logout" THEN Answer(r, NoSessionCookie, NoWallet) ELSE Continue(r, "select")
    /\ UNCHANGED <<authTables, challenges, sessionCookie, replyLost, pageVars>>

(* Faulty: any well-formed signature will do.                              *)
MutantAccepts(q) ==
    /\ challenges[q.challenge].wallet = q.wallet
    /\ challenges[q.challenge].state = "fresh"

(* The challenge is of the claimed account, neither used nor expired, and  *)
(* the signature of its message is that account's.                         *)
Accepts(q) ==
    /\ challenges[q.challenge].wallet = q.wallet
    /\ challenges[q.challenge].state = "fresh"
    /\ q.signer = q.wallet

SelectChallenge(r) ==
    LET q == requests[r] IN
    /\ q.op = "verify" /\ q.stage = "select" /\ authTables
    /\ IF Accepts(q) THEN Continue(r, "mark")
       ELSE requests' = [requests EXCEPT ![r] = FailedReply(q)]
    /\ UNCHANGED <<serverVars, sessionCookie, replyLost, pageVars>>

(* The UPDATE does not look at used_at again.                              *)
MarkUsed(r) ==
    LET q == requests[r] IN
    /\ q.op = "verify" /\ q.stage = "mark"
    /\ challenges' = [challenges EXCEPT ![q.challenge].state = "used"]
    /\ Continue(r, "insert")
    /\ UNCHANGED <<authTables, sessions, sessionCookie, replyLost, pageVars>>

InsertSession(r) ==
    LET q == requests[r]
        s == 1 + Cardinality({i \in SessionIds : sessions[i] # NoSessionRow}) IN
    /\ q.op = "verify" /\ q.stage = "insert"
    /\ s \in SessionIds
    /\ sessions' = [sessions EXCEPT ![s] = [wallet |-> q.wallet, signer |-> q.signer,
                                            state |-> "live"]]
    /\ Answer(r, s, q.wallet)
    /\ UNCHANGED <<authTables, challenges, sessionCookie, replyLost, pageVars>>

StatementFails(r) ==
    /\ requests[r].op \in {"verify", "logout"}
    /\ requests' = [requests EXCEPT ![r] = FailedReply(requests[r])]
    /\ UNCHANGED <<serverVars, sessionCookie, replyLost, pageVars>>

(* A challenge is good for some minutes.                                   *)
ExpireChallenge(c) ==
    /\ challenges[c].state = "fresh"
    /\ challenges' = [challenges EXCEPT ![c].state = "expired"]
    /\ UNCHANGED <<authTables, sessions, requests, sessionCookie, replyLost, pageVars>>

-----------------------------------------------------------------------------
(* The page.                                                               *)

(* The effect that compares the account with the session data runs when    *)
(* either of them changed.                                                 *)
VerificationEffect(a, data) ==
    IF a = account /\ data = query.data THEN UNCHANGED verification
    ELSE IF a # NoWallet /\ a = data THEN setVerificationState("verified", a)
    ELSE resetVerificationState

(* The buyer connects, switches or disconnects the account.                *)
ReportAccount(a) ==
    /\ account # a
    /\ account' = a
    /\ VerificationEffect(a, query.data)
    /\ UNCHANGED <<serverVars, requests, sessionCookie, replyLost, query, flow>>

(* useWalletSession.  A fetch carries the cookie of the moment it starts;  *)
(* one that is started anew drops the one under way.                       *)
FetchSession ==
    /\ query.fetch = NoFetch
    /\ query' = [query EXCEPT !.fetch = sessionCookie]
    /\ UNCHANGED <<serverVars, requests, sessionCookie, replyLost, account, verification, flow>>

(* The wallet of a session, or none: the session may also have expired.    *)
ReadWalletSession(s) ==
    {NoWallet} \cup (IF s # NoSessionCookie /\ sessions[s].state = "live" THEN {sessions[s].wallet}
                     ELSE {})

(* The answer arrives, or the fetch failed and the data stays.             *)
SessionFetched ==
    /\ query.fetch # NoFetch
    /\ \E w \in ReadWalletSession(query.fetch) \cup {query.data} :
           /\ query' = [data |-> w, fetch |-> NoFetch]
           /\ VerificationEffect(account, w)
    /\ UNCHANGED <<serverVars, requests, sessionCookie, replyLost, account, flow>>

FreeSlot(r) ==
    /\ requests[r] = NoRequest
    /\ \A i \in AuthRequests : i < r => requests[i] # NoRequest

(* verifyWallet: a challenge for the account of this moment is inserted.   *)
CreateWalletChallenge(c) ==
    /\ flow = IdleFlow /\ account # NoWallet /\ authTables
    /\ challenges[c] = NoChallenge
    /\ challenges' = [challenges EXCEPT ![c] = [wallet |-> account, state |-> "fresh"]]
    /\ setVerificationState("verifying", NoWallet)
    /\ flow' = [stage |-> "sign", wallet |-> account, challenge |-> c]
    /\ UNCHANGED <<authTables, sessions, requests, sessionCookie, replyLost, account, query>>

(* wagmiSignMessage signs with the account connected by now, and the       *)
(* answer is posted with the account of the challenge.  The other tab      *)
(* runs the same code.                                                     *)
PostVerify(r, c, signer, mine) ==
    /\ FreeSlot(r)
    /\ challenges[c] # NoChallenge
    /\ IF mine
       THEN /\ flow # IdleFlow /\ flow.stage = "sign" /\ flow.challenge = c
            /\ account # NoWallet /\ signer = account
            /\ flow' = [stage |-> "post", wallet |-> flow.wallet, challenge |-> c]
       ELSE signer = challenges[c].wallet /\ UNCHANGED flow
    /\ requests' = [requests EXCEPT ![r] =
           [op |-> "verify", mine |-> mine, cookie |-> sessionCookie, challenge |-> c,
            wallet |-> challenges[c].wallet, signer |-> signer,
            stage |-> IF sessionCookie = NoSessionCookie THEN "select" ELSE "clear"]]
    /\ UNCHANGED <<serverVars, sessionCookie, replyLost, account, query, verification>>

(* disconnectWallet resets the store at once and does not wait for the     *)
(* logout; the other tab may log out too.                                  *)
PostLogout(r, mine) ==
    /\ FreeSlot(r)
    /\ requests' = [requests EXCEPT ![r] = [op |-> "logout", mine |-> mine, stage |-> "clear",
                                            cookie |-> sessionCookie]]
    /\ IF mine THEN resetVerificationState ELSE UNCHANGED verification
    /\ UNCHANGED <<serverVars, sessionCookie, replyLost, account, query, flow>>

(* The browser stores the cookie of the reply.  After a verification or a  *)
(* logout the page throws its session data away or fetches it anew, and    *)
(* verifyWallet goes on when that fetch has ended.                         *)
ReplyArrives(r) ==
    LET q == requests[r]
        cookie == IF q.cookie = Kept THEN sessionCookie ELSE q.cookie
        awaited == q.op = "reply" /\ q.mine /\ q.of = "verify" IN
    /\ q.op = "reply"
    /\ requests' = [requests EXCEPT ![r] = NoRequest]
    /\ sessionCookie' = cookie
    /\ query' = IF ~q.mine THEN query
                ELSE IF q.of = "logout" THEN [data |-> NoWallet, fetch |-> NoFetch]
                ELSE IF q.verified # NoWallet THEN [query EXCEPT !.fetch = cookie]
                ELSE query
    /\ flow' = IF ~awaited THEN flow
               ELSE IF q.verified = NoWallet THEN IdleFlow
               ELSE [stage |-> "refetch", wallet |-> q.verified]
    /\ IF awaited /\ q.verified = NoWallet THEN resetVerificationState
       ELSE VerificationEffect(account, query'.data)
    /\ UNCHANGED <<serverVars, replyLost, account>>

(* The connection breaks before the reply: a failure for the page, and the *)
(* cookie stays as it is.                                                  *)
ReplyIsLost(r) ==
    LET q == requests[r] IN
    /\ q.op = "reply"
    /\ requests' = [requests EXCEPT ![r] = NoRequest]
    /\ replyLost' = TRUE
    /\ IF q.mine /\ q.of = "verify" THEN flow' = IdleFlow /\ resetVerificationState
       ELSE UNCHANGED <<flow, verification>>
    /\ UNCHANGED <<serverVars, sessionCookie, account, query>>

(* Faulty: the account is read anew when the verification has succeeded.   *)
MutantVerifyEnds ==
    /\ flow # IdleFlow
    /\ \/ flow.stage = "refetch" /\ query.fetch = NoFetch /\ account # NoWallet
          /\ setVerificationState("verified", account)
       \/ flow.stage = "sign" /\ resetVerificationState
    /\ flow' = IdleFlow
    /\ UNCHANGED <<serverVars, requests, sessionCookie, replyLost, account, query>>

(* The end of verifyWallet, whatever the account is by now; or the buyer   *)
(* refused to sign.                                                        *)
VerifyEnds ==
    /\ flow # IdleFlow
    /\ \/ flow.stage = "refetch" /\ query.fetch = NoFetch
          /\ setVerificationState("verified", flow.wallet)
       \/ flow.stage = "sign" /\ resetVerificationState
    /\ flow' = IdleFlow
    /\ UNCHANGED <<serverVars, requests, sessionCookie, replyLost, account, query>>

SessionNext ==
    \/ EnsureTables
    \/ \E r \in AuthRequests :
           \/ ClearWalletSession(r) \/ SelectChallenge(r) \/ MarkUsed(r)
           \/ InsertSession(r) \/ StatementFails(r) \/ ReplyArrives(r) \/ ReplyIsLost(r)
           \/ \E mine \in BOOLEAN :
                  \/ PostLogout(r, mine)
                  \/ \E c \in ChallengeIds, signer \in VerifyAccounts :
                         PostVerify(r, c, signer, mine)
    \/ \E a \in Wallets : ReportAccount(a)
    \/ FetchSession \/ SessionFetched
    \/ \E c \in ChallengeIds : CreateWalletChallenge(c) \/ ExpireChallenge(c)
    \/ VerifyEnds

SessionSpec == SessionInit /\ [][SessionNext]_sessionVars

-----------------------------------------------------------------------------
(* A browser that has all its answers never holds the cookie of a session  *)
(* that was invalidated: whoever invalidates one also replaces or clears   *)
(* the cookie, also when the verification that follows fails.              *)
CookieIsLive ==
    /\ ~replyLost
    /\ \A r \in AuthRequests : requests[r] = NoRequest
    /\ sessionCookie # NoSessionCookie
    => sessions[sessionCookie].state # "invalidated"

(* A session is of the account that signed, although the wallet may switch *)
(* accounts between the challenge and the signature and again before the   *)
(* answer.                                                                 *)
SessionsAreSigned == \A s \in SessionIds : sessions[s].signer = sessions[s].wallet

(* What the page shows as verified was verified: a session of that very    *)
(* account was made, however late answers arrive and the account changes.  *)
VerifiedHasSession ==
    verification.status = "verified" =>
        \E s \in SessionIds : sessions[s].wallet = verification.wallet
=============================================================================
