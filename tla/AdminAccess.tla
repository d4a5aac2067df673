------------------------------- MODULE AdminAccess -------------------------------
(***************************************************************************)
(* Administrators: credentials, profiles and tokens in the backend         *)
(* (modules/auth-context, modules/users), and the browser that signs in    *)
(* and is sent back and forth between the login page and the admin pages   *)
(* (fe, lib/admin-auth.server.ts, lib/auth-server.ts, app/login).          *)
(*                                                                         *)
(* The backend writes user, credential and profile in separate statements  *)
(* without a transaction; each is a step.  Passwords stand for themselves  *)
(* and for their hashes; Legacy is the password of the environment, valid  *)
(* for LegacyAdmin until the table has a credential of that administrator. *)
(***************************************************************************)
EXTENDS Naturals

CONSTANTS
    AdminEmails,    \* the allowlist
    LegacyAdmin,    \* ADMIN_EMAIL
    Passwords,      \* passwords chosen over the API
    AdminHandlers,  \* requests in flight at once
    MaxRedirects    \* redirects after which the browser gives up

Legacy == "legacy"
NoCredential == "none"

ASSUME AccessAssumption == NoCredential \notin Passwords /\ MaxRedirects \in Nat

VARIABLES
    authUsers,      \* auth_users
    credentials,    \* auth_accounts of provider credential
    profiles,       \* user_profiles
    adminOps,       \* requests in flight
    cookie,         \* the session cookie of the browser
    tab,            \* what the browser shows
    signOffs,       \* a logout request nobody waits for is in flight
    rotated         \* the backend was given another signing secret

accessTables == <<authUsers, credentials, profiles>>
browserVars == <<cookie, tab, signOffs>>
accessVars == <<accessTables, adminOps, browserVars, rotated>>

Hashes == Passwords \cup {Legacy}
NoCookie == [state |-> "none"]
Cookies == [email : AdminEmails, state : {"valid", "expired", "rejected"}]
IdleOp == [pc |-> "idle"]
AdminOps ==
    [pc : {"user", "find", "insert", "update", "profile", "done"},
     op : {"login", "create", "change"}, email : AdminEmails, hash : Hashes]

Tabs ==
    [at : {"form", "posting", "bootstrapping", "signing off", "to admin", "to login",
           "admin", "gave up", "broken"},
     error : BOOLEAN, redirects : 0..MaxRedirects]
Tab(at, error, redirects) == [at |-> at, error |-> error, redirects |-> redirects]

AccessTypeOK ==
    /\ authUsers \subseteq AdminEmails
    /\ credentials \in [AdminEmails -> Hashes \cup {NoCredential}]
    /\ profiles \in [AdminEmails -> {"NONE", "ACTIVE", "SUSPENDED"}]
    /\ adminOps \in [AdminHandlers -> AdminOps \cup {IdleOp}]
    /\ cookie \in Cookies \cup {NoCookie}
    /\ tab \in Tabs
    /\ signOffs \in BOOLEAN /\ rotated \in BOOLEAN

AccessInit ==
    /\ authUsers = {}
    /\ credentials = [e \in AdminEmails |-> NoCredential]
    /\ profiles = [e \in AdminEmails |-> "NONE"]
    /\ adminOps = [h \in AdminHandlers |-> IdleOp]
    /\ cookie = NoCookie
    /\ tab = Tab("form", FALSE, 0)
    /\ signOffs = FALSE
    /\ rotated = FALSE

-----------------------------------------------------------------------------
(* The backend.                                                            *)

Op(h, op, pc, email, hash) ==
    adminOps' = [adminOps EXCEPT ![h] =
        [pc |-> pc, op |-> op, email |-> email, hash |-> hash]]

GoOn(h, pc) == adminOps' = [adminOps EXCEPT ![h].pc = pc]

(* A login with a password that is not verified is refused.                *)
Login(h, email, password) ==
    /\ adminOps[h] = IdleOp
    /\ \/ /\ credentials[email] = password
          /\ Op(h, "login", "profile", email, password)
       \/ /\ credentials[email] = NoCredential
          /\ email = LegacyAdmin /\ password = Legacy
          /\ Op(h, "login", "user", email, Legacy)
    /\ UNCHANGED accessTables

CreateAdminUser(h, email, password) ==
    /\ adminOps[h] = IdleOp
    /\ credentials[email] = NoCredential
    /\ Op(h, "create", "user", email, password)
    /\ UNCHANGED <<accessTables, browserVars, rotated>>

ChangeAdminPassword(h, email, password) ==
    /\ adminOps[h] = IdleOp
    /\ credentials[email] # NoCredential
    /\ Op(h, "change", "update", email, password)
    /\ UNCHANGED <<accessTables, browserVars, rotated>>

SaveAuthUser(h) ==
    /\ adminOps[h].pc = "user"
    /\ authUsers' = authUsers \cup {adminOps[h].email}
    /\ GoOn(h, "find")
    /\ UNCHANGED <<credentials, profiles, browserVars, rotated>>

FindCredentialAccount(h) ==
    /\ adminOps[h].pc = "find"
    /\ GoOn(h, IF credentials[adminOps[h].email] = NoCredential THEN "insert"
               ELSE "update")
    /\ UNCHANGED <<accessTables, browserVars, rotated>>

(* The unique index refuses a second credential of an administrator.       *)
SaveCredential(h) ==
    LET email == adminOps[h].email IN
    /\ \/ adminOps[h].pc = "insert" /\ credentials[email] = NoCredential
       \/ adminOps[h].pc = "update"
    /\ credentials' = [credentials EXCEPT ![email] = adminOps[h].hash]
    /\ GoOn(h, "profile")
    /\ UNCHANGED <<authUsers, profiles, browserVars, rotated>>

(* syncProfile leaves the status of a profile alone.                       *)
Synced(email) ==
    IF profiles[email] = "NONE" THEN [profiles EXCEPT ![email] = "ACTIVE"] ELSE profiles

SyncProfile(h) ==
    /\ adminOps[h].pc = "profile"
    /\ profiles' = Synced(adminOps[h].email)
    /\ GoOn(h, "done")
    /\ UNCHANGED <<authUsers, credentials, browserVars, rotated>>

(* The request is answered, or it fails or the server stops on the way.    *)
EndOp(h) ==
    /\ adminOps[h] # IdleOp /\ adminOps[h].op # "login"
    /\ adminOps' = [adminOps EXCEPT ![h] = IdleOp]
    /\ UNCHANGED <<accessTables, browserVars, rotated>>

Suspend(email) ==
    /\ profiles[email] = "ACTIVE"
    /\ profiles' = [profiles EXCEPT ![email] = "SUSPENDED"]
    /\ UNCHANGED <<authUsers, credentials, adminOps, browserVars, rotated>>

-----------------------------------------------------------------------------
(* The browser.                                                            *)

ExpireToken ==
    /\ cookie.state \in {"valid", "rejected"}
    /\ cookie' = [cookie EXCEPT !.state = "expired"]
    /\ UNCHANGED <<accessTables, adminOps, tab, signOffs, rotated>>

(* The frontend reads the expiry of a token, the backend verifies it.      *)
RotateSecret ==
    /\ ~rotated
    /\ rotated' = TRUE
    /\ cookie' = IF cookie.state = "valid" THEN [cookie EXCEPT !.state = "rejected"]
                 ELSE cookie
    /\ UNCHANGED <<accessTables, adminOps, tab, signOffs>>

VisitAdmin ==
    /\ tab.at \in {"form", "admin", "gave up", "broken"}
    /\ tab' = Tab("to admin", FALSE, 0)
    /\ UNCHANGED <<accessTables, adminOps, cookie, signOffs, rotated>>

(* proxy and requireAdminAppContext.                                       *)
ServeAdmin ==
    /\ tab.at = "to admin"
    /\ \/ /\ cookie.state # "valid"
          /\ tab' = Tab("to login", FALSE, tab.redirects)
          /\ UNCHANGED profiles
       \/ /\ cookie.state = "valid"
          /\ profiles' = Synced(cookie.email)
          /\ tab' = IF profiles'[cookie.email] = "ACTIVE" THEN Tab("admin", FALSE, 0)
                    ELSE Tab("to login", TRUE, tab.redirects)
       \/ tab' = Tab("broken", FALSE, 0) /\ UNCHANGED profiles
    /\ UNCHANGED <<authUsers, credentials, adminOps, cookie, signOffs, rotated>>

HasUnexpiredToken == cookie.state \in {"valid", "rejected"}

(* Faulty: a token alone sends the browser on.                             *)
MutantServeLogin ==
    /\ tab.at = "to login"
    /\ tab' = IF ~HasUnexpiredToken THEN Tab("form", tab.error, 0)
              ELSE IF tab.redirects < MaxRedirects
              THEN Tab("to admin", FALSE, tab.redirects + 1)
              ELSE Tab("gave up", FALSE, tab.redirects)
    /\ signOffs' = (signOffs \/ (tab'.at = "form" /\ tab.error))
    /\ UNCHANGED <<accessTables, adminOps, cookie, rotated>>

(* The login page; a form that opens with an error sends a logout request  *)
(* and does not wait for it.                                               *)
ServeLogin ==
    /\ tab.at = "to login"
    /\ tab' = IF ~HasUnexpiredToken \/ tab.error THEN Tab("form", tab.error, 0)
              ELSE IF tab.redirects < MaxRedirects
              THEN Tab("to admin", FALSE, tab.redirects + 1)
              ELSE Tab("gave up", FALSE, tab.redirects)
    /\ signOffs' = (signOffs \/ (tab'.at = "form" /\ tab.error))
    /\ UNCHANGED <<accessTables, adminOps, cookie, rotated>>

LogoutArrives ==
    /\ signOffs
    /\ signOffs' = FALSE
    /\ cookie' \in {NoCookie, cookie}
    /\ UNCHANGED <<accessTables, adminOps, tab, rotated>>

SubmitLogin(h, email, password) ==
    /\ tab.at = "form"
    /\ \A g \in AdminHandlers : adminOps[g] # IdleOp => adminOps[g].op # "login"
    /\ Login(h, email, password)
    /\ tab' = Tab("posting", FALSE, 0)
    /\ UNCHANGED <<cookie, signOffs, rotated>>

(* Faulty: the token is handed out before the profile is there.            *)
MutantLoginSucceeds(h) ==
    /\ tab.at = "posting"
    /\ adminOps[h] # IdleOp /\ adminOps[h].pc \in {"profile", "done"}
    /\ adminOps[h].op = "login"
    /\ cookie' = [email |-> adminOps[h].email, state |-> "valid"]
    /\ tab' = Tab("bootstrapping", FALSE, 0)
    /\ adminOps' = [adminOps EXCEPT ![h] = IdleOp]
    /\ UNCHANGED <<accessTables, signOffs, rotated>>

LoginSucceeds(h) ==
    /\ tab.at = "posting"
    /\ adminOps[h].pc = "done" /\ adminOps[h].op = "login"
    /\ cookie' = [email |-> adminOps[h].email, state |-> "valid"]
    /\ tab' = Tab("bootstrapping", FALSE, 0)
    /\ adminOps' = [adminOps EXCEPT ![h] = IdleOp]
    /\ UNCHANGED <<accessTables, signOffs, rotated>>

(* A refusal clears the cookie, an answer that never comes does not.       *)
LoginFails(h) ==
    /\ tab.at = "posting"
    /\ adminOps[h] # IdleOp /\ adminOps[h].op = "login"
    /\ cookie' \in {NoCookie, cookie}
    /\ tab' = Tab("form", TRUE, 0)
    /\ adminOps' = [adminOps EXCEPT ![h] = IdleOp]
    /\ UNCHANGED <<accessTables, signOffs, rotated>>

(* bootstrapAppSession asks the backend who is signed in.                  *)
Bootstrap ==
    /\ tab.at = "bootstrapping"
    /\ \/ /\ cookie.state = "valid"
          /\ profiles' = Synced(cookie.email)
          /\ profiles'[cookie.email] = "ACTIVE"
          /\ tab' = Tab("to admin", FALSE, 0)
       \/ tab' = Tab("signing off", TRUE, 0) /\ UNCHANGED profiles
    /\ UNCHANGED <<authUsers, credentials, adminOps, cookie, signOffs, rotated>>

SignOff ==
    /\ tab.at = "signing off"
    /\ \/ cookie' = NoCookie /\ tab' = Tab("form", TRUE, 0)
       \/ tab' = Tab("broken", FALSE, 0) /\ UNCHANGED cookie
    /\ UNCHANGED <<accessTables, adminOps, signOffs, rotated>>

SignOutButton ==
    /\ tab.at = "admin"
    /\ cookie' = NoCookie
    /\ tab' = Tab("to login", FALSE, 0)
    /\ UNCHANGED <<accessTables, adminOps, signOffs, rotated>>

BrowserStep ==
    \/ ExpireToken \/ RotateSecret \/ VisitAdmin \/ ServeAdmin \/ ServeLogin
    \/ LogoutArrives \/ Bootstrap \/ SignOff \/ SignOutButton

AccessNext ==
    \/ \E h \in AdminHandlers :
         \/ \E email \in AdminEmails :
              \/ \E password \in Hashes : SubmitLogin(h, email, password)
              \/ \E password \in Passwords :
                   \/ CreateAdminUser(h, email, password)
                   \/ ChangeAdminPassword(h, email, password)
         \/ SaveAuthUser(h)
         \/ FindCredentialAccount(h)
         \/ SaveCredential(h)
         \/ SyncProfile(h)
         \/ EndOp(h)
         \/ LoginSucceeds(h)
         \/ LoginFails(h)
    \/ \E email \in AdminEmails : Suspend(email)
    \/ BrowserStep

AccessSpec == AccessInit /\ [][AccessNext]_accessVars

-----------------------------------------------------------------------------
(* Properties.                                                             *)

(* Wherever a request stops between its statements, a credential belongs   *)
(* to a user that exists, and a browser holds a token only of somebody who *)
(* has a profile.                                                          *)
AdminRowsInOrder ==
    /\ \A email \in AdminEmails : credentials[email] # NoCredential => email \in authUsers
    /\ cookie # NoCookie => profiles[cookie.email] # "NONE"

(* The login page and the admin pages do not send a browser round in       *)
(* circles, whatever happens to its token, its profile and the logout it   *)
(* did not wait for; except after the signing secret changed, when the     *)
(* frontend keeps trusting a token that the backend refuses.               *)
RedirectsEnd == tab.at = "gave up" => rotated
=============================================================================
