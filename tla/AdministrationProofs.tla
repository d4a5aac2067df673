-------------------------- MODULE AdministrationProofs --------------------------
(***************************************************************************)
(* Proofs about AdminAccess and Blogs, for any set of administrators,      *)
(* requests in flight, posts and images.                                   *)
(***************************************************************************)
EXTENDS AdminAccess, Blogs, TLAPS

-----------------------------------------------------------------------------
(* Administrators.                                                         *)

(* A request past its first statement has its user, a finished one its     *)
(* profile.                                                                *)
OpsInOrder ==
    \A h \in AdminHandlers :
        /\ adminOps[h].pc \in {"find", "insert", "update", "profile", "done"} =>
               adminOps[h].email \in authUsers
        /\ adminOps[h].pc = "done" => profiles[adminOps[h].email] # "NONE"

(* Until the secret changes, both ends judge a token alike: whoever the    *)
(* admin pages sent to the login page without an error has none.           *)
TokenIsTrusted ==
    ~rotated =>
        /\ cookie.state # "rejected"
        /\ tab.at = "to login" /\ ~tab.error => cookie.state # "valid"

AccessInv ==
    AccessTypeOK /\ AdminRowsInOrder /\ OpsInOrder /\ TokenIsTrusted /\ RedirectsEnd

LEMMA AccessInitHolds == AccessInit => AccessInv
<1> SUFFICES ASSUME AccessInit PROVE AccessInv
    OBVIOUS
<1>1. Tab("form", FALSE, 0) \in Tabs /\ Tab("form", FALSE, 0).at = "form"
    BY AccessAssumption DEF Tab, Tabs
<1>2. AccessTypeOK
    BY <1>1 DEF AccessInit, AccessTypeOK
<1>3. AdminRowsInOrder /\ OpsInOrder
    BY DEF AccessInit, AdminRowsInOrder, OpsInOrder, IdleOp
<1>4. TokenIsTrusted /\ RedirectsEnd
    BY <1>1 DEF AccessInit, TokenIsTrusted, RedirectsEnd, NoCookie
<1>5. QED
    BY <1>2, <1>3, <1>4 DEF AccessInv

(* The rows of requests in flight.                                         *)
LEMMA OpRows ==
    ASSUME AccessTypeOK, NEW h \in AdminHandlers
    PROVE  /\ adminOps[h].pc # "idle" => adminOps[h] \in AdminOps
           /\ adminOps[h] # IdleOp => adminOps[h] \in AdminOps
           /\ adminOps[h] \in AdminOps =>
                  \A pc \in {"user", "find", "insert", "update", "profile", "done"} :
                      LET new == [adminOps[h] EXCEPT !.pc = pc]
                      IN  /\ new \in AdminOps /\ new.pc = pc
                          /\ new.email = adminOps[h].email
           /\ \A op \in {"login", "create", "change"},
                 pc \in {"user", "find", "insert", "update", "profile", "done"},
                 email \in AdminEmails, hash \in Hashes :
                  [pc |-> pc, op |-> op, email |-> email, hash |-> hash] \in AdminOps
           /\ adminOps[h] \in AdminOps =>
                  adminOps[h].email \in AdminEmails /\ adminOps[h].hash \in Hashes
BY DEF AccessTypeOK, AdminOps, IdleOp

(* The steps of the requests that leave cookie, tab and profiles alone, or *)
(* give somebody a profile.                                                *)
BackendKept ==
    /\ UNCHANGED <<cookie, tab, signOffs, rotated>>
    /\ profiles' \in [AdminEmails -> {"NONE", "ACTIVE", "SUSPENDED"}]
    /\ \A email \in AdminEmails : profiles[email] # "NONE" => profiles'[email] # "NONE"
    /\ authUsers \subseteq authUsers' /\ authUsers' \subseteq AdminEmails

LEMMA BackendKeeps ==
    ASSUME AccessInv, BackendKept,
           adminOps' \in [AdminHandlers -> AdminOps \cup {IdleOp}],
           credentials' \in [AdminEmails -> Hashes \cup {NoCredential}],
           \A email \in AdminEmails : credentials'[email] # NoCredential => email \in authUsers',
           \A h \in AdminHandlers : adminOps'[h] # adminOps[h] =>
               /\ adminOps'[h].pc \in {"find", "insert", "update", "profile", "done"} =>
                      adminOps'[h].email \in authUsers'
               /\ adminOps'[h].pc = "done" => profiles'[adminOps'[h].email] # "NONE"
    PROVE  AccessInv'
<1> USE DEF AccessInv, BackendKept
<1>1. AccessTypeOK'
    BY DEF AccessTypeOK
<1>2. AdminRowsInOrder'
    BY DEF AdminRowsInOrder, AccessTypeOK, Cookies
<1>3. OpsInOrder'
    <2>1. \A h \in AdminHandlers : adminOps[h].pc = "done" => adminOps[h].email \in AdminEmails
        BY OpRows
    <2>2. QED
        BY <2>1 DEF OpsInOrder
<1>4. TokenIsTrusted' /\ RedirectsEnd'
    BY DEF TokenIsTrusted, RedirectsEnd
<1>5. QED
    BY <1>1, <1>2, <1>3, <1>4

LEMMA SyncedProfiles ==
    ASSUME AccessTypeOK, NEW email \in AdminEmails
    PROVE  /\ Synced(email) \in [AdminEmails -> {"NONE", "ACTIVE", "SUSPENDED"}]
           /\ Synced(email)[email] # "NONE"
           /\ \A other \in AdminEmails : profiles[other] # "NONE" => Synced(email)[other] # "NONE"
BY DEF AccessTypeOK, Synced

(* Whoever the cookie names has a profile already, so reading it with      *)
(* syncProfile loses none.                                                 *)
LEMMA ProfilesGrow ==
    ASSUME AccessTypeOK, cookie.state = "valid" \/ UNCHANGED profiles,
           profiles' = Synced(cookie.email) \/ UNCHANGED profiles
    PROVE  /\ profiles' \in [AdminEmails -> {"NONE", "ACTIVE", "SUSPENDED"}]
           /\ \A email \in AdminEmails : profiles[email] # "NONE" => profiles'[email] # "NONE"
<1>1. cookie.state = "valid" => cookie.email \in AdminEmails
    BY DEF AccessTypeOK, Cookies, NoCookie
<1>2. QED
    BY <1>1, SyncedProfiles DEF AccessTypeOK

TabPlaces ==
    {"form", "posting", "bootstrapping", "signing off", "to admin", "to login", "admin", "gave up",
     "broken"}

LEMMA TabRows ==
    ASSUME NEW at \in TabPlaces, NEW n \in 0..MaxRedirects
    PROVE  /\ 0 \in 0..MaxRedirects
           /\ Tab(at, TRUE, n) \in Tabs /\ Tab(at, TRUE, n).at = at /\ Tab(at, TRUE, n).error = TRUE
           /\ Tab(at, FALSE, n) \in Tabs /\ Tab(at, FALSE, n).at = at
           /\ Tab(at, FALSE, n).error = FALSE
<1>1. 0 \in 0..MaxRedirects
    BY AccessAssumption
<1>2. Tab(at, TRUE, n) \in Tabs /\ Tab(at, TRUE, n).at = at /\ Tab(at, TRUE, n).error = TRUE
    BY DEF Tab, Tabs, TabPlaces
<1>3. Tab(at, FALSE, n) \in Tabs /\ Tab(at, FALSE, n).at = at /\ Tab(at, FALSE, n).error = FALSE
    BY DEF Tab, Tabs, TabPlaces
<1>4. QED
    BY <1>1, <1>2, <1>3

(* A tab that starts counting again.                                       *)
LEMMA FreshTab ==
    ASSUME NEW at \in TabPlaces
    PROVE  /\ Tab(at, TRUE, 0) \in Tabs /\ Tab(at, TRUE, 0).at = at /\ Tab(at, TRUE, 0).error = TRUE
           /\ Tab(at, FALSE, 0) \in Tabs /\ Tab(at, FALSE, 0).at = at
           /\ Tab(at, FALSE, 0).error = FALSE
<1>1. 0 \in 0..MaxRedirects
    BY AccessAssumption
<1>2. QED
    BY <1>1, TabRows

(* A step of the browser: a new cookie and a new tab.                      *)
LEMMA BrowserKeeps ==
    ASSUME AccessInv, UNCHANGED <<authUsers, credentials>>, tab' \in Tabs, signOffs' \in BOOLEAN,
           profiles' \in [AdminEmails -> {"NONE", "ACTIVE", "SUSPENDED"}],
           \A email \in AdminEmails : profiles[email] # "NONE" => profiles'[email] # "NONE",
           \A h \in AdminHandlers : adminOps'[h] \in {adminOps[h], IdleOp},
           adminOps' \in [AdminHandlers -> AdminOps \cup {IdleOp}],
           cookie' \in Cookies \cup {NoCookie},
           cookie' # NoCookie => profiles'[cookie'.email] # "NONE",
           rotated' = rotated,
           ~rotated => cookie'.state # "rejected",
           ~rotated /\ tab'.at = "to login" /\ ~tab'.error => cookie'.state # "valid",
           tab'.at = "gave up" => rotated
    PROVE  AccessInv'
<1> USE DEF AccessInv
<1>1. AccessTypeOK'
    BY DEF AccessTypeOK
<1>2. AdminRowsInOrder'
    BY DEF AdminRowsInOrder
<1>3. OpsInOrder'
    <2>1. \A h \in AdminHandlers : adminOps[h].pc = "done" => adminOps[h].email \in AdminEmails
        BY OpRows
    <2>2. ASSUME NEW h \in AdminHandlers PROVE
              /\ adminOps'[h].pc \in {"find", "insert", "update", "profile", "done"} =>
                     adminOps'[h].email \in authUsers'
              /\ adminOps'[h].pc = "done" => profiles'[adminOps'[h].email] # "NONE"
        <3>1. CASE adminOps'[h] = IdleOp
            <4>1. IdleOp.pc = "idle"
                BY DEF IdleOp
            <4>2. QED
                BY ONLY <3>1, <4>1
        <3>2. CASE adminOps'[h] = adminOps[h]
            <4>1. adminOps[h].pc = "done" => profiles'[adminOps[h].email] # "NONE"
                BY <2>1 DEF OpsInOrder
            <4>2. adminOps[h].pc \in {"find", "insert", "update", "profile", "done"} =>
                      adminOps[h].email \in authUsers'
                BY DEF OpsInOrder
            <4>3. QED
                BY ONLY <3>2, <4>1, <4>2
        <3>3. QED
            BY <3>1, <3>2
    <2>3. QED
        BY <2>2 DEF OpsInOrder
<1>4. TokenIsTrusted' /\ RedirectsEnd'
    BY DEF TokenIsTrusted, RedirectsEnd
<1>5. QED
    BY <1>1, <1>2, <1>3, <1>4

LEMMA AccessStep == AccessInv /\ [AccessNext]_accessVars => AccessInv'
<1> SUFFICES ASSUME AccessInv, [AccessNext]_accessVars PROVE AccessInv'
    OBVIOUS
<1>1. AccessTypeOK /\ AdminRowsInOrder /\ OpsInOrder /\ TokenIsTrusted /\ RedirectsEnd
    BY DEF AccessInv
<1>2. /\ authUsers \subseteq AdminEmails
      /\ credentials \in [AdminEmails -> Hashes \cup {NoCredential}]
      /\ profiles \in [AdminEmails -> {"NONE", "ACTIVE", "SUSPENDED"}]
      /\ adminOps \in [AdminHandlers -> AdminOps \cup {IdleOp}]
      /\ cookie \in Cookies \cup {NoCookie} /\ tab \in Tabs /\ signOffs \in BOOLEAN
    BY <1>1 DEF AccessTypeOK
<1>3. ASSUME NEW h \in AdminHandlers, NEW email \in AdminEmails, NEW password \in Hashes,
             SubmitLogin(h, email, password)
      PROVE  AccessInv'
    <2>1. PICK pc \in {"user", "profile"}, hash \in Hashes :
              /\ adminOps' = [adminOps EXCEPT ![h] =
                     [pc |-> pc, op |-> "login", email |-> email, hash |-> hash]]
              /\ pc = "profile" => credentials[email] = password
        <3>1. Legacy \in Hashes
            BY DEF Hashes
        <3>2. QED
            BY <1>3, <3>1 DEF SubmitLogin, Login, Op
    <2>2. adminOps' \in [AdminHandlers -> AdminOps \cup {IdleOp}]
        BY <1>1, <1>2, <2>1, OpRows
    <2>3. pc = "profile" => email \in authUsers
        BY <1>1, <2>1, AccessAssumption DEF AdminRowsInOrder, Hashes, Legacy, NoCredential
    <2>4. OpsInOrder'
        <3>1. \A g \in AdminHandlers \ {h} : adminOps'[g] = adminOps[g]
            BY <1>2, <2>1
        <3>2. adminOps'[h] = [pc |-> pc, op |-> "login", email |-> email, hash |-> hash]
            BY <1>2, <2>1
        <3>3. UNCHANGED <<authUsers, profiles>>
            BY <1>3 DEF SubmitLogin, Login, accessTables
        <3>4. QED
            BY <1>1, <2>3, <3>1, <3>2, <3>3 DEF OpsInOrder
    <2>5. tab' = Tab("posting", FALSE, 0) /\ tab' \in Tabs /\ tab'.at = "posting"
        BY <1>3, FreshTab DEF SubmitLogin, TabPlaces
    <2>6. UNCHANGED <<authUsers, credentials, profiles, cookie, signOffs, rotated>>
        BY <1>3 DEF SubmitLogin, Login, accessTables
    <2>7. AccessTypeOK'
        BY <1>1, <2>2, <2>5, <2>6 DEF AccessTypeOK
    <2>8. AdminRowsInOrder' /\ TokenIsTrusted' /\ RedirectsEnd'
        BY <1>1, <2>5, <2>6 DEF AdminRowsInOrder, TokenIsTrusted, RedirectsEnd
    <2>9. QED
        BY <2>4, <2>7, <2>8 DEF AccessInv
<1>4. ASSUME NEW h \in AdminHandlers, NEW email \in AdminEmails, NEW password \in Passwords,
             CreateAdminUser(h, email, password) \/ ChangeAdminPassword(h, email, password)
      PROVE  AccessInv'
    <2>1. PICK pc \in {"user", "update"}, op \in {"create", "change"} :
              /\ adminOps' = [adminOps EXCEPT ![h] =
                     [pc |-> pc, op |-> op, email |-> email, hash |-> password]]
              /\ pc = "update" => credentials[email] # NoCredential
        BY <1>4 DEF CreateAdminUser, ChangeAdminPassword, Op
    <2>2. password \in Hashes
        BY DEF Hashes
    <2>3. adminOps' \in [AdminHandlers -> AdminOps \cup {IdleOp}]
        BY <1>1, <1>2, <2>1, <2>2, OpRows
    <2>4. pc = "update" => email \in authUsers
        BY <1>1, <2>1 DEF AdminRowsInOrder
    <2>5. \A g \in AdminHandlers : adminOps'[g] # adminOps[g] =>
              adminOps'[g].pc = pc /\ adminOps'[g].email = email
        BY <1>2, <2>1
    <2>6. BackendKept /\ UNCHANGED <<authUsers, credentials, profiles>>
        BY <1>2, <1>4
           DEF CreateAdminUser, ChangeAdminPassword, accessTables, browserVars, BackendKept
    <2>7. QED
        BY <1>1, <1>2, <2>3, <2>4, <2>5, <2>6, BackendKeeps DEF AdminRowsInOrder
<1>5. ASSUME NEW h \in AdminHandlers,
             SaveAuthUser(h) \/ FindCredentialAccount(h) \/ SaveCredential(h) \/ SyncProfile(h)
      PROVE  AccessInv'
    <2>1. adminOps[h] \in AdminOps
        BY <1>1, <1>5, OpRows
              DEF SaveAuthUser, FindCredentialAccount, SaveCredential, SyncProfile
    <2>2. adminOps[h].email \in AdminEmails /\ adminOps[h].hash \in Hashes
        BY <1>1, <2>1, OpRows
    <2>3. PICK pc \in {"find", "insert", "update", "profile", "done"} :
              /\ adminOps' = [adminOps EXCEPT ![h].pc = pc]
              /\ pc = "done" <=> SyncProfile(h)
        BY <1>5 DEF SaveAuthUser, FindCredentialAccount, SaveCredential, SyncProfile, GoOn
    <2>4. adminOps' = [adminOps EXCEPT ![h] = [adminOps[h] EXCEPT !.pc = pc]]
        BY <2>3
    <2>5. /\ [adminOps[h] EXCEPT !.pc = pc] \in AdminOps
          /\ [adminOps[h] EXCEPT !.pc = pc].pc = pc
          /\ [adminOps[h] EXCEPT !.pc = pc].email = adminOps[h].email
        BY <1>1, <2>1, OpRows
    <2>6. /\ adminOps' \in [AdminHandlers -> AdminOps \cup {IdleOp}]
          /\ \A g \in AdminHandlers : adminOps'[g] # adminOps[g] =>
                 adminOps'[g].pc = pc /\ adminOps'[g].email = adminOps[h].email
        BY <1>2, <2>4, <2>5
    <2>7. adminOps[h].email \in authUsers'
        BY <1>1, <1>5 DEF SaveAuthUser, FindCredentialAccount, SaveCredential, SyncProfile, OpsInOrder,
                          accessTables
    <2>8. pc = "done" => profiles'[adminOps[h].email] # "NONE"
        BY <1>1, <2>2, <2>3, SyncedProfiles DEF SyncProfile
    <2>9. BackendKept
        BY <1>1, <1>2, <1>5, <2>2, SyncedProfiles
           DEF SaveAuthUser, FindCredentialAccount, SaveCredential, SyncProfile, BackendKept,
               accessTables, browserVars
    <2>10. /\ credentials' \in [AdminEmails -> Hashes \cup {NoCredential}]
           /\ \A email \in AdminEmails : credentials'[email] # NoCredential => email \in authUsers'
        <3>1. CASE UNCHANGED credentials
            BY <1>1, <1>2, <2>9, <3>1 DEF BackendKept, AdminRowsInOrder
        <3>2. CASE SaveCredential(h)
            BY <1>1, <1>2, <2>2, <2>7, <2>9, <3>2 DEF SaveCredential, BackendKept, AdminRowsInOrder
        <3>3. QED
            BY <1>5, <3>1, <3>2 DEF SaveAuthUser, FindCredentialAccount, SyncProfile, accessTables
    <2>11. QED
        BY <2>6, <2>7, <2>8, <2>9, <2>10, BackendKeeps
<1>6. ASSUME NEW h \in AdminHandlers, EndOp(h) PROVE AccessInv'
    <2>1. BackendKept /\ UNCHANGED <<authUsers, credentials, profiles>>
        BY <1>2, <1>6 DEF EndOp, accessTables, browserVars, BackendKept
    <2>2. /\ adminOps' \in [AdminHandlers -> AdminOps \cup {IdleOp}]
          /\ \A g \in AdminHandlers : adminOps'[g] # adminOps[g] => adminOps'[g] = IdleOp
        BY <1>2, <1>6 DEF EndOp
    <2>3. QED
        BY <1>1, <1>2, <2>1, <2>2, BackendKeeps DEF IdleOp, AdminRowsInOrder
<1>7. ASSUME NEW email \in AdminEmails, Suspend(email) PROVE AccessInv'
    <2>1. BackendKept /\ UNCHANGED <<authUsers, credentials, adminOps>>
        BY <1>2, <1>7 DEF Suspend, browserVars, BackendKept
    <2>2. QED
        BY <1>1, <1>2, <2>1, BackendKeeps DEF AdminRowsInOrder
<1>8. ASSUME NEW h \in AdminHandlers, LoginSucceeds(h) PROVE AccessInv'
    <2>1. adminOps[h] \in AdminOps /\ adminOps[h].pc = "done"
        BY <1>1, <1>8, OpRows DEF LoginSucceeds
    <2>2. adminOps[h].email \in AdminEmails /\ profiles[adminOps[h].email] # "NONE"
        BY <1>1, <2>1, OpRows DEF OpsInOrder
    <2>3. cookie' = [email |-> adminOps[h].email, state |-> "valid"]
        BY <1>8 DEF LoginSucceeds
    <2>4. cookie' \in Cookies /\ cookie'.email = adminOps[h].email /\ cookie'.state = "valid"
        BY <2>2, <2>3 DEF Cookies
    <2>5. tab' \in Tabs /\ tab'.at = "bootstrapping"
        BY <1>8, FreshTab DEF LoginSucceeds, TabPlaces
    <2>6. /\ UNCHANGED <<authUsers, credentials, profiles, signOffs, rotated>>
          /\ adminOps' = [adminOps EXCEPT ![h] = IdleOp]
        BY <1>8 DEF LoginSucceeds, accessTables
    <2>7. /\ adminOps' \in [AdminHandlers -> AdminOps \cup {IdleOp}]
          /\ \A g \in AdminHandlers : adminOps'[g] \in {adminOps[g], IdleOp}
        BY <1>2, <2>6
    <2>8. QED
        BY <1>2, <2>2, <2>4, <2>5, <2>6, <2>7, BrowserKeeps
<1>9. ASSUME NEW h \in AdminHandlers, LoginFails(h) PROVE AccessInv'
    <2>1. tab' \in Tabs /\ tab'.at = "form"
        BY <1>9, FreshTab DEF LoginFails, TabPlaces
    <2>2. /\ UNCHANGED <<authUsers, credentials, profiles, signOffs, rotated>>
          /\ cookie' \in {NoCookie, cookie}
          /\ adminOps' = [adminOps EXCEPT ![h] = IdleOp]
        BY <1>9 DEF LoginFails, accessTables
    <2>3. /\ adminOps' \in [AdminHandlers -> AdminOps \cup {IdleOp}]
          /\ \A g \in AdminHandlers : adminOps'[g] \in {adminOps[g], IdleOp}
        BY <1>2, <2>2
    <2>4. NoCookie.state = "none"
        BY DEF NoCookie
    <2>5. QED
        BY <1>1, <1>2, <2>1, <2>2, <2>3, <2>4, BrowserKeeps DEF AdminRowsInOrder, TokenIsTrusted
<1>10. CASE ExpireToken \/ LogoutArrives
    <2>1. /\ cookie' \in Cookies \cup {NoCookie}
          /\ cookie' # NoCookie => cookie # NoCookie /\ cookie'.email = cookie.email
          /\ cookie'.state # "rejected" \/ cookie'.state = cookie.state
          /\ cookie'.state = "valid" => cookie.state = "valid"
        <3>1. NoCookie.state = "none"
            BY DEF NoCookie
        <3>2. CASE ExpireToken
            <4>1. cookie \in Cookies
                BY <1>2, <3>1, <3>2 DEF ExpireToken
            <4>2. cookie' = [cookie EXCEPT !.state = "expired"]
                BY <3>2 DEF ExpireToken
            <4>3. cookie' \in Cookies /\ cookie'.email = cookie.email /\ cookie'.state = "expired"
                BY <4>1, <4>2 DEF Cookies
            <4>4. cookie # NoCookie
                BY <3>1, <3>2 DEF ExpireToken
            <4>5. QED
                BY <4>3, <4>4
        <3>3. CASE LogoutArrives
            BY <1>2, <3>1, <3>3 DEF LogoutArrives
        <3>4. QED
            BY <1>10, <3>2, <3>3
    <2>2. /\ UNCHANGED <<authUsers, credentials, profiles, adminOps, tab, rotated>>
          /\ signOffs' \in BOOLEAN
        BY <1>2, <1>10 DEF ExpireToken, LogoutArrives, accessTables
    <2>3. cookie' # NoCookie => profiles'[cookie'.email] # "NONE"
        BY <1>1, <2>1, <2>2 DEF AdminRowsInOrder
    <2>4. QED
        BY <1>1, <1>2, <2>1, <2>2, <2>3, BrowserKeeps DEF TokenIsTrusted, RedirectsEnd
<1>11. CASE RotateSecret
    <2>1. UNCHANGED <<authUsers, credentials, profiles, adminOps, tab, signOffs>> /\ rotated' = TRUE
        BY <1>11 DEF RotateSecret, accessTables
    <2>2. /\ cookie' \in Cookies \cup {NoCookie}
          /\ cookie' # NoCookie => cookie # NoCookie /\ cookie'.email = cookie.email
        <3>1. CASE cookie.state = "valid"
            <4>1. cookie \in Cookies /\ cookie # NoCookie
                BY <1>2, <3>1 DEF NoCookie
            <4>2. cookie' = [cookie EXCEPT !.state = "rejected"]
                BY <1>11, <3>1 DEF RotateSecret
            <4>3. QED
                BY <4>1, <4>2 DEF Cookies
        <3>2. CASE cookie.state # "valid"
            BY <1>2, <1>11, <3>2 DEF RotateSecret
        <3>3. QED
            BY <3>1, <3>2
    <2>3. AccessTypeOK'
        BY <1>1, <2>1, <2>2 DEF AccessTypeOK
    <2>4. AdminRowsInOrder'
        BY <1>1, <2>1, <2>2 DEF AdminRowsInOrder
    <2>5. OpsInOrder'
        BY <1>1, <2>1 DEF OpsInOrder
    <2>6. TokenIsTrusted' /\ RedirectsEnd'
        BY <2>1 DEF TokenIsTrusted, RedirectsEnd
    <2>7. QED
        BY <2>3, <2>4, <2>5, <2>6 DEF AccessInv
<1>12. CASE VisitAdmin
    <2>1. tab' \in Tabs /\ tab'.at = "to admin"
        BY <1>12, FreshTab DEF VisitAdmin, TabPlaces
    <2>2. UNCHANGED <<authUsers, credentials, profiles, adminOps, cookie, signOffs, rotated>>
        BY <1>12 DEF VisitAdmin, accessTables
    <2>3. QED
        BY <1>1, <1>2, <2>1, <2>2, BrowserKeeps DEF AdminRowsInOrder, TokenIsTrusted
<1>13. tab.redirects \in 0..MaxRedirects
    BY <1>2 DEF Tabs
<1>14. CASE ServeAdmin
    <2>0. /\ Tab("to login", TRUE, tab.redirects) \in Tabs
          /\ Tab("to login", TRUE, tab.redirects).at = "to login"
          /\ Tab("to login", TRUE, tab.redirects).error = TRUE
          /\ Tab("to login", FALSE, tab.redirects) \in Tabs
          /\ Tab("to login", FALSE, tab.redirects).at = "to login"
        <3>1. "to login" \in TabPlaces
            BY DEF TabPlaces
        <3>2. QED
            BY ONLY <1>13, <3>1, TabRows
    <2>1. /\ UNCHANGED <<authUsers, credentials, adminOps, cookie, signOffs, rotated>>
        BY <1>14 DEF ServeAdmin
    <2>2. /\ profiles' \in [AdminEmails -> {"NONE", "ACTIVE", "SUSPENDED"}]
          /\ \A email \in AdminEmails : profiles[email] # "NONE" => profiles'[email] # "NONE"
        BY <1>1, <1>2, <1>14, ProfilesGrow DEF ServeAdmin
    <2>3. /\ tab' \in Tabs
          /\ tab'.at \in {"to login", "admin", "broken"}
          /\ tab'.at = "to login" /\ ~tab'.error => cookie.state # "valid"
        BY <1>14, <2>0, FreshTab DEF ServeAdmin, TabPlaces
    <2>4. cookie' # NoCookie => profiles'[cookie'.email] # "NONE"
        BY <1>1, <1>2, <2>1, <2>2 DEF AdminRowsInOrder, Cookies
    <2>5. QED
        BY <1>1, <1>2, <2>1, <2>2, <2>3, <2>4, BrowserKeeps DEF TokenIsTrusted
<1>15. CASE ServeLogin
    <2>1. /\ UNCHANGED <<authUsers, credentials, profiles, adminOps, cookie, rotated>>
          /\ signOffs' \in BOOLEAN
        BY <1>2, <1>15 DEF ServeLogin, accessTables
    <2>2. /\ tab' \in Tabs
          /\ tab'.at \in {"form", "to admin", "gave up"}
          /\ tab'.at = "gave up" => HasUnexpiredToken /\ ~tab.error
        <3>1. CASE ~HasUnexpiredToken \/ tab.error
            <4>1. tab.error \in BOOLEAN
                BY <1>2 DEF Tabs
            <4>2. tab' = Tab("form", TRUE, 0) \/ tab' = Tab("form", FALSE, 0)
                BY <1>15, <3>1, <4>1 DEF ServeLogin
            <4>3. QED
                BY <4>2, FreshTab DEF TabPlaces
        <3>2. CASE HasUnexpiredToken /\ ~tab.error
            <4>1. tab.redirects < MaxRedirects => tab.redirects + 1 \in 0..MaxRedirects
                BY <1>13, AccessAssumption
            <4>2. tab' = IF tab.redirects < MaxRedirects
                         THEN Tab("to admin", FALSE, tab.redirects + 1)
                         ELSE Tab("gave up", FALSE, tab.redirects)
                BY <1>15, <3>2 DEF ServeLogin
            <4>3. CASE tab.redirects < MaxRedirects
                <5>1. /\ Tab("to admin", FALSE, tab.redirects + 1) \in Tabs
                      /\ Tab("to admin", FALSE, tab.redirects + 1).at = "to admin"
                    <6>1. "to admin" \in TabPlaces
                        BY DEF TabPlaces
                    <6>2. QED
                        BY <4>1, <4>3, <6>1, TabRows
                <5>2. QED
                    BY <4>2, <4>3, <5>1
            <4>4. CASE ~(tab.redirects < MaxRedirects)
                <5>1. /\ Tab("gave up", FALSE, tab.redirects) \in Tabs
                      /\ Tab("gave up", FALSE, tab.redirects).at = "gave up"
                    BY <1>13, TabRows DEF TabPlaces
                <5>2. QED
                    BY <3>2, <4>2, <4>4, <5>1
            <4>5. QED
                BY <4>3, <4>4
        <3>3. QED
            BY <3>1, <3>2
    <2>3. tab'.at = "gave up" => rotated
        BY <1>1, <1>15, <2>2 DEF ServeLogin, HasUnexpiredToken, TokenIsTrusted
    <2>4. QED
        BY <1>1, <1>2, <2>1, <2>2, <2>3, BrowserKeeps DEF AdminRowsInOrder, TokenIsTrusted
<1>16. CASE Bootstrap
    <2>1. UNCHANGED <<authUsers, credentials, adminOps, cookie, signOffs, rotated>>
        BY <1>16 DEF Bootstrap
    <2>2. /\ profiles' \in [AdminEmails -> {"NONE", "ACTIVE", "SUSPENDED"}]
          /\ \A email \in AdminEmails : profiles[email] # "NONE" => profiles'[email] # "NONE"
        BY <1>1, <1>2, <1>16, ProfilesGrow DEF Bootstrap
    <2>3. tab' \in Tabs /\ tab'.at \in {"to admin", "signing off"}
        BY <1>16, FreshTab DEF Bootstrap, TabPlaces
    <2>4. cookie' # NoCookie => profiles'[cookie'.email] # "NONE"
        BY <1>1, <1>2, <2>1, <2>2 DEF AdminRowsInOrder, Cookies
    <2>5. QED
        BY <1>1, <1>2, <2>1, <2>2, <2>3, <2>4, BrowserKeeps DEF TokenIsTrusted
<1>17. CASE SignOff \/ SignOutButton
    <2>1. UNCHANGED <<authUsers, credentials, profiles, adminOps, signOffs, rotated>>
        BY <1>17 DEF SignOff, SignOutButton, accessTables
    <2>2. /\ tab' \in Tabs
          /\ tab'.at \in {"form", "broken", "to login"}
          /\ tab'.at = "to login" => cookie' = NoCookie
        BY <1>17, FreshTab DEF SignOff, SignOutButton, TabPlaces
    <2>3. cookie' \in {NoCookie, cookie}
        BY <1>17 DEF SignOff, SignOutButton
    <2>4. NoCookie.state = "none"
        BY DEF NoCookie
    <2>5. QED
        BY <1>1, <1>2, <2>1, <2>2, <2>3, <2>4, BrowserKeeps DEF AdminRowsInOrder, TokenIsTrusted
<1>18. CASE UNCHANGED accessVars
    <2>1. UNCHANGED <<authUsers, credentials, profiles, adminOps, cookie, tab, signOffs, rotated>>
        BY <1>18 DEF accessVars, accessTables, browserVars
    <2>2. QED
        BY <1>1, <2>1 DEF AccessInv, AccessTypeOK, AdminRowsInOrder, OpsInOrder, TokenIsTrusted,
                          RedirectsEnd
<1>19. QED
    BY <1>3, <1>4, <1>5, <1>6, <1>7, <1>8, <1>9, <1>10, <1>11, <1>12, <1>14, <1>15, <1>16, <1>17,
       <1>18 DEF AccessNext, BrowserStep

(* The administrators' tables, requests and browser keep the invariant.    *)
THEOREM AccessInvariant == AccessSpec => []AccessInv
<1>1. QED
    BY AccessInitHolds, AccessStep, PTL DEF AccessSpec

(* A credential belongs to a user that exists and a token to a profile,    *)
(* wherever login, creation and change of a password stop.                 *)
THEOREM AdminRowsInOrderHolds == AccessSpec => []AdminRowsInOrder
<1>1. AccessInv => AdminRowsInOrder
    BY DEF AccessInv
<1>2. QED
    BY <1>1, AccessInvariant, PTL

(* The login page and the admin pages end their redirects, for any bound   *)
(* of the browser, until the signing secret changes.                       *)
THEOREM RedirectsEndHolds == AccessSpec => []RedirectsEnd
<1>1. AccessInv => RedirectsEnd
    BY DEF AccessInv
<1>2. QED
    BY <1>1, AccessInvariant, PTL

-----------------------------------------------------------------------------
(* Posts and images.                                                       *)

Writing(t) == t.pc \in {"written", "chosen", "pruned", "adopted"}

(* A row that is inserted writes its slug; only a save that came so far    *)
(* has taken images away or over.                                          *)
SaveInOrder(t) ==
    t.pc # "idle" =>
        /\ t.insert => "slug" \in t.changed
        /\ t.pc \notin {"pruned", "adopted"} => t.pruned = {}
        /\ t.pc # "adopted" => t.adopted = {}

(* The slug a save of e has written and not committed is nobody else's.    *)
SlugIsTaken(e, t) ==
    Writing(t) /\ "slug" \in t.changed =>
        /\ \A q \in PostIds \ {t.post} : IsLive(q) => posts[q].slug # t.row.slug
        /\ \A f \in BlogAdmins \ {e} :
               Writing(edits[f]) /\ "slug" \in edits[f].changed
               => edits[f].row.slug # t.row.slug

(* The images a save of e holds are there, in nobody else's hands, and the *)
(* ones it deletes belong to its post, which does not show them.           *)
ImagesAreHeld(e, t) ==
    Writing(t) =>
        /\ \A x \in t.pruned :
               IsStored(x) /\ images[x].owner = t.post /\ x \notin t.row.shows
        /\ \A x \in t.adopted : IsStored(x)
        /\ \A f \in BlogAdmins \ {e} :
               Writing(edits[f])
               => \A x \in t.pruned \cup t.adopted :
                      x \notin edits[f].pruned /\ x \notin edits[f].adopted

SavesHold ==
    \A e \in BlogAdmins :
        SaveInOrder(edits[e]) /\ SlugIsTaken(e, edits[e]) /\ ImagesAreHeld(e, edits[e])

BlogsInv == BlogsTypeOK /\ AddressesDistinct /\ SavesHold

(* A row in the tables is neither unborn nor gone.                         *)
LEMMA LiveRows ==
    ASSUME BlogsTypeOK
    PROVE  /\ \A p \in PostIds : IsLive(p) <=> posts[p] \in PostRows
           /\ \A x \in ImageIds : IsStored(x) <=> images[x] \in ImageRows
<1>1. Unborn \notin PostRows /\ Gone \notin PostRows
    BY DEF Unborn, Gone, PostRows
<1>2. Unborn \notin ImageRows /\ Gone \notin ImageRows
    BY DEF Unborn, Gone, ImageRows
<1>3. QED
    BY <1>1, <1>2 DEF BlogsTypeOK, IsLive, IsStored

(* The row of a save, and what its steps change of it.                     *)
LEMMA SaveRows ==
    ASSUME NEW t \in Edits
    PROVE  /\ t.post \in PostIds /\ t.row \in PostRows /\ t.changed \subseteq PostColumns
           /\ t.pc \in {"loaded", "row", "written", "chosen", "pruned", "adopted"}
           /\ t.pruned \subseteq ImageIds /\ t.adopted \subseteq ImageIds
           /\ t.insert \in BOOLEAN
           /\ t.row.slug \in Slugs
BY DEF Edits, PostRows

LEMMA SaveMovesOn ==
    ASSUME NEW t \in Edits, NEW pc \in {"row", "written", "chosen", "pruned", "adopted"}
    PROVE  LET new == [t EXCEPT !.pc = pc]
           IN  /\ new \in Edits /\ new.pc = pc
               /\ new.post = t.post /\ new.row = t.row /\ new.changed = t.changed
               /\ new.insert = t.insert /\ new.pruned = t.pruned /\ new.adopted = t.adopted
BY DEF Edits

LEMMA IdleSave ==
    /\ IdleEdit.pc = "idle"
    /\ \A e \in BlogAdmins : BlogsTypeOK /\ edits[e].pc # "idle" => edits[e] \in Edits
    /\ \A e \in BlogAdmins : BlogsTypeOK /\ edits[e] # IdleEdit => edits[e].pc # "idle"
<1>1. IdleEdit.pc = "idle"
    BY DEF IdleEdit
<1>2. \A t \in Edits : t.pc # "idle"
    BY DEF Edits
<1>3. QED
    BY <1>1, <1>2 DEF BlogsTypeOK

(* One save moves and the tables stay.                                     *)
LEMMA SaveKeeps ==
    ASSUME BlogsInv, UNCHANGED <<posts, images>>,
           NEW e \in BlogAdmins, NEW t \in Edits \cup {IdleEdit}, edits' = [edits EXCEPT ![e] = t],
           SaveInOrder(t), SlugIsTaken(e, t), ImagesAreHeld(e, t)
    PROVE  BlogsInv'
<1>1. BlogsTypeOK /\ AddressesDistinct /\ SavesHold
    BY DEF BlogsInv
<1>2. BlogsTypeOK' /\ edits'[e] = t /\ \A f \in BlogAdmins \ {e} : edits'[f] = edits[f]
    BY <1>1 DEF BlogsTypeOK
<1>3. AddressesDistinct'
    BY <1>1 DEF AddressesDistinct, IsLive
<1>4. ASSUME NEW f \in BlogAdmins
      PROVE  SaveInOrder(edits'[f]) /\ SlugIsTaken(f, edits[f])' /\ ImagesAreHeld(f, edits[f])'
    <2>1. CASE f = e
        <3>1. SlugIsTaken(e, edits[e])'
            BY <1>2 DEF SlugIsTaken, IsLive
        <3>2. ImagesAreHeld(e, edits[e])'
            BY <1>2 DEF ImagesAreHeld, IsStored
        <3>3. QED
            BY <1>2, <2>1, <3>1, <3>2
    <2>2. CASE f # e
        <3>1. SaveInOrder(edits[f]) /\ SlugIsTaken(f, edits[f]) /\ ImagesAreHeld(f, edits[f])
            BY <1>1 DEF SavesHold
        <3>2. SlugIsTaken(f, edits[f])'
            BY <1>2, <2>2, <3>1 DEF SlugIsTaken, IsLive
        <3>3. ImagesAreHeld(f, edits[f])'
            BY <1>2, <2>2, <3>1 DEF ImagesAreHeld, IsStored
        <3>4. QED
            BY <1>2, <2>2, <3>1, <3>2, <3>3
    <2>3. QED
        BY <2>1, <2>2
<1>5. SavesHold'
    BY <1>4 DEF SavesHold
<1>6. QED
    BY <1>2, <1>3, <1>5 DEF BlogsInv

(* A save that is begun, compares its row or goes on with what it holds.   *)
LEMMA SaveBegins ==
    ASSUME BlogsInv, NEW e \in BlogAdmins, NEW p \in PostIds, NEW input \in PostInputs,
           CreatePost(e, p, input) \/ UpdatePost(e, p, input)
    PROVE  BlogsInv'
<1>1. BlogsTypeOK
    BY DEF BlogsInv
<1>2. PICK slug \in Slugs, pc \in {"row", "loaded"}, insert \in BOOLEAN,
          changed \in {{}, PostColumns} :
          /\ Begin(e, p, [slug |-> slug, shows |-> input.shows], pc, insert, changed)
          /\ insert => changed = PostColumns
    <2>1. CASE CreatePost(e, p, input)
        BY <2>1 DEF CreatePost, FreeSlugs
    <2>2. CASE UpdatePost(e, p, input)
        <3>1. posts[p].slug \in Slugs
            BY <1>1, <2>2, LiveRows DEF UpdatePost, PostRows
        <3>2. PICK slug \in Slugs :
                  Begin(e, p, [slug |-> slug, shows |-> input.shows], "loaded", FALSE, {})
            BY <2>2, <3>1 DEF UpdatePost, FreeSlugs
        <3>3. QED
            BY <3>2
    <2>3. QED
        BY <2>1, <2>2
<1> DEFINE t == [pc |-> pc, post |-> p, row |-> [slug |-> slug, shows |-> input.shows],
                 insert |-> insert, changed |-> changed, pruned |-> {}, adopted |-> {}]
<1>3. t \in Edits
    <2>1. input.shows \in SUBSET ImageIds
        BY DEF PostInputs
    <2>2. [slug |-> slug, shows |-> input.shows] \in PostRows
        BY <2>1 DEF PostRows
    <2>3. QED
        BY <2>2 DEF Edits, PostColumns
<1>4. SaveInOrder(t) /\ SlugIsTaken(e, t) /\ ImagesAreHeld(e, t)
    BY <1>2 DEF SaveInOrder, SlugIsTaken, ImagesAreHeld, Writing, PostColumns
<1>5. UNCHANGED <<posts, images>> /\ edits' = [edits EXCEPT ![e] = t]
    BY <1>2 DEF CreatePost, UpdatePost, Begin
<1> HIDE DEF t
<1>6. QED
    BY <1>3, <1>4, <1>5, SaveKeeps

LEMMA SaveCompares ==
    ASSUME BlogsInv, NEW e \in BlogAdmins, CompareRow(e)
    PROVE  BlogsInv'
<1>1. BlogsTypeOK /\ SaveInOrder(edits[e]) /\ edits[e].pc = "loaded"
    BY DEF BlogsInv, SavesHold, CompareRow
<1>2. edits[e] \in Edits
    BY <1>1, IdleSave
<1>3. PICK insert \in BOOLEAN, changed \in SUBSET PostColumns :
          /\ edits' = [edits EXCEPT ![e].pc = "row", ![e].insert = insert, ![e].changed = changed]
          /\ insert => changed = PostColumns
    <2>1. IsLive(edits[e].post) \in BOOLEAN
        BY DEF IsLive
    <2>2. CASE IsLive(edits[e].post)
        BY <2>2 DEF CompareRow
    <2>3. CASE ~IsLive(edits[e].post)
        BY <2>3 DEF CompareRow
    <2>4. QED
        BY <2>2, <2>3
<1> DEFINE t == [edits[e] EXCEPT !.pc = "row", !.insert = insert, !.changed = changed]
<1>4. edits' = [edits EXCEPT ![e] = t]
    BY <1>3
<1>5. /\ t \in Edits /\ t.pc = "row" /\ t.insert = insert /\ t.changed = changed
      /\ t.pruned = edits[e].pruned /\ t.adopted = edits[e].adopted
    BY <1>2 DEF Edits
<1> HIDE DEF t
<1>6. SaveInOrder(t) /\ SlugIsTaken(e, t) /\ ImagesAreHeld(e, t)
    BY <1>1, <1>3, <1>5 DEF SaveInOrder, SlugIsTaken, ImagesAreHeld, Writing, PostColumns
<1>7. UNCHANGED <<posts, images>>
    BY DEF CompareRow
<1>8. QED
    BY <1>4, <1>5, <1>6, <1>7, SaveKeeps

LEMMA SaveWrites ==
    ASSUME BlogsInv, NEW e \in BlogAdmins, WriteRow(e)
    PROVE  BlogsInv'
<1>1. BlogsTypeOK /\ SaveInOrder(edits[e]) /\ edits[e].pc = "row"
    BY DEF BlogsInv, SavesHold, WriteRow
<1>2. edits[e] \in Edits
    BY <1>1, IdleSave
<1> DEFINE t == [edits[e] EXCEPT !.pc = "written"]
<1>3. edits' = [edits EXCEPT ![e] = t] /\ UNCHANGED <<posts, images>>
    BY DEF WriteRow
<1>4. /\ t \in Edits /\ t.pc = "written" /\ t.post = edits[e].post /\ t.row = edits[e].row
      /\ t.changed = edits[e].changed /\ t.insert = edits[e].insert
      /\ t.pruned = edits[e].pruned /\ t.adopted = edits[e].adopted
    BY <1>2, SaveMovesOn
<1> HIDE DEF t
<1>5. SaveInOrder(t) /\ ImagesAreHeld(e, t)
    BY <1>1, <1>4 DEF SaveInOrder, ImagesAreHeld
<1>6. SlugIsTaken(e, t)
    BY <1>4 DEF SlugIsTaken, WriteRow, InUse, Wrote, Writing
<1>7. QED
    BY <1>3, <1>4, <1>5, <1>6, SaveKeeps

LEMMA SaveChooses ==
    ASSUME BlogsInv, NEW e \in BlogAdmins, ChooseImages(e)
    PROVE  BlogsInv'
<1>1. /\ BlogsTypeOK /\ SaveInOrder(edits[e]) /\ SlugIsTaken(e, edits[e])
      /\ edits[e].pc = "written"
    BY DEF BlogsInv, SavesHold, ChooseImages
<1>2. edits[e] \in Edits
    BY <1>1, IdleSave
<1> DEFINE t == [edits[e] EXCEPT !.pc = "chosen"]
<1>3. edits' = [edits EXCEPT ![e] = t] /\ UNCHANGED <<posts, images>>
    BY DEF ChooseImages
<1>4. /\ t \in Edits /\ t.pc = "chosen" /\ t.post = edits[e].post /\ t.row = edits[e].row
      /\ t.changed = edits[e].changed /\ t.insert = edits[e].insert
      /\ t.pruned = edits[e].pruned /\ t.adopted = edits[e].adopted
    BY <1>2, SaveMovesOn
<1> HIDE DEF t
<1>5. SaveInOrder(t) /\ ImagesAreHeld(e, t)
    BY <1>1, <1>4 DEF SaveInOrder, ImagesAreHeld
<1>6. SlugIsTaken(e, t)
    BY <1>1, <1>4 DEF SlugIsTaken, Writing
<1>7. QED
    BY <1>3, <1>4, <1>5, <1>6, SaveKeeps

(* The save e goes on to pc and holds these images, which were free.       *)
Takes(e, pc, pruned, adopted) ==
    /\ edits' = [edits EXCEPT ![e].pc = pc, ![e].pruned = pruned, ![e].adopted = adopted]
    /\ UNCHANGED <<posts, images>>
    /\ pc = "pruned" => adopted = {}
    /\ Writing(edits[e])
    /\ \A x \in pruned :
           IsStored(x) /\ images[x].owner = edits[e].post /\ x \notin edits[e].row.shows
    /\ \A x \in adopted : IsStored(x)
    /\ \A x \in pruned \cup adopted : \A f \in BlogAdmins \ {e} : ~HoldsImage(f, x)

(* The save deletes images of its post that nobody else holds, or takes    *)
(* over the ones it shows.                                                 *)
LEMMA SaveTakesImages ==
    ASSUME BlogsInv, NEW e \in BlogAdmins, PruneImages(e) \/ AdoptImages(e)
    PROVE  BlogsInv'
<1>1. /\ BlogsTypeOK /\ SaveInOrder(edits[e]) /\ SlugIsTaken(e, edits[e])
      /\ ImagesAreHeld(e, edits[e])
    BY DEF BlogsInv, SavesHold
<1>2. edits[e] \in Edits
    BY <1>1, IdleSave DEF PruneImages, AdoptImages
<1>3. PICK pc \in {"pruned", "adopted"}, pruned \in SUBSET ImageIds, adopted \in SUBSET ImageIds :
          Takes(e, pc, pruned, adopted)
    <2>1. CASE PruneImages(e)
        <3> DEFINE unused == {x \in ImageIds : IsStored(x) /\ images[x].owner = edits[e].post}
                             \ edits[e].row.shows
        <3>1. /\ edits' = [edits EXCEPT ![e].pc = "pruned", ![e].pruned = unused]
              /\ UNCHANGED <<posts, images>> /\ ImagesFree(e, unused) /\ edits[e].pc = "chosen"
            BY <2>1 DEF PruneImages
        <3>2. edits[e].adopted = {}
            BY <1>1, <3>1 DEF SaveInOrder
        <3>3. edits' = [edits EXCEPT ![e].pc = "pruned", ![e].pruned = unused, ![e].adopted = {}]
            BY <1>1, <1>2, <3>1, <3>2 DEF BlogsTypeOK, Edits
        <3>4. Writing(edits[e])
            BY <3>1 DEF Writing
        <3>5. unused \in SUBSET ImageIds
            OBVIOUS
        <3>6. \A x \in unused :
                  IsStored(x) /\ images[x].owner = edits[e].post /\ x \notin edits[e].row.shows
            OBVIOUS
        <3> HIDE DEF unused
        <3>7. Takes(e, "pruned", unused, {})
            BY <3>1, <3>3, <3>4, <3>6 DEF ImagesFree, Takes
        <3>8. QED
            BY <3>5, <3>7
    <2>2. CASE AdoptImages(e)
        <3> DEFINE found == {x \in edits[e].row.shows : IsStored(x)}
        <3>1. /\ edits' = [edits EXCEPT ![e].pc = "adopted", ![e].adopted = found]
              /\ UNCHANGED <<posts, images>> /\ ImagesFree(e, found) /\ edits[e].pc = "pruned"
            BY <2>2 DEF AdoptImages
        <3>2. edits' = [edits EXCEPT ![e].pc = "adopted", ![e].pruned = edits[e].pruned,
                                     ![e].adopted = found]
            BY <1>1, <1>2, <3>1 DEF BlogsTypeOK, Edits
        <3>3. Writing(edits[e])
            BY <3>1 DEF Writing
        <3>4. found \in SUBSET ImageIds /\ edits[e].pruned \in SUBSET ImageIds
            BY <1>2 DEF Edits, PostRows
        <3>5. \A x \in found : IsStored(x)
            OBVIOUS
        <3> HIDE DEF found
        <3>6. \A x \in edits[e].pruned :
                  /\ IsStored(x) /\ images[x].owner = edits[e].post /\ x \notin edits[e].row.shows
                  /\ \A f \in BlogAdmins \ {e} : ~HoldsImage(f, x)
            BY <1>1, <3>3 DEF ImagesAreHeld, HoldsImage, Wrote, Writing
        <3>7. Takes(e, "adopted", edits[e].pruned, found)
            BY <3>1, <3>2, <3>3, <3>5, <3>6 DEF ImagesFree, Takes
        <3>8. QED
            BY <3>4, <3>7
    <2>3. QED
        BY <2>1, <2>2
<1> DEFINE t == [edits[e] EXCEPT !.pc = pc, !.pruned = pruned, !.adopted = adopted]
<1>4. edits' = [edits EXCEPT ![e] = t] /\ UNCHANGED <<posts, images>>
    BY <1>3 DEF Takes
<1>5. /\ t \in Edits /\ t.pc = pc /\ t.post = edits[e].post /\ t.row = edits[e].row
      /\ t.changed = edits[e].changed /\ t.insert = edits[e].insert
      /\ t.pruned = pruned /\ t.adopted = adopted
    BY <1>2 DEF Edits
<1> HIDE DEF t
<1>6. SaveInOrder(t)
    BY <1>1, <1>3, <1>5 DEF SaveInOrder, Takes, Writing
<1>7. SlugIsTaken(e, t)
    BY <1>1, <1>3, <1>5 DEF SlugIsTaken, Takes
<1>8. ImagesAreHeld(e, t)
    BY <1>3, <1>5 DEF ImagesAreHeld, HoldsImage, Takes, Wrote, Writing
<1>9. QED
    BY <1>4, <1>5, <1>6, <1>7, <1>8, SaveKeeps

(* A commit writes a slug nobody else has and moves only images it holds.  *)
LEMMA SaveCommits ==
    ASSUME BlogsInv, NEW e \in BlogAdmins, CommitEdit(e)
    PROVE  BlogsInv'
<1>0. edits[e] \in Edits
    BY IdleSave DEF BlogsInv, CommitEdit
<1>a. PICK t \in Edits : t = edits[e]
    BY <1>0
<1>b. PICK p \in PostIds : p = t.post
    BY SaveRows
<1>1. /\ BlogsTypeOK /\ AddressesDistinct /\ SavesHold
      /\ SaveInOrder(t) /\ SlugIsTaken(e, t) /\ ImagesAreHeld(e, t) /\ t.pc = "adopted"
    BY <1>a DEF BlogsInv, SavesHold, CommitEdit
<1>2. /\ t \in Edits /\ p \in PostIds /\ t.row \in PostRows /\ t.row.slug \in Slugs
      /\ t.pruned \subseteq ImageIds /\ t.adopted \subseteq ImageIds /\ Writing(t)
    BY <1>1, SaveRows DEF Writing
<1>3. edits'[e] = IdleEdit /\ \A f \in BlogAdmins \ {e} : edits'[f] = edits[f]
    BY <1>a, <1>b, <1>1 DEF CommitEdit, BlogsTypeOK
<1>4. edits' \in [BlogAdmins -> Edits \cup {IdleEdit}]
    BY <1>a, <1>b, <1>1 DEF CommitEdit, BlogsTypeOK
<1>5. /\ posts' \in [PostIds -> PostRows \cup {Unborn, Gone}]
      /\ \A q \in PostIds \ {p} : posts'[q] = posts[q]
      /\ \/ posts'[p] = posts[p]
         \/ posts'[p].slug = t.row.slug /\ "slug" \in t.changed
         \/ IsLive(p) /\ posts'[p].slug = posts[p].slug
    <2>1. CASE t.insert
        <3>1. posts' = [posts EXCEPT ![p] = t.row] /\ "slug" \in t.changed
            BY <1>a, <1>b, <1>1, <2>1 DEF CommitEdit, SaveInOrder
        <3>2. posts' \in [PostIds -> PostRows \cup {Unborn, Gone}] /\ posts'[p] = t.row
            BY <1>1, <1>2, <3>1 DEF BlogsTypeOK
        <3>3. QED
            BY <1>1, <3>1, <3>2 DEF BlogsTypeOK
    <2>2. CASE ~t.insert /\ IsLive(p)
        <3>1. PICK row :
                  /\ posts' = [posts EXCEPT ![p] = row]
                  /\ row = [slug |-> IF "slug" \in t.changed THEN t.row.slug ELSE posts[p].slug,
                            shows |-> IF "shows" \in t.changed THEN t.row.shows ELSE posts[p].shows]
            BY <1>a, <1>b, <1>1, <1>2, <2>2 DEF CommitEdit, BlogsTypeOK
        <3>2. posts[p] \in PostRows
            BY <1>1, <1>2, <2>2, LiveRows
        <3>3. /\ row \in PostRows
              /\ "slug" \in t.changed => row.slug = t.row.slug
              /\ "slug" \notin t.changed => row.slug = posts[p].slug
            BY <1>2, <3>1, <3>2 DEF PostRows
        <3>4. posts' \in [PostIds -> PostRows \cup {Unborn, Gone}] /\ posts'[p] = row
            BY <1>1, <1>2, <3>1, <3>3 DEF BlogsTypeOK
        <3>5. QED
            BY <1>1, <2>2, <3>1, <3>3, <3>4 DEF BlogsTypeOK
    <2>3. CASE ~t.insert /\ ~IsLive(p)
        BY <1>a, <1>b, <1>1, <2>3 DEF CommitEdit, BlogsTypeOK
    <2>4. QED
        BY <2>1, <2>2, <2>3
<1>6. /\ images' \in [ImageIds -> ImageRows \cup {Unborn, Gone}]
      /\ \A x \in ImageIds : x \notin t.pruned /\ x \notin t.adopted => images'[x] = images[x]
    <2>1. images' = [x \in ImageIds |->
                        IF x \in t.pruned THEN Gone
                        ELSE IF x \in t.adopted THEN [images[x] EXCEPT !.owner = p]
                        ELSE images[x]]
        BY <1>a, <1>b DEF CommitEdit
    <2>2. \A x \in t.adopted : [images[x] EXCEPT !.owner = p] \in ImageRows
        <3>1. \A x \in t.adopted : images[x] \in ImageRows
            BY <1>1, <1>2, LiveRows DEF ImagesAreHeld
        <3>2. QED
            BY <1>2, <3>1 DEF ImageRows
    <2>3. QED
        BY <1>1, <2>1, <2>2 DEF BlogsTypeOK
<1>7. AddressesDistinct'
    <2>1. ASSUME NEW q \in PostIds \ {p}, IsLive(q)', IsLive(p)' PROVE posts'[q].slug # posts'[p].slug
        <3>1. IsLive(q) /\ posts'[q] = posts[q]
            BY <1>5, <2>1 DEF IsLive
        <3>2. CASE posts'[p] = posts[p] \/ (IsLive(p) /\ posts'[p].slug = posts[p].slug)
            <4>1. IsLive(p)
                BY <2>1, <3>2 DEF IsLive
            <4>2. posts[q].slug # posts[p].slug
                BY <1>1, <1>2, <3>1, <4>1 DEF AddressesDistinct
            <4>3. QED
                BY <3>1, <3>2, <4>2
        <3>3. CASE posts'[p].slug = t.row.slug /\ "slug" \in t.changed
            BY <1>b, <1>1, <1>2, <3>1, <3>3 DEF SlugIsTaken
        <3>4. QED
            BY <1>5, <3>2, <3>3
    <2>2. ASSUME NEW q \in PostIds \ {p}, NEW r \in PostIds \ {p}, q # r, IsLive(q)', IsLive(r)'
          PROVE  posts'[q].slug # posts'[r].slug
        BY <1>1, <1>5, <2>2 DEF AddressesDistinct, IsLive
    <2>3. QED
        BY <1>2, <2>1, <2>2 DEF AddressesDistinct
<1>8. SavesHold'
    <2>1. SaveInOrder(edits'[e]) /\ SlugIsTaken(e, edits[e])' /\ ImagesAreHeld(e, edits[e])'
        BY <1>3, IdleSave DEF SaveInOrder, SlugIsTaken, ImagesAreHeld, Writing
    <2>2. ASSUME NEW f \in BlogAdmins \ {e}
          PROVE  SaveInOrder(edits'[f]) /\ SlugIsTaken(f, edits[f])' /\ ImagesAreHeld(f, edits[f])'
        <3>1. /\ SaveInOrder(edits[f]) /\ SlugIsTaken(f, edits[f]) /\ ImagesAreHeld(f, edits[f])
              /\ edits'[f] = edits[f]
            BY <1>1, <1>3 DEF SavesHold
        <3>2. ASSUME Writing(edits[f]), "slug" \in edits[f].changed,
                     NEW q \in PostIds \ {edits[f].post}, IsLive(q)'
              PROVE  posts'[q].slug # edits[f].row.slug
            <4>1. CASE q = p
                <5>1. CASE posts'[p].slug = t.row.slug /\ "slug" \in t.changed
                    BY <1>1, <1>2, <3>2, <4>1, <5>1 DEF SlugIsTaken
                <5>2. CASE posts'[p] = posts[p] \/ (IsLive(p) /\ posts'[p].slug = posts[p].slug)
                    BY <3>1, <3>2, <4>1, <5>2 DEF SlugIsTaken, IsLive
                <5>3. QED
                    BY <1>5, <5>1, <5>2
            <4>2. CASE q # p
                BY <1>5, <3>1, <3>2, <4>2 DEF SlugIsTaken, IsLive
            <4>3. QED
                BY <4>1, <4>2
        <3>3. ASSUME Writing(edits[f]), "slug" \in edits[f].changed,
                     NEW g \in BlogAdmins \ {f}, Writing(edits'[g]), "slug" \in edits'[g].changed
              PROVE  edits'[g].row.slug # edits[f].row.slug
            BY <1>3, <3>1, <3>3, IdleSave DEF SlugIsTaken, Writing
        <3>4. SlugIsTaken(f, edits[f])'
            BY <3>1, <3>2, <3>3 DEF SlugIsTaken
        <3>5. Writing(edits[f]) =>
                  \A x \in edits[f].pruned \cup edits[f].adopted :
                      x \in ImageIds /\ images'[x] = images[x]
            <4>1. SUFFICES ASSUME Writing(edits[f]) PROVE
                      \A x \in edits[f].pruned \cup edits[f].adopted :
                          x \in ImageIds /\ images'[x] = images[x]
                OBVIOUS
            <4>2. edits[f] \in Edits
                BY <1>1, <4>1, IdleSave DEF Writing
            <4>3. edits[f].pruned \subseteq ImageIds /\ edits[f].adopted \subseteq ImageIds
                BY <4>2, SaveRows
            <4>4. \A x \in edits[f].pruned \cup edits[f].adopted : x \notin t.pruned /\ x \notin t.adopted
                BY <1>a, <1>2, <3>1, <4>1 DEF ImagesAreHeld
            <4>5. QED
                BY <1>6, <4>3, <4>4
        <3>6. ASSUME NEW g \in BlogAdmins \ {f}, Writing(edits'[g]) PROVE edits'[g] = edits[g]
            BY <1>3, <3>6, IdleSave DEF Writing
        <3>7. ImagesAreHeld(f, edits[f])'
            BY <3>1, <3>5, <3>6 DEF ImagesAreHeld, IsStored
        <3>8. QED
            BY <3>1, <3>4, <3>7
    <2>3. QED
        BY <2>1, <2>2 DEF SavesHold
<1>9. QED
    BY <1>4, <1>5, <1>6, <1>7, <1>8 DEF BlogsInv, BlogsTypeOK

(* Posts and images that change without a save: none a save holds, and no  *)
(* post appears or takes another address.                                  *)
LEMMA TablesKeep ==
    ASSUME BlogsInv, UNCHANGED edits,
           posts' \in [PostIds -> PostRows \cup {Unborn, Gone}],
           images' \in [ImageIds -> ImageRows \cup {Unborn, Gone}],
           \A p \in PostIds : IsLive(p)' => posts'[p] = posts[p],
           \A e \in BlogAdmins, x \in ImageIds :
               HoldsImage(e, x) /\ IsStored(x) =>
                   IsStored(x)' /\ images'[x].owner = images[x].owner
    PROVE  BlogsInv'
<1>1. BlogsTypeOK /\ AddressesDistinct /\ SavesHold
    BY DEF BlogsInv
<1>2. \A p \in PostIds : IsLive(p)' => IsLive(p) /\ posts'[p] = posts[p]
    BY DEF IsLive
<1>3. AddressesDistinct'
    BY <1>1, <1>2 DEF AddressesDistinct
<1>4. ASSUME NEW e \in BlogAdmins
      PROVE  SaveInOrder(edits'[e]) /\ SlugIsTaken(e, edits[e])' /\ ImagesAreHeld(e, edits[e])'
    <2>1. SaveInOrder(edits[e]) /\ SlugIsTaken(e, edits[e]) /\ ImagesAreHeld(e, edits[e])
        BY <1>1 DEF SavesHold
    <2>2. SlugIsTaken(e, edits[e])'
        BY <1>2, <2>1 DEF SlugIsTaken
    <2>3. Writing(edits[e]) =>
              \A x \in edits[e].pruned \cup edits[e].adopted :
                  IsStored(x)' /\ images'[x].owner = images[x].owner
        <3>1. SUFFICES ASSUME Writing(edits[e]), NEW x \in edits[e].pruned \cup edits[e].adopted
                       PROVE  IsStored(x)' /\ images'[x].owner = images[x].owner
            OBVIOUS
        <3>2. edits[e] \in Edits
            BY <1>1, <3>1, IdleSave DEF Writing
        <3>3. x \in ImageIds
            BY <3>2, SaveRows
        <3>4. HoldsImage(e, x) /\ IsStored(x)
            BY <2>1, <3>1 DEF HoldsImage, Wrote, Writing, ImagesAreHeld
        <3>5. QED
            BY <3>3, <3>4
    <2>4. ImagesAreHeld(e, edits[e])'
        BY <2>1, <2>3 DEF ImagesAreHeld
    <2>5. QED
        BY <2>1, <2>2, <2>4
<1>5. QED
    BY <1>1, <1>3, <1>4 DEF BlogsInv, BlogsTypeOK, SavesHold

LEMMA TablesStep ==
    ASSUME BlogsInv,
           \/ \E p \in PostIds : DeletePost(p)
           \/ UploadImage({})
           \/ \E x \in ImageIds : UploadImage({x}) \/ PassADay(x)
    PROVE  BlogsInv'
<1>1. /\ BlogsTypeOK
      /\ posts \in [PostIds -> PostRows \cup {Unborn, Gone}]
      /\ images \in [ImageIds -> ImageRows \cup {Unborn, Gone}]
    BY DEF BlogsInv, BlogsTypeOK
<1>2. ASSUME NEW p \in PostIds, DeletePost(p) PROVE BlogsInv'
    <2>1. /\ UNCHANGED edits
          /\ posts' = [posts EXCEPT ![p] = Gone]
          /\ images' = [x \in ImageIds |-> IF x \in ImagesOf(p) THEN Gone ELSE images[x]]
          /\ \A e \in BlogAdmins : \A x \in ImagesOf(p) : ~HoldsImage(e, x)
        BY <1>2 DEF DeletePost
    <2>2. /\ posts' \in [PostIds -> PostRows \cup {Unborn, Gone}]
          /\ images' \in [ImageIds -> ImageRows \cup {Unborn, Gone}]
        BY <1>1, <2>1
    <2>3. \A q \in PostIds : IsLive(q)' => posts'[q] = posts[q]
        BY <1>1, <2>1 DEF IsLive
    <2>4. \A e \in BlogAdmins, x \in ImageIds : HoldsImage(e, x) => images'[x] = images[x]
        BY <2>1
    <2>5. QED
        BY <2>1, <2>2, <2>3, <2>4, TablesKeep DEF IsStored
<1>3. ASSUME NEW new \in SUBSET ImageIds, UploadImage(new) PROVE BlogsInv'
    <2> DEFINE unused == {y \in ImagesOf(Blank) : images[y].stale}
    <2>1. /\ UNCHANGED <<posts, edits>>
          /\ \A x \in new : images[x] = Unborn
          /\ \A e \in BlogAdmins : \A y \in unused : ~HoldsImage(e, y)
          /\ images' = [y \in ImageIds |->
                 IF y \in new THEN [owner |-> Blank, stale |-> FALSE]
                 ELSE IF y \in unused THEN Gone ELSE images[y]]
        BY <1>3 DEF UploadImage
    <2> HIDE DEF unused
    <2>2. [owner |-> Blank, stale |-> FALSE] \in ImageRows
        BY DEF ImageRows
    <2>3. images' \in [ImageIds -> ImageRows \cup {Unborn, Gone}]
        BY <1>1, <2>1, <2>2
    <2>4. \A e \in BlogAdmins, x \in ImageIds :
              HoldsImage(e, x) /\ IsStored(x) => images'[x] = images[x]
        BY <2>1 DEF IsStored
    <2>5. QED
        BY <1>1, <2>1, <2>3, <2>4, TablesKeep DEF IsStored
<1>4. ASSUME NEW x \in ImageIds, PassADay(x) PROVE BlogsInv'
    <2>1. UNCHANGED <<posts, edits>> /\ images[x] \in ImageRows
        BY <1>1, <1>4, LiveRows DEF PassADay
    <2>2. PICK row : row = [images[x] EXCEPT !.stale = TRUE]
        OBVIOUS
    <2>3. images' = [images EXCEPT ![x] = row]
        BY <1>4, <2>2 DEF PassADay
    <2>4. row \in ImageRows /\ row.owner = images[x].owner
        BY <2>1, <2>2 DEF ImageRows
    <2>5. images' \in [ImageIds -> ImageRows \cup {Unborn, Gone}]
        BY <1>1, <2>3, <2>4
    <2>6. \A y \in ImageIds :
              IsStored(y) => images'[y] \in ImageRows /\ images'[y].owner = images[y].owner
        BY <1>1, <2>3, <2>4, LiveRows
    <2>7. Unborn \notin ImageRows /\ Gone \notin ImageRows
        BY DEF Unborn, Gone, ImageRows
    <2>8. \A y \in ImageIds : IsStored(y) => IsStored(y)' /\ images'[y].owner = images[y].owner
        BY <2>6, <2>7 DEF IsStored
    <2>9. QED
        BY <1>1, <2>1, <2>5, <2>8, TablesKeep
<1>5. QED
    BY <1>2, <1>3, <1>4

LEMMA BlogsInitHolds == BlogsInit => BlogsInv
<1> SUFFICES ASSUME BlogsInit PROVE BlogsInv
    OBVIOUS
<1>1. BlogsTypeOK
    BY DEF BlogsInit, BlogsTypeOK
<1>2. AddressesDistinct
    BY DEF BlogsInit, AddressesDistinct, IsLive
<1>3. SavesHold
    BY IdleSave DEF BlogsInit, SavesHold, SaveInOrder, SlugIsTaken, ImagesAreHeld, Writing
<1>4. QED
    BY <1>1, <1>2, <1>3 DEF BlogsInv

LEMMA BlogsStep == BlogsInv /\ [BlogsNext]_blogVars => BlogsInv'
<1> SUFFICES ASSUME BlogsInv, [BlogsNext]_blogVars PROVE BlogsInv'
    OBVIOUS
<1>1. ASSUME NEW e \in BlogAdmins, RollBackEdit(e) PROVE BlogsInv'
    <2>1. edits' = [edits EXCEPT ![e] = IdleEdit] /\ UNCHANGED <<posts, images>>
        BY <1>1 DEF RollBackEdit
    <2>2. SaveInOrder(IdleEdit) /\ SlugIsTaken(e, IdleEdit) /\ ImagesAreHeld(e, IdleEdit)
        BY IdleSave DEF SaveInOrder, SlugIsTaken, ImagesAreHeld, Writing
    <2>3. QED
        BY <2>1, <2>2, SaveKeeps
<1>2. ASSUME NEW e \in BlogAdmins, EditStep(e) PROVE BlogsInv'
    BY <1>1, <1>2, SaveBegins, SaveCompares, SaveWrites, SaveChooses, SaveTakesImages, SaveCommits
       DEF EditStep
<1>3. CASE UNCHANGED blogVars
    BY <1>3 DEF blogVars, BlogsInv, BlogsTypeOK, AddressesDistinct, IsLive, SavesHold, SlugIsTaken,
                ImagesAreHeld, IsStored
<1>4. QED
    BY <1>2, <1>3, TablesStep DEF BlogsNext

(* The blog's tables and its saves in flight keep the invariant.           *)
THEOREM BlogsInvariant == BlogsSpec => []BlogsInv
<1>1. QED
    BY BlogsInitHolds, BlogsStep, PTL DEF BlogsSpec

(* No two posts share an address, however many administrators save at once *)
(* between probing it and writing it.                                      *)
THEOREM AddressesDistinctHolds == BlogsSpec => []AddressesDistinct
<1>1. BlogsInv => AddressesDistinct
    BY DEF BlogsInv
<1>2. QED
    BY <1>1, BlogsInvariant, PTL

(* Only its post, deleted or saved without it, takes an image away.        *)
LEMMA ImagesLeaveStep ==
    ASSUME BlogsInv, [BlogsNext]_blogVars, NEW p \in PostIds, NEW x \in ImagesOf(p),
           images'[x] = Gone
    PROVE  \/ posts'[p] = Gone
           \/ \E e \in BlogAdmins :
                  /\ edits[e].pc = "adopted" /\ edits'[e] = IdleEdit
                  /\ edits[e].post = p /\ x \notin edits[e].row.shows
<1>1. BlogsTypeOK /\ x \in ImageIds /\ IsStored(x) /\ images[x].owner = p /\ SavesHold
    BY DEF ImagesOf, BlogsInv
<1>2. images[x] \in ImageRows /\ images[x] # Gone
    BY <1>1, LiveRows DEF IsStored
<1>3. ASSUME NEW e \in BlogAdmins, EditStep(e)
      PROVE  /\ edits[e].pc = "adopted" /\ edits'[e] = IdleEdit
             /\ edits[e].post = p /\ x \notin edits[e].row.shows
    <2>1. CommitEdit(e)
        BY <1>2, <1>3
           DEF EditStep, CreatePost, UpdatePost, CompareRow, WriteRow, ChooseImages, PruneImages,
               AdoptImages, RollBackEdit
    <2>2. edits[e].pc = "adopted" /\ edits'[e] = IdleEdit
        BY <1>1, <2>1 DEF CommitEdit, BlogsTypeOK
    <2>3. images'[x] = IF x \in edits[e].pruned THEN Gone
                       ELSE IF x \in edits[e].adopted
                       THEN [images[x] EXCEPT !.owner = edits[e].post]
                       ELSE images[x]
        BY <1>1, <2>1 DEF CommitEdit
    <2>4. [images[x] EXCEPT !.owner = edits[e].post] # Gone
        BY <1>2 DEF ImageRows, Gone
    <2>5. x \in edits[e].pruned
        BY <1>2, <2>3, <2>4
    <2>6. QED
        BY <1>1, <2>2, <2>5 DEF SavesHold, ImagesAreHeld, Writing
<1>4. ASSUME NEW q \in PostIds, DeletePost(q) PROVE posts'[p] = Gone
    <2>1. q = p
        BY <1>1, <1>2, <1>4 DEF DeletePost, ImagesOf
    <2>2. QED
        BY <1>1, <1>4, <2>1 DEF DeletePost, BlogsTypeOK
<1>5. ASSUME NEW new \in SUBSET ImageIds, UploadImage(new) PROVE FALSE
    <2>1. [owner |-> Blank, stale |-> FALSE] # Gone
        BY DEF Gone
    <2>2. x \in ImagesOf(Blank)
        BY <1>1, <1>2, <1>5, <2>1 DEF UploadImage
    <2>3. QED
        BY <1>1, <2>2, BlogsAssumption DEF ImagesOf
<1>6. ASSUME NEW y \in ImageIds, PassADay(y) PROVE FALSE
    <2>1. images' = [images EXCEPT ![y] = [images[y] EXCEPT !.stale = TRUE]]
        BY <1>6 DEF PassADay
    <2>2. [images[x] EXCEPT !.stale = TRUE] # Gone
        BY <1>2 DEF ImageRows, Gone
    <2>3. QED
        BY <1>1, <1>2, <2>1, <2>2 DEF BlogsTypeOK
<1>7. ~UNCHANGED blogVars
    BY <1>2 DEF blogVars
<1>8. {} \in SUBSET ImageIds /\ \A y \in ImageIds : {y} \in SUBSET ImageIds
    OBVIOUS
<1>9. QED
    BY <1>3, <1>4, <1>5, <1>6, <1>7, <1>8 DEF BlogsNext

(* An image leaves the database with its post or because a save of that    *)
(* post does not show it; no other save and no cleanup takes it.           *)
THEOREM ImagesLeaveByOwnerHolds == BlogsSpec => ImagesLeaveByOwner
<1>1. BlogsInv /\ [BlogsNext]_blogVars =>
          [\A p \in PostIds : \A x \in ImagesOf(p) :
              images'[x] = Gone =>
                  \/ posts'[p] = Gone
                  \/ \E e \in BlogAdmins :
                         /\ edits[e].pc = "adopted" /\ edits'[e] = IdleEdit
                         /\ edits[e].post = p /\ x \notin edits[e].row.shows]_blogVars
    BY ImagesLeaveStep
<1>2. QED
    BY <1>1, BlogsInvariant, PTL DEF BlogsSpec, ImagesLeaveByOwner
=============================================================================
