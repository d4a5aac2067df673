----------------------------- MODULE MCBuyingPage -----------------------------
(***************************************************************************)
(* Small instances, for TLC, of the parts of the buy page: the checkout    *)
(* controller, the wallet's sending, the verified session and the          *)
(* connection of the header.  Their modules share no state: a behaviour is *)
(* one of a single part, chosen at the start, while the others stay in     *)
(* their initial states.                                                   *)
(***************************************************************************)
EXTENDS CheckoutClient, WalletSend, WalletSession, ProviderSync

VARIABLE part       \* the part that runs

buyingVars == <<part, clientVars, sendVars, sessionVars, syncVars>>

PageInit ==
    /\ part \in {"checkout", "wallet", "session", "provider"}
    /\ ClientInit
    /\ SendInit /\ (part # "wallet" => rail = "ETHEREUM")
    /\ SessionInit
    /\ SyncInit

(* One disjunct for each part.                                             *)
PageNext ==
    \/ /\ part = "checkout" /\ ClientNext
       /\ UNCHANGED <<part, sendVars, sessionVars, syncVars>>
    \/ /\ part = "wallet" /\ SendNext
       /\ UNCHANGED <<part, clientVars, sessionVars, syncVars>>
    \/ /\ part = "session" /\ SessionNext
       /\ UNCHANGED <<part, clientVars, sendVars, syncVars>>
    \/ /\ part = "provider" /\ SyncNext
       /\ UNCHANGED <<part, clientVars, sendVars, sessionVars>>

PageSpec == PageInit /\ [][PageNext]_buyingVars

(* What the records of the past still decide.  Of a settled checkout,      *)
(* which stays settled, no action or property reads them.  Of the others,  *)
(* that one was forgotten and that it was displaced excuse the same, and a *)
(* broadcast is read only where nothing excuses it.                        *)
StillRead ==
    LET open == {i \in Checkouts : server[i] # "SETTLED"}
        gone == forgotten \cup displaced
    IN  <<reloads, open \cap gone, open \cap (lost \ gone),
          open \cap (sent \ (gone \cup lost))>>

(* What tells two states apart: the variables of the part that runs, since *)
(* those of the others keep their initial values.                          *)
RunningPart ==
    CASE part = "checkout" -> <<part, server, prompts, page, runs, poll, stored, StillRead>>
      [] part = "wallet" -> <<part, sendVars>>
      [] part = "session" -> <<part, sessionVars>>
      [] part = "provider" -> <<part, syncVars>>

(* Every store, cookie and run of the running part holds rows of the types *)
(* the code declares, at every point between two awaits.                   *)
PageTypeOK ==
    CASE part = "checkout" -> ClientTypeOK
      [] part = "wallet" -> SendTypeOK
      [] part = "session" -> SessionTypeOK
      [] part = "provider" -> ProviderTypeOK
=============================================================================
