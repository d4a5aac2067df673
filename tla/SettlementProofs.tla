---------------------------- MODULE SettlementProofs ----------------------------
(***************************************************************************)
(* More about Payments, for any number of checkouts, wallet actions,       *)
(* transactions, requests and scanners: what is settled stays settled,     *)
(* though handlers write what they read earlier, and what is reported can  *)
(* be shown.                                                               *)
(***************************************************************************)
EXTENDS PaymentReports, PaymentsProofs

-----------------------------------------------------------------------------
(* The inductive invariants, besides IInv.                                 *)

Counted(status) == status \notin {"ABSENT", "WAITING", "EXPIRED"}

HasPayment(i) == payments[i].status # "ABSENT"

Holds(s, i) == scan[s].pc \in {"find", "expire", "save"} /\ scan[s].intent = i

(* A checkout that counts as paid has a payment, and so has one a scan     *)
(* loaded as such and may save as such.                                    *)
CountedIsPaid ==
    /\ \A i \in Intents : Counted(intents[i].status) => HasPayment(i)
    /\ \A s \in Scanners, i \in Intents :
           /\ Counted(scan[s].batch[i].status) => HasPayment(i)
           /\ Holds(s, i) /\ Counted(scan[s].seen) => HasPayment(i)

(* A match about to be persisted is of a transaction the chain has seen,   *)
(* or, on Solana, of the one that was submitted.                           *)
MatchesSeen ==
    /\ \A h \in Handlers : req[h].op = "persist" => txs[req[h].match.tx].state # "UNSENT"
    /\ \A s \in Scanners, i \in Intents :
           scan[s].pc = "save" /\ scan[s].match # NoMatch /\ scan[s].intent = i =>
               IF intents[i].chain = "SOLANA" THEN scan[s].match.tx = payments[i].tx
               ELSE txs[scan[s].match.tx].state # "UNSENT"

(* Scans exclude each other, and take what they check out of their batch.  *)
ScansApart ==
    \A s \in Scanners :
        /\ scan[s].pc # "idle" => lock = s
        /\ scan[s].pc = "idle" => \A i \in Intents : scan[s].batch[i] = NotInBatch
        /\ \A i \in Intents : Holds(s, i) => scan[s].batch[i] = NotInBatch

(* Off Ethereum a confirmed checkout is out of the reach of every scan.    *)
ConfirmedIsClosed ==
    \A i \in Intents :
        intents[i].chain # "ETHEREUM" /\ payments[i].status = "CONFIRMED" =>
            /\ intents[i].status = "CONFIRMED"
            /\ \A s \in Scanners : scan[s].batch[i] = NotInBatch /\ ~Holds(s, i)

(* And so is every other closed one: the scan that closes a checkout has   *)
(* taken it out of its batch, and later batches are of open checkouts.     *)
TerminalIsClosed ==
    \A i \in Intents :
        intents[i].chain # "ETHEREUM" /\ intents[i].status \in TerminalStatuses =>
            \A s \in Scanners : scan[s].batch[i] = NotInBatch /\ ~Holds(s, i)

(* A submission under way is of an action of its checkout.                 *)
SubmissionsFit ==
    \A h \in Handlers : req[h].op = "submit" =>
        /\ req[h].action \in Actions
        /\ actions[req[h].action].intent = req[h].intent
        /\ actions[req[h].action].status # "ABSENT"

SettlementInv ==
    /\ IInv
    /\ CountedIsPaid
    /\ MatchesSeen
    /\ ScansApart
    /\ ConfirmedIsClosed
    /\ TerminalIsClosed
    /\ SubmissionsFit

-----------------------------------------------------------------------------
(* What a step does.                                                       *)

(* A payment is written together with the status of its checkout.          *)
Pays(i, match) ==
    /\ IntentExists(i) /\ match.status \in PaymentStatuses /\ match.tx \in Txs
    /\ payments' = [payments EXCEPT ![i] = match]
    /\ intents'[i].status = match.status
    /\ \A j \in Intents \ {i} : intents'[j] = intents[j]

(* Only the status of a checkout is written.                               *)
Marks(i, status) ==
    /\ IntentExists(i) /\ UNCHANGED payments
    /\ intents'[i].status = status
    /\ \A j \in Intents \ {i} : intents'[j] = intents[j]

LEMMA StatusWrites ==
  ASSUME TypeOK, NEW i \in Intents, NEW status \in IntentStatuses, NEW checked \in BOOLEAN,
         intents' = [intents EXCEPT ![i].status = status, ![i].checked = checked]
  PROVE  intents'[i].status = status /\ \A j \in Intents \ {i} : intents'[j] = intents[j]
  BY DEF TypeOK, IntentRows

(* persistMatch writes a sound match to an existing checkout.              *)
LEMMA PersistPays ==
  ASSUME IInv, NEW i, IntentExists(i), NEW match, match.status \in PaymentStatuses,
         MatchSound(i, match), PersistMatch(i, match)
  PROVE  Pays(i, match)
<1>1. TypeOK /\ i \in Intents /\ match.status \in IntentStatuses
  BY PaymentStatusTypes DEF IInv, IntentExists
<1>2. intents'[i].status = match.status /\ \A j \in Intents \ {i} : intents'[j] = intents[j]
  BY <1>1, StatusWrites DEF PersistMatch
<1> QED
  BY <1>2 DEF Pays, PersistMatch, MatchSound

LEMMA SubmitPays ==
  ASSUME IInv, NEW h \in Handlers, SubmitCommit(h)
  PROVE  \/ UNCHANGED tables
         \/ /\ Pays(req[h].intent, [status |-> "CONFIRMING", tx |-> req[h].tx,
                                    amount |-> intents[req[h].intent].expected])
            /\ payments[req[h].intent].tx \in {NoTx, req[h].tx}
<1>1. /\ TypeOK /\ IntentExists(req[h].intent) /\ req[h].intent \in Intents /\ req[h].tx \in Txs
      /\ "CONFIRMING" \in PaymentStatuses /\ "CONFIRMING" \in IntentStatuses
  BY StatusNames, PaymentStatusTypes DEF IInv, ReqSound, SubmitCommit, IntentExists
<1>2. CASE SubmitAccepted(req[h].intent, req[h].action, req[h].tx, req[h].seen)
  <2> DEFINE match == [status |-> "CONFIRMING", tx |-> req[h].tx,
                       amount |-> intents[req[h].intent].expected]
  <2>1. /\ payments' = [payments EXCEPT ![req[h].intent] = match]
        /\ intents' = [intents EXCEPT ![req[h].intent].status = "CONFIRMING",
                                      ![req[h].intent].checked = FALSE]
        /\ payments[req[h].intent].tx \in {NoTx, req[h].tx}
    BY <1>2 DEF SubmitCommit, SubmitAccepted
  <2>2. match.status = "CONFIRMING" /\ match.tx = req[h].tx
    OBVIOUS
  <2>3. /\ intents'[req[h].intent].status = "CONFIRMING"
        /\ \A j \in Intents \ {req[h].intent} : intents'[j] = intents[j]
    BY <1>1, <2>1, StatusWrites
  <2> HIDE DEF match
  <2>4. Pays(req[h].intent, match)
    BY <1>1, <2>1, <2>2, <2>3 DEF Pays
  <2> QED
    BY <2>1, <2>4 DEF match
<1>3. CASE ~SubmitAccepted(req[h].intent, req[h].action, req[h].tx, req[h].seen)
  BY <1>3 DEF SubmitCommit
<1> QED
  BY <1>2, <1>3

LEMMA HookPays ==
  ASSUME IInv, NEW h \in Handlers, HookPersist(h)
  PROVE  \/ UNCHANGED tables
         \/ /\ PersistMatch(req[h].intent, req[h].match) /\ Pays(req[h].intent, req[h].match)
            /\ intents[req[h].intent].chain = "ETHEREUM"
<1>1. /\ IntentExists(req[h].intent) /\ req[h].match.status \in PaymentStatuses
      /\ MatchSound(req[h].intent, req[h].match)
      /\ intents[req[h].intent].chain = "ETHEREUM"
  BY DEF IInv, ReqSound, HookPersist, HookFits
<1> QED
  BY <1>1, PersistPays DEF HookPersist

LEMMA ScanPays ==
  ASSUME IInv, NEW s \in Scanners, ScanSave(s) \/ ScanExpire(s)
  PROVE  \/ UNCHANGED tables
         \/ /\ ScanSave(s) /\ scan[s].match # NoMatch
            /\ PersistMatch(scan[s].intent, scan[s].match) /\ Pays(scan[s].intent, scan[s].match)
         \/ UNCHANGED actions /\ Marks(scan[s].intent, "EXPIRED")
         \/ UNCHANGED actions /\ Marks(scan[s].intent, scan[s].seen)
<1>1. /\ TypeOK /\ IntentExists(scan[s].intent) /\ scan[s].intent \in Intents
      /\ scan[s].seen \in IntentStatuses
  BY DEF IInv, ScanSound, ScanSave, ScanExpire, IntentExists, IntentStatuses
<1>2. CASE ScanExpire(s)
  <2>1. "EXPIRED" \in IntentStatuses
    BY DEF IntentStatuses, TerminalStatuses
  <2>2. /\ intents'[scan[s].intent].status = "EXPIRED"
        /\ \A j \in Intents \ {scan[s].intent} : intents'[j] = intents[j]
    BY <1>1, <1>2, <2>1, StatusWrites DEF ScanExpire
  <2> QED
    BY <1>1, <1>2, <2>2 DEF Marks, ScanExpire
<1>3. CASE ScanSave(s) /\ scan[s].match = NoMatch
  <2>1. /\ intents'[scan[s].intent].status = scan[s].seen
        /\ \A j \in Intents \ {scan[s].intent} : intents'[j] = intents[j]
    BY <1>1, <1>3, StatusWrites DEF ScanSave
  <2> QED
    BY <1>1, <1>3, <2>1 DEF Marks, ScanSave
<1>4. CASE ScanSave(s) /\ scan[s].match # NoMatch
  <2>1. scan[s].match.status \in PaymentStatuses /\ MatchSound(scan[s].intent, scan[s].match)
    BY <1>4 DEF IInv, ScanSound, ScanSave
  <2> QED
    BY <1>1, <1>4, <2>1, PersistPays DEF ScanSave
<1> QED
  BY <1>2, <1>3, <1>4

(* Everything a step may do to checkouts and payments.                     *)
LEMMA Writes ==
  ASSUME IInv, [Next]_vars
  PROVE  \/ UNCHANGED <<intents, payments>>
         \/ \E i \in Intents :
                /\ intents[i].status = "ABSENT" /\ intents'[i].status = "WAITING"
                /\ UNCHANGED payments
                /\ \A j \in Intents \ {i} : intents'[j] = intents[j]
         \/ \E h \in Handlers :
                /\ SubmitCommit(h)
                /\ payments[req[h].intent].tx \in {NoTx, req[h].tx}
                /\ Pays(req[h].intent, [status |-> "CONFIRMING", tx |-> req[h].tx,
                                        amount |-> intents[req[h].intent].expected])
         \/ \E h \in Handlers :
                /\ HookPersist(h) /\ Pays(req[h].intent, req[h].match)
                /\ intents[req[h].intent].chain = "ETHEREUM"
         \/ \E s \in Scanners :
                /\ ScanSave(s) /\ scan[s].match # NoMatch
                /\ Pays(scan[s].intent, scan[s].match)
         \/ \E s \in Scanners :
                /\ ScanSave(s) \/ ScanExpire(s)
                /\ Marks(scan[s].intent, "EXPIRED") \/ Marks(scan[s].intent, scan[s].seen)
<1>1. ASSUME NEW i \in Intents, NEW chain, NEW sender, NEW amount, NEW created,
             CreateIntent(i, chain, sender, amount, created)
      PROVE  /\ intents[i].status = "ABSENT" /\ intents'[i].status = "WAITING"
             /\ UNCHANGED payments
             /\ \A j \in Intents \ {i} : intents'[j] = intents[j]
  BY <1>1 DEF CreateIntent, IInv, TypeOK
<1>2. ASSUME NEW h \in Handlers, Request(h)
      PROVE  SubmitCommit(h) \/ HookPersist(h) \/ UNCHANGED <<intents, payments>>
  BY <1>2 DEF Request, PrepareRead, PrepareSave, SubmitRead, BroadcastRead, BroadcastAccept,
              BroadcastSave, HookReceive, HookMatch, Abort, tables
<1>3. ASSUME NEW s \in Scanners, Scan(s)
      PROVE  ScanSave(s) \/ ScanExpire(s) \/ UNCHANGED <<intents, payments>>
  BY <1>3 DEF Scan, ScanStart, ScanSkip, ScanCheck, ScanFind, ScanError, ScanEnd, ScanCrash,
              tables
<1>4. CASE Environment \/ UNCHANGED vars
  BY <1>4 DEF Environment, Send, Tick, vars, tables
<1>5. CASE \E h \in Handlers : Request(h)
  <2>1. PICK h \in Handlers : Request(h)
    BY <1>5
  <2> QED
    BY <1>2, <2>1, SubmitPays, HookPays DEF tables
<1>6. CASE \E s \in Scanners : Scan(s)
  <2>1. PICK s \in Scanners : Scan(s)
    BY <1>6
  <2> QED
    BY <1>3, <2>1, ScanPays DEF tables
<1> QED
  BY <1>1, <1>4, <1>5, <1>6 DEF Next

(* Payments are never deleted, and a checkout keeps its chain.             *)
LEMMA PaymentsStay ==
  ASSUME IInv, [Next]_vars, NEW i \in Intents
  PROVE  /\ HasPayment(i) => HasPayment(i)'
         /\ intents'[i].chain = intents[i].chain \/ intents[i].status = "ABSENT"
         /\ intents[i].status # "ABSENT" => intents'[i].status # "ABSENT"
<1>1. Grows
  BY NextGrows
<1>2. "ABSENT" \notin PaymentStatuses
  BY StatusNames DEF PaymentStatuses
<1>3. ASSUME NEW j, NEW match, Pays(j, match), HasPayment(i)
      PROVE  HasPayment(i)'
  BY <1>2, <1>3 DEF Pays, HasPayment, IInv, TypeOK, IntentExists
<1>4. HasPayment(i) => HasPayment(i)'
  <2>1. CASE UNCHANGED payments
    BY <2>1 DEF HasPayment
  <2>2. UNCHANGED payments \/ \E j, match : Pays(j, match)
    BY Writes DEF Marks
  <2> QED
    BY <1>3, <2>1, <2>2
<1> QED
  BY <1>1, <1>4 DEF Grows, SameCheckout

(* The entities a scan holds are dropped one by one.                       *)
Drops(s) ==
    \A j \in Intents : scan'[s].batch[j] = scan[s].batch[j] \/ scan'[s].batch[j] = NotInBatch

(* Everything a step may do to a scan.                                     *)
LEMMA ScanMoves ==
  ASSUME IInv, [Next]_vars, NEW s \in Scanners
  PROVE  \/ scan'[s] = scan[s]
         \/ /\ scan'[s].pc = "idle"
            /\ \A j \in Intents : scan'[s].batch[j] = NotInBatch
         \/ /\ scan[s].pc \in {"find", "expire", "save"} /\ scan'[s].pc = "next"
            /\ scan'[s].batch = scan[s].batch
         \/ /\ lock = NoScanner /\ scan'[s].pc = "next" /\ UNCHANGED <<intents, payments>>
            /\ \A j \in Intents : scan'[s].batch[j] # NotInBatch =>
                   /\ intents[j].status \in OpenStatuses
                   /\ scan'[s].batch[j].status = intents[j].status
         \/ scan[s].pc = "next" /\ scan'[s].pc = "next" /\ Drops(s)
         \/ /\ scan[s].pc = "next" /\ scan'[s].pc \in {"find", "expire"} /\ Drops(s)
            /\ scan'[s].intent \in Intents
            /\ scan[s].batch[scan'[s].intent] # NotInBatch
            /\ scan'[s].batch[scan'[s].intent] = NotInBatch
            /\ scan'[s].seen = scan[s].batch[scan'[s].intent].status
         \/ /\ scan[s].pc = "find" /\ scan'[s].pc = "save" /\ UNCHANGED <<txs, tables>>
            /\ scan'[s].intent = scan[s].intent /\ scan'[s].seen = scan[s].seen
            /\ scan'[s].batch = scan[s].batch
            /\ \E healthy \in BOOLEAN :
                   scan'[s].match \in Answers(scan[s].intent, scan[s].tx, healthy)
<1>1. TypeOK /\ scan[s] \in ScanRows
  BY DEF IInv, TypeOK
<1>2. CASE ScanStart(s)
  <2> DEFINE batch == [i \in Intents |->
                 IF i \in OldestOpen
                 THEN [status |-> intents[i].status, checked |-> intents[i].checked]
                 ELSE NotInBatch]
  <2>1. scan'[s] = [IdleScan EXCEPT !.pc = "next", !.batch = batch]
    BY <1>1, <1>2 DEF ScanStart, TypeOK
  <2>2. \A j \in Intents : batch[j] # NotInBatch =>
            intents[j].status \in OpenStatuses /\ batch[j].status = intents[j].status
    BY DEF OldestOpen, OpenIntents
  <2> HIDE DEF batch
  <2>3. scan'[s].pc = "next" /\ scan'[s].batch = batch
    BY <2>1 DEF IdleScan
  <2> QED
    BY <1>2, <2>2, <2>3 DEF ScanStart, tables
<1>3. ASSUME NEW i \in Intents, ScanSkip(s, i)
      PROVE  scan[s].pc = "next" /\ scan'[s].pc = "next" /\ Drops(s)
  <2>1. scan'[s] = [scan[s] EXCEPT !.batch = [scan[s].batch EXCEPT ![i] = NotInBatch]]
    BY <1>1, <1>3 DEF ScanSkip, TypeOK
  <2> QED
    BY <1>1, <1>3, <2>1 DEF ScanSkip, TakeNext, ScanRows, Drops
<1>4. ASSUME NEW i \in Intents, NEW tx \in Txs \cup {NoTx}, ScanCheck(s, i, tx)
      PROVE  /\ scan[s].pc = "next" /\ Drops(s)
             /\ \/ scan'[s].pc = "next"
                \/ /\ scan'[s].pc \in {"find", "expire"}
                   /\ scan'[s].intent = i /\ scan[s].batch[i] # NotInBatch
                   /\ scan'[s].batch[i] = NotInBatch
                   /\ scan'[s].seen = scan[s].batch[i].status
  <2>1. PICK seen, pc, taken :
            /\ seen = scan[s].batch[i].status
            /\ pc = IF Overdue(i) /\ SubmittedActions(i) = {} THEN "expire" ELSE "find"
            /\ taken = [scan[s] EXCEPT !.batch = [scan[s].batch EXCEPT ![i] = NotInBatch]]
    OBVIOUS
  <2>2. \/ scan'[s] = taken
        \/ scan'[s] = [taken EXCEPT !.pc = pc, !.intent = i, !.seen = seen, !.tx = tx]
    BY <1>1, <1>4, <2>1 DEF ScanCheck, TypeOK
  <2>3. scan[s].batch[i] # NotInBatch /\ scan[s].pc = "next"
    BY <1>4 DEF ScanCheck, TakeNext, Oldest, Remaining
  <2>4. /\ taken.pc = "next" /\ taken \in ScanRows /\ taken.batch[i] = NotInBatch
        /\ \A j \in Intents : taken.batch[j] = scan[s].batch[j] \/ taken.batch[j] = NotInBatch
    BY <1>1, <2>1, <2>3 DEF ScanRows, BatchRows, NotInBatch
  <2>5. pc \in {"expire", "find"}
    BY <2>1
  <2>6. CASE scan'[s] = taken
    BY <2>3, <2>4, <2>6 DEF Drops
  <2>7. CASE scan'[s] = [taken EXCEPT !.pc = pc, !.intent = i, !.seen = seen, !.tx = tx]
    <3>1. /\ scan'[s].pc = pc /\ scan'[s].intent = i /\ scan'[s].seen = seen
          /\ scan'[s].batch = taken.batch
      BY <2>4, <2>7 DEF ScanRows
    <3> QED
      BY <2>1, <2>3, <2>4, <2>5, <3>1 DEF Drops
  <2> QED
    BY <2>2, <2>6, <2>7
<1>5. ASSUME NEW healthy \in BOOLEAN, ScanFind(s, healthy), scan'[s] # Proceed(s)
      PROVE  /\ scan[s].pc = "find" /\ scan'[s].pc = "save" /\ UNCHANGED <<txs, tables>>
             /\ scan'[s].intent = scan[s].intent /\ scan'[s].seen = scan[s].seen
             /\ scan'[s].batch = scan[s].batch
             /\ scan'[s].match \in Answers(scan[s].intent, scan[s].tx, healthy)
  <2>1. PICK match \in Answers(scan[s].intent, scan[s].tx, healthy) :
            scan'[s] = [scan[s] EXCEPT !.pc = "save", !.match = match]
    BY <1>1, <1>5, Zenon DEF ScanFind, TypeOK
  <2>2. /\ scan'[s].pc = "save" /\ scan'[s].match = match
        /\ scan'[s].intent = scan[s].intent /\ scan'[s].seen = scan[s].seen
        /\ scan'[s].batch = scan[s].batch
    BY <1>1, <2>1 DEF ScanRows
  <2> QED
    BY <1>5, <2>2 DEF ScanFind
<1>6. CASE ScanExpire(s) \/ ScanSave(s) \/ ScanError(s)
  <2>1. scan'[s] = Proceed(s) /\ scan[s].pc \in {"find", "expire", "save"}
    BY <1>1, <1>6 DEF ScanExpire, ScanSave, ScanError, TypeOK
  <2>2. scan'[s].pc = "next" /\ scan'[s].batch = scan[s].batch
    BY <1>1, <2>1 DEF Proceed, ScanRows
  <2> QED
    BY <2>1, <2>2
<1>7. CASE ScanEnd(s) \/ ScanCrash(s)
  <2>1. scan'[s] = IdleScan
    BY <1>1, <1>7 DEF ScanEnd, ScanCrash, TypeOK
  <2> QED
    BY <2>1 DEF IdleScan, EmptyBatch
<1>8. ASSUME NEW healthy \in BOOLEAN, ScanFind(s, healthy), scan'[s] = Proceed(s)
      PROVE  scan[s].pc = "find" /\ scan'[s].pc = "next" /\ scan'[s].batch = scan[s].batch
  <2>1. scan[s].pc = "find"
    BY <1>8 DEF ScanFind
  <2> QED
    BY <1>1, <1>8, <2>1 DEF Proceed, ScanRows
<1>9. ASSUME NEW r \in Scanners, r # s, Scan(r)
       PROVE  scan'[s] = scan[s]
  BY <1>1, <1>9 DEF Scan, ScanStart, ScanSkip, ScanCheck, ScanExpire, ScanFind, ScanSave,
                     ScanError, ScanEnd, ScanCrash, TypeOK
<1>10. (\E r \in Scanners : Scan(r)) \/ scan' = scan
  <2>1. ASSUME NEW h \in Handlers, Request(h)
        PROVE  UNCHANGED scan
    BY <2>1 DEF Request, PrepareRead, PrepareSave, SubmitRead, SubmitCommit, BroadcastRead,
                BroadcastAccept, BroadcastSave, HookReceive, HookMatch, HookPersist, Abort
  <2> QED
    BY <2>1 DEF Next, Environment, Send, Tick, CreateIntent, vars
<1>11. CASE Scan(s)
  <2>1. CASE \E i \in Intents : ScanSkip(s, i)
    BY <1>3, <2>1
  <2>2. CASE \E i \in Intents, tx \in Txs \cup {NoTx} : ScanCheck(s, i, tx)
    BY <1>4, <2>2
  <2>3. CASE \E healthy \in BOOLEAN : ScanFind(s, healthy)
    BY <1>5, <1>8, <2>3
  <2> QED
    BY <1>2, <1>6, <1>7, <1>11, <2>1, <2>2, <2>3 DEF Scan
<1> QED
  BY <1>9, <1>10, <1>11

-----------------------------------------------------------------------------
(* Each part of the invariant is kept.                                     *)

(* A scan and an intent it loaded are of rows that exist.                  *)
LEMMA ScanRowsExist ==
  ASSUME IInv, NEW s \in Scanners, NEW i \in Intents
  PROVE  /\ Holds(s, i) => IntentExists(i) /\ scan[s].seen \in OpenStatuses
         /\ scan[s].batch[i] # NotInBatch =>
                intents[i].status # "ABSENT" /\ scan[s].batch[i].status \in OpenStatuses
         /\ ~Counted(NotInBatch.status)
  BY DEF IInv, ScanSound, Holds, Counted, NotInBatch

(* No write leaves a checkout counted without a payment, not even the late *)
(* save of a scan: it counts only what had a payment when it was loaded.   *)
LEMMA CountedKept ==
  ASSUME IInv, CountedIsPaid, [Next]_vars
  PROVE  CountedIsPaid'
<1>1. \A i \in Intents : HasPayment(i) => HasPayment(i)'
  BY PaymentsStay
<1>2. ASSUME NEW i \in Intents, Counted(intents'[i].status)
      PROVE  HasPayment(i)'
  <2>1. CASE intents'[i] = intents[i]
    BY <1>1, <1>2, <2>1 DEF CountedIsPaid
  <2>2. ASSUME NEW j, NEW match, Pays(j, match)
        PROVE  HasPayment(i)'
    <3>1. match.status # "ABSENT"
      BY <2>2, StatusNames DEF Pays, PaymentStatuses
    <3>2. CASE i = j
      BY <2>2, <3>1, <3>2 DEF Pays, HasPayment, IInv, TypeOK
    <3>3. CASE i # j
      BY <2>1, <2>2, <3>3 DEF Pays
    <3> QED
      BY <3>2, <3>3
  <2>3. ASSUME NEW s \in Scanners, ScanSave(s) \/ ScanExpire(s),
               Marks(scan[s].intent, "EXPIRED") \/ Marks(scan[s].intent, scan[s].seen)
        PROVE  HasPayment(i)'
    <3>1. CASE i = scan[s].intent
      <4>1. Holds(s, i) /\ intents'[i].status = scan[s].seen
        BY <1>2, <2>3, <3>1 DEF Marks, Counted, Holds, ScanSave, ScanExpire
      <4> QED
        BY <1>1, <1>2, <4>1 DEF CountedIsPaid
    <3>2. CASE i # scan[s].intent
      BY <2>1, <2>3, <3>2 DEF Marks
    <3> QED
      BY <3>1, <3>2
  <2>4. ASSUME NEW j \in Intents, intents'[j].status = "WAITING",
               \A k \in Intents \ {j} : intents'[k] = intents[k]
        PROVE  HasPayment(i)'
    BY <1>2, <2>1, <2>4 DEF Counted
  <2> QED
    BY <2>1, <2>2, <2>3, <2>4, Writes
<1>3. ASSUME NEW s \in Scanners, NEW i \in Intents
      PROVE  /\ Counted(scan'[s].batch[i].status) => HasPayment(i)'
             /\ Holds(s, i)' /\ Counted(scan'[s].seen) => HasPayment(i)'
  <2>1. /\ Counted(scan[s].batch[i].status) => HasPayment(i)'
        /\ Holds(s, i) /\ Counted(scan[s].seen) => HasPayment(i)'
        /\ Counted(intents[i].status) => HasPayment(i)'
        /\ ~Counted(NotInBatch.status)
    BY <1>1, ScanRowsExist DEF CountedIsPaid
  <2>2. Counted(scan'[s].batch[i].status) => HasPayment(i)'
    <3>1. \/ scan'[s].batch[i] = scan[s].batch[i]
          \/ scan'[s].batch[i] = NotInBatch
          \/ scan'[s].batch[i].status = intents[i].status
      BY ScanMoves DEF Drops
    <3> QED
      BY <2>1, <3>1
  <2>3. Holds(s, i)' /\ Counted(scan'[s].seen) => HasPayment(i)'
    <3>1. Holds(s, i)' =>
              \/ Holds(s, i) /\ scan'[s].seen = scan[s].seen
              \/ scan'[s].seen = scan[s].batch[i].status
      BY ScanMoves DEF Holds
    <3> QED
      BY <2>1, <3>1
  <2> QED
    BY <2>2, <2>3
<1> QED
  BY <1>2, <1>3 DEF CountedIsPaid

(* Transactions are not taken back.                                        *)
LEMMA SeenStays ==
  ASSUME IInv, [Next]_vars, NEW t, txs[t].state # "UNSENT", t \in Txs
  PROVE  txs'[t].state # "UNSENT"
<1>1. ASSUME NEW i \in Intents, NEW u \in Txs, NEW amount \in Amounts, Send(i, u, amount)
      PROVE  txs'[t].state # "UNSENT"
  BY <1>1 DEF Send, IInv, TypeOK
<1>2. ASSUME NEW good \in SUBSET Txs, NEW bad \in SUBSET Txs, Tick(good, bad)
      PROVE  txs'[t].state # "UNSENT"
  <2>1. CASE t \in good \cup bad
    <3>1. txs[t] \in TxRows
      BY DEF IInv, TypeOK
    <3>2. PICK state \in {"MINED", "REVERTED"} :
              txs'[t] = [txs[t] EXCEPT !.block = now + 1, !.state = state]
      BY <1>2, <2>1 DEF Tick
    <3> QED
      BY <3>1, <3>2 DEF TxRows
  <2>2. CASE t \notin good \cup bad
    BY <1>2, <2>2 DEF Tick
  <2> QED
    BY <2>1, <2>2
<1>3. ASSUME NEW h \in Handlers, BroadcastAccept(h)
      PROVE  txs'[t].state # "UNSENT"
  BY <1>3 DEF BroadcastAccept, IInv, TypeOK
<1>4. CASE UNCHANGED txs
  BY <1>4
<1>5. ASSUME NEW h \in Handlers, Request(h)
      PROVE  BroadcastAccept(h) \/ UNCHANGED txs
  BY <1>5 DEF Request, PrepareRead, PrepareSave, SubmitRead, SubmitCommit, BroadcastRead,
              BroadcastSave, HookReceive, HookMatch, HookPersist, Abort
<1>6. ASSUME NEW s \in Scanners, Scan(s)
      PROVE  UNCHANGED txs
  BY <1>6 DEF Scan, ScanStart, ScanSkip, ScanCheck, ScanExpire, ScanFind, ScanSave, ScanError,
              ScanEnd, ScanCrash
<1> QED
  BY <1>1, <1>2, <1>3, <1>4, <1>5, <1>6 DEF Next, Environment, CreateIntent, vars

(* What findMatch returns is in the mempool or in a block, or the          *)
(* submitted signature.                                                    *)
LEMMA AnswersSeen ==
  ASSUME IInv, NEW i \in Intents, intents[i].status # "ABSENT",
         NEW submitted \in Txs \cup {NoTx}, NEW healthy \in BOOLEAN,
         NEW match \in Answers(i, submitted, healthy), match # NoMatch
  PROVE  IF intents[i].chain = "SOLANA" THEN match.tx = payments[i].tx
         ELSE txs[match.tx].state # "UNSENT"
<1>1. intents[i].chain \in AllChains
  BY ChainsAssumption DEF IInv, ChainsKnown
<1>2. CASE intents[i].chain = "ETHEREUM"
  <2>1. match \in EthereumAnswers(i, healthy)
    BY <1>2 DEF Answers
  <2>2. PICK t \in FirstMined(EthereumTransfers(i)), receipt \in BOOLEAN, height \in BOOLEAN :
            match = EthereumMatch(i, t, receipt, height, txs[t].block)
    BY <2>1, EthereumAnswersShape
  <2>3. InBlock(t) /\ match.tx = t
    BY <2>2 DEF FirstMined, EthereumTransfers, EthereumMatch, MatchOf
  <2> QED
    BY <1>2, <2>3 DEF InBlock
<1>3. CASE intents[i].chain = "SOLANA"
  <2>1. payments[i] \in PaymentRows
    BY DEF IInv, TypeOK
  <2>2. PICK status : match = [payments[i] EXCEPT !.status = status]
    BY <1>3 DEF Answers, SolanaAnswers
  <2>3. match.tx = payments[i].tx
    BY <2>1, <2>2 DEF PaymentRows
  <2> QED
    BY <1>3, <2>3
<1>4. CASE intents[i].chain = "TRON"
  <2>1. match \in TronAnswers(i, submitted, healthy)
    BY <1>4 DEF Answers
  <2>2. ASSUME NEW t, match = TronMatch(i, t), TronTransferMatches(i, t)
        PROVE  txs[match.tx].state # "UNSENT"
    BY <2>2 DEF TronMatch, MatchOf, TronTransferMatches
  <2>3. CASE submitted = NoTx
    <3>1. match \in {TronMatch(i, t) : t \in FirstMined(TronScanned(i))}
      BY <2>1, <2>3 DEF TronAnswers
    <3> QED
      BY <1>4, <2>2, <3>1 DEF TronScanned, FirstMined
  <2>4. CASE submitted # NoTx
    <3>1. InBlock(submitted)
      BY <2>1, <2>4 DEF TronAnswers
    <3>2. match.tx = submitted
      BY <2>1, <2>4 DEF TronAnswers, TronMatch, MatchOf
    <3> QED
      BY <1>4, <3>1, <3>2 DEF InBlock
  <2> QED
    BY <2>3, <2>4
<1>5. CASE intents[i].chain = "BITCOIN"
  <2>1. PICK t \in BitcoinTransfers(i, submitted) : match = BitcoinMatch(i, t)
    BY <1>5 DEF Answers, BitcoinAnswers
  <2> QED
    BY <1>5, <2>1 DEF BitcoinTransfers, BitcoinMatch, MatchOf
<1> QED
  BY <1>1, <1>2, <1>3, <1>4, <1>5 DEF AllChains

(* The step of SignatureKept: on Solana the submission refuses another     *)
(* signature, and a scan writes the one it read, which nobody replaced.    *)
LEMMA SignatureStep ==
  ASSUME IInv, MatchesSeen, [Next]_vars, NEW i \in Intents,
         intents[i].chain = "SOLANA", payments[i].tx # NoTx
  PROVE  payments'[i].tx = payments[i].tx
<1>1. CASE UNCHANGED payments
  BY <1>1
<1>2. ASSUME NEW j, NEW match, Pays(j, match), i = j => match.tx = payments[i].tx
      PROVE  payments'[i].tx = payments[i].tx
  BY <1>2 DEF Pays, IInv, TypeOK
<1>3. ASSUME NEW h \in Handlers, payments[req[h].intent].tx \in {NoTx, req[h].tx}, NEW amount,
             Pays(req[h].intent, [status |-> "CONFIRMING", tx |-> req[h].tx, amount |-> amount])
      PROVE  payments'[i].tx = payments[i].tx
  BY <1>2, <1>3
<1>4. ASSUME NEW h \in Handlers, Pays(req[h].intent, req[h].match),
             intents[req[h].intent].chain = "ETHEREUM"
      PROVE  payments'[i].tx = payments[i].tx
  BY <1>2, <1>4
<1>5. ASSUME NEW s \in Scanners, ScanSave(s), scan[s].match # NoMatch,
             Pays(scan[s].intent, scan[s].match)
      PROVE  payments'[i].tx = payments[i].tx
  BY <1>2, <1>5 DEF MatchesSeen, ScanSave
<1> QED
  BY <1>1, <1>3, <1>4, <1>5, Writes DEF Marks

(* A delivery persists the match it made of its transfer.                  *)
LEMMA HookMatchSeen ==
  ASSUME IInv, NEW h \in Handlers, NEW receipt \in BOOLEAN, NEW height \in BOOLEAN,
         NEW stamped \in BOOLEAN, HookMatch(h, receipt, height, stamped),
         req'[h].op = "persist"
  PROVE  txs[req'[h].match.tx].state # "UNSENT" /\ UNCHANGED txs
<1>1. PICK matchedAt, match :
          /\ matchedAt = IF stamped THEN txs[req[h].tx].block ELSE now
          /\ match = EthereumMatch(req[h].intent, req[h].tx, receipt, height, matchedAt)
  OBVIOUS
<1>2. req'[h] = [req[h] EXCEPT !.op = "persist", !.match = match] \/ req'[h] = IdleReq
  BY <1>1 DEF HookMatch, IInv, TypeOK
<1>3. IdleReq.op = "idle" /\ req[h] \in ReqRows
  BY DEF IdleReq, IInv, TypeOK
<1>4. req'[h].match = match
  BY <1>2, <1>3 DEF ReqRows
<1>5. InBlock(req[h].tx)
  BY DEF HookMatch, IInv, ReqSound, HookFits
<1>6. match.tx = req[h].tx
  BY <1>1 DEF EthereumMatch, MatchOf
<1> QED
  BY <1>4, <1>5, <1>6 DEF InBlock, HookMatch

(* The other steps make no match of their own.                             *)
LEMMA OthersPersist ==
  ASSUME IInv, [Next]_vars, NEW h \in Handlers, req'[h].op = "persist",
         ~\E receipt, height, stamped \in BOOLEAN : HookMatch(h, receipt, height, stamped)
  PROVE  req'[h] = req[h]
<1>1. TypeOK /\ IdleReq.op = "idle" /\ req[h] \in ReqRows
  BY DEF IdleReq, IInv, TypeOK
<1>2. CASE Request(h)
  <2>1. CASE req'[h] = IdleReq
    BY <1>1, <2>1
  <2>2. CASE BroadcastAccept(h)
    <3>1. req'[h] = [req[h] EXCEPT !.op = "saving"]
      BY <1>1, <2>2 DEF BroadcastAccept, TypeOK
    <3> QED
      BY <1>1, <3>1 DEF ReqRows
  <2>3. ASSUME NEW op \in {"prepare", "submit", "sending", "hook"}, req'[h].op = op
        PROVE  FALSE
    BY <2>3
  <2>4. ASSUME NEW i \in Intents, PrepareRead(h, i)
        PROVE  req'[h].op = "prepare"
    BY <1>1, <2>4 DEF PrepareRead, TypeOK, IdleReq
  <2>5. ASSUME NEW i \in Intents, NEW a \in Actions, NEW t \in Txs, SubmitRead(h, i, a, t)
        PROVE  req'[h].op = "submit"
    BY <1>1, <2>5 DEF SubmitRead, TypeOK, IdleReq
  <2>6. ASSUME NEW i \in Intents, NEW a \in Actions, BroadcastRead(h, i, a)
        PROVE  req'[h].op = "sending"
    BY <1>1, <2>6 DEF BroadcastRead, TypeOK, IdleReq
  <2>7. ASSUME NEW t \in Txs, NEW i \in Intents, HookReceive(h, t, i)
        PROVE  req'[h].op = "hook"
    BY <1>1, <2>7 DEF HookReceive, TypeOK, IdleReq
  <2>8. CASE SubmitCommit(h) \/ BroadcastSave(h) \/ HookPersist(h) \/ Abort(h)
             \/ \E a \in Actions, t \in Txs \cup {NoTx} : PrepareSave(h, a, t)
    <3>1. req'[h] = IdleReq
      BY <1>1, <2>8 DEF SubmitCommit, BroadcastSave, HookPersist, Abort, PrepareSave, TypeOK
    <3> QED
      BY <2>1, <3>1
  <2> QED
    BY <1>2, <2>2, <2>3, <2>4, <2>5, <2>6, <2>7, <2>8 DEF Request
<1>3. ASSUME NEW g \in Handlers, g # h, Request(g)
      PROVE  req'[h] = req[h]
  BY <1>1, <1>3 DEF Request, PrepareRead, PrepareSave, SubmitRead, SubmitCommit, BroadcastRead,
                    BroadcastAccept, BroadcastSave, HookReceive, HookMatch, HookPersist, Abort,
                    TypeOK
<1>4. ASSUME NEW s \in Scanners, Scan(s)
      PROVE  UNCHANGED req
  BY <1>4 DEF Scan, ScanStart, ScanSkip, ScanCheck, ScanExpire, ScanFind, ScanSave,
              ScanError, ScanEnd, ScanCrash
<1> QED
  BY <1>2, <1>3, <1>4 DEF Next, Environment, Send, Tick, CreateIntent, vars

(* A match in hand stays one of a transaction the chain has seen.          *)
LEMMA MatchesKept ==
  ASSUME IInv, MatchesSeen, [Next]_vars
  PROVE  MatchesSeen'
<1>1. ASSUME NEW h \in Handlers, req'[h].op = "persist"
      PROVE  txs'[req'[h].match.tx].state # "UNSENT"
  <2>1. CASE \E receipt, height, stamped \in BOOLEAN : HookMatch(h, receipt, height, stamped)
    BY <1>1, <2>1, HookMatchSeen
  <2>2. CASE ~\E receipt, height, stamped \in BOOLEAN : HookMatch(h, receipt, height, stamped)
    <3>1. req'[h] = req[h]
      BY <1>1, <2>2, OthersPersist
    <3>2. req[h].match.tx \in Txs
      BY <1>1, <3>1 DEF IInv, ReqSound, MatchSound
    <3>3. txs[req[h].match.tx].state # "UNSENT"
      BY <1>1, <3>1 DEF MatchesSeen
    <3> QED
      BY <3>1, <3>2, <3>3, SeenStays
  <2> QED
    BY <2>1, <2>2
<1>2. ASSUME NEW s \in Scanners, NEW i \in Intents,
             scan'[s].pc = "save", scan'[s].match # NoMatch, scan'[s].intent = i
      PROVE  IF intents'[i].chain = "SOLANA" THEN scan'[s].match.tx = payments'[i].tx
             ELSE txs'[scan'[s].match.tx].state # "UNSENT"
  <2>1. CASE scan'[s] = scan[s]
    <3>1. IntentExists(i) /\ scan[s].match.tx \in Txs
      BY <1>2, <2>1 DEF IInv, ScanSound, MatchSound
    <3>2. IF intents[i].chain = "SOLANA" THEN scan[s].match.tx = payments[i].tx
          ELSE txs[scan[s].match.tx].state # "UNSENT"
      BY <1>2, <2>1 DEF MatchesSeen
    <3>3. intents'[i].chain = intents[i].chain
      BY <3>1, PaymentsStay DEF IntentExists
    <3>4. CASE intents[i].chain = "SOLANA"
      <4>1. payments[i].tx # NoTx
        BY <3>1, <3>2, <3>4, NullsAssumption
      <4>2. payments'[i].tx = payments[i].tx
        BY <3>4, <4>1, SignatureStep
      <4> QED
        BY <2>1, <3>2, <3>3, <3>4, <4>2
    <3>5. CASE intents[i].chain # "SOLANA"
      BY <2>1, <3>1, <3>2, <3>3, <3>5, SeenStays
    <3> QED
      BY <3>4, <3>5
  <2>2. CASE scan'[s] # scan[s]
    <3>1. /\ scan[s].pc = "find" /\ UNCHANGED <<txs, tables>> /\ scan[s].intent = i
          /\ \E healthy \in BOOLEAN : scan'[s].match \in Answers(i, scan[s].tx, healthy)
      BY <1>2, <2>2, ScanMoves
    <3>2. IntentExists(i) /\ scan[s].tx \in Txs \cup {NoTx}
      BY <3>1 DEF IInv, ScanSound, TypeOK, ScanRows
    <3>3. IF intents[i].chain = "SOLANA" THEN scan'[s].match.tx = payments[i].tx
          ELSE txs[scan'[s].match.tx].state # "UNSENT"
      BY <1>2, <3>1, <3>2, AnswersSeen DEF IntentExists
    <3> QED
      BY <3>1, <3>3 DEF tables
  <2> QED
    BY <2>1, <2>2
<1> QED
  BY <1>1, <1>2 DEF MatchesSeen

(* Who is not idle holds the lock.                                         *)
LEMMA LockStep ==
  ASSUME IInv, ScansApart, [Next]_vars, NEW s \in Scanners, scan'[s].pc # "idle"
  PROVE  lock' = s
<1>1. NoScanner \notin Scanners /\ scan \in [Scanners -> ScanRows] /\ IdleScan.pc = "idle"
  BY ProcessesAssumption DEF IInv, TypeOK, IdleScan
<1>2. CASE UNCHANGED <<scan, lock>>
  BY <1>2 DEF ScansApart
<1>3. ASSUME NEW r \in Scanners, ScanStart(r)
      PROVE  lock' = s
  <2>1. scan[s].pc = "idle"
    BY <1>1, <1>3 DEF ScanStart, ScansApart
  <2>2. s = r \/ scan'[s] = scan[s]
    BY <1>1, <1>3 DEF ScanStart
  <2> QED
    BY <1>3, <2>1, <2>2 DEF ScanStart
<1>4. ASSUME NEW r \in Scanners, ScanEnd(r) \/ ScanCrash(r)
      PROVE  lock' = s
  <2>1. scan[r].pc # "idle" /\ scan' = [scan EXCEPT ![r] = IdleScan]
    BY <1>4 DEF ScanEnd, ScanCrash
  <2>2. lock = r /\ scan'[r] = IdleScan
    BY <1>1, <2>1 DEF ScansApart
  <2>3. s # r
    BY <1>1, <2>2
  <2>4. scan'[s] = scan[s]
    BY <1>1, <2>1, <2>3
  <2> QED
    BY <2>2, <2>3, <2>4 DEF ScansApart
<1>5. ASSUME NEW r \in Scanners, lock' = lock, scan[r].pc # "idle",
             scan' = [scan EXCEPT ![r] = scan'[r]]
      PROVE  lock' = s
  BY <1>1, <1>5 DEF ScansApart
<1>6. ASSUME NEW r \in Scanners, Scan(r), ~(ScanStart(r) \/ ScanEnd(r) \/ ScanCrash(r))
      PROVE  lock' = lock /\ scan[r].pc # "idle" /\ scan' = [scan EXCEPT ![r] = scan'[r]]
  BY <1>1, <1>6 DEF Scan, ScanSkip, ScanCheck, ScanExpire, ScanFind, ScanSave, ScanError,
                    TakeNext
<1>7. ASSUME NEW h \in Handlers, Request(h)
      PROVE  UNCHANGED <<scan, lock>>
  BY <1>7 DEF Request, PrepareRead, PrepareSave, SubmitRead, SubmitCommit, BroadcastRead,
              BroadcastAccept, BroadcastSave, HookReceive, HookMatch, HookPersist, Abort
<1> QED
  BY <1>2, <1>3, <1>4, <1>5, <1>6, <1>7 DEF Next, Environment, Send, Tick, CreateIntent, vars

(* Scans go on excluding each other.                                       *)
LEMMA ScansApartKept ==
  ASSUME IInv, ScansApart, [Next]_vars
  PROVE  ScansApart'
<1>1. ASSUME NEW s \in Scanners, scan'[s].pc = "idle", NEW i \in Intents
      PROVE  scan'[s].batch[i] = NotInBatch
  BY <1>1, ScanMoves DEF ScansApart
<1>2. ASSUME NEW s \in Scanners, NEW i \in Intents, Holds(s, i)'
      PROVE  scan'[s].batch[i] = NotInBatch
  <2>1. CASE scan'[s] = scan[s]
    BY <1>2, <2>1 DEF ScansApart, Holds
  <2>2. CASE scan'[s] # scan[s]
    BY <1>2, <2>2, ScanMoves DEF ScansApart, Holds
  <2> QED
    BY <2>1, <2>2
<1> QED
  BY <1>1, <1>2, LockStep DEF ScansApart

(* Only a scan that holds a checkout writes to it, and it is then done     *)
(* with it.                                                                *)
LEMMA SaveLetsGo ==
  ASSUME IInv, ScansApart, ScansApart', [Next]_vars,
         NEW r \in Scanners, ScanSave(r) \/ ScanExpire(r), NEW s \in Scanners,
         NEW i, i = scan[r].intent
  PROVE  /\ Holds(r, i)
         /\ scan'[s].batch[i] = NotInBatch
         /\ ~Holds(s, i)'
<1>1. scan \in [Scanners -> ScanRows] /\ i \in Intents
  BY DEF IInv, TypeOK, ScanSound, IntentExists, ScanSave, ScanExpire
<1>2. Holds(r, i) /\ scan[r].pc # "idle"
  BY DEF Holds, ScanSave, ScanExpire
<1>3. scan' = [scan EXCEPT ![r] = Proceed(r)]
  BY DEF ScanSave, ScanExpire
<1>4. CASE s = r
  <2>1. scan'[s].pc = "next" /\ scan'[s].batch = scan[r].batch
    BY <1>1, <1>3, <1>4 DEF Proceed, ScanRows
  <2> QED
    BY <1>1, <1>2, <2>1 DEF ScansApart, Holds
<1>5. CASE s # r
  <2>1. scan'[s] = scan[s] /\ scan[s].pc = "idle"
    BY <1>1, <1>2, <1>3, <1>5 DEF ScansApart
  <2> QED
    BY <1>1, <1>2, <2>1 DEF ScansApart, Holds
<1> QED
  BY <1>4, <1>5

(* No scan gets hold of a confirmed checkout, and none becomes confirmed   *)
(* in a step that leaves one in the hands of a scan.                       *)
LEMMA ConfirmedClosedKept ==
  ASSUME IInv, ScansApart, ScansApart', ConfirmedIsClosed, [Next]_vars
  PROVE  ConfirmedIsClosed'
<1> SUFFICES ASSUME NEW i \in Intents, intents'[i].chain # "ETHEREUM",
                    payments'[i].status = "CONFIRMED"
             PROVE  /\ intents'[i].status = "CONFIRMED"
                    /\ \A s \in Scanners : scan'[s].batch[i] = NotInBatch /\ ~Holds(s, i)'
  BY DEF ConfirmedIsClosed
<1>1. payments \in [Intents -> PaymentRows] /\ "CONFIRMED" \notin OpenStatuses
  BY DEF IInv, TypeOK, OpenStatuses
<1> DEFINE Closed == /\ intents[i].status = "CONFIRMED"
                     /\ \A s \in Scanners : scan[s].batch[i] = NotInBatch /\ ~Holds(s, i)
<1>2. ASSUME Closed, intents'[i].status = "CONFIRMED"
      PROVE  \A s \in Scanners : scan'[s].batch[i] = NotInBatch /\ ~Holds(s, i)'
  <2> TAKE s \in Scanners
  <2>1. CASE scan'[s] = scan[s]
    BY <1>2, <2>1 DEF Holds
  <2>2. CASE scan'[s] # scan[s]
    BY <1>1, <1>2, <2>2, ScanMoves DEF Holds, Drops
  <2> QED
    BY <2>1, <2>2
<1>3. ASSUME payments'[i] = payments[i]
      PROVE  Closed
  <2>1. intents[i].status # "ABSENT"
    BY <1>3 DEF IInv, PaymentsOwned, NoPayment
  <2> QED
    BY <1>3, <2>1, PaymentsStay DEF ConfirmedIsClosed
<1> HIDE DEF Closed
<1>4. ASSUME payments'[i] = payments[i], intents'[i] = intents[i]
      PROVE  intents'[i].status = "CONFIRMED" /\ Closed
  BY <1>3, <1>4 DEF Closed
<1>5. ASSUME NEW j \in Intents, UNCHANGED payments, intents[j].status = "ABSENT",
             \A k \in Intents \ {j} : intents'[k] = intents[k]
      PROVE  intents'[i].status = "CONFIRMED" /\ Closed
  <2>1. i # j
    BY <1>5 DEF IInv, PaymentsOwned, NoPayment
  <2> QED
    BY <1>4, <1>5, <2>1
<1>6. ASSUME NEW j, NEW match, Pays(j, match), match.status # "CONFIRMED" \/ i # j
      PROVE  intents'[i].status = "CONFIRMED" /\ Closed
  <2>1. i # j
    BY <1>1, <1>6 DEF Pays
  <2>2. payments'[i] = payments[i] /\ intents'[i] = intents[i]
    BY <1>1, <1>6, <2>1 DEF Pays
  <2> QED
    BY <1>4, <2>2
<1>7. ASSUME NEW j, NEW match, Pays(j, match), i = j
      PROVE  intents'[i].status = "CONFIRMED"
  BY <1>1, <1>7 DEF Pays
<1>8. ASSUME NEW s \in Scanners, ScanSave(s) \/ ScanExpire(s),
             Marks(scan[s].intent, "EXPIRED") \/ Marks(scan[s].intent, scan[s].seen)
      PROVE  intents'[i].status = "CONFIRMED" /\ Closed
  <2>1. i # scan[s].intent
    BY <1>3, <1>8, SaveLetsGo DEF Marks, Closed
  <2> QED
    BY <1>4, <1>8, <2>1 DEF Marks
<1>9. ASSUME NEW h \in Handlers, Pays(req[h].intent, req[h].match),
             intents[req[h].intent].chain = "ETHEREUM"
      PROVE  intents'[i].status = "CONFIRMED" /\ Closed
  <2>1. i # req[h].intent
    BY <1>9, PaymentsStay DEF Pays, IntentExists
  <2> QED
    BY <1>6, <1>9, <2>1
<1>10. ASSUME NEW s \in Scanners, ScanSave(s), Pays(scan[s].intent, scan[s].match),
              i = scan[s].intent
       PROVE  /\ intents'[i].status = "CONFIRMED"
              /\ \A r \in Scanners : scan'[r].batch[i] = NotInBatch /\ ~Holds(r, i)'
  BY <1>7, <1>10, SaveLetsGo
<1>11. ASSUME NEW h \in Handlers, NEW amount,
              Pays(req[h].intent, [status |-> "CONFIRMING", tx |-> req[h].tx,
                                   amount |-> amount])
       PROVE  intents'[i].status = "CONFIRMED" /\ Closed
  BY <1>6, <1>11
<1>12. ASSUME NEW s \in Scanners, ScanSave(s), Pays(scan[s].intent, scan[s].match),
              i # scan[s].intent
       PROVE  intents'[i].status = "CONFIRMED" /\ Closed
  BY <1>6, <1>12
<1>13. CASE UNCHANGED <<intents, payments>>
  BY <1>2, <1>4, <1>13
<1> QED
  BY <1>2, <1>5, <1>8, <1>9, <1>10, <1>11, <1>12, <1>13, Writes

(* A checkout that was not closed before is closed by the scan that holds  *)
(* it, off Ethereum: creations and submissions leave it open.              *)
LEMMA ScanCloses ==
  ASSUME IInv, [Next]_vars, NEW i \in Intents, intents'[i].chain # "ETHEREUM",
         intents'[i].status \in TerminalStatuses, intents'[i] # intents[i]
  PROVE  \E s \in Scanners : (ScanSave(s) \/ ScanExpire(s)) /\ i = scan[s].intent
<1>1. "WAITING" \notin TerminalStatuses /\ "CONFIRMING" \notin TerminalStatuses
  BY DEF TerminalStatuses
<1>2. ASSUME NEW j \in Intents, intents'[j].status = "WAITING",
             \A k \in Intents \ {j} : intents'[k] = intents[k]
      PROVE  FALSE
  BY <1>1, <1>2
<1>3. ASSUME NEW h \in Handlers, NEW amount,
             Pays(req[h].intent, [status |-> "CONFIRMING", tx |-> req[h].tx, amount |-> amount])
      PROVE  FALSE
  BY <1>1, <1>3 DEF Pays
<1>4. ASSUME NEW h \in Handlers, Pays(req[h].intent, req[h].match),
             intents[req[h].intent].chain = "ETHEREUM"
      PROVE  FALSE
  <2>1. i = req[h].intent /\ intents[i].status # "ABSENT"
    BY <1>4 DEF Pays, IntentExists
  <2> QED
    BY <1>4, <2>1, PaymentsStay
<1>5. ASSUME NEW s \in Scanners, ScanSave(s), Pays(scan[s].intent, scan[s].match)
      PROVE  i = scan[s].intent
  BY <1>5 DEF Pays
<1>6. ASSUME NEW s \in Scanners,
             Marks(scan[s].intent, "EXPIRED") \/ Marks(scan[s].intent, scan[s].seen)
      PROVE  i = scan[s].intent
  BY <1>6 DEF Marks
<1> QED
  BY <1>2, <1>3, <1>4, <1>5, <1>6, Writes

(* No scan gets hold of a closed checkout, and none is closed in a step    *)
(* that leaves it in the hands of a scan.                                  *)
LEMMA TerminalClosedKept ==
  ASSUME IInv, ScansApart, ScansApart', TerminalIsClosed, [Next]_vars
  PROVE  TerminalIsClosed'
<1> SUFFICES ASSUME NEW i \in Intents, intents'[i].chain # "ETHEREUM",
                    intents'[i].status \in TerminalStatuses, NEW s \in Scanners
             PROVE  scan'[s].batch[i] = NotInBatch /\ ~Holds(s, i)'
  BY DEF TerminalIsClosed
<1>1. TerminalStatuses \cap OpenStatuses = {}
  BY DEF TerminalStatuses, OpenStatuses
<1>2. CASE intents'[i] = intents[i]
  <2>1. /\ scan[s].batch[i] = NotInBatch /\ ~Holds(s, i)
        /\ intents[i].status \notin OpenStatuses
    BY <1>1, <1>2 DEF TerminalIsClosed
  <2>2. CASE scan'[s] = scan[s]
    BY <2>1, <2>2 DEF Holds
  <2>3. CASE scan'[s] # scan[s]
    BY <2>1, <2>3, ScanMoves DEF Holds, Drops
  <2> QED
    BY <2>2, <2>3
<1>3. CASE intents'[i] # intents[i]
  <2>1. PICK r \in Scanners : (ScanSave(r) \/ ScanExpire(r)) /\ i = scan[r].intent
    BY <1>3, ScanCloses
  <2> QED
    BY <2>1, SaveLetsGo
<1> QED
  BY <1>2, <1>3

(* An action keeps its checkout.                                           *)
LEMMA ActionsStay ==
  ASSUME IInv, [Next]_vars, NEW a \in Actions, actions[a].status # "ABSENT"
  PROVE  actions'[a].intent = actions[a].intent /\ actions'[a].status # "ABSENT"
<1>1. actions \in [Actions -> ActionRows]
  BY DEF IInv, TypeOK
<1>2. CASE UNCHANGED actions
  BY <1>2
<1>3. ASSUME NEW i, NEW match, PersistMatch(i, match)
      PROVE  actions'[a].intent = actions[a].intent /\ actions'[a].status # "ABSENT"
  BY <1>1, <1>3 DEF PersistMatch, ActionRows
<1>4. ASSUME NEW h \in Handlers, Request(h)
      PROVE  actions'[a].intent = actions[a].intent /\ actions'[a].status # "ABSENT"
  <2>1. ASSUME NEW b \in Actions, NEW t \in Txs \cup {NoTx}, PrepareSave(h, b, t)
        PROVE  actions'[a] = actions[a]
    BY <1>1, <2>1 DEF PrepareSave, NewAction
  <2>2. ASSUME NEW b, NEW status \in {"SUBMITTED", "PREPARED"}, NEW t,
               actions' = [actions EXCEPT ![b].status = status, ![b].txId = t]
        PROVE  actions'[a].intent = actions[a].intent /\ actions'[a].status # "ABSENT"
    BY <1>1, <2>2 DEF ActionRows
  <2>3. CASE SubmitCommit(h) \/ BroadcastSave(h)
    BY <1>2, <2>2, <2>3 DEF SubmitCommit, BroadcastSave, tables
  <2>4. CASE HookPersist(h)
    BY <1>2, <1>3, <2>4 DEF HookPersist, tables
  <2> QED
    BY <1>2, <1>4, <2>1, <2>3, <2>4
    DEF Request, PrepareRead, SubmitRead, BroadcastRead, BroadcastAccept, HookReceive,
        HookMatch, Abort, tables
<1>5. ASSUME NEW s \in Scanners, Scan(s)
      PROVE  UNCHANGED actions \/ PersistMatch(scan[s].intent, scan[s].match)
  BY <1>5 DEF Scan, ScanStart, ScanSkip, ScanCheck, ScanExpire, ScanFind, ScanSave, ScanError,
              ScanEnd, ScanCrash, tables
<1> QED
  BY <1>2, <1>3, <1>4, <1>5 DEF Next, Environment, Send, Tick, CreateIntent, vars, tables

(* Submissions go on being of an action of their checkout.                 *)
LEMMA SubmissionsFitKept ==
  ASSUME IInv, SubmissionsFit, [Next]_vars
  PROVE  SubmissionsFit'
<1> SUFFICES ASSUME NEW h \in Handlers, req'[h].op = "submit"
             PROVE  /\ req'[h].action \in Actions
                    /\ actions'[req'[h].action].intent = req'[h].intent
                    /\ actions'[req'[h].action].status # "ABSENT"
  BY DEF SubmissionsFit
<1>1. req \in [Handlers -> ReqRows] /\ IdleReq.op = "idle"
  BY DEF IInv, TypeOK, IdleReq
<1>2. CASE req'[h] = req[h]
  BY <1>2, ActionsStay DEF SubmissionsFit
<1>3. ASSUME NEW i \in Intents, NEW a \in Actions, NEW t \in Txs, SubmitRead(h, i, a, t)
      PROVE  /\ req'[h].action = a /\ req'[h].intent = i /\ UNCHANGED actions
             /\ actions[a].intent = i /\ actions[a].status # "ABSENT"
  BY <1>1, <1>3 DEF SubmitRead, IdleReq, ActionUsable, tables
<1>4. ASSUME Request(h), ~\E i \in Intents, a \in Actions, t \in Txs : SubmitRead(h, i, a, t)
      PROVE  FALSE
  <2>1. req'[h] # IdleReq
    BY <1>1
  <2>2. ~\E i \in Intents : PrepareRead(h, i)
    BY <1>1 DEF PrepareRead, IdleReq
  <2>3. ~\E i \in Intents, a \in Actions : BroadcastRead(h, i, a)
    BY <1>1 DEF BroadcastRead, IdleReq
  <2>4. ~\E t \in Txs, i \in Intents : HookReceive(h, t, i)
    BY <1>1 DEF HookReceive, IdleReq
  <2>5. ~BroadcastAccept(h)
    BY <1>1 DEF BroadcastAccept, ReqRows
  <2>6. ~\E receipt, height, stamped \in BOOLEAN : HookMatch(h, receipt, height, stamped)
    <3> SUFFICES ASSUME NEW match, req'[h] = [req[h] EXCEPT !.op = "persist", !.match = match]
                 PROVE  FALSE
      BY <1>1, <2>1 DEF HookMatch
    <3> QED
      BY <1>1 DEF ReqRows
  <2> QED
    BY <1>1, <1>4, <2>1, <2>2, <2>3, <2>4, <2>5, <2>6
    DEF Request, PrepareSave, SubmitCommit, BroadcastSave, HookPersist, Abort
<1>5. ASSUME NEW g \in Handlers, g # h, Request(g)
      PROVE  req'[h] = req[h]
  BY <1>1, <1>5 DEF Request, PrepareRead, PrepareSave, SubmitRead, SubmitCommit, BroadcastRead,
                    BroadcastAccept, BroadcastSave, HookReceive, HookMatch, HookPersist, Abort
<1>6. ASSUME NEW s \in Scanners, Scan(s)
      PROVE  UNCHANGED req
  BY <1>6 DEF Scan, ScanStart, ScanSkip, ScanCheck, ScanExpire, ScanFind, ScanSave,
              ScanError, ScanEnd, ScanCrash
<1> QED
  BY <1>2, <1>3, <1>4, <1>5, <1>6 DEF Next, Environment, Send, Tick, CreateIntent, vars

(* The step of OnlySubmissionsReopen: no scan holds a closed checkout, so  *)
(* only a submission writes to it.                                         *)
LEMMA ReopenStep ==
  ASSUME IInv, TerminalIsClosed, SubmissionsFit, [Next]_vars, NEW i \in Intents,
         intents[i].chain # "ETHEREUM", intents[i].status \in TerminalStatuses,
         intents'[i].status # intents[i].status
  PROVE  /\ intents'[i].status = "CONFIRMING" /\ payments'[i].status = "CONFIRMING"
         /\ payments[i].tx \in {NoTx, payments'[i].tx}
         /\ \E a \in Actions :
                /\ actions'[a].intent = i /\ actions'[a].status = "SUBMITTED"
                /\ actions'[a].txId = payments'[i].tx
<1>1. /\ actions \in [Actions -> ActionRows] /\ payments \in [Intents -> PaymentRows]
      /\ "ABSENT" \notin TerminalStatuses
  BY DEF IInv, TypeOK, TerminalStatuses
<1>2. ASSUME NEW h \in Handlers, SubmitCommit(h),
             payments[req[h].intent].tx \in {NoTx, req[h].tx}, NEW amount,
             Pays(req[h].intent, [status |-> "CONFIRMING", tx |-> req[h].tx, amount |-> amount])
      PROVE  /\ intents'[i].status = "CONFIRMING" /\ payments'[i].status = "CONFIRMING"
             /\ payments[i].tx \in {NoTx, payments'[i].tx}
             /\ \E a \in Actions :
                    /\ actions'[a].intent = i /\ actions'[a].status = "SUBMITTED"
                    /\ actions'[a].txId = payments'[i].tx
  <2>1. i = req[h].intent
    BY <1>2 DEF Pays
  <2>2. /\ intents'[i].status = "CONFIRMING" /\ payments'[i].status = "CONFIRMING"
        /\ payments'[i].tx = req[h].tx
    BY <1>1, <1>2, <2>1 DEF Pays
  <2>3. /\ req[h].action \in Actions /\ actions[req[h].action].intent = i
    BY <1>2, <2>1 DEF SubmissionsFit, SubmitCommit
  <2>4. actions' = [actions EXCEPT ![req[h].action].status = "SUBMITTED",
                                   ![req[h].action].txId = req[h].tx]
    BY <1>2 DEF SubmitCommit, tables
  <2>5. /\ actions'[req[h].action].intent = i
        /\ actions'[req[h].action].status = "SUBMITTED"
        /\ actions'[req[h].action].txId = req[h].tx
    BY <1>1, <2>3, <2>4 DEF ActionRows
  <2> QED
    BY <1>2, <2>1, <2>2, <2>3, <2>5
<1>3. ASSUME NEW j \in Intents, intents[j].status = "ABSENT",
             \A k \in Intents \ {j} : intents'[k] = intents[k]
      PROVE  FALSE
  BY <1>1, <1>3
<1>4. ASSUME NEW h \in Handlers, Pays(req[h].intent, req[h].match),
             intents[req[h].intent].chain = "ETHEREUM"
      PROVE  FALSE
  BY <1>4 DEF Pays
<1>5. ASSUME NEW s \in Scanners, ScanSave(s) \/ ScanExpire(s)
      PROVE  i # scan[s].intent
  BY <1>5 DEF TerminalIsClosed, Holds, ScanSave, ScanExpire
<1>6. ASSUME NEW s \in Scanners, ScanSave(s) \/ ScanExpire(s),
             \/ Pays(scan[s].intent, scan[s].match)
             \/ Marks(scan[s].intent, "EXPIRED") \/ Marks(scan[s].intent, scan[s].seen)
      PROVE  FALSE
  BY <1>5, <1>6 DEF Pays, Marks
<1> QED
  BY <1>2, <1>3, <1>4, <1>6, Writes

(* The step of ConfirmedTransferKept: a submission names the recorded      *)
(* transaction, and no scan holds a confirmed checkout.                    *)
LEMMA ConfirmedTransferStep ==
  ASSUME IInv, ConfirmedIsClosed, [Next]_vars, NEW i \in Intents,
         intents[i].chain # "ETHEREUM", payments[i].status = "CONFIRMED"
  PROVE  payments'[i].tx = payments[i].tx
<1>1. payments[i].tx # NoTx /\ payments \in [Intents -> PaymentRows]
  BY NullsAssumption DEF IInv, PaymentsOwned, TypeOK
<1>2. ASSUME NEW j, NEW match, Pays(j, match), i = j => match.tx = payments[i].tx
      PROVE  payments'[i].tx = payments[i].tx
  BY <1>1, <1>2 DEF Pays
<1>3. ASSUME NEW h \in Handlers, payments[req[h].intent].tx \in {NoTx, req[h].tx}, NEW amount,
             Pays(req[h].intent, [status |-> "CONFIRMING", tx |-> req[h].tx, amount |-> amount])
      PROVE  payments'[i].tx = payments[i].tx
  BY <1>1, <1>2, <1>3
<1>4. ASSUME NEW s \in Scanners, ScanSave(s)
      PROVE  i # scan[s].intent
  BY <1>4 DEF ConfirmedIsClosed, Holds, ScanSave
<1>5. CASE UNCHANGED payments
  BY <1>5
<1> QED
  BY <1>2, <1>3, <1>4, <1>5, Writes DEF Marks

(* The step of UsedWithPayment: only persistMatch marks an action USED,    *)
(* and only one with the transaction of the match.                         *)
LEMMA UsedStep ==
  ASSUME IInv, MatchesSeen, [Next]_vars, NEW a \in Actions,
         actions'[a].status = "USED", actions[a].status # "USED"
  PROVE  LET i == actions[a].intent
             t == actions[a].txId
         IN /\ payments'[i].tx = t
            /\ payments'[i].status = intents'[i].status
            /\ intents[i].chain # "SOLANA" => txs[t].state # "UNSENT"
<1>1. /\ actions \in [Actions -> ActionRows]
      /\ payments \in [Intents -> PaymentRows]
  BY DEF IInv, TypeOK
<1>2. ASSUME NEW i, NEW match, PersistMatch(i, match), Pays(i, match)
      PROVE  /\ actions[a].intent = i /\ actions[a].txId = match.tx
             /\ payments'[i].tx = match.tx
             /\ payments'[i].status = intents'[i].status
  BY <1>1, <1>2 DEF PersistMatch, Pays, IntentExists
<1>3. ASSUME NEW h \in Handlers, HookPersist(h), ~UNCHANGED tables
      PROVE  /\ PersistMatch(req[h].intent, req[h].match)
             /\ Pays(req[h].intent, req[h].match)
             /\ txs[req[h].match.tx].state # "UNSENT"
  BY <1>3, HookPays DEF MatchesSeen, HookPersist
<1>4. ASSUME NEW s \in Scanners, ScanSave(s) \/ ScanExpire(s), ~UNCHANGED actions
      PROVE  /\ PersistMatch(scan[s].intent, scan[s].match)
             /\ Pays(scan[s].intent, scan[s].match)
             /\ intents[scan[s].intent].chain # "SOLANA" =>
                    txs[scan[s].match.tx].state # "UNSENT"
  <2>1. /\ ScanSave(s) /\ scan[s].match # NoMatch
        /\ PersistMatch(scan[s].intent, scan[s].match)
        /\ Pays(scan[s].intent, scan[s].match)
    BY <1>4, ScanPays DEF tables
  <2>2. scan[s].pc = "save" /\ scan[s].intent \in Intents
    BY <2>1 DEF ScanSave, Pays, IntentExists
  <2> QED
    BY <2>1, <2>2 DEF MatchesSeen
<1>5. ~UNCHANGED actions
  OBVIOUS
<1>6. ASSUME NEW h \in Handlers, Request(h)
      PROVE  HookPersist(h)
  <2>1. ASSUME NEW b \in Actions, NEW t \in Txs \cup {NoTx}, PrepareSave(h, b, t)
        PROVE  FALSE
    BY <1>1, <2>1 DEF PrepareSave
  <2>2. CASE SubmitCommit(h)
    <3>1. actions' = [actions EXCEPT ![req[h].action].status = "SUBMITTED",
                                     ![req[h].action].txId = req[h].tx]
      BY <1>5, <2>2 DEF SubmitCommit, tables
    <3> QED
      BY <1>1, <3>1 DEF ActionRows
  <2>3. CASE BroadcastSave(h)
    <3>1. actions' = [actions EXCEPT ![req[h].action].status = "PREPARED",
                                     ![req[h].action].txId = req[h].tx]
      BY <1>5, <2>3 DEF BroadcastSave
    <3> QED
      BY <1>1, <3>1 DEF ActionRows
  <2> QED
    BY <1>5, <1>6, <2>1, <2>2, <2>3
    DEF Request, PrepareRead, SubmitRead, BroadcastRead, BroadcastAccept, HookReceive,
        HookMatch, Abort, tables
<1>7. ASSUME NEW s \in Scanners, Scan(s)
      PROVE  ScanSave(s) \/ ScanExpire(s)
  BY <1>5, <1>7 DEF Scan, ScanStart, ScanSkip, ScanCheck, ScanFind, ScanError, ScanEnd,
                    ScanCrash, tables
<1>8. (\E h \in Handlers : Request(h)) \/ (\E s \in Scanners : Scan(s))
  BY <1>5 DEF Next, Environment, Send, Tick, CreateIntent, vars, tables
<1>9. CASE \E h \in Handlers : Request(h)
  <2>1. PICK h \in Handlers : HookPersist(h)
    BY <1>6, <1>9
  <2>2. PICK i, match : i = req[h].intent /\ match = req[h].match
    OBVIOUS
  <2>3. PersistMatch(i, match) /\ Pays(i, match) /\ txs[match.tx].state # "UNSENT"
    BY <1>3, <1>5, <2>1, <2>2 DEF tables
  <2> QED
    BY <1>2, <2>3
<1>10. CASE \E s \in Scanners : Scan(s)
  <2>1. PICK s \in Scanners : ScanSave(s) \/ ScanExpire(s)
    BY <1>7, <1>10
  <2>2. PICK i, match : i = scan[s].intent /\ match = scan[s].match
    OBVIOUS
  <2>3. /\ PersistMatch(i, match) /\ Pays(i, match)
        /\ intents[i].chain # "SOLANA" => txs[match.tx].state # "UNSENT"
    BY <1>4, <1>5, <2>1, <2>2
  <2> QED
    BY <1>2, <2>3
<1> QED
  BY <1>8, <1>9, <1>10

-----------------------------------------------------------------------------
(* The invariant, and what follows.                                        *)

(* Empty tables and idle processes.                                        *)
LEMMA InitSettlement == Init => SettlementInv
<1> SUFFICES ASSUME Init PROVE SettlementInv
  OBVIOUS
<1>1. IInv
  BY InitIInv
<1>2. CountedIsPaid
  BY DEF Init, CountedIsPaid, Counted, Holds, NoIntent, IdleScan, EmptyBatch, NotInBatch
<1>3. MatchesSeen
  BY DEF Init, MatchesSeen, IdleReq, IdleScan
<1>4. ScansApart
  BY DEF Init, ScansApart, Holds, IdleScan, EmptyBatch
<1>5. ConfirmedIsClosed
  BY DEF Init, ConfirmedIsClosed, NoPayment
<1>6. TerminalIsClosed
  BY DEF Init, TerminalIsClosed, NoIntent, TerminalStatuses
<1>7. SubmissionsFit
  BY DEF Init, SubmissionsFit, IdleReq
<1> QED
  BY <1>1, <1>2, <1>3, <1>4, <1>5, <1>6, <1>7 DEF SettlementInv

(* No step breaks the invariant.                                           *)
LEMMA SettlementStep == SettlementInv /\ [Next]_vars => SettlementInv'
<1> SUFFICES ASSUME SettlementInv, [Next]_vars PROVE SettlementInv'
  OBVIOUS
<1>1. IInv'
  BY NextIInv DEF SettlementInv
<1>2. CountedIsPaid'
  BY CountedKept DEF SettlementInv
<1>3. MatchesSeen'
  BY MatchesKept DEF SettlementInv
<1>4. ScansApart'
  BY ScansApartKept DEF SettlementInv
<1>5. ConfirmedIsClosed'
  BY <1>4, ConfirmedClosedKept DEF SettlementInv
<1>6. TerminalIsClosed'
  BY <1>4, TerminalClosedKept DEF SettlementInv
<1>7. SubmissionsFit'
  BY SubmissionsFitKept DEF SettlementInv
<1> QED
  BY <1>1, <1>2, <1>3, <1>4, <1>5, <1>6, <1>7 DEF SettlementInv

(* Every reachable state of the payments backend satisfies the invariant:  *)
(* what counts as paid has a payment, matches in hand are of transactions  *)
(* the chain has seen, scans exclude each other, a confirmed or otherwise  *)
(* closed checkout off Ethereum is out of their reach, and a submission    *)
(* under way is of an action of its checkout.                              *)
THEOREM SettlementInvariant == Spec => []SettlementInv
<1>1. Init => SettlementInv
  BY InitSettlement
<1>2. SettlementInv /\ [Next]_vars => SettlementInv'
  BY SettlementStep
<1> QED
  BY <1>1, <1>2, PTL DEF Spec

(* A Solana checkout never replaces the signature submitted for it.        *)
THEOREM SignatureKeptHolds == Spec => SignatureKept
<1>1. SettlementInv /\ [Next]_vars =>
        [\A i \in Intents :
             intents[i].chain = "SOLANA" /\ payments[i].tx # NoTx
             => payments'[i].tx = payments[i].tx]_vars
  BY SignatureStep DEF SettlementInv
<1> QED
  BY <1>1, SettlementInvariant, PTL DEF Spec, SignatureKept

(* An action becomes USED together with the payment of its transaction.    *)
THEOREM UsedWithPaymentHolds == Spec => UsedWithPayment
<1>1. SettlementInv /\ [Next]_vars =>
        [\A a \in Actions :
             actions'[a].status = "USED" /\ actions[a].status # "USED" =>
                 LET i == actions[a].intent
                     t == actions[a].txId
                 IN /\ payments'[i].tx = t
                    /\ payments'[i].status = intents'[i].status
                    /\ intents[i].chain # "SOLANA" => txs[t].state # "UNSENT"]_vars
  BY UsedStep DEF SettlementInv
<1> QED
  BY <1>1, SettlementInvariant, PTL DEF Spec, UsedWithPayment

(* Off Ethereum a confirmed payment keeps its transaction, whatever        *)
(* requests and scans had read before it was confirmed.                    *)
THEOREM ConfirmedTransferKeptHolds == Spec => ConfirmedTransferKept
<1>1. SettlementInv /\ [Next]_vars =>
        [\A i \in Intents :
             intents[i].chain # "ETHEREUM" /\ payments[i].status = "CONFIRMED"
             => payments'[i].tx = payments[i].tx]_vars
  BY ConfirmedTransferStep DEF SettlementInv
<1> QED
  BY <1>1, SettlementInvariant, PTL DEF Spec, ConfirmedTransferKept

(* Off Ethereum only a submission reopens a closed checkout: though scans  *)
(* save entities they loaded earlier, none of them is of a checkout that   *)
(* was closed since.                                                       *)
THEOREM OnlySubmissionsReopenHolds == Spec => OnlySubmissionsReopen
<1>1. SettlementInv /\ [Next]_vars =>
        [\A i \in Intents :
             /\ intents[i].chain # "ETHEREUM" /\ intents[i].status \in TerminalStatuses
             /\ intents'[i].status # intents[i].status
             => /\ intents'[i].status = "CONFIRMING" /\ payments'[i].status = "CONFIRMING"
                /\ payments[i].tx \in {NoTx, payments'[i].tx}
                /\ \E a \in Actions :
                       /\ actions'[a].intent = i /\ actions'[a].status = "SUBMITTED"
                       /\ actions'[a].txId = payments'[i].tx]_vars
  BY ReopenStep DEF SettlementInv
<1> QED
  BY <1>1, SettlementInvariant, PTL DEF Spec, OnlySubmissionsReopen

-----------------------------------------------------------------------------
(* Reports.                                                                *)

(* A checkout a report tells of as paid has a payment by then, which the   *)
(* second query, if it was made, found.                                    *)
ReportSound ==
    /\ report \in ReportRows
    /\ report.stage # "none" =>
           \A i \in Intents : Counted(report.intents[i]) => HasPayment(i)
    /\ CountedIsShown

(* The two queries answer with a status of every checkout.                 *)
LEMMA ReportTypes ==
  ASSUME TypeOK, NEW S
  PROVE  Listed(S) \in [Intents -> Statuses] /\ Paid(S) \in [Intents -> Statuses]
         /\ Nothing \in [Intents -> Statuses]
  BY PaymentStatusTypes DEF TypeOK, IntentRows, PaymentRows, Listed, Paid, Nothing, Statuses

(* The first query.                                                        *)
LEMMA BeginsSound ==
  ASSUME SettlementInv, NEW S, FindIntents(S), UNCHANGED vars
  PROVE  ReportSound'
<1>1. /\ report'.stage = "intents" /\ report'.intents = Listed(S)
      /\ report' = [stage |-> "intents", intents |-> Listed(S), payments |-> Nothing]
  BY DEF FindIntents
<1>2. report' \in ReportRows
  BY <1>1, ReportTypes DEF ReportRows, SettlementInv, IInv
<1>3. ASSUME NEW i \in Intents, Counted(report'.intents[i])
      PROVE  HasPayment(i)'
  <2>1. report'.intents[i] = intents[i].status
    BY <1>1, <1>3 DEF Listed, Counted
  <2> QED
    BY <1>3, <2>1 DEF SettlementInv, CountedIsPaid, HasPayment, vars
<1> QED
  BY <1>1, <1>2, <1>3 DEF ReportSound, CountedIsShown

(* The second query.                                                       *)
LEMMA PaymentsSound ==
  ASSUME SettlementInv, ReportSound, FindPayments
  PROVE  ReportSound'
<1> DEFINE found == Paid({i \in Intents : report.intents[i] # "ABSENT"})
<1>1. report' = [report EXCEPT !.stage = "shown", !.payments = found]
  BY DEF FindPayments
<1>2. found \in [Intents -> Statuses] /\ report \in ReportRows
  BY ReportTypes DEF SettlementInv, IInv, ReportSound
<1>3. ASSUME NEW i \in Intents, report.intents[i] # "ABSENT"
      PROVE  found[i] = payments[i].status
  BY <1>3 DEF Paid
<1> HIDE DEF found
<1>4. /\ report' \in ReportRows /\ report'.stage = "shown" /\ report'.payments = found
      /\ report'.intents = report.intents
  BY <1>1, <1>2 DEF ReportRows
<1>5. ASSUME NEW i \in Intents, Counted(report'.intents[i])
      PROVE  HasPayment(i)' /\ report'.payments[i] # "ABSENT"
  <2>1. HasPayment(i) /\ report.intents[i] # "ABSENT"
    BY <1>4, <1>5 DEF ReportSound, FindPayments, Counted
  <2> QED
    BY <1>3, <1>4, <2>1 DEF HasPayment, FindPayments, vars
<1> QED
  BY <1>4, <1>5 DEF ReportSound, CountedIsShown, Counted

(* Neither a query nor a step of the backend between two makes a report    *)
(* unsound.                                                                *)
LEMMA ReportStep ==
  SettlementInv /\ ReportSound /\ [ReportsNext]_reportVars => SettlementInv' /\ ReportSound'
<1> SUFFICES ASSUME SettlementInv, ReportSound, [ReportsNext]_reportVars
             PROVE  SettlementInv' /\ ReportSound'
  OBVIOUS
<1>1. [Next]_vars
  BY DEF ReportsNext, ReportBegins, FindPayments, reportVars
<1>2. SettlementInv'
  BY <1>1, SettlementStep
<1>3. CASE UNCHANGED report
  <2>1. \A i \in Intents : HasPayment(i) => HasPayment(i)'
    BY <1>1, PaymentsStay DEF SettlementInv
  <2> QED
    BY <1>2, <1>3, <2>1 DEF ReportSound, CountedIsShown
<1>4. CASE ReportBegins
  <2>1. PICK S : FindIntents(S)
    BY <1>4 DEF ReportBegins, GetIntentStatus, GetPublicPortfolio, ListAdminPayments,
                GetAdminStats
  <2> QED
    BY <1>2, <1>4, <2>1, BeginsSound DEF ReportBegins
<1>5. CASE FindPayments
  BY <1>2, <1>5, PaymentsSound
<1> QED
  BY <1>3, <1>4, <1>5 DEF ReportsNext, reportVars

(* A report shows a payment for every checkout it counts, though the two   *)
(* queries behind it are not one transaction.                              *)
THEOREM CountedIsShownHolds == ReportsSpec => []CountedIsShown
<1>1. ReportsInit => SettlementInv /\ ReportSound
  <2> SUFFICES ASSUME ReportsInit PROVE SettlementInv /\ ReportSound
    OBVIOUS
  <2>1. NoReport \in ReportRows
    BY DEF NoReport, ReportRows, Nothing, Statuses
  <2> QED
    BY <2>1, InitSettlement DEF ReportsInit, NoReport, ReportSound, CountedIsShown
<1>2. SettlementInv /\ ReportSound /\ [ReportsNext]_reportVars
          => SettlementInv' /\ ReportSound'
  BY ReportStep
<1>3. ReportSound => CountedIsShown
  BY DEF ReportSound
<1> QED
  BY <1>1, <1>2, <1>3, PTL DEF ReportsSpec
=============================================================================
