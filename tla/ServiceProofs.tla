---------------------------- MODULE ServiceProofs ----------------------------
(***************************************************************************)
(* Proofs about LedgerTracking, QuoteCache and BtcAllocation, for any      *)
(* number of requests in flight, simulations, transactions, wallets,       *)
(* payers and checkouts, any lifetime of the caches and any limit.         *)
(***************************************************************************)
EXTENDS LedgerTracking, QuoteCache, BtcAllocation, FiniteSetTheorems, TLAPS

-----------------------------------------------------------------------------
(* The ledger.                                                             *)

IsSim(s) == sims[s] # NoSim
IsSpent(s) == sims[s].status \in {"used", "expired"}
IsRow(x) == ledger[x] # NoRow
IsSent(x) == chain[x] # NoTx

(* What a status says of the transaction.                                  *)
StatusHolds(status, x) ==
    /\ status = "CONFIRMED" => chain[x].state = "mined"
    /\ status = "FAILED" => chain[x].state = "reverted"

(* The wallet of a simulation sent the transaction, in its amount.         *)
SentFor(s, x) ==
    /\ IsSim(s) /\ IsSent(x)
    /\ chain[x].from = sims[s].wallet
    /\ chain[x].pays = sims[s].amount

(* What a request knows between its awaits.                                *)
TrackSound(t) ==
    /\ t.pc \in {"read", "expiring"} => IsSim(t.sim)
    /\ t.pc \in {"verified", "used"} =>
           SentFor(t.sim, t.tx) /\ StatusHolds(t.status, t.tx)
    /\ t.pc = "used" => IsSpent(t.sim)
    /\ t.pc = "reconciling" => IsRow(t.tx)
    /\ t.pc = "reconciled" =>
           /\ IsRow(t.tx) /\ ledger[t.tx].kind = "native"
           /\ StatusHolds(t.status, t.tx)

RowSound(x) ==
    IsRow(x) =>
        /\ ledger[x].owner # Treasury
        /\ IsSent(x)
        /\ chain[x].from = ledger[x].owner
        /\ chain[x].pays = ledger[x].amount
        /\ StatusHolds(ledger[x].status, x)
        /\ IsSpent(ledger[x].sim)
        /\ ledger[x].recipient = ExpectedRecipient(ledger[x].kind)

LedgerInv ==
    /\ LedgerTypeOK
    /\ \A s \in SimIds : IsSim(s) => sims[s].wallet # Treasury
    /\ \A h \in TrackHandlers : TrackSound(tracks[h])
    /\ \A x \in LedgerTxs : RowSound(x)

(* What every step leaves as it is.                                        *)
SimKept(s) ==
    IsSim(s) =>
        /\ IsSim(s)'
        /\ sims'[s].wallet = sims[s].wallet
        /\ sims'[s].amount = sims[s].amount
        /\ IsSpent(s) => IsSpent(s)'

TxKept(x) ==
    IsSent(x) =>
        /\ IsSent(x)'
        /\ chain'[x].from = chain[x].from
        /\ chain'[x].pays = chain[x].pays
        /\ chain[x].state # "pending" => chain'[x].state = chain[x].state

RowKept(x) ==
    IsRow(x) => IsRow(x)' /\ ledger'[x].kind = ledger[x].kind

LedgerGrows ==
    /\ \A s \in SimIds : SimKept(s)
    /\ \A x \in LedgerTxs : TxKept(x)
    /\ \A x \in LedgerTxs : RowKept(x)

(* A row, a request and a null are told apart by one field.                *)
LEMMA LedgerNulls ==
    /\ NoSim \notin Sims
    /\ NoRow \notin LedgerRows
    /\ NoTx \notin ChainTxs
    /\ IdleTrack \notin Tracks
<1>1. NoSim \notin Sims
    BY DEF NoSim, Sims
<1>2. NoRow \notin LedgerRows
    BY DEF NoRow, LedgerRows, LedgerStatuses
<1>3. NoTx \notin ChainTxs
    BY DEF NoTx, ChainTxs
<1>4. IdleTrack \notin Tracks
    BY DEF IdleTrack, Tracks
<1>5. QED
    BY <1>1, <1>2, <1>3, <1>4

(* The fields of a request in flight.                                      *)
LEMMA TrackFields ==
    ASSUME LedgerTypeOK, NEW h \in TrackHandlers
    PROVE  /\ tracks[h].pc \in {"idle", "read", "verified", "used", "expiring",
                                "reconciling", "reconciled"}
           /\ tracks[h].pc = "idle" <=> tracks[h] = IdleTrack
           /\ tracks[h].pc \in {"read", "verified", "used", "expiring"} =>
                  tracks[h].sim \in SimIds
           /\ tracks[h].pc \in {"read", "verified", "used", "reconciling", "reconciled"} =>
                  tracks[h].tx \in LedgerTxs
           /\ tracks[h].pc \in {"verified", "used", "reconciled"} =>
                  tracks[h].status \in LedgerStatuses
BY DEF LedgerTypeOK, Tracks, IdleTrack

(* A provider that tells of a transaction tells of one that was sent, and  *)
(* of its outcome only what the chain says.                                *)
LEMMA SeenIsSent ==
    ASSUME LedgerTypeOK, NEW x \in LedgerTxs, NEW tx \in Seen(chain[x])
    PROVE  /\ IsSent(x)
           /\ tx.from = chain[x].from
           /\ tx.kind = chain[x].kind
           /\ tx.pays = chain[x].pays
           /\ ResolveLedgerStatus(tx) \in LedgerStatuses
           /\ StatusHolds(ResolveLedgerStatus(tx), x)
<1>1. IsSent(x) /\ chain[x] \in ChainTxs
    BY DEF Seen, IsSent, LedgerTypeOK
<1>2. tx = chain[x] \/ tx = [chain[x] EXCEPT !.state = "pending"]
    BY DEF Seen
<1>3. /\ tx.from = chain[x].from
      /\ tx.kind = chain[x].kind
      /\ tx.pays = chain[x].pays
      /\ tx.state \in {"pending", chain[x].state}
    BY <1>1, <1>2 DEF ChainTxs
<1>4. chain[x].state \in {"pending", "mined", "reverted"}
    BY <1>1 DEF ChainTxs
<1>5. QED
    BY <1>1, <1>3, <1>4 DEF ResolveLedgerStatus, StatusHolds, LedgerStatuses

LEMMA LedgerInitHolds == LedgerInit => LedgerInv
BY LedgerNulls
   DEF LedgerInit, LedgerInv, LedgerTypeOK, TrackSound, RowSound, IsSim, IsRow, IdleTrack

LEMMA LedgerTypesKept == LedgerInv /\ [LedgerNext]_ledgerVars => LedgerTypeOK'
<1> SUFFICES ASSUME LedgerInv, [LedgerNext]_ledgerVars PROVE LedgerTypeOK'
    OBVIOUS
<1> USE DEF LedgerInv, LedgerTypeOK
<1>1. ASSUME NEW s \in SimIds, NEW wallet \in LedgerWallets, NEW kind \in AssetTypes,
             NEW amount \in LedgerAmounts, Simulate(s, wallet, kind, amount)
      PROVE  LedgerTypeOK'
    BY <1>1 DEF Simulate, Sims
<1>2. ASSUME NEW x \in LedgerTxs, NEW wallet \in LedgerWallets, NEW kind \in AssetTypes,
             NEW pays \in LedgerAmounts \cup {0}, Send(x, wallet, kind, pays)
      PROVE  LedgerTypeOK'
    BY <1>2 DEF Send, ChainTxs
<1>3. ASSUME NEW s \in SimIds, PassDeadline(s) PROVE LedgerTypeOK'
    BY <1>3 DEF PassDeadline, Sims
<1>4. ASSUME NEW x \in LedgerTxs, NEW state \in {"mined", "reverted"}, Mine(x, state)
      PROVE  LedgerTypeOK'
    BY <1>4 DEF Mine, ChainTxs
<1>5. ASSUME NEW h \in TrackHandlers, TrackStep(h) PROVE LedgerTypeOK'
    <2>1. ASSUME NEW s \in SimIds, NEW x \in LedgerTxs, NEW wallet \in LedgerWallets,
                 TrackRead(h, wallet, s, x)
          PROVE  LedgerTypeOK'
        BY <2>1 DEF TrackRead, Tracking, Tracks
    <2>2. ASSUME NEW s \in SimIds, NEW wallet \in LedgerWallets,
                 TrackReadOverdue(h, wallet, s)
          PROVE  LedgerTypeOK'
        BY <2>2 DEF TrackReadOverdue, Tracking, Tracks
    <2>3. CASE SaveExpired(h)
        BY <2>3, TrackFields DEF SaveExpired, Tracking, TrackSound, IsSim, Sims
    <2>4. CASE TrackVerify(h)
        BY <2>4, TrackFields, SeenIsSent DEF TrackVerify, Tracking, Tracks
    <2>5. CASE TrackUse(h)
        BY <2>5, TrackFields
           DEF TrackUse, Tracking, TrackSound, SentFor, IsSim, Sims, Tracks
    <2>6. CASE TrackInsert(h)
        BY <2>6, TrackFields
           DEF TrackInsert, Tracking, TrackSound, SentFor, IsSim, Sims, LedgerRows,
               ExpectedRecipient
    <2>7. ASSUME NEW x \in LedgerTxs, ReconcileRead(h, x) PROVE LedgerTypeOK'
        BY <2>7 DEF ReconcileRead, Tracking, Tracks
    <2>8. CASE ReconcileVerify(h)
        BY <2>8, TrackFields, SeenIsSent DEF ReconcileVerify, Tracking, Tracks
    <2>9. CASE ReconcileSave(h)
        BY <2>9, TrackFields DEF ReconcileSave, Tracking, TrackSound, IsRow, LedgerRows
    <2>10. CASE TrackDies(h)
        BY <2>10 DEF TrackDies, Tracking
    <2>11. QED
        BY <1>5, <2>1, <2>2, <2>3, <2>4, <2>5, <2>6, <2>7, <2>8, <2>9, <2>10
           DEF TrackStep
<1>6. CASE UNCHANGED ledgerVars
    BY <1>6 DEF ledgerVars
<1>7. QED
    BY <1>1, <1>2, <1>3, <1>4, <1>5, <1>6 DEF LedgerNext

(* Simulations, transactions and rows keep what they were written with.    *)
LEMMA LedgerStepGrows == LedgerInv /\ [LedgerNext]_ledgerVars => LedgerGrows
<1> SUFFICES ASSUME LedgerInv, [LedgerNext]_ledgerVars PROVE LedgerGrows
    OBVIOUS
<1> USE LedgerNulls DEF LedgerInv, LedgerTypeOK, LedgerGrows, SimKept, TxKept, RowKept,
                        IsSim, IsSpent, IsRow, IsSent
<1>1. ASSUME NEW s \in SimIds, NEW wallet \in LedgerWallets, NEW kind \in AssetTypes,
             NEW amount \in LedgerAmounts, Simulate(s, wallet, kind, amount)
      PROVE  LedgerGrows
    BY <1>1 DEF Simulate, Sims
<1>2. ASSUME NEW x \in LedgerTxs, NEW wallet \in LedgerWallets, NEW kind \in AssetTypes,
             NEW pays \in LedgerAmounts \cup {0}, Send(x, wallet, kind, pays)
      PROVE  LedgerGrows
    BY <1>2 DEF Send, ChainTxs
<1>3. ASSUME NEW s \in SimIds, PassDeadline(s) PROVE LedgerGrows
    BY <1>3 DEF PassDeadline, Sims
<1>4. ASSUME NEW x \in LedgerTxs, NEW state \in {"mined", "reverted"}, Mine(x, state)
      PROVE  LedgerGrows
    BY <1>4 DEF Mine, ChainTxs
<1>5. ASSUME NEW h \in TrackHandlers, TrackStep(h) PROVE LedgerGrows
    <2>1. CASE UNCHANGED <<sims, ledger, chain>>
        BY <2>1
    <2>2. CASE SaveExpired(h)
        BY <2>2, TrackFields DEF SaveExpired, Sims
    <2>3. CASE TrackUse(h)
        BY <2>3, TrackFields DEF TrackUse, Sims
    <2>4. CASE TrackInsert(h)
        BY <2>4, TrackFields DEF TrackInsert, LedgerRows
    <2>5. CASE ReconcileSave(h)
        BY <2>5, TrackFields DEF ReconcileSave, LedgerRows
    <2>6. QED
        BY <1>5, <2>1, <2>2, <2>3, <2>4, <2>5
           DEF TrackStep, TrackRead, TrackReadOverdue, TrackVerify, ReconcileRead,
               ReconcileVerify, TrackDies
<1>6. CASE UNCHANGED ledgerVars
    BY <1>6 DEF ledgerVars
<1>7. QED
    BY <1>1, <1>2, <1>3, <1>4, <1>5, <1>6 DEF LedgerNext

(* What a request knows stays true when others take their steps.           *)
LEMMA TrackSoundKept ==
    ASSUME LedgerGrows, \A x \in LedgerTxs : RowSound(x),
           NEW t \in Tracks \cup {IdleTrack}, TrackSound(t)
    PROVE  TrackSound(t)'
<1>1. ASSUME NEW x \in LedgerTxs, NEW status, IsSent(x), StatusHolds(status, x)
      PROVE  StatusHolds(status, x)'
    BY <1>1 DEF LedgerGrows, TxKept, StatusHolds, IsSent
<1>2. ASSUME NEW s \in SimIds, NEW x \in LedgerTxs, SentFor(s, x)
      PROVE  SentFor(s, x)'
    BY <1>2 DEF LedgerGrows, SimKept, TxKept, SentFor, IsSim, IsSent
<1>3. ASSUME NEW s \in SimIds, IsSim(s) PROVE IsSim(s)' /\ (IsSpent(s) => IsSpent(s)')
    BY <1>3 DEF LedgerGrows, SimKept
<1>4. ASSUME NEW x \in LedgerTxs, IsRow(x)
      PROVE  IsRow(x)' /\ ledger'[x].kind = ledger[x].kind
    BY <1>4 DEF LedgerGrows, RowKept
<1>5. CASE t.pc = "idle"
    BY <1>5 DEF TrackSound
<1>6. CASE t.pc \in {"read", "expiring"}
    BY <1>3, <1>6 DEF TrackSound, Tracks, IdleTrack
<1>7. CASE t.pc \in {"verified", "used"}
    BY <1>1, <1>2, <1>3, <1>7 DEF TrackSound, SentFor, Tracks, IdleTrack
<1>8. CASE t.pc = "reconciling"
    BY <1>4, <1>8 DEF TrackSound, Tracks, IdleTrack
<1>9. CASE t.pc = "reconciled"
    <2>1. t.tx \in LedgerTxs /\ IsRow(t.tx)
        BY <1>9 DEF TrackSound, Tracks, IdleTrack
    <2>2. IsSent(t.tx)
        BY <2>1 DEF RowSound
    <2>3. QED
        BY <1>1, <1>4, <1>9, <2>1, <2>2 DEF TrackSound
<1>10. QED
    BY <1>5, <1>6, <1>7, <1>8, <1>9 DEF Tracks, IdleTrack

LEMMA RowSoundKept ==
    ASSUME LedgerTypeOK, LedgerGrows, NEW x \in LedgerTxs, RowSound(x),
           IsRow(x) => ledger[x].sim \in SimIds /\ IsSim(ledger[x].sim),
           ledger'[x] = ledger[x]
    PROVE  RowSound(x)'
BY DEF RowSound, StatusHolds, LedgerGrows, SimKept, TxKept, IsSim, IsSpent, IsRow, IsSent

LEMMA SpentIsSim ==
    ASSUME LedgerInv, NEW x \in LedgerTxs, IsRow(x)
    PROVE  ledger[x].sim \in SimIds /\ IsSim(ledger[x].sim)
BY DEF LedgerInv, LedgerTypeOK, IsRow, RowSound, LedgerRows, IsSpent, IsSim, NoSim

(* Every step keeps the invariant.                                         *)
THEOREM LedgerStep == LedgerInv /\ [LedgerNext]_ledgerVars => LedgerInv'
<1> SUFFICES ASSUME LedgerInv, [LedgerNext]_ledgerVars PROVE LedgerInv'
    OBVIOUS
<1>1. LedgerTypeOK' /\ LedgerGrows
    BY LedgerTypesKept, LedgerStepGrows
<1> USE DEF LedgerInv
<1>2. ASSUME NEW h \in TrackHandlers, tracks'[h] = tracks[h]
      PROVE  TrackSound(tracks[h])'
    <2>1. tracks[h] \in Tracks \cup {IdleTrack} /\ TrackSound(tracks[h])
        BY DEF LedgerTypeOK
    <2>2. PICK t \in Tracks \cup {IdleTrack} : t = tracks[h]
        BY <2>1
    <2>3. TrackSound(t)'
        BY <1>1, <2>1, <2>2, TrackSoundKept
    <2>4. QED
        BY <1>2, <2>2, <2>3 DEF TrackSound
<1>3. ASSUME NEW x \in LedgerTxs, ledger'[x] = ledger[x]
      PROVE  RowSound(x)'
    BY <1>1, <1>3, RowSoundKept, SpentIsSim
<1>4. ASSUME NEW s \in SimIds, IsSim(s)' PROVE sims'[s].wallet # Treasury
    <2>1. CASE IsSim(s)
        BY <1>1, <2>1 DEF LedgerGrows, SimKept
    <2>2. CASE ~IsSim(s)
        <3>1. ASSUME NEW u \in SimIds, NEW wallet \in LedgerWallets,
                     NEW kind \in AssetTypes, NEW amount \in LedgerAmounts,
                     Simulate(u, wallet, kind, amount)
              PROVE  sims'[s].wallet # Treasury
            BY <1>4, <2>2, <3>1 DEF Simulate, IsSim, LedgerTypeOK
        <3>2. ASSUME NEW u \in SimIds, PassDeadline(u) PROVE FALSE
            BY <1>4, <2>2, <3>2 DEF PassDeadline, IsSim, LedgerTypeOK
        <3>3. ASSUME NEW h \in TrackHandlers, SaveExpired(h) \/ TrackUse(h) PROVE FALSE
            BY <1>4, <2>2, <3>3, TrackFields
               DEF SaveExpired, TrackUse, TrackSound, SentFor, IsSim, LedgerTypeOK
        <3>4. CASE UNCHANGED sims
            BY <1>4, <2>2, <3>4 DEF IsSim
        <3>5. QED
            BY <3>1, <3>2, <3>3, <3>4
               DEF LedgerNext, ledgerVars, TrackStep, Send, Mine, TrackRead,
                   TrackReadOverdue, TrackVerify, TrackInsert, ReconcileRead,
                   ReconcileVerify, ReconcileSave, TrackDies
    <2>3. QED
        BY <2>1, <2>2
<1>5. ASSUME NEW h \in TrackHandlers, TrackStep(h)
      PROVE  /\ \A g \in TrackHandlers : TrackSound(tracks[g])'
             /\ \A x \in LedgerTxs : RowSound(x)'
    <2>1. \A g \in TrackHandlers \ {h} : tracks'[g] = tracks[g]
        BY <1>5 DEF TrackStep, TrackRead, TrackReadOverdue, SaveExpired, TrackVerify,
                    TrackUse, TrackInsert, ReconcileRead, ReconcileVerify,
                    ReconcileSave, TrackDies, Tracking, LedgerTypeOK
    <2>2. ASSUME tracks'[h] = IdleTrack PROVE TrackSound(tracks[h])'
        BY <2>2 DEF TrackSound, IdleTrack
    <2> DEFINE Done == TrackSound(tracks[h])' /\ \A x \in LedgerTxs : RowSound(x)'
    <2>3. ASSUME NEW s \in SimIds, NEW x \in LedgerTxs, NEW wallet \in LedgerWallets,
                 TrackRead(h, wallet, s, x)
          PROVE  Done
        <3>1. tracks'[h] = [pc |-> "read", sim |-> s, tx |-> x]
            BY <2>3 DEF TrackRead, Tracking, LedgerTypeOK
        <3>2. QED
            BY <1>3, <2>3, <3>1 DEF TrackRead, TrackSound, IsSim
    <2>4. ASSUME NEW s \in SimIds, NEW wallet \in LedgerWallets,
                 TrackReadOverdue(h, wallet, s)
          PROVE  Done
        <3>1. tracks'[h] = [pc |-> "expiring", sim |-> s]
            BY <2>4 DEF TrackReadOverdue, Tracking, LedgerTypeOK
        <3>2. QED
            BY <1>3, <2>4, <3>1 DEF TrackReadOverdue, TrackSound, IsSim
    <2>5. ASSUME SaveExpired(h) PROVE Done
        BY <1>3, <2>2, <2>5 DEF SaveExpired, Tracking, LedgerTypeOK
    <2>6. ASSUME TrackVerify(h) PROVE Done
        <3> DEFINE x == tracks[h].tx
        <3>1. /\ tracks[h].pc = "read" /\ x \in LedgerTxs
              /\ tracks[h].sim \in SimIds /\ IsSim(tracks[h].sim)
            BY <2>6, TrackFields DEF TrackVerify, TrackSound
        <3>2. PICK tx \in Seen(chain[x]) :
                  /\ tx.from = sims[tracks[h].sim].wallet
                  /\ tx.pays = sims[tracks[h].sim].amount
                  /\ tracks'[h] = [pc |-> "verified", sim |-> tracks[h].sim, tx |-> x,
                                   status |-> ResolveLedgerStatus(tx)]
            BY <2>6 DEF TrackVerify, Verifies, VerifiesNative, VerifiesErc20, Tracking,
                        LedgerTypeOK
        <3>3. SentFor(tracks[h].sim, x) /\ StatusHolds(ResolveLedgerStatus(tx), x)
            BY <3>1, <3>2, SeenIsSent DEF SentFor
        <3>4. TrackSound(tracks[h])'
            BY <2>6, <3>2, <3>3
               DEF TrackVerify, TrackSound, SentFor, StatusHolds, IsSim, IsSent
        <3>5. QED
            BY <1>3, <2>6, <3>4 DEF TrackVerify
    <2>7. ASSUME TrackUse(h) PROVE Done
        <3>1. /\ tracks'[h] = [tracks[h] EXCEPT !.pc = "used"]
              /\ tracks[h].pc = "verified"
              /\ tracks[h].sim \in SimIds
              /\ tracks[h].tx \in LedgerTxs
            BY <2>7, TrackFields DEF TrackUse, Tracking, LedgerTypeOK
        <3>2. /\ tracks'[h].pc = "used"
              /\ tracks'[h].sim = tracks[h].sim
              /\ tracks'[h].tx = tracks[h].tx
              /\ tracks'[h].status = tracks[h].status
            BY <3>1, TrackFields DEF LedgerTypeOK, Tracks, IdleTrack
        <3>3. IsSpent(tracks[h].sim)'
            BY <2>7, <3>1, <3>2 DEF TrackUse, IsSpent, LedgerTypeOK, TrackSound, SentFor,
                              IsSim, Sims
        <3>4. SentFor(tracks[h].sim, tracks[h].tx)' /\ StatusHolds(tracks[h].status, tracks[h].tx)'
            BY <1>1, <3>1, <3>2
               DEF TrackSound, SentFor, StatusHolds, LedgerGrows, SimKept, TxKept,
                   IsSim, IsSent
        <3>5. TrackSound(tracks[h])'
            BY <3>2, <3>3, <3>4 DEF TrackSound, IsSpent
        <3>6. QED
            BY <1>3, <2>7, <3>5 DEF TrackUse
    <2>8. ASSUME TrackInsert(h) PROVE Done
        <3>0. PICK x \in LedgerTxs, s \in SimIds : x = tracks[h].tx /\ s = tracks[h].sim
            BY <2>8, TrackFields DEF TrackInsert
        <3>1. /\ tracks[h].pc = "used" /\ x \in LedgerTxs /\ s \in SimIds
              /\ SentFor(s, x) /\ StatusHolds(tracks[h].status, x) /\ IsSpent(s)
              /\ sims[s].wallet # Treasury
            BY <2>8, <3>0, TrackFields DEF TrackInsert, TrackSound, SentFor
        <3>2. CASE IsRow(x)
            BY <1>3, <2>2, <2>8, <3>0, <3>2 DEF TrackInsert, IsRow, Tracking, LedgerTypeOK
        <3>3. CASE ~IsRow(x)
            <4>1. ledger'[x] = [owner |-> sims[s].wallet, kind |-> sims[s].kind,
                                amount |-> sims[s].amount,
                                recipient |-> ExpectedRecipient(sims[s].kind),
                                sim |-> s, status |-> tracks[h].status]
                BY <2>8, <3>0, <3>1, <3>3 DEF TrackInsert, IsRow, LedgerTypeOK
            <4>2. RowSound(x)'
                BY <2>8, <3>1, <4>1
                   DEF TrackInsert, RowSound, SentFor, StatusHolds, IsSpent, IsSent
            <4>3. ASSUME NEW y \in LedgerTxs \ {x} PROVE RowSound(y)'
                BY <1>3, <2>8, <3>0, <4>3 DEF TrackInsert, LedgerTypeOK
            <4>4. QED
                BY <2>2, <2>8, <4>2, <4>3 DEF TrackInsert, Tracking, LedgerTypeOK
        <3>4. QED
            BY <3>2, <3>3
    <2>9. ASSUME NEW x \in LedgerTxs, ReconcileRead(h, x) PROVE Done
        <3>1. tracks'[h] = [pc |-> "reconciling", tx |-> x]
            BY <2>9 DEF ReconcileRead, Tracking, LedgerTypeOK
        <3>2. QED
            BY <1>3, <2>9, <3>1 DEF ReconcileRead, TrackSound, IsRow
    <2>10. ASSUME ReconcileVerify(h) PROVE Done
        <3> DEFINE x == tracks[h].tx
        <3>1. tracks[h].pc = "reconciling" /\ x \in LedgerTxs /\ IsRow(x)
            BY <2>10, TrackFields DEF ReconcileVerify, TrackSound
        <3>2. PICK tx \in Seen(chain[x]) :
                  /\ Verifies(tx, ledger[x].owner, ledger[x].kind, ledger[x].amount,
                              ledger[x].recipient)
                  /\ tracks'[h] = [pc |-> "reconciled", tx |-> x,
                                   status |-> ResolveLedgerStatus(tx)]
            BY <2>10 DEF ReconcileVerify, Tracking, LedgerTypeOK
        <3>3. ledger[x].kind \in AssetTypes /\ RowSound(x)
            BY <3>1 DEF LedgerTypeOK, IsRow, LedgerRows
        <3>4. ledger[x].kind = "native"
            BY <3>1, <3>2, <3>3
               DEF Verifies, VerifiesErc20, RowSound, ExpectedRecipient, AssetTypes
        <3>5. StatusHolds(ResolveLedgerStatus(tx), x)
            BY <3>1, SeenIsSent
        <3>6. TrackSound(tracks[h])'
            BY <2>10, <3>1, <3>2, <3>4, <3>5
               DEF ReconcileVerify, TrackSound, StatusHolds, IsRow
        <3>7. QED
            BY <1>3, <2>10, <3>6 DEF ReconcileVerify
    <2>11. ASSUME ReconcileSave(h) PROVE Done
        <3>0. PICK x \in LedgerTxs : x = tracks[h].tx
            BY <2>11, TrackFields DEF ReconcileSave
        <3>1. /\ tracks[h].pc = "reconciled" /\ x \in LedgerTxs
              /\ IsRow(x) /\ StatusHolds(tracks[h].status, x)
            BY <2>11, <3>0, TrackFields DEF ReconcileSave, TrackSound
        <3>2. ledger'[x] = [ledger[x] EXCEPT !.status = tracks[h].status]
            BY <2>11, <3>0, <3>1 DEF ReconcileSave, LedgerTypeOK
        <3>3. RowSound(x)'
            BY <2>11, <3>1, <3>2
               DEF ReconcileSave, RowSound, StatusHolds, IsRow, IsSpent, IsSent,
                   LedgerTypeOK, LedgerRows
        <3>4. ASSUME NEW y \in LedgerTxs \ {x} PROVE RowSound(y)'
            BY <1>3, <2>11, <3>0, <3>4 DEF ReconcileSave, LedgerTypeOK
        <3>5. QED
            BY <2>2, <2>11, <3>3, <3>4 DEF ReconcileSave, Tracking, LedgerTypeOK
    <2>12. ASSUME TrackDies(h) PROVE Done
        BY <1>3, <2>2, <2>12 DEF TrackDies, Tracking, LedgerTypeOK
    <2>13. Done
        BY <1>5, <2>3, <2>4, <2>5, <2>6, <2>7, <2>8, <2>9, <2>10, <2>11, <2>12
           DEF TrackStep
    <2>14. QED
        BY <1>2, <2>1, <2>13
<1>6. CASE UNCHANGED <<ledger, tracks>>
    BY <1>1, <1>2, <1>3, <1>4, <1>6
<1>7. QED
    BY <1>1, <1>4, <1>5, <1>6
       DEF LedgerNext, ledgerVars, Simulate, Send, PassDeadline, Mine

(* What the tracks in flight hold is sound in every reachable state.       *)
THEOREM LedgerInvariant == LedgerSpec => []LedgerInv
<1>1. LedgerInit => LedgerInv
    BY LedgerInitHolds
<1>2. LedgerInv /\ [LedgerNext]_ledgerVars => LedgerInv'
    BY LedgerStep
<1>3. QED
    BY <1>1, <1>2, PTL DEF LedgerSpec

(* What a wallet sees as its own it sent, to a treasury that is not itself.*)
THEOREM LedgerIsEarnedHolds == LedgerSpec => []LedgerIsEarned
<1>1. LedgerInv => LedgerIsEarned
    BY DEF LedgerInv, LedgerIsEarned, VisibleTo, RowSound, StatusHolds, IsRow, IsSent
<1>2. QED
    BY <1>1, LedgerInvariant, PTL

(* A simulation is spent before its row is there.                          *)
THEOREM RowSpendsSimulationHolds == LedgerSpec => []RowSpendsSimulation
<1>1. LedgerInv => RowSpendsSimulation
    BY DEF LedgerInv, RowSpendsSimulation, RowSound, IsSpent, IsRow
<1>2. QED
    BY <1>1, LedgerInvariant, PTL

(* Nothing ever changes the row of a token transfer.                       *)
THEOREM TokenRowsAreFrozenHolds == LedgerSpec => TokenRowsAreFrozen
<1>1. LedgerInv /\ [LedgerNext]_ledgerVars =>
          [\A x \in LedgerTxs : ledger[x] # NoRow /\ ledger[x].kind = "erc20"
               => ledger'[x] = ledger[x]]_ledgerVars
    <2> SUFFICES ASSUME LedgerInv, LedgerNext, NEW x \in LedgerTxs,
                        ledger[x] # NoRow, ledger[x].kind = "erc20"
                 PROVE  ledger'[x] = ledger[x]
        OBVIOUS
    <2>1. ASSUME NEW h \in TrackHandlers, TrackInsert(h) PROVE ledger'[x] = ledger[x]
        BY <2>1 DEF TrackInsert, LedgerInv, LedgerTypeOK
    <2>2. ASSUME NEW h \in TrackHandlers, ReconcileSave(h) PROVE ledger'[x] = ledger[x]
        BY <2>2 DEF ReconcileSave, LedgerInv, LedgerTypeOK, TrackSound
    <2>3. CASE UNCHANGED ledger
        BY <2>3
    <2>4. QED
        BY <2>1, <2>2, <2>3
           DEF LedgerNext, TrackStep, Simulate, Send, PassDeadline, Mine, TrackRead,
               TrackReadOverdue, SaveExpired, TrackVerify, TrackUse, ReconcileRead,
               ReconcileVerify, TrackDies
<1>2. QED
    BY <1>1, LedgerInvariant, PTL DEF LedgerSpec, TokenRowsAreFrozen

-----------------------------------------------------------------------------
(* The caches.  An entry is never of the future; a price in the first      *)
(* cache counts for one lifetime, one in the second for less than two,     *)
(* because the price it was made of still counted then.                    *)

CachesSound ==
    /\ quoteCache.at <= now /\ spotPriceCache.at <= now /\ marketsCache.at <= now
    /\ spotPriceCache.expires <= spotPriceCache.at + QuoteTtl
    /\ marketsCache.expires <= marketsCache.at + QuoteTtl
    /\ quoteCache.expires < quoteCache.at + 2 * QuoteTtl

KeptOfThePast ==
    \A h \in QuoteHandlers : quoting[h] # IdleQuote => quoting[h].kept.at <= now

QuoteInv == QuoteTypeOK /\ CachesSound /\ KeptOfThePast /\ PricesAreRecent

LEMMA QuoteInitHolds == QuoteInit => QuoteInv
BY QuoteAssumption
   DEF QuoteInit, QuoteInv, QuoteTypeOK, CachesSound, KeptOfThePast, PricesAreRecent,
       NoEntry, NoAnswer, IdleQuote, Entries, Times

(* The entries in numbers.                                                 *)
LEMMA QuoteNumbers ==
    ASSUME QuoteTypeOK
    PROVE  /\ now \in Nat /\ now <= MaxTime
           /\ quoteCache \in Entries /\ spotPriceCache \in Entries
           /\ marketsCache \in Entries
           /\ \A e \in Entries :
                  /\ e.at \in Nat /\ e.expires \in Nat
                  /\ e.at <= MaxTime /\ e.expires <= MaxTime + QuoteTtl
           /\ NoEntry \in Entries
           /\ \A at \in 0 .. now : Entry(at, QuoteTtl) \in Entries
BY QuoteAssumption DEF QuoteTypeOK, Entries, Times, NoEntry, Entry

(* An answer about data of the past is well formed; a recent one agrees    *)
(* with the property.                                                      *)
LEMMA QuoteGiven ==
    ASSUME QuoteInv, NEW h \in QuoteHandlers, quoting[h] # IdleQuote,
           NEW status \in {"fresh", "cached", "fallback", "stale"},
           NEW at \in 0 .. now, Give(h, status, at),
           status \in {"fresh", "cached"} =>
               now - at < (IF quoting[h].op = "price" THEN 2 ELSE 1) * QuoteTtl,
           UNCHANGED now
    PROVE  /\ answer' \in [kind : {"price", "list"},
                           status : {"fresh", "cached", "fallback", "stale"},
                           age : Times]
           /\ PricesAreRecent'
           /\ quoting' = [quoting EXCEPT ![h] = IdleQuote]
<1>1. quoting[h].op \in {"price", "list"}
    BY DEF QuoteInv, QuoteTypeOK
<1>2. now - at \in Times
    BY QuoteAssumption, QuoteNumbers DEF QuoteInv, Times
<1>3. answer' = [kind |-> quoting[h].op, status |-> status, age |-> now - at]
    BY DEF Give
<1>4. PricesAreRecent'
    BY <1>3 DEF PricesAreRecent
<1>5. QED
    BY <1>1, <1>2, <1>3, <1>4 DEF Give

(* No request, answer or tick breaks the invariant of the caches.          *)
LEMMA QuoteStep == QuoteInv /\ [QuoteNext]_quoteVars => QuoteInv'
<1> SUFFICES ASSUME QuoteInv, [QuoteNext]_quoteVars PROVE QuoteInv'
    OBVIOUS
<1> USE QuoteAssumption, QuoteNumbers DEF QuoteInv
<1>1. CASE Tick
    BY <1>1 DEF Tick, Caches, QuoteTypeOK, CachesSound, KeptOfThePast, PricesAreRecent,
                Times, Entries
<1>2. ASSUME NEW h \in QuoteHandlers, NEW op \in {"price", "list"}, Request(h, op)
      PROVE  QuoteInv'
    BY <1>2 DEF Request, Caches, QuoteTypeOK, CachesSound, KeptOfThePast, PricesAreRecent,
                NoEntry
<1>3. ASSUME NEW h \in QuoteHandlers, GetActivePresalePrice(h) PROVE QuoteInv'
    BY <1>3 DEF GetActivePresalePrice, Go, Refuse, Caches, QuoteTypeOK, CachesSound,
                KeptOfThePast, PricesAreRecent, IdleQuote
<1>4. ASSUME NEW h \in QuoteHandlers, GetFreshAssetQuote(h) PROVE QuoteInv'
    <2>1. quoting[h] # IdleQuote /\ quoting[h].op = "price"
        BY <1>4 DEF GetFreshAssetQuote, IdleQuote
    <2>2. CASE Fresh(quoteCache)
        BY <1>4, <2>1, <2>2, QuoteGiven
           DEF GetFreshAssetQuote, QuoteHit, Fresh, QuoteTypeOK, CachesSound, KeptOfThePast
    <2>3. CASE ~Fresh(quoteCache) /\ Fresh(spotPriceCache)
        BY <1>4, <2>1, <2>3, QuoteGiven
           DEF GetFreshAssetQuote, Entry, Fresh, QuoteTypeOK, CachesSound, KeptOfThePast
    <2>4. CASE ~Fresh(quoteCache) /\ ~Fresh(spotPriceCache)
        BY <1>4, <2>1, <2>4
           DEF GetFreshAssetQuote, QuoteTypeOK, CachesSound, KeptOfThePast, PricesAreRecent
    <2>5. QED
        BY <2>2, <2>3, <2>4
<1>5. ASSUME NEW h \in QuoteHandlers, SpotPriceFetched(h) PROVE QuoteInv'
    BY <1>5, QuoteGiven
       DEF SpotPriceFetched, Entry, QuoteTypeOK, CachesSound, KeptOfThePast, IdleQuote
<1>6. ASSUME NEW h \in QuoteHandlers, SpotPriceUnavailable(h) PROVE QuoteInv'
    BY <1>6, QuoteGiven
       DEF SpotPriceUnavailable, Refuse, Caches, QuoteTypeOK, CachesSound, KeptOfThePast,
           PricesAreRecent, IdleQuote
<1>7. ASSUME NEW h \in QuoteHandlers, GetCryptoQuoteCurrencies(h) PROVE QuoteInv'
    BY <1>7 DEF GetCryptoQuoteCurrencies, Go, Caches, QuoteTypeOK, CachesSound,
                KeptOfThePast, PricesAreRecent, IdleQuote
<1>8. ASSUME NEW h \in QuoteHandlers, QuoteCurrenciesFetched(h) PROVE QuoteInv'
    BY <1>8 DEF QuoteCurrenciesFetched, Go, QuoteTypeOK, CachesSound, KeptOfThePast,
                PricesAreRecent, IdleQuote
<1>9. ASSUME NEW h \in QuoteHandlers, GetCryptoMarkets(h) PROVE QuoteInv'
    BY <1>9, QuoteGiven
       DEF GetCryptoMarkets, Fresh, Refuse, Caches, QuoteTypeOK, CachesSound,
           KeptOfThePast, PricesAreRecent, IdleQuote
<1>10. ASSUME NEW h \in QuoteHandlers, MarketsFetched(h) PROVE QuoteInv'
    BY <1>10, QuoteGiven
       DEF MarketsFetched, Entry, QuoteTypeOK, CachesSound, KeptOfThePast, IdleQuote
<1>11. ASSUME NEW h \in QuoteHandlers, MarketsUnavailable(h) PROVE QuoteInv'
    BY <1>11, QuoteGiven
       DEF MarketsUnavailable, Refuse, Caches, QuoteTypeOK, CachesSound, KeptOfThePast,
           PricesAreRecent, IdleQuote
<1>12. CASE UNCHANGED quoteVars
    BY <1>12 DEF quoteVars, QuoteTypeOK, CachesSound, KeptOfThePast, PricesAreRecent
<1>13. QED
    BY <1>1, <1>2, <1>3, <1>4, <1>5, <1>6, <1>7, <1>8, <1>9, <1>10, <1>11, <1>12
       DEF QuoteNext

(* No price older than both lifetimes, whatever the order of the requests. *)
THEOREM PricesAreRecentHolds == QuoteSpec => []PricesAreRecent
<1>1. QuoteInit => QuoteInv
    BY QuoteInitHolds
<1>2. QuoteInv /\ [QuoteNext]_quoteVars => QuoteInv'
    BY QuoteStep
<1>3. QuoteInv => PricesAreRecent
    BY DEF QuoteInv
<1>4. QED
    BY <1>1, <1>2, <1>3, PTL DEF QuoteSpec

-----------------------------------------------------------------------------
(* The allocation of Bitcoin addresses: its inductive invariant.           *)

(* A call that looks for an index, or has found one, holds the lock.       *)
LockHeld ==
    \A h \in BtcHandlers : btcReq[h].pc \in {"locked", "derived"} => btcLock = h

(* The index a call has derived is the one after all that are given out.   *)
DerivedIsNext ==
    \A h \in BtcHandlers : btcReq[h].pc = "derived" => btcReq[h].index \in NextIndexes

(* A row has an index exactly when it exists.                              *)
RowsIndexed ==
    \A b \in BtcIds : btcRows[b].state = "ABSENT" <=> btcRows[b].index = Unindexed

(* The indexes given out have no gap.                                      *)
NoGap == \A n \in GivenOut : \A m \in 0 .. n - 1 : m \in GivenOut

AllocInv ==
    /\ BtcTypeOK
    /\ LockHeld
    /\ DerivedIsNext
    /\ RowsIndexed
    /\ NoGap

(* A step that commits no checkout gives no index out.                     *)
LEMMA SameIndexes ==
    ASSUME \A b \in BtcIds : btcRows'[b].index = btcRows[b].index
    PROVE  /\ GivenOut' = GivenOut
           /\ NextIndexes' = NextIndexes
<1>1. {btcRows'[b].index : b \in BtcIds} = {btcRows[b].index : b \in BtcIds}
    OBVIOUS
<1>2. GivenOut' = GivenOut
    BY <1>1 DEF GivenOut
<1>3. QED
    BY <1>2 DEF NextIndexes

LEMMA GivenOutNat ==
    ASSUME BtcTypeOK
    PROVE  GivenOut \subseteq Nat
BY DEF GivenOut, BtcTypeOK, BtcRowType, Unindexed

(* The next index is fresh, and all smaller ones are given out.            *)
LEMMA NextIsFresh ==
    ASSUME BtcTypeOK, NoGap, NEW n \in NextIndexes
    PROVE  /\ n \in Nat
           /\ n \notin GivenOut
           /\ \A m \in 0 .. n - 1 : m \in GivenOut
<1>1. GivenOut \subseteq Nat
    BY GivenOutNat
<1>2. n \in Nat /\ n \notin GivenOut
    BY <1>1 DEF NextIndexes
<1>3. CASE n = 0
    BY <1>2, <1>3
<1>4. CASE n # 0
    <2>1. PICK k \in GivenOut : n = k + 1
        BY <1>4 DEF NextIndexes
    <2>2. k \in Nat
        BY <1>1
    <2>3. ASSUME NEW m \in 0 .. n - 1
          PROVE  m \in GivenOut
        <3>1. m = k \/ m \in 0 .. k - 1
            BY <2>1, <2>2
        <3>2. QED
            BY <2>1, <3>1 DEF NoGap
    <2>4. QED
        BY <1>2, <2>3
<1>5. QED
    BY <1>3, <1>4

(* What the insert does to the indexes given out.                          *)
LEMMA CommitAdds ==
    ASSUME BtcTypeOK, NEW h \in BtcHandlers, NEW b \in BtcIds,
           CommitBtcIntent(h, b), RowsIndexed,
           btcReq[h].index \in Nat
    PROVE  GivenOut' = GivenOut \cup {btcReq[h].index}
<1> DEFINE n == btcReq[h].index
<1>1. btcRows[b].index = Unindexed
    BY DEF CommitBtcIntent, RowsIndexed
<1>2. \A c \in BtcIds : btcRows'[c].index = IF c = b THEN n ELSE btcRows[c].index
    BY DEF CommitBtcIntent, BtcTypeOK
<1>3. n # Unindexed
    BY DEF Unindexed
<1>4. ASSUME NEW i PROVE i \in GivenOut' <=> i \in GivenOut \cup {n}
    <2>1. CASE i = n
        BY <1>2, <1>3, <2>1 DEF GivenOut
    <2>2. CASE i # n
        BY <1>1, <1>2, <2>2 DEF GivenOut
    <2>3. QED
        BY <2>1, <2>2
<1>5. QED
    BY <1>4

(* An empty table and idle calls satisfy the invariant.                    *)
LEMMA AllocInit == BtcInit => AllocInv
<1> SUFFICES ASSUME BtcInit PROVE AllocInv
    OBVIOUS
<1>1. BtcTypeOK
    BY DEF BtcInit, BtcTypeOK, BtcRowType, BtcReqType, NoBtcRow, IdleBtcReq
<1>2. LockHeld /\ DerivedIsNext
    BY DEF BtcInit, LockHeld, DerivedIsNext, IdleBtcReq
<1>3. RowsIndexed
    BY DEF BtcInit, RowsIndexed, NoBtcRow
<1>4. GivenOut = {}
    BY DEF BtcInit, GivenOut, NoBtcRow
<1>5. NoGap
    BY <1>4 DEF NoGap
<1>6. QED
    BY <1>1, <1>2, <1>3, <1>5 DEF AllocInv

LEMMA TypesKept == AllocInv /\ [BtcNext]_btcVars => BtcTypeOK'
<1> SUFFICES ASSUME AllocInv, [BtcNext]_btcVars PROVE BtcTypeOK'
    OBVIOUS
<1> USE DEF AllocInv, BtcTypeOK, BtcRowType, BtcReqType, IdleBtcReq
<1>1. ASSUME NEW h \in BtcHandlers, NEW keys \in SUBSET PayerKeys,
             CountOpenBtc(h, keys)
      PROVE  BtcTypeOK'
    BY <1>1 DEF CountOpenBtc
<1>2. ASSUME NEW h \in BtcHandlers, LockDerivation(h) PROVE BtcTypeOK'
    BY <1>2 DEF LockDerivation
<1>3. ASSUME NEW h \in BtcHandlers, DeriveAddress(h) PROVE BtcTypeOK'
    <2>1. NextIndexes \subseteq Nat
        BY NextIsFresh
    <2>2. QED
        BY <1>3, <2>1 DEF DeriveAddress
<1>4. ASSUME NEW h \in BtcHandlers, NEW b \in BtcIds, CommitBtcIntent(h, b)
      PROVE  BtcTypeOK'
    BY <1>4 DEF CommitBtcIntent
<1>5. ASSUME NEW h \in BtcHandlers, RollBackBtcIntent(h) PROVE BtcTypeOK'
    BY <1>5 DEF RollBackBtcIntent
<1>6. ASSUME NEW b \in BtcIds, CloseBtcIntent(b) PROVE BtcTypeOK'
    BY <1>6 DEF CloseBtcIntent
<1>7. CASE UNCHANGED btcVars
    BY <1>7 DEF btcVars
<1>8. QED
    BY <1>1, <1>2, <1>3, <1>4, <1>5, <1>6, <1>7 DEF BtcNext

(* Every step keeps the invariant: only the holder of the lock derives and *)
(* commits, so nobody changes the maximum between the two.                 *)
THEOREM AllocStep == AllocInv /\ [BtcNext]_btcVars => AllocInv'
<1> SUFFICES ASSUME AllocInv, [BtcNext]_btcVars PROVE AllocInv'
    OBVIOUS
<1>0. BtcTypeOK'
    BY TypesKept
<1> USE DEF AllocInv
<1>1. ASSUME NEW h \in BtcHandlers, NEW keys \in SUBSET PayerKeys,
             CountOpenBtc(h, keys)
      PROVE  AllocInv'
    <2>1. GivenOut' = GivenOut /\ NextIndexes' = NextIndexes
        BY <1>1, SameIndexes DEF CountOpenBtc
    <2>2. LockHeld' /\ DerivedIsNext'
        BY <1>1, <2>1 DEF CountOpenBtc, LockHeld, DerivedIsNext, BtcTypeOK
    <2>3. RowsIndexed' /\ NoGap'
        BY <1>1, <2>1 DEF CountOpenBtc, RowsIndexed, NoGap
    <2>4. QED
        BY <1>0, <2>2, <2>3
<1>2. ASSUME NEW h \in BtcHandlers, LockDerivation(h) PROVE AllocInv'
    <2>1. GivenOut' = GivenOut /\ NextIndexes' = NextIndexes
        BY <1>2, SameIndexes DEF LockDerivation
    <2>2. \A g \in BtcHandlers : btcReq[g].pc \notin {"locked", "derived"}
        BY <1>2, BtcAssumption DEF LockDerivation, LockHeld
    <2>3. LockHeld' /\ DerivedIsNext'
        BY <1>2, <2>1, <2>2 DEF LockDerivation, LockHeld, DerivedIsNext, BtcTypeOK
    <2>4. RowsIndexed' /\ NoGap'
        BY <1>2, <2>1 DEF LockDerivation, RowsIndexed, NoGap
    <2>5. QED
        BY <1>0, <2>3, <2>4
<1>3. ASSUME NEW h \in BtcHandlers, DeriveAddress(h) PROVE AllocInv'
    <2>1. GivenOut' = GivenOut /\ NextIndexes' = NextIndexes
        BY <1>3, SameIndexes DEF DeriveAddress
    <2>2. LockHeld'
        BY <1>3 DEF DeriveAddress, LockHeld, BtcTypeOK
    <2>3. DerivedIsNext'
        BY <1>3, <2>1 DEF DeriveAddress, DerivedIsNext, BtcTypeOK, BtcReqType
    <2>4. RowsIndexed' /\ NoGap'
        BY <1>3, <2>1 DEF DeriveAddress, RowsIndexed, NoGap
    <2>5. QED
        BY <1>0, <2>2, <2>3, <2>4
<1>4. ASSUME NEW h \in BtcHandlers, NEW b \in BtcIds, CommitBtcIntent(h, b)
      PROVE  AllocInv'
    <2> DEFINE n == btcReq[h].index
    <2>1. /\ n \in Nat
          /\ \A m \in 0 .. n - 1 : m \in GivenOut
        BY <1>4, NextIsFresh DEF CommitBtcIntent, DerivedIsNext
    <2>2. GivenOut' = GivenOut \cup {n}
        BY <1>4, <2>1, CommitAdds
    <2>3. \A g \in BtcHandlers : btcReq'[g].pc \notin {"locked", "derived"}
        BY <1>4 DEF CommitBtcIntent, LockHeld, BtcTypeOK, IdleBtcReq
    <2>4. LockHeld' /\ DerivedIsNext'
        BY <2>3 DEF LockHeld, DerivedIsNext
    <2>5. RowsIndexed'
        BY <1>4, <2>1 DEF CommitBtcIntent, RowsIndexed, BtcTypeOK, Unindexed
    <2>6. NoGap'
        BY <2>1, <2>2 DEF NoGap
    <2>7. QED
        BY <1>0, <2>4, <2>5, <2>6
<1>5. ASSUME NEW h \in BtcHandlers, RollBackBtcIntent(h) PROVE AllocInv'
    <2>1. GivenOut' = GivenOut /\ NextIndexes' = NextIndexes
        BY <1>5, SameIndexes DEF RollBackBtcIntent
    <2>2. LockHeld' /\ DerivedIsNext'
        BY <1>5, <2>1 DEF RollBackBtcIntent, LockHeld, DerivedIsNext, BtcTypeOK,
                          IdleBtcReq
    <2>3. RowsIndexed' /\ NoGap'
        BY <1>5, <2>1 DEF RollBackBtcIntent, RowsIndexed, NoGap
    <2>4. QED
        BY <1>0, <2>2, <2>3
<1>6. ASSUME NEW b \in BtcIds, CloseBtcIntent(b) PROVE AllocInv'
    <2>0. \A c \in BtcIds : btcRows'[c].index = btcRows[c].index
        BY <1>6 DEF CloseBtcIntent, BtcTypeOK
    <2>1. GivenOut' = GivenOut /\ NextIndexes' = NextIndexes
        BY <2>0, SameIndexes
    <2>2. LockHeld' /\ DerivedIsNext'
        BY <1>6, <2>1 DEF CloseBtcIntent, LockHeld, DerivedIsNext
    <2>3. RowsIndexed'
        BY <1>6, <2>0 DEF CloseBtcIntent, RowsIndexed, BtcTypeOK
    <2>4. NoGap'
        BY <2>1 DEF NoGap
    <2>5. QED
        BY <1>0, <2>2, <2>3, <2>4
<1>7. CASE UNCHANGED btcVars
    <2>1. GivenOut' = GivenOut /\ NextIndexes' = NextIndexes
        BY <1>7, SameIndexes DEF btcVars
    <2>2. LockHeld' /\ DerivedIsNext'
        BY <1>7, <2>1 DEF btcVars, LockHeld, DerivedIsNext
    <2>3. RowsIndexed' /\ NoGap'
        BY <1>7, <2>1 DEF btcVars, RowsIndexed, NoGap
    <2>4. QED
        BY <1>0, <2>2, <2>3
<1>8. QED
    BY <1>1, <1>2, <1>3, <1>4, <1>5, <1>6, <1>7 DEF BtcNext

(* The invariant holds in every reachable state, and with it the types.    *)
THEOREM AllocInvariant == BtcSpec => []AllocInv
<1>1. BtcInit => AllocInv
    BY AllocInit
<1>2. AllocInv /\ [BtcNext]_btcVars => AllocInv'
    BY AllocStep
<1>3. QED
    BY <1>1, <1>2, PTL DEF BtcSpec

(* A derived address is free until its checkout is inserted.               *)
THEOREM DerivedIndexIsFreeHolds == BtcSpec => []DerivedIndexIsFree
<1>1. AllocInv => DerivedIndexIsFree
    <2> SUFFICES ASSUME AllocInv, NEW h \in BtcHandlers, btcReq[h].pc = "derived"
                 PROVE  /\ btcReq[h].index \notin GivenOut
                        /\ \A g \in BtcHandlers \ {h} : btcReq[g].pc # "derived"
        BY DEF DerivedIndexIsFree
    <2>1. btcReq[h].index \notin GivenOut
        BY NextIsFresh DEF AllocInv, DerivedIsNext
    <2>2. \A g \in BtcHandlers \ {h} : btcReq[g].pc # "derived"
        BY DEF AllocInv, LockHeld
    <2>3. QED
        BY <2>1, <2>2
<1>2. QED
    BY <1>1, AllocInvariant, PTL

-----------------------------------------------------------------------------
(* The limit.  A call in flight for k may add one open checkout, and when  *)
(* it was counted fewer than BtcLimit were open.                           *)

InFlight(k) ==
    {h \in BtcHandlers : btcReq[h].pc # "idle" /\ k \in btcReq[h].keys}

BoundKept(k) ==
    /\ IsFiniteSet(OpenOf(k))
    /\ Cardinality(OpenOf(k)) + Cardinality(InFlight(k))
           <= BtcLimit - 1 + Cardinality(BtcHandlers)

BoundInv == BtcTypeOK /\ \A k \in PayerKeys : BoundKept(k)

LEMMA InFlightFinite ==
    ASSUME NEW k
    PROVE  /\ IsFiniteSet(InFlight(k))
           /\ Cardinality(InFlight(k)) \in Nat
           /\ Cardinality(BtcHandlers) \in Nat
           /\ Cardinality(InFlight(k)) <= Cardinality(BtcHandlers)
BY FS_Subset, FS_CardinalityType, BtcAssumption DEF InFlight

(* Fewer in flight and no more open: the bound is kept.                    *)
LEMMA BoundShrinks ==
    ASSUME NEW k, BoundKept(k),
           OpenOf(k)' \subseteq OpenOf(k),
           InFlight(k)' \subseteq InFlight(k)
    PROVE  BoundKept(k)'
<1>1. /\ IsFiniteSet(InFlight(k))
      /\ Cardinality(BtcHandlers) \in Nat
    BY InFlightFinite
<1>2. /\ IsFiniteSet(OpenOf(k)')
      /\ Cardinality(OpenOf(k)') <= Cardinality(OpenOf(k))
      /\ Cardinality(OpenOf(k)') \in Nat
      /\ Cardinality(OpenOf(k)) \in Nat
    BY FS_Subset, FS_CardinalityType DEF BoundKept
<1>3. /\ Cardinality(InFlight(k)') <= Cardinality(InFlight(k))
      /\ Cardinality(InFlight(k)') \in Nat
      /\ Cardinality(InFlight(k)) \in Nat
    BY <1>1, FS_Subset, FS_CardinalityType
<1>4. QED
    BY <1>1, <1>2, <1>3, BtcAssumption DEF BoundKept

(* The count itself: whatever else is in flight, the limit is not reached. *)
LEMMA BoundCounted ==
    ASSUME NEW k, BoundKept(k), OpenOf(k)' = OpenOf(k),
           Cardinality(OpenOf(k)) < BtcLimit
    PROVE  BoundKept(k)'
<1> DEFINE F == InFlight(k)'
<1>1. F \subseteq BtcHandlers
    BY DEF InFlight
<1>2. /\ Cardinality(F) \in Nat
      /\ Cardinality(BtcHandlers) \in Nat
      /\ Cardinality(F) <= Cardinality(BtcHandlers)
    BY <1>1, FS_Subset, FS_CardinalityType, BtcAssumption
<1>3. Cardinality(OpenOf(k)) \in Nat
    BY FS_CardinalityType DEF BoundKept
<1>4. Cardinality(OpenOf(k)) + Cardinality(F) <= BtcLimit - 1 + Cardinality(BtcHandlers)
    BY <1>2, <1>3, BtcAssumption
<1>5. QED
    BY <1>4 DEF BoundKept

(* The insert turns one call in flight into one open checkout.             *)
LEMMA BoundCommit ==
    ASSUME BtcTypeOK, NEW h \in BtcHandlers, NEW b \in BtcIds,
           CommitBtcIntent(h, b), NEW k, BoundKept(k)
    PROVE  BoundKept(k)'
<1>1. CASE k \notin btcReq[h].keys
    <2>1. OpenOf(k)' \subseteq OpenOf(k)
        BY <1>1 DEF CommitBtcIntent, OpenOf, BtcTypeOK
    <2>2. InFlight(k)' \subseteq InFlight(k)
        BY DEF CommitBtcIntent, InFlight, IdleBtcReq, BtcTypeOK
    <2>3. QED
        BY <2>1, <2>2, BoundShrinks
<1>2. CASE k \in btcReq[h].keys
    <2>1. OpenOf(k)' = OpenOf(k) \cup {b} /\ b \notin OpenOf(k)
        BY <1>2 DEF CommitBtcIntent, OpenOf, BtcTypeOK
    <2>2. InFlight(k)' = InFlight(k) \ {h} /\ h \in InFlight(k)
        BY <1>2 DEF CommitBtcIntent, InFlight, IdleBtcReq, BtcTypeOK
    <2>3. /\ IsFiniteSet(OpenOf(k)')
          /\ Cardinality(OpenOf(k)') = Cardinality(OpenOf(k)) + 1
          /\ Cardinality(OpenOf(k)) \in Nat
        BY <2>1, FS_AddElement, FS_CardinalityType DEF BoundKept
    <2>4. /\ Cardinality(InFlight(k)') = Cardinality(InFlight(k)) - 1
          /\ Cardinality(InFlight(k)) \in Nat
          /\ Cardinality(BtcHandlers) \in Nat
        BY <2>2, InFlightFinite, FS_RemoveElement
    <2>5. QED
        BY <2>3, <2>4, BtcAssumption DEF BoundKept
<1>3. QED
    BY <1>1, <1>2

(* They satisfy the bound as well.                                         *)
LEMMA BoundInit == BtcInit => BoundInv
<1> SUFFICES ASSUME BtcInit, NEW k \in PayerKeys PROVE BoundKept(k)
    BY AllocInit DEF BoundInv, AllocInv
<1>1. OpenOf(k) = {} /\ InFlight(k) = {}
    BY DEF BtcInit, OpenOf, InFlight, NoBtcRow, IdleBtcReq
<1>2. IsFiniteSet({}) /\ Cardinality({}) = 0
    BY FS_EmptySet
<1>3. Cardinality(BtcHandlers) \in Nat
    BY FS_CardinalityType, BtcAssumption
<1>4. QED
    BY <1>1, <1>2, <1>3, BtcAssumption DEF BoundKept

(* No statement of a call breaks the bound.                                *)
LEMMA BoundStep == AllocInv /\ BoundInv /\ [BtcNext]_btcVars => BoundInv'
<1> SUFFICES ASSUME AllocInv, BoundInv, [BtcNext]_btcVars,
                    NEW k \in PayerKeys
             PROVE  BoundKept(k)'
    BY TypesKept DEF BoundInv
<1>0. BtcTypeOK /\ BoundKept(k)
    BY DEF BoundInv
<1>1. ASSUME NEW h \in BtcHandlers, NEW keys \in SUBSET PayerKeys,
             CountOpenBtc(h, keys)
      PROVE  BoundKept(k)'
    <2>1. OpenOf(k)' = OpenOf(k)
        BY <1>1 DEF CountOpenBtc, OpenOf
    <2>2. CASE k \in keys
        BY <1>0, <1>1, <2>1, <2>2, BoundCounted DEF CountOpenBtc
    <2>3. CASE k \notin keys
        <3>1. InFlight(k)' \subseteq InFlight(k)
            BY <1>0, <1>1, <2>3 DEF CountOpenBtc, InFlight, BtcTypeOK
        <3>2. QED
            BY <1>0, <2>1, <3>1, BoundShrinks
    <2>4. QED
        BY <2>2, <2>3
<1>2. ASSUME NEW h \in BtcHandlers, LockDerivation(h) PROVE BoundKept(k)'
    <2>1. OpenOf(k)' \subseteq OpenOf(k) /\ InFlight(k)' \subseteq InFlight(k)
        BY <1>0, <1>2 DEF LockDerivation, OpenOf, InFlight, BtcTypeOK
    <2>2. QED
        BY <1>0, <2>1, BoundShrinks
<1>3. ASSUME NEW h \in BtcHandlers, DeriveAddress(h) PROVE BoundKept(k)'
    <2>1. OpenOf(k)' \subseteq OpenOf(k) /\ InFlight(k)' \subseteq InFlight(k)
        BY <1>0, <1>3 DEF DeriveAddress, OpenOf, InFlight, BtcTypeOK, BtcReqType
    <2>2. QED
        BY <1>0, <2>1, BoundShrinks
<1>4. ASSUME NEW h \in BtcHandlers, NEW b \in BtcIds, CommitBtcIntent(h, b)
      PROVE  BoundKept(k)'
    BY <1>0, <1>4, BoundCommit
<1>5. ASSUME NEW h \in BtcHandlers, RollBackBtcIntent(h) PROVE BoundKept(k)'
    <2>1. OpenOf(k)' \subseteq OpenOf(k) /\ InFlight(k)' \subseteq InFlight(k)
        BY <1>0, <1>5 DEF RollBackBtcIntent, OpenOf, InFlight, BtcTypeOK, IdleBtcReq
    <2>2. QED
        BY <1>0, <2>1, BoundShrinks
<1>6. ASSUME NEW b \in BtcIds, CloseBtcIntent(b) PROVE BoundKept(k)'
    <2>1. OpenOf(k)' \subseteq OpenOf(k) /\ InFlight(k)' \subseteq InFlight(k)
        BY <1>0, <1>6 DEF CloseBtcIntent, OpenOf, InFlight, BtcTypeOK
    <2>2. QED
        BY <1>0, <2>1, BoundShrinks
<1>7. CASE UNCHANGED btcVars
    <2>1. OpenOf(k)' \subseteq OpenOf(k) /\ InFlight(k)' \subseteq InFlight(k)
        BY <1>7 DEF btcVars, OpenOf, InFlight
    <2>2. QED
        BY <1>0, <2>1, BoundShrinks
<1>8. QED
    BY <1>1, <1>2, <1>3, <1>4, <1>5, <1>6, <1>7 DEF BtcNext

(* No payer ever has more open Bitcoin checkouts than the limit and the    *)
(* other calls in flight allow.                                            *)
THEOREM OpenBtcBoundedHolds == BtcSpec => []OpenBtcBounded
<1>1. BoundInv => OpenBtcBounded
    <2> SUFFICES ASSUME BoundInv, NEW k \in PayerKeys
                 PROVE  Cardinality(OpenOf(k)) <= BtcLimit - 1 + Cardinality(BtcHandlers)
        BY DEF OpenBtcBounded
    <2>1. Cardinality(OpenOf(k)) \in Nat
        BY FS_CardinalityType DEF BoundInv, BoundKept
    <2>2. Cardinality(InFlight(k)) \in Nat /\ Cardinality(BtcHandlers) \in Nat
        BY InFlightFinite
    <2>3. QED
        BY <2>1, <2>2, BtcAssumption DEF BoundInv, BoundKept
<1>2. BtcInit => BoundInv
    BY BoundInit
<1>3. AllocInv /\ BoundInv /\ [BtcNext]_btcVars => BoundInv'
    BY BoundStep
<1>4. QED
    BY <1>1, <1>2, <1>3, AllocInvariant, PTL DEF BtcSpec

-----------------------------------------------------------------------------
(* The refinement.                                                         *)

LEMMA SameIssued == Allocator!IssuedIndexes = GivenOut
<1>1. {[b \in BtcIds |-> btcRows[b].index][o] : o \in BtcIds}
          = {btcRows[b].index : b \in BtcIds}
    OBVIOUS
<1>2. QED
    BY <1>1 DEF Allocator!IssuedIndexes, GivenOut, Allocator!NotIssued, Unindexed

(* Every step of createIntent issues the smallest unissued index or leaves *)
(* the indexes alone.                                                      *)
THEOREM AllocatorStep ==
    AllocInv /\ [BtcNext]_btcVars =>
        [Allocator!AllocatorNext]_([b \in BtcIds |-> btcRows[b].index])
<1> DEFINE f == [b \in BtcIds |-> btcRows[b].index]
<1> SUFFICES ASSUME AllocInv, [BtcNext]_btcVars
             PROVE  (\E b \in BtcIds : Allocator!Issue(b)) \/ f' = f
    BY DEF Allocator!AllocatorNext
<1> USE DEF AllocInv
<1>1. ASSUME NEW h \in BtcHandlers, NEW b \in BtcIds, CommitBtcIntent(h, b)
      PROVE  Allocator!Issue(b)
    <2> DEFINE n == btcReq[h].index
    <2>1. n \in NextIndexes
        BY <1>1 DEF CommitBtcIntent, DerivedIsNext
    <2>2. /\ n \in {0} \cup {m + 1 : m \in GivenOut}
          /\ n \notin GivenOut
          /\ \A m \in 0 .. n - 1 : m \in GivenOut
        BY <2>1, NextIsFresh DEF NextIndexes
    <2>3. f[b] = -1
        BY <1>1 DEF CommitBtcIntent, RowsIndexed, Unindexed
    <2>4. f' = [f EXCEPT ![b] = n]
        BY <1>1 DEF CommitBtcIntent, BtcTypeOK
    <2>5. Allocator!SmallestUnissued(n)
        BY <2>2, SameIssued DEF Allocator!SmallestUnissued
    <2>6. QED
        BY <2>2, <2>3, <2>4, <2>5, SameIssued DEF Allocator!Issue, Allocator!NotIssued
<1>2. ASSUME NEW b \in BtcIds, CloseBtcIntent(b) PROVE f' = f
    BY <1>2 DEF CloseBtcIntent, BtcTypeOK
<1>3. ASSUME UNCHANGED btcRows PROVE f' = f
    BY <1>3
<1>4. QED
    BY <1>1, <1>2, <1>3
       DEF BtcNext, btcVars, CountOpenBtc, LockDerivation, DeriveAddress,
           RollBackBtcIntent

(* createIntent implements the allocator.                                  *)
THEOREM AllocatesInOrderHolds == BtcSpec => AllocatesInOrder
<1>1. BtcInit => Allocator!AllocatorInit
    BY DEF BtcInit, NoBtcRow, Allocator!AllocatorInit, Allocator!NotIssued, Unindexed
<1>2. QED
    BY <1>1, AllocatorStep, AllocInvariant, PTL
       DEF BtcSpec, AllocatesInOrder, Allocator!AllocatorSpec
=============================================================================
