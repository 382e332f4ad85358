---------------------------- MODULE PgGCProofs ----------------------------
(***************************************************************************)
(* Garbage collection beside the Postgres datastore's writers: what it     *)
(* spares, for every value of the constants.                               *)
(***************************************************************************)
EXTENDS PgDatastoreProofs, PgGC

\* A snapshot that shows what has settled covers every transaction known.
LEMMA SettledCovers ==
    ASSUME Inv, RunsInv, NEW t \in KnownTxs
    PROVE  Covers(CurrentSnapshot, t) /\ Covers(NoSnapshot, t)
<1>1. /\ \A x \in Nat : txVisible(CurrentSnapshot, x) <=> x \in settled
      /\ Xids \subseteq Nat
  BY CurrentSnapshotIsSettled, PgAssumption DEF Inv, Xids
<1>2. t \in TxRow /\ WellFormed(t.snapshot) /\ Visible(t.snapshot) \subseteq settled
  BY Zenon DEF RunsInv, ShowsSettled
<1>3. \A x \in Nat : txVisible(t.snapshot, x) => x \in settled
  BY <1>2, VisibleIsPointwise, Zenon
<1>4. t.xid \in Nat
  BY <1>1, <1>2, Zenon DEF TxRow
<1>5. ~txVisible(NoSnapshot, t.xid)
  BY <1>4 DEF NoSnapshot, txVisible
<1> QED BY <1>1, <1>3, <1>5, Zenon DEF Covers

\* The revision made from a transaction's row covers what its snapshot covers.
LEMMA RevisionCovers ==
    ASSUME NEW s, WellFormed(s), NEW x \in Nat, NEW t \in TxRow, Covers(s, t),
           t.xid = x => t.snapshot = s, PgAssumption
    PROVE  Covers(markComplete(s, x), t)
<1>1. \A y \in Nat : txVisible(markComplete(s, x), y) <=> (txVisible(s, y) \/ y = x)
  BY MarkCompleteAddsOne, Zenon
<1>2. t.xid \in Nat /\ Xids \subseteq Nat
  BY DEF TxRow, Xids
<1> QED BY <1>1, <1>2, Zenon DEF Covers

\* Steps of the datastore: what they add to the tokens, to the transactions' snapshots
\* and to the transaction table.
LEMMA GrowthOfTables ==
    ASSUME Inv, [DatastoreNext]_dsVars
    PROVE  \/ /\ UNCHANGED txTable
              /\ \E s \in {CurrentSnapshot} \cup {markComplete(t.snapshot, t.xid) : t \in txTable} :
                    tokens' \subseteq tokens \cup {s}
              /\ \A o \in Writers : snapshot'[o] \in {snapshot[o], NoSnapshot, CurrentSnapshot}
           \/ /\ txTable' = txTable \cup {[xid |-> nextXid, snapshot |-> CurrentSnapshot,
                                           ts |-> clock, commitTs |-> clock]}
              /\ nextXid \notin settled /\ nextXid \in settled' /\ nextXid \in Xids
              /\ UNCHANGED <<tokens, snapshot>>
           \/ \E w \in Writers :
                 /\ txTable' = txTable \cup {[xid |-> xid[w], snapshot |-> snapshot[w],
                                              ts |-> startTs[w], commitTs |-> clock]}
                 /\ xid[w] \notin settled /\ xid[w] \in settled'
                 /\ tokens' \subseteq tokens \cup {markComplete(snapshot[w], xid[w])}
                 /\ \A o \in Writers : snapshot'[o] \in {snapshot[o], NoSnapshot}
<1> USE PgAssumption
<1>1. /\ snapshot \in [Writers -> Snapshot] /\ nextXid \in Nat /\ latest \in Nat
      /\ \A x \in settled : x <= latest /\ x \in Nat
      /\ latest < nextXid
  BY DEF Inv, TypeOK, IdsInv, Xids
<1> DEFINE Reads == {CurrentSnapshot} \cup {markComplete(t.snapshot, t.xid) : t \in txTable}
           Quiet == /\ UNCHANGED txTable /\ \E s \in Reads : tokens' \subseteq tokens \cup {s}
                    /\ \A o \in Writers : snapshot'[o] \in {snapshot[o], NoSnapshot, CurrentSnapshot}
<1>2. ASSUME NEW w, NEW outcome, EndTx(w, outcome)
      PROVE  \A o \in Writers : snapshot'[o] \in {snapshot[o], NoSnapshot}
  BY <1>1, <1>2, Zenon DEF EndTx
<1>3. CASE HeadRevision \/ optimizedRevisionFunc
  <2>1. UNCHANGED txTable /\ UNCHANGED snapshot
    BY <1>3, Zenon DEF HeadRevision, optimizedRevisionFunc, pgVars, txVars
  <2>2. OptimizedCandidates \subseteq Reads
    BY Zenon DEF OptimizedCandidates, SelectedTxs
  <2>3. \E s \in Reads : tokens' \subseteq tokens \cup {s}
    <3> HIDE DEF Reads
    <3>1. CurrentSnapshot \in Reads
      BY Zenon DEF Reads
    <3> QED BY <1>3, <2>2, <3>1, Zenon DEF HeadRevision, optimizedRevisionFunc
  <2> HIDE DEF Reads
  <2>4. Quiet
    BY <2>1, <2>3, Zenon
  <2> QED BY <2>4, Zenon DEF Reads
<1>4. CASE Heartbeat
  <2>1. nextXid \notin settled /\ nextXid \in settled' /\ nextXid \in Xids
    BY <1>1, <1>4 DEF Heartbeat, Settle, Xids, Inv, TypeOK
  <2> QED BY <1>4, <2>1, Zenon DEF Heartbeat, txVars
<1>5. CASE Tick \/ UNCHANGED dsVars
  <2>1. UNCHANGED <<txTable, tokens, snapshot>>
    BY <1>5, Zenon DEF Tick, dsVars, pgVars, txVars
  <2>2. Quiet
    BY <2>1, Zenon
  <2> QED BY <2>2
<1>6. ASSUME NEW w \in Writers, CommitStep(w)
      PROVE  /\ txTable' = txTable \cup {[xid |-> xid[w], snapshot |-> snapshot[w],
                                          ts |-> startTs[w], commitTs |-> clock]}
             /\ xid[w] \notin settled /\ xid[w] \in settled'
             /\ tokens' \subseteq tokens \cup {markComplete(snapshot[w], xid[w])}
             /\ \A o \in Writers : snapshot'[o] \in {snapshot[o], NoSnapshot}
  <2>1. xid[w] \notin settled
    BY <1>6, Zenon DEF CommitStep, Inv, IdsInv, Open
  <2>2. \A o \in Writers : snapshot'[o] \in {snapshot[o], NoSnapshot}
    BY <1>2, <1>6, Zenon DEF CommitStep
  <2>3. tokens' \subseteq tokens \cup {markComplete(snapshot[w], xid[w])}
    BY <1>6, Zenon DEF CommitStep, NewRevision
  <2> QED BY <1>6, <2>1, <2>2, <2>3, Zenon DEF CommitStep, CommitRows, Settle
<1>7. ASSUME NEW w \in Writers, CallStep(w), ~CommitStep(w) PROVE Quiet
  <2>1. CASE TakeSnapshot(w)
    <3>1. UNCHANGED <<txTable, tokens>> /\ snapshot' = [snapshot EXCEPT ![w] = CurrentSnapshot]
      BY <2>1, Zenon DEF TakeSnapshot, pgVars
    <3> HIDE DEF Reads
    <3>2. CurrentSnapshot \in Reads
      BY Zenon DEF Reads
    <3> QED BY <1>1, <3>1, <3>2, Zenon
  <2>2. CASE RollbackStep(w) \/ EarlyError(w)
    <3>1. UNCHANGED <<txTable, tokens>>
      BY <2>2, Zenon DEF RollbackStep, Rollback, EarlyError, pgVars
    <3>2. \A o \in Writers : snapshot'[o] \in {snapshot[o], NoSnapshot}
      BY <1>2, <2>2, Zenon DEF RollbackStep, Rollback, EarlyError
    <3> HIDE DEF Reads
    <3>3. CurrentSnapshot \in Reads
      BY DEF Reads
    <3> QED BY <3>1, <3>2, <3>3, Zenon
  <2>3. CASE ~(TakeSnapshot(w) \/ RollbackStep(w) \/ EarlyError(w))
    <3>1. UNCHANGED <<txTable, tokens, snapshot>>
      BY <1>7, <2>3, Zenon DEF CallStep, BeginTx, AssignXid, GoodWrite, Write, assertSchemaHash, pgVars
    <3> HIDE DEF Reads
    <3>2. CurrentSnapshot \in Reads
      BY DEF Reads
    <3> QED BY <3>1, <3>2, Zenon
  <2> QED BY <2>1, <2>2, <2>3, Zenon
<1>8. CASE \E w \in Writers : WriterStep(w)
  <2>1. PICK w \in Writers : CallStep(w)
    BY <1>8, CallHasKind, Zenon
  <2>2. CASE CommitStep(w)
    BY <1>6, <2>2, Zenon
  <2>3. CASE ~CommitStep(w)
    BY <1>7, <2>1, <2>3, Zenon
  <2> QED BY <2>2, <2>3, Zenon
<1> QED BY <1>3, <1>4, <1>5, <1>8, Zenon DEF DatastoreNext

\* A step that adds only snapshots that cover the transactions known, and only a
\* transaction that nothing shows yet, keeps all snapshots covering all transactions.
LEMMA ClosedGrows ==
    ASSUME ClosedInv, NEW S, NEW N,
           KnownTxs' \subseteq KnownTxs \cup N,
           tokens' \subseteq tokens \cup S,
           \A w \in Writers : snapshot'[w] \in {snapshot[w]} \cup S,
           \A n \in N : n.snapshot \in Snapshots \cup S,
           \A s \in S, t \in KnownTxs \cup N : Covers(s, t),
           \A s \in Snapshots, n \in N : Covers(s, n),
           \A n, m \in N : n = m, \A n \in N, t \in KnownTxs : t.xid # n.xid
    PROVE  ClosedInv'
<1>1. Snapshots' \subseteq Snapshots \cup S
  BY Zenon DEF Snapshots
<1>2. \A s \in Snapshots', t \in KnownTxs' : Covers(s, t)
  BY <1>1, Zenon DEF ClosedInv
<1>3. \A t, u \in KnownTxs' : t.xid = u.xid => t.snapshot = u.snapshot
  BY Zenon DEF ClosedInv
<1> QED BY <1>2, <1>3, Zenon DEF ClosedInv, Covers, Xids

\* Commits, new snapshots and new revisions keep the snapshots closed.
LEMMA ClosedStep ==
    ASSUME Inv, RunsInv, ClosedInv, [DatastoreNext]_dsVars, UNCHANGED <<gpc, watermark>>
    PROVE  ClosedInv'
<1> USE PgAssumption
<1>1. /\ \A t \in KnownTxs : /\ t \in TxRow /\ WellFormed(t.snapshot) /\ t.xid \in Nat
                             /\ t.xid \in settled
      /\ txTable \subseteq KnownTxs /\ Xids \subseteq Nat
      /\ \A t \in KnownTxs : t.snapshot \in Snapshots
      /\ \A w \in Writers : snapshot[w] \in Snapshots
  BY DEF RunsInv, ShowsSettled, TxRow, Xids, KnownTxs, Snapshots
<1>2. \A s \in Snapshots : WellFormed(s) /\ \A x \in Nat : txVisible(s, x) => x \in settled
  <2>1. \A s \in Snapshots : ShowsSettled(s)
    BY Zenon DEF Inv, ShownInv, RunsInv, Snapshots
  <2> QED BY <2>1, VisibleIsPointwise, Zenon DEF ShowsSettled
<1>3. \A s \in Snapshots, t \in KnownTxs : Covers(s, t)
  BY Zenon DEF ClosedInv
<1>4. \A t \in KnownTxs : Covers(CurrentSnapshot, t) /\ Covers(NoSnapshot, t)
  BY SettledCovers, Zenon
<1>5. /\ \A x \in Nat : txVisible(CurrentSnapshot, x) => x \in settled
      /\ \A x \in Nat : ~txVisible(NoSnapshot, x)
      /\ WellFormed(CurrentSnapshot)
  BY CurrentSnapshotIsSettled DEF Inv, NoSnapshot, txVisible
<1>6. KnownTxs' \subseteq KnownTxs \cup (txTable' \ txTable)
  BY Zenon DEF KnownTxs
\* A transaction that is new is shown by no snapshot there was.
<1>7. ASSUME NEW n, n.xid \in Nat, n.xid \notin settled
      PROVE  /\ \A s \in Snapshots \cup {CurrentSnapshot, NoSnapshot} : Covers(s, n)
             /\ \A t \in KnownTxs : t.xid # n.xid
  BY <1>1, <1>2, <1>5, <1>7, Zenon DEF Covers
<1>8. CASE /\ UNCHANGED txTable
           /\ \E s \in {CurrentSnapshot} \cup {markComplete(t.snapshot, t.xid) : t \in txTable} :
                 tokens' \subseteq tokens \cup {s}
           /\ \A o \in Writers : snapshot'[o] \in {snapshot[o], NoSnapshot, CurrentSnapshot}
  <2>1. PICK s \in {CurrentSnapshot} \cup {markComplete(t.snapshot, t.xid) : t \in txTable} :
               tokens' \subseteq tokens \cup {s}
    BY <1>8, Zenon
  <2>2. \A t \in KnownTxs : Covers(s, t)
    <3>1. CASE s = CurrentSnapshot
      BY <1>4, <3>1, Zenon
    <3>2. ASSUME NEW u \in txTable, s = markComplete(u.snapshot, u.xid), NEW t \in KnownTxs
          PROVE  Covers(s, t)
      <4>1. u \in KnownTxs /\ WellFormed(u.snapshot) /\ u.xid \in Nat /\ Covers(u.snapshot, t)
        BY <1>1, <1>3, Zenon
      <4>2. t.xid = u.xid => t.snapshot = u.snapshot
        BY <4>1, Zenon DEF ClosedInv
      <4> QED BY <1>1, <3>2, <4>1, <4>2, RevisionCovers, Zenon
    <3> QED BY <2>1, <3>1, <3>2, Zenon
  <2> DEFINE S == {s, NoSnapshot, CurrentSnapshot}
             N == {n \in KnownTxs : FALSE}
  <2>3. KnownTxs' \subseteq KnownTxs \cup N
    BY <1>6, <1>8, Zenon
  <2>4. /\ tokens' \subseteq tokens \cup S /\ \A w \in Writers : snapshot'[w] \in {snapshot[w]} \cup S
        /\ \A r \in S, t \in KnownTxs \cup N : Covers(r, t)
    BY <1>4, <1>8, <2>1, <2>2, Zenon
  <2>5. N = {}
    OBVIOUS
  <2> HIDE DEF S, N
  <2> QED BY <2>3, <2>4, <2>5, ClosedGrows, Zenon
<1>9. CASE /\ txTable' = txTable \cup {[xid |-> nextXid, snapshot |-> CurrentSnapshot,
                                        ts |-> clock, commitTs |-> clock]}
           /\ nextXid \notin settled /\ nextXid \in settled' /\ nextXid \in Xids
           /\ UNCHANGED <<tokens, snapshot>>
  <2> DEFINE n == [xid |-> nextXid, snapshot |-> CurrentSnapshot, ts |-> clock, commitTs |-> clock]
             S == {CurrentSnapshot}
             N == {n}
  <2>1. KnownTxs' \subseteq KnownTxs \cup N
    BY <1>6, <1>9, Zenon
  <2>2. n.xid = nextXid /\ n.snapshot = CurrentSnapshot /\ nextXid \in Nat
    BY <1>1, <1>9, Zenon
  <2>3. /\ \A s \in Snapshots \cup {CurrentSnapshot, NoSnapshot} : Covers(s, n)
        /\ \A t \in KnownTxs : t.xid # n.xid
    <3> HIDE DEF n
    <3> QED BY <1>7, <1>9, <2>2, Zenon
  <2> HIDE DEF n
  <2>4. /\ tokens' \subseteq tokens \cup S /\ \A w \in Writers : snapshot'[w] \in {snapshot[w]} \cup S
        /\ \A m \in N : m.snapshot \in Snapshots \cup S
        /\ \A s \in S, t \in KnownTxs \cup N : Covers(s, t)
        /\ \A s \in Snapshots, m \in N : Covers(s, m)
        /\ \A m, k \in N : m = k
        /\ \A m \in N, t \in KnownTxs : t.xid # m.xid
    BY <1>4, <1>9, <2>2, <2>3, Zenon
  <2> HIDE DEF S, N
  <2> QED BY <2>1, <2>4, ClosedGrows, Zenon
<1>10. ASSUME NEW w \in Writers,
              txTable' = txTable \cup {[xid |-> xid[w], snapshot |-> snapshot[w],
                                        ts |-> startTs[w], commitTs |-> clock]},
              xid[w] \notin settled, xid[w] \in settled',
              tokens' \subseteq tokens \cup {markComplete(snapshot[w], xid[w])},
              \A o \in Writers : snapshot'[o] \in {snapshot[o], NoSnapshot}
       PROVE  ClosedInv'
  <2> DEFINE n == [xid |-> xid[w], snapshot |-> snapshot[w], ts |-> startTs[w], commitTs |-> clock]
             r == markComplete(snapshot[w], xid[w])
             S == {r, NoSnapshot}
             N == {n}
  <2>1. KnownTxs' \subseteq KnownTxs \cup N
    BY <1>6, <1>10, Zenon
  <2>2. n.xid = xid[w] /\ n.snapshot = snapshot[w] /\ xid[w] \in Nat /\ n \in TxRow
    BY DEF Inv, TypeOK, Xids, TxRow
  <2>3. /\ \A s \in Snapshots \cup {CurrentSnapshot, NoSnapshot} : Covers(s, n)
        /\ \A t \in KnownTxs : t.xid # n.xid
    <3> HIDE DEF n
    <3> QED BY <1>7, <1>10, <2>2, Zenon
  <2> HIDE DEF n
  <2>4. ASSUME NEW t \in KnownTxs \cup N PROVE Covers(r, t)
    <3>1. /\ t \in TxRow /\ WellFormed(snapshot[w]) /\ snapshot[w] \in Snapshots
          /\ t.xid = xid[w] => t.snapshot = snapshot[w]
      BY <1>1, <1>2, <2>2, <2>3, Zenon
    <3>2. Covers(snapshot[w], t)
      BY <1>3, <2>3, <3>1, Zenon
    <3> QED BY <2>2, <3>1, <3>2, RevisionCovers, Zenon
  <2> HIDE DEF r
  <2>5. /\ tokens' \subseteq tokens \cup S /\ \A o \in Writers : snapshot'[o] \in {snapshot[o]} \cup S
        /\ \A m \in N : m.snapshot \in Snapshots \cup S
        /\ \A s \in S, t \in KnownTxs \cup N : Covers(s, t)
        /\ \A s \in Snapshots, m \in N : Covers(s, m)
        /\ \A m, k \in N : m = k
        /\ \A m \in N, t \in KnownTxs : t.xid # m.xid
    BY <1>1, <1>4, <1>10, <2>2, <2>3, <2>4, Zenon DEF r
  <2> HIDE DEF S, N
  <2> QED BY <2>1, <2>5, ClosedGrows, Zenon
<1> QED BY <1>8, <1>9, <1>10, GrowthOfTables, Zenon

\* Deleting transactions, and rows that are dead and not of the schema, leaves the
\* datastore in order.
LEMMA ShrinkKeepsInv ==
    ASSUME Inv, rows' \subseteq rows, txTable' \subseteq txTable,
           \A r \in rows \ rows' : r.deleted # Live /\ r.key # SchemaKey,
           UNCHANGED <<nextXid, settled, latest, clock, txVars, tokens>>
    PROVE  Inv'
<1> USE DEF txVars
<1>1. LivingObjects(rows)' = LivingObjects(rows)
  BY Zenon DEF LivingObjects
<1>2. \A w \in Writers, k \in AllKeys : Pending(w, k)' <=> Pending(w, k)
  BY Zenon DEF Pending
<1>3. \A w \in Writers : SeenLiving(w, SchemaKey)' = SeenLiving(w, SchemaKey)
  BY Zenon DEF SeenLiving, AliveAt
<1>4. Open' = Open
  BY Zenon DEF Open
<1>5. TypeOK'
  <2>1. rows' \in SUBSET Row /\ txTable' \in SUBSET TxRow
    BY Zenon DEF Inv, TypeOK
  <2> QED BY <2>1, Zenon DEF Inv, TypeOK
<1>6. IdsInv'
  BY <1>4, Zenon DEF Inv, IdsInv
<1>7. ShownInv'
  BY Zenon DEF Inv, ShownInv, ShowsSettled
<1>8. RowsInv'
  BY <1>1, <1>2, <1>4, Zenon DEF Inv, RowsInv
<1>9. ReplacesInv'
  BY <1>1, Zenon DEF Inv, ReplacesInv, OneLivingRow
<1>10. SchemaInv'
  <2>1. SchemaKey \in AllKeys
    BY Zenon DEF AllKeys
  <2> QED BY <1>1, <1>2, <1>3, <2>1, Zenon DEF Inv, SchemaInv, SchemaStaysAsAsserted
<1> QED BY <1>5, <1>6, <1>7, <1>8, <1>9, <1>10, Zenon DEF Inv

\* What a collector deletes is a row that its watermark's snapshot shows as deleted.
LEMMA CollectedIsDead ==
    ASSUME Inv, RunsInv, NEW g \in Collectors, DeleteRows(g)
    PROVE  /\ rows' \subseteq rows
           /\ \A r \in rows \ rows' : /\ r.key \in Keys /\ r.deleted \in Xids
                                      /\ txVisible(watermark[g].snapshot, r.deleted)
<1> USE PgAssumption
<1> DEFINE dead == {r \in rows : r.key \in Keys /\ r.deleted < minTxAlive(g)}
<1>1. PICK B \in Batch(dead) : rows' = rows \ B
  BY ZenonT(30) DEF DeleteRows
<1>2. B \subseteq dead
  BY <1>1, Zenon DEF Batch, kSubset
<1>3. watermark[g] \in KnownTxs
  BY Zenon DEF KnownTxs, DeleteRows
<1>4. /\ WellFormed(watermark[g].snapshot) /\ Visible(watermark[g].snapshot) \subseteq settled
      /\ settled \subseteq Xids
  BY <1>3, Zenon DEF RunsInv, ShowsSettled, Inv, TypeOK
<1>5. ASSUME NEW r \in dead
      PROVE  /\ r.key \in Keys /\ r.deleted \in Xids
             /\ txVisible(watermark[g].snapshot, r.deleted)
  <2>1. r.deleted \in Xids \cup {Live} /\ r.deleted \in Nat /\ Live \notin Xids
    BY DEF Inv, TypeOK, Row, Xids, Live
  <2>2. txVisible(watermark[g].snapshot, r.deleted)
    BY Zenon DEF minTxAlive, txVisible
  <2>3. r.deleted \in settled
    BY <1>4, <2>1, <2>2, VisibleIsPointwise, Zenon
  <2> QED BY <1>4, <2>1, <2>2, <2>3, ZenonT(30)
<1> HIDE DEF dead
<1> QED BY <1>1, <1>2, <1>5, Zenon

\* Every step of a collector leaves the datastore in order.
LEMMA CollectorKeepsInv ==
    ASSUME Inv, RunsInv, NEW g \in Collectors, CollectorStep(g) \/ GCFails(g)
    PROVE  /\ Inv' /\ rows' \subseteq rows /\ UNCHANGED <<tokens, snapshot, settled>>
           /\ KnownTxs' \subseteq KnownTxs
<1> USE DEF txVars, pgVars
<1>0. /\ gpc \in [Collectors -> {"idle", "locked", "before", "rows", "txs"}]
      /\ watermark \in [Collectors -> TxRow]
  BY Zenon DEF RunsInv
<1>1. CASE LockForGCRun(g) \/ Now(g) \/ TxIDBefore(g) \/ GCFails(g)
  <2>1. UNCHANGED <<nextXid, settled, latest, rows, txTable, clock, txVars, tokens>>
    BY <1>1, Zenon DEF LockForGCRun, Now, TxIDBefore, GCFails, dsVars
  <2>2. Inv'
    BY <2>1, ShrinkKeepsInv, Zenon
  <2>3. KnownTxs' \subseteq KnownTxs
    <3>1. \A h \in Collectors \ {g} : gpc'[h] = gpc[h] /\ watermark'[h] = watermark[h]
      BY <1>0, <1>1, Zenon DEF LockForGCRun, Now, TxIDBefore, GCFails, EndRun
    <3>2. gpc'[g] \in {"rows", "txs"} => watermark'[g] \in txTable
      BY <1>0, <1>1, SMTT(30) DEF LockForGCRun, Now, TxIDBefore, GCFails, EndRun
    <3> QED BY <2>1, <3>1, <3>2, Zenon DEF KnownTxs
  <2> QED BY <2>1, <2>2, <2>3, SMTT(30)
<1>2. CASE DeleteRows(g)
  <2>1. /\ UNCHANGED <<nextXid, settled, latest, txTable, clock, txVars, tokens, watermark>>
        /\ gpc[g] = "rows" /\ \A h \in Collectors \ {g} : gpc'[h] = gpc[h]
    BY <1>0, <1>2, Zenon DEF DeleteRows
  <2>2. /\ rows' \subseteq rows
        /\ \A r \in rows \ rows' : r.key \in Keys /\ r.deleted \in Xids
    BY <1>2, CollectedIsDead, Zenon
  <2>3. \A r \in rows \ rows' : r.deleted # Live /\ r.key # SchemaKey
    BY <2>2, PgAssumption, SMTT(30) DEF PgAssumption, Xids, Live
  <2>4. Inv'
    BY <2>1, <2>2, <2>3, ShrinkKeepsInv, SMTT(30)
  <2>5. KnownTxs' \subseteq KnownTxs
    BY <2>1, Zenon DEF KnownTxs
  <2> QED BY <2>1, <2>2, <2>4, <2>5, ZenonT(30)
<1>3. CASE DeleteTxs(g)
  <2>1. /\ UNCHANGED <<nextXid, settled, latest, rows, clock, txVars, tokens>>
        /\ txTable' \subseteq txTable
    BY <1>3, Zenon DEF DeleteTxs
  <2>2. \A h \in Collectors : gpc'[h] \in {"rows", "txs"} => gpc'[h] = gpc[h] /\ watermark'[h] = watermark[h]
    BY <1>0, <1>3, Zenon DEF DeleteTxs, EndRun
  <2>3. Inv'
    BY <2>1, ShrinkKeepsInv, SMTT(30)
  <2>4. KnownTxs' \subseteq KnownTxs
    BY <2>1, <2>2, Zenon DEF KnownTxs
  <2> QED BY <2>1, <2>3, <2>4, Zenon
<1> QED BY <1>1, <1>2, <1>3, Zenon DEF CollectorStep

\* The collectors and the revisions handed out, after a step of the datastore.
LEMMA RunsBesideDatastore ==
    ASSUME Inv, Inv', RunsInv, [DatastoreNext]_dsVars, UNCHANGED <<gpc, watermark, watermarks>>,
           issued' = issued \cup {[rev |-> s, content |-> Content(rows', s)] : s \in tokens' \ tokens}
    PROVE  RunsInv' /\ tokens \subseteq tokens'
<1>1. KindOfStep /\ settled \subseteq settled'
  BY StepHasKind, SettledGrows, SMTT(30)
<1>2. tokens \subseteq tokens'
  BY <1>1, StoreSteps, ZenonT(30) DEF ReadStep, Heartbeat, CommitStep
<1>3. ASSUME NEW t \in KnownTxs'
      PROVE  t \in TxRow /\ ShowsSettled(t.snapshot)' /\ t.xid \in settled'
  <2>1. CASE t \in KnownTxs
    BY <1>1, <2>1, SMTT(30) DEF RunsInv, ShowsSettled
  <2>2. CASE t \in txTable'
    BY <2>2, Zenon DEF Inv, TypeOK, ShownInv, ShowsSettled, TxRow, Xids
  <2>3. t \in KnownTxs \/ t \in txTable'
    BY Zenon DEF KnownTxs
  <2> QED BY <2>1, <2>2, <2>3, ZenonT(30)
<1>4. \A i \in issued' : i.rev \in tokens'
  <2> TAKE i \in issued'
  <2>1. CASE i \in issued
    BY <1>2, <2>1, ZenonT(30) DEF RunsInv
  <2>2. CASE i \notin issued
    <3>1. PICK s \in tokens' \ tokens : i = [rev |-> s, content |-> Content(rows', s)]
      BY <2>2, Zenon
    <3> QED BY <3>1, Zenon
  <2> QED BY <2>1, <2>2, Zenon
<1>5. /\ gpc' \in [Collectors -> {"idle", "locked", "before", "rows", "txs"}]
      /\ watermark' \in [Collectors -> TxRow]'
      /\ \A g \in Collectors : gpc'[g] \in {"rows", "txs"} => watermark'[g].xid \in watermarks'
  BY Zenon DEF RunsInv, TxRow, Xids
<1>6. TxRow' = TxRow
  BY Zenon DEF TxRow, Xids
<1> QED BY <1>2, <1>3, <1>4, <1>5, <1>6, Zenon DEF RunsInv, ShowsSettled

\* Reads at the revisions handed out, after a step of the datastore: what a snapshot
\* shows as settled no longer changes.
LEMMA SparedBesideDatastore ==
    ASSUME Inv, RunsInv, CollectionSparesLaterRevisions, [DatastoreNext]_dsVars, UNCHANGED watermarks,
           issued' = issued \cup {[rev |-> s, content |-> Content(rows', s)] : s \in tokens' \ tokens}
    PROVE  CollectionSparesLaterRevisions'
<1>1. KindOfStep
  BY StepHasKind, Zenon
<1>2. ASSUME NEW i \in issued', \A x \in watermarks' : txVisible(i.rev, x)
      PROVE  Content(rows', i.rev) = i.content
  <2>1. CASE i \in issued
    <3>1. ShowsSettled(i.rev)
      BY <2>1, Zenon DEF RunsInv, Inv, ShownInv
    <3>2. Content(rows', i.rev) = Content(rows, i.rev)
      BY <1>1, <3>1, ContentStays, Zenon
    <3>3. Content(rows, i.rev) = i.content
      BY <1>2, <2>1, Zenon DEF CollectionSparesLaterRevisions
    <3> QED BY <3>2, <3>3, Zenon
  <2>2. CASE i \notin issued
    <3>1. PICK s \in tokens' \ tokens : i = [rev |-> s, content |-> Content(rows', s)]
      BY <2>2, Zenon
    <3> QED BY <3>1, Zenon
  <2> QED BY <2>1, <2>2, Zenon
<1> QED BY <1>2, Zenon DEF CollectionSparesLaterRevisions, Content, AliveAt

\* A collector's step: a revision that shows the watermark shows what its snapshot
\* shows, the deletions of the rows collected included.
LEMMA SparedBesideCollector ==
    ASSUME Inv, RunsInv, ClosedInv, CollectionSparesLaterRevisions,
           NEW g \in Collectors, CollectorStep(g) \/ GCFails(g)
    PROVE  CollectionSparesLaterRevisions'
<1>1. issued' = issued /\ watermarks \subseteq watermarks'
  BY Zenon DEF CollectorStep, LockForGCRun, Now, TxIDBefore, DeleteRows, DeleteTxs, GCFails
<1>2. ASSUME NEW i \in issued, \A x \in watermarks' : txVisible(i.rev, x)
      PROVE  Content(rows', i.rev) = i.content
  <2>1. Content(rows, i.rev) = i.content
    BY <1>1, <1>2, Zenon DEF CollectionSparesLaterRevisions
  <2>2. CASE DeleteRows(g)
    <3>1. /\ rows' \subseteq rows
          /\ \A r \in rows \ rows' : /\ r.deleted \in Xids
                                     /\ txVisible(watermark[g].snapshot, r.deleted)
      BY <2>2, CollectedIsDead, Zenon
    <3>2. watermark[g].xid \in watermarks /\ watermark[g] \in KnownTxs
      BY <2>2, Zenon DEF DeleteRows, RunsInv, KnownTxs
    <3>3. txVisible(i.rev, watermark[g].xid)
      BY <1>1, <1>2, <3>2, Zenon
    <3>4. i.rev \in Snapshots
      BY Zenon DEF RunsInv, Snapshots
    <3>5. Covers(i.rev, watermark[g])
      BY <3>2, <3>4, Zenon DEF ClosedInv
    <3>6. \A r \in rows \ rows' : txVisible(i.rev, r.deleted)
      BY <3>1, <3>3, <3>5, Zenon DEF Covers
    <3>7. AliveAt(rows', i.rev) = AliveAt(rows, i.rev)
      BY <3>1, <3>6, Zenon DEF AliveAt
    <3> QED BY <2>1, <3>7, Zenon DEF Content
  <2>3. CASE ~DeleteRows(g)
    <3>1. rows' = rows
      BY <2>3, Zenon DEF CollectorStep, LockForGCRun, Now, TxIDBefore, DeleteTxs, GCFails, dsVars, pgVars
    <3> QED BY <2>1, <3>1, Zenon
  <2> QED BY <2>2, <2>3, Zenon
<1> QED BY <1>1, <1>2, Zenon DEF CollectionSparesLaterRevisions, Content, AliveAt

\* The collectors, after a step of their own.
LEMMA RunsBesideCollector ==
    ASSUME Inv, RunsInv, NEW g \in Collectors, CollectorStep(g) \/ GCFails(g)
    PROVE  RunsInv'
<1>1. UNCHANGED <<tokens, snapshot, settled>> /\ KnownTxs' \subseteq KnownTxs
  BY CollectorKeepsInv, Zenon
<1>2. /\ gpc \in [Collectors -> {"idle", "locked", "before", "rows", "txs"}]
      /\ watermark \in [Collectors -> TxRow] /\ txTable \subseteq TxRow
  BY Zenon DEF RunsInv, Inv, TypeOK
<1>3. FirstTx \in TxRow
  BY PgAssumption DEF FirstTx, TxRow, Xids, Snapshot, PgAssumption
<1>4. gpc' \in [Collectors -> {"idle", "locked", "before", "rows", "txs"}]
  BY <1>2, Zenon DEF CollectorStep, LockForGCRun, Now, TxIDBefore, DeleteRows, DeleteTxs, GCFails, EndRun
<1>5. watermark' \in [Collectors -> TxRow]
  BY <1>2, <1>3, Zenon DEF CollectorStep, LockForGCRun, Now, TxIDBefore, DeleteRows, DeleteTxs, GCFails, EndRun
<1>6. \A h \in Collectors : gpc'[h] \in {"rows", "txs"} => watermark'[h].xid \in watermarks'
  <2>1. \A h \in Collectors : gpc[h] \in {"rows", "txs"} => watermark[h].xid \in watermarks
    BY Zenon DEF RunsInv
  <2>2. CASE TxIDBefore(g)
    BY <1>2, <2>1, <2>2, Zenon DEF TxIDBefore
  <2>3. CASE ~TxIDBefore(g)
    BY <1>2, <2>1, <2>3, Zenon DEF CollectorStep, LockForGCRun, Now, DeleteRows, DeleteTxs, GCFails, EndRun
  <2> QED BY <2>2, <2>3, Zenon
<1>7. issued' = issued
  BY Zenon DEF CollectorStep, LockForGCRun, Now, TxIDBefore, DeleteRows, DeleteTxs, GCFails
<1>8. TxRow' = TxRow
  BY Zenon DEF TxRow, Xids
<1> QED BY <1>1, <1>4, <1>5, <1>6, <1>7, <1>8, Zenon DEF RunsInv, ShowsSettled

\* Every step of the datastore beside its collectors keeps the invariant.
LEMMA GCInvStep ==
    ASSUME GCInv, [GCNext]_vars
    PROVE  GCInv'
<1>1. Inv /\ RunsInv /\ ClosedInv /\ CollectionSparesLaterRevisions
  BY Zenon DEF GCInv
<1>2. ASSUME [DatastoreNext]_dsVars, UNCHANGED <<gpc, watermark, watermarks>>,
             issued' = issued \cup {[rev |-> s, content |-> Content(rows', s)] : s \in tokens' \ tokens}
      PROVE  GCInv'
  <2>1. Inv'
    BY <1>1, <1>2, InvStep, Zenon
  <2>2. RunsInv'
    BY <1>1, <1>2, <2>1, RunsBesideDatastore, Zenon
  <2>3. ClosedInv'
    BY <1>1, <1>2, ClosedStep, Zenon
  <2>4. CollectionSparesLaterRevisions'
    BY <1>1, <1>2, SparedBesideDatastore, Zenon
  <2> QED BY <2>1, <2>2, <2>3, <2>4, Zenon DEF GCInv
<1>3. ASSUME NEW g \in Collectors, CollectorStep(g) \/ GCFails(g) PROVE GCInv'
  <2>1. Inv' /\ UNCHANGED <<tokens, snapshot>> /\ KnownTxs' \subseteq KnownTxs
    BY <1>1, <1>3, CollectorKeepsInv, Zenon
  <2>2. ClosedInv'
    <3>1. Snapshots' \subseteq Snapshots
      BY <2>1, Zenon DEF Snapshots
    <3> QED BY <1>1, <2>1, <3>1, Zenon DEF ClosedInv, Covers, Xids
  <2> QED BY <1>1, <1>3, <2>1, <2>2, RunsBesideCollector, SparedBesideCollector, Zenon DEF GCInv
<1>4. CASE UNCHANGED vars
  <2>1. UNCHANGED dsVars /\ UNCHANGED <<gpc, watermark, watermarks, issued, tokens>>
    BY <1>4, Zenon DEF vars, gcVars, dsVars
  <2>2. issued' = issued \cup {[rev |-> s, content |-> Content(rows', s)] : s \in tokens' \ tokens}
    BY <2>1, Zenon
  <2> QED BY <1>2, <2>1, <2>2, Zenon
<1> QED BY <1>2, <1>3, <1>4, Zenon DEF GCNext

\* The datastore's own invariant survives collection, and a revision that shows the
\* watermark of every run still reads as when it was handed out (deleteBeforeTx).
THEOREM GCInvariant == GCSpec => []GCInv
<1>1. GCInit => GCInv
  <2> SUFFICES ASSUME GCInit PROVE GCInv
    OBVIOUS
  <2>1. Inv
    BY InitInv, SMTT(30) DEF GCInit
  <2>2. KnownTxs = txTable /\ issued = {} /\ tokens = {}
    BY Zenon DEF GCInit, KnownTxs, Init
  <2>3. RunsInv
    <3>1. FirstTx \in TxRow
      BY PgAssumption DEF FirstTx, TxRow, Xids, Snapshot, PgAssumption
    <3>2. \A t \in txTable : t \in TxRow /\ ShowsSettled(t.snapshot) /\ t.xid \in settled
      BY <2>1, SMTT(30) DEF Inv, TypeOK, ShownInv
    <3> QED BY <2>2, <3>1, <3>2, Zenon DEF RunsInv, GCInit
  <2>4. ClosedInv
    <3>1. /\ txTable = {FirstTx} /\ \A w \in Writers : snapshot[w] = NoSnapshot
      BY ZenonT(30) DEF GCInit, Init, FirstTx
    <3>2. Snapshots = {NoSnapshot, FirstTx.snapshot} \/ Snapshots = {FirstTx.snapshot}
      BY <2>2, <3>1, Zenon DEF Snapshots
    <3>3. ~txVisible(NoSnapshot, FirstTx.xid) /\ ~txVisible(FirstTx.snapshot, FirstTx.xid)
      BY DEF txVisible, NoSnapshot, FirstTx
    <3>4. \A t \in KnownTxs : t = FirstTx
      BY <2>2, <3>1, Zenon
    <3>5. \A s \in Snapshots : ~txVisible(s, FirstTx.xid)
      BY <3>2, <3>3, Zenon
    <3>6. \A s \in Snapshots, t \in KnownTxs : Covers(s, t)
      BY <3>4, <3>5, Zenon DEF Covers
    <3> QED BY <3>4, <3>6, Zenon DEF ClosedInv
  <2>5. CollectionSparesLaterRevisions
    BY <2>2, Zenon DEF CollectionSparesLaterRevisions
  <2> QED BY <2>1, <2>3, <2>4, <2>5, Zenon DEF GCInv
<1>2. GCInv /\ [GCNext]_vars => GCInv'
  BY GCInvStep, Zenon
<1> QED BY <1>1, <1>2, PTL DEF GCSpec

\* A revision that shows the watermark transaction of every run so far still reads as
\* it did when it was handed out, wherever runs stopped: deleteBeforeTx compares the
\* ids of deletions with a number, and only those dead in the watermark's own snapshot
\* pass.
THEOREM LaterRevisionsAreSpared == GCSpec => []CollectionSparesLaterRevisions
<1>1. GCInv => CollectionSparesLaterRevisions
  BY Zenon DEF GCInv
<1> QED BY <1>1, GCInvariant, PTL
=============================================================================
