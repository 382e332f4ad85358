--------------------------- MODULE PgWatchProofs ---------------------------
(***************************************************************************)
(* Watch of the Postgres datastore: no change is skipped, for every number *)
(* of writers, transactions and disconnections.                            *)
(***************************************************************************)
EXTENDS PgDatastoreProofs, PgWatch

(***************************************************************************)
(* The datastore beside the watcher                                        *)
(***************************************************************************)

\* A transaction t commits.
Committing(t) ==
    /\ t \in TxRow /\ t.xid \notin settled /\ ShowsSettled(t.snapshot)
    /\ txTable' = txTable \cup {t}
    /\ commitLog' = Append(commitLog, t.xid)
    /\ settled' = settled \cup {t.xid}

\* The transaction table and the commit log change by a commit, and by nothing else
\* (CommitRows, insertHeartBeatRevision).
LEMMA TablesStep ==
    ASSUME Inv, KindOfStep
    PROVE  UNCHANGED <<txTable, commitLog>> \/ \E t : Committing(t)
<1> USE PgAssumption
<1>1. ASSUME NEW w \in Writers, CommitStep(w) PROVE \E t : Committing(t)
  <2> DEFINE t == [xid |-> xid[w], snapshot |-> snapshot[w], ts |-> startTs[w], commitTs |-> clock]
  <2>1. /\ xid[w] \in Xids /\ snapshot[w] \in Snapshot /\ startTs[w] \in Nat /\ clock \in Nat
        /\ ShowsSettled(snapshot[w])
    BY DEF Inv, TypeOK, ShownInv
  <2>2. xid[w] \notin settled
    BY <1>1, Zenon DEF CommitStep, Inv, IdsInv, Open
  <2>3. t \in TxRow
    BY <2>1, Zenon DEF TxRow
  <2>4. t.xid = xid[w] /\ t.snapshot = snapshot[w]
    OBVIOUS
  <2>5. /\ txTable' = txTable \cup {t} /\ commitLog' = Append(commitLog, xid[w])
        /\ settled' = settled \cup {xid[w]}
    BY <1>1, Zenon DEF CommitStep, CommitRows, Settle
  <2> HIDE DEF t
  <2>6. Committing(t)
    BY <2>1, <2>2, <2>3, <2>4, <2>5, Zenon DEF Committing
  <2> QED BY <2>6, Zenon
<1>2. ASSUME Heartbeat PROVE \E t : Committing(t)
  <2> DEFINE t == [xid |-> nextXid, snapshot |-> CurrentSnapshot, ts |-> clock, commitTs |-> clock]
  <2>1. nextXid \in Xids /\ nextXid \notin settled /\ clock \in Nat
    BY <1>2 DEF Heartbeat, Inv, TypeOK, IdsInv, Xids
  <2>2. ShowsSettled(CurrentSnapshot) /\ CurrentSnapshot \in Snapshot
    BY CurrentSnapshotIsSettled, Zenon DEF Inv, WellFormed
  <2>3. t \in TxRow
    BY <2>1, <2>2, Zenon DEF TxRow
  <2>4. t.xid = nextXid /\ t.snapshot = CurrentSnapshot
    OBVIOUS
  <2>5. /\ txTable' = txTable \cup {t} /\ commitLog' = Append(commitLog, nextXid)
        /\ settled' = settled \cup {nextXid}
    BY <1>2, Zenon DEF Heartbeat, Settle
  <2> HIDE DEF t
  <2>6. Committing(t)
    BY <2>1, <2>2, <2>3, <2>4, <2>5, Zenon DEF Committing
  <2> QED BY <2>6, Zenon
<1>3. ASSUME NEW w \in Writers, CallStep(w), ~CommitStep(w) PROVE UNCHANGED <<txTable, commitLog>>
  <2>1. ASSUME NEW k, NEW D, NEW I, GoodWrite(w, k, D, I) PROVE UNCHANGED <<txTable, commitLog>>
    BY <2>1, Zenon DEF GoodWrite, Write, pgVars
  <2>2. ASSUME NEW mode, assertSchemaHash(w, mode) PROVE UNCHANGED <<txTable, commitLog>>
    BY <2>2, Zenon DEF assertSchemaHash, pgVars
  <2>3. BeginTx(w) \/ TakeSnapshot(w) \/ AssignXid(w) => UNCHANGED <<txTable, commitLog>>
    BY Zenon DEF BeginTx, TakeSnapshot, AssignXid, pgVars
  <2>4. RollbackStep(w) \/ EarlyError(w) => UNCHANGED <<txTable, commitLog>>
    BY Zenon DEF RollbackStep, Rollback, EarlyError, pgVars
  <2> QED BY <1>3, <2>1, <2>2, <2>3, <2>4, Zenon DEF CallStep
<1>4. ReadStep \/ Tick \/ UNCHANGED dsVars => UNCHANGED <<txTable, commitLog>>
  BY Zenon DEF ReadStep, Tick, dsVars, pgVars
<1> QED BY <1>1, <1>2, <1>3, <1>4, Zenon DEF KindOfStep

\* A transaction that has settled changes nothing more.
LEMMA ChangedStays ==
    ASSUME Inv, KindOfStep, NEW x \in settled, Changed(x)'
    PROVE  Changed(x)
<1> USE PgAssumption
<1>1. CASE rows' = rows
  BY <1>1, Zenon DEF Changed, Touches, Deletes
<1>2. ASSUME NEW w \in Writers, CommitStep(w) PROVE Changed(x)
  <2> DEFINE upd(r) == [r EXCEPT !.deleted = xid[w]]
  <2>1. rows' = (rows \ del[w]) \cup {upd(r) : r \in del[w]} \cup ins[w]
    BY <1>2, Zenon DEF CommitStep, CommitRows
  <2>2. x # xid[w] /\ x # Live
    BY <1>2 DEF CommitStep, Inv, IdsInv, Open, TypeOK, Xids, Live
  <2>3. ASSUME NEW r \in del[w]
        PROVE  r \in rows /\ upd(r).key = r.key /\ upd(r).created = r.created /\ upd(r).deleted = xid[w]
    BY DEF Inv, TypeOK, RowsInv, LivingObjects, Row
  <2>4. \A r \in ins[w] : r.created = xid[w] /\ r.deleted = Live
    BY Zenon DEF Inv, RowsInv
  <2> HIDE DEF upd
  <2>5. ASSUME NEW r \in rows', r.key \in Keys, r.created = x PROVE \E q \in rows : q.key \in Keys /\ q.created = x
    <3>1. CASE r \in rows
      BY <2>5, <3>1, Zenon
    <3>2. r \notin ins[w]
      BY <2>2, <2>4, <2>5, Zenon
    <3>3. CASE r \in {upd(q) : q \in del[w]}
      BY <2>3, <2>5, <3>3, Zenon
    <3> QED BY <2>1, <3>1, <3>2, <3>3, Zenon
  <2>6. ASSUME NEW r \in rows', r.key \in Keys, r.deleted = x PROVE r \in rows
    BY <2>1, <2>2, <2>3, <2>4, <2>6, Zenon
  <2> QED BY <2>5, <2>6, Zenon DEF Changed, Touches, Deletes
<1>3. ReadStep \/ Heartbeat => rows' = rows
  BY Zenon DEF ReadStep, Heartbeat, pgVars
<1> QED BY <1>1, <1>2, <1>3, StoreSteps, Zenon

\* The commit log, after a commit.
LEMMA AppendIs ==
    ASSUME NEW S, NEW log \in Seq(S), NEW x \in S
    PROVE  /\ Append(log, x) \in Seq(S)
           /\ DOMAIN Append(log, x) = DOMAIN log \cup {Len(log) + 1}
           /\ \A i \in DOMAIN log : Append(log, x)[i] = log[i] /\ i < Len(log) + 1 /\ i \in Nat
           /\ Append(log, x)[Len(log) + 1] = x
OBVIOUS

\* The commit order keeps following what snapshots show.
LEMMA LogStep ==
    ASSUME Inv, LogInv, KindOfStep
    PROVE  LogInv'
<1>0. settled \subseteq settled'
  BY SettledGrows, Zenon
<1>1. CASE UNCHANGED <<txTable, commitLog>>
  <2>1. Xids' = Xids
    BY Zenon DEF Xids
  <2> QED BY <1>0, <1>1, <2>1, Zenon DEF LogInv, CommitOrder
<1>2. ASSUME NEW t, Committing(t) PROVE LogInv'
  <2> DEFINE n == Len(commitLog) + 1
  <2>1. /\ t \in TxRow /\ t.xid \notin settled /\ ShowsSettled(t.snapshot) /\ t.xid \in Xids
        /\ txTable' = txTable \cup {t} /\ commitLog' = Append(commitLog, t.xid)
        /\ settled' = settled \cup {t.xid}
    BY <1>2, Zenon DEF Committing, TxRow
  <2>2. commitLog \in Seq(Xids)
    BY Zenon DEF LogInv
  <2>3. /\ commitLog' \in Seq(Xids)
        /\ DOMAIN commitLog' = DOMAIN commitLog \cup {n}
        /\ \A i \in DOMAIN commitLog : commitLog'[i] = commitLog[i] /\ i < n /\ i \in Nat
        /\ commitLog'[n] = t.xid
    <3>1. PICK log : log = Append(commitLog, t.xid)
      BY Zenon
    <3>2. /\ log \in Seq(Xids)
          /\ DOMAIN log = DOMAIN commitLog \cup {n}
          /\ \A i \in DOMAIN commitLog : log[i] = commitLog[i] /\ i < n /\ i \in Nat
          /\ log[n] = t.xid
      BY <2>1, <2>2, <3>1, AppendIs
    <3> QED BY <2>1, <3>1, <3>2, Zenon
  <2> HIDE DEF n
  <2>4. IsFiniteSet(txTable')
    BY <2>1, FS_AddElement, Zenon DEF LogInv
  <2>5. \A i \in DOMAIN commitLog' : commitLog'[i] \in settled'
    BY <2>1, <2>3, Zenon DEF LogInv
  <2>6. \A i, j \in DOMAIN commitLog' : commitLog'[i] = commitLog'[j] => i = j
    BY <2>1, <2>3 DEF LogInv
  <2>7. \A u \in txTable' : \E i \in DOMAIN commitLog' : commitLog'[i] = u.xid
    BY <2>1, <2>3 DEF LogInv
  <2>8. ASSUME NEW u \in txTable', NEW v \in txTable', txVisible(v.snapshot, u.xid)
        PROVE  CommitOrder(u, v)'
    <3>1. ASSUME NEW y, ShowsSettled(y), txVisible(y, u.xid) PROVE u \in txTable
      <4>1. u.xid \in Nat
        BY <2>1, PgAssumption DEF Inv, TypeOK, TxRow, Xids
      <4>2. u.xid \in settled
        BY <3>1, <4>1, VisibleIsPointwise, Zenon DEF ShowsSettled
      <4> QED BY <2>1, <4>2, Zenon
    <3>2. u \in txTable
      <4>1. CASE v = t
        BY <2>1, <2>8, <3>1, <4>1, Zenon
      <4>2. CASE v \in txTable
        <5>1. ShowsSettled(v.snapshot)
          BY <4>2, Zenon DEF Inv, ShownInv
        <5> QED BY <2>8, <3>1, <5>1, Zenon
      <4> QED BY <2>1, <4>1, <4>2, Zenon
    <3>3. CASE v \in txTable
      <4>1. PICK i, j \in DOMAIN commitLog : commitLog[i] = u.xid /\ commitLog[j] = v.xid /\ i < j
        <5>1. CommitOrder(u, v)
          BY <2>8, <3>2, <3>3, Zenon DEF LogInv
        <5> QED BY <5>1, Zenon DEF CommitOrder
      <4>2. /\ i \in DOMAIN commitLog' /\ j \in DOMAIN commitLog'
            /\ commitLog'[i] = u.xid /\ commitLog'[j] = v.xid
        BY <2>3, <4>1, Zenon
      <4> QED BY <4>1, <4>2, Zenon DEF CommitOrder
    <3>4. CASE v = t
      <4>1. PICK i \in DOMAIN commitLog : commitLog[i] = u.xid
        BY <3>2, Zenon DEF LogInv
      <4>2. /\ i \in DOMAIN commitLog' /\ n \in DOMAIN commitLog'
            /\ commitLog'[i] = u.xid /\ commitLog'[n] = v.xid /\ i < n
        BY <2>3, <3>4, <4>1, Zenon
      <4> QED BY <4>2, Zenon DEF CommitOrder
    <3> QED BY <2>1, <3>3, <3>4, Zenon
  <2>9. Xids' = Xids
    BY DEF Xids
  <2> QED BY <2>3, <2>4, <2>5, <2>6, <2>7, <2>8, <2>9, Zenon DEF LogInv
<1> QED BY <1>1, <1>2, TablesStep, Zenon

\* What was sent covers a snapshot in use after any step of the datastore.
LEMMA SentStays ==
    ASSUME Inv, KindOfStep, UNCHANGED <<after, emitted>>, NEW s, ShowsSettled(s), Sent(s)
    PROVE  ShowsSettled(s)' /\ Sent(s)'
<1>1. settled \subseteq settled'
  BY SettledGrows, Zenon
<1>2. ASSUME NEW t \in txTable', txVisible(s, t.xid), ~txVisible(after', t.xid), Changed(t.xid)'
      PROVE  t.xid \in emitted'
  <2>1. CASE t \in txTable
    <3>1. t.xid \in settled
      BY <2>1, Zenon DEF Inv, ShownInv
    <3>2. Changed(t.xid)
      BY <1>2, <3>1, ChangedStays, Zenon
    <3> QED BY <1>2, <2>1, <3>2, Zenon DEF Sent
  <2>2. CASE t \notin txTable
    <3>1. t \in TxRow /\ t.xid \notin settled
      BY <2>2, TablesStep, Zenon DEF Committing
    <3>2. t.xid \in Nat
      BY <3>1, PgAssumption DEF TxRow, Xids
    <3> QED BY <1>2, <3>1, <3>2, VisibleIsPointwise, Zenon DEF ShowsSettled
  <2> QED BY <2>1, <2>2, Zenon
<1> QED BY <1>1, <1>2, Zenon DEF ShowsSettled, Sent

\* The revision of a transaction of the table shows what its snapshot shows, and itself.
LEMMA RevisionIs ==
    ASSUME Inv, NEW t \in txTable
    PROVE  /\ t.xid \in Xids /\ t.xid \in Nat /\ t.xid \in settled
           /\ ShowsSettled(Revision(t)) /\ Revision(t) \in Snapshot
           /\ \A x \in Nat : txVisible(Revision(t), x) <=> (txVisible(t.snapshot, x) \/ x = t.xid)
<1>1. t.xid \in Xids /\ t.xid \in Nat /\ t.xid \in settled /\ ShowsSettled(t.snapshot)
  BY PgAssumption DEF Inv, TypeOK, TxRow, Xids, ShownInv
<1>2. settled \cup {t.xid} = settled
  BY <1>1, Zenon
<1>3. ShowsSettled(Revision(t))
  BY <1>1, <1>2, MarkCompleteShowsSettled, Zenon DEF ShowsSettled, Revision
<1>4. \A x \in Nat : txVisible(Revision(t), x) <=> (txVisible(t.snapshot, x) \/ x = t.xid)
  BY <1>1, MarkCompleteAddsOne, Zenon DEF ShowsSettled, Revision
<1> QED BY <1>1, <1>3, <1>4, Zenon DEF ShowsSettled, WellFormed

\* A step of the datastore keeps the watcher's invariant.
LEMMA BesideDatastore ==
    ASSUME WatchInv, [DatastoreNext]_dsVars, UNCHANGED watchVars
    PROVE  WatchInv'
<1>1. Inv /\ LogInv /\ KindOfStep /\ Inv' /\ LogInv'
  BY StepHasKind, InvStep, LogStep, Zenon DEF WatchInv
<1>2. /\ wpc' = wpc /\ after' = after /\ cur' = cur /\ batch' = batch /\ events' = events
      /\ emitted' = emitted /\ received' = received
  BY Zenon DEF watchVars
<1>3. /\ ShowsSettled(cur)' /\ Sent(cur)'
      /\ ShowsSettled(received)' /\ Sent(received)'
  <2>1. PICK c, r : c = cur /\ r = received
    OBVIOUS
  <2>2. ShowsSettled(c) /\ ShowsSettled(r) /\ Sent(c) /\ Sent(r)
    BY <2>1, Zenon DEF WatchInv
  <2>3. ShowsSettled(c)' /\ Sent(c)' /\ ShowsSettled(r)' /\ Sent(r)'
    BY <1>1, <1>2, <2>2, SentStays, Zenon
  <2> QED BY <1>2, <2>1, <2>3, Zenon DEF ShowsSettled, Sent
<1>4. txTable \subseteq txTable' /\ \A t \in txTable' \ txTable : t \in TxRow /\ t.xid \notin settled
  BY <1>1, TablesStep, Zenon DEF Committing
<1>5. batch \in Seq(txTable)
  BY Zenon DEF WatchInv, BatchInv
<1>6. \A i \in DOMAIN batch : batch[i] \in txTable
  BY <1>5
<1>7. BatchInv'
  <2>1. batch' \in Seq(txTable')
    BY <1>2, <1>4, <1>5
  <2>2. ASSUME NEW i \in DOMAIN batch, NEW t \in txTable', txVisible(Revision(batch[i]), t.xid)
        PROVE  txVisible(cur, t.xid) \/ \E j \in 1 .. i : batch[j].xid = t.xid
    <3>1. CASE t \in txTable
      BY <2>2, <3>1, Zenon DEF WatchInv, BatchInv
    <3>2. CASE t \notin txTable
      <4>1. t.xid \notin settled /\ t.xid \in Nat
        BY <1>4, <3>2, PgAssumption DEF TxRow, Xids
      <4>2. ShowsSettled(Revision(batch[i]))
        BY <1>1, <1>6, RevisionIs, Zenon
      <4> QED BY <2>2, <4>1, <4>2, VisibleIsPointwise, Zenon DEF ShowsSettled
    <3> QED BY <3>1, <3>2, Zenon
  <2>3. wpc' \in {"load", "emit"} <=> batch' # <<>>
    BY <1>2, Zenon DEF WatchInv, BatchInv
  <2> QED BY <1>2, <2>1, <2>2, <2>3, Zenon DEF BatchInv, Revision
<1>8. EventsInv'
  <2>1. \A j \in DOMAIN batch : Changed(batch[j].xid)' => Changed(batch[j].xid)
    <3>1. \A j \in DOMAIN batch : batch[j].xid \in settled
      BY <1>1, <1>6, RevisionIs, Zenon
    <3>2. \A x \in settled : Changed(x)' => Changed(x)
      BY <1>1, ChangedStays, Zenon
    <3> QED BY <1>2, <3>1, <3>2, Zenon DEF Changed, Touches, Deletes
  <2>2. ASSUME NEW i \in DOMAIN batch, NEW k, Queued(i, k) PROVE Queued(i, k)'
    <3>1. \A j \in 1 .. i : j \in DOMAIN batch
      BY <1>5
    <3> QED BY <1>2, <2>1, <2>2, <3>1, Zenon DEF Queued, Changed, Touches, Deletes
  <2>3. events' \in Seq(Event)'
    <3>1. Event' = Event
      BY Zenon DEF Event, Xids
    <3> QED BY <1>2, <3>1, Zenon DEF WatchInv, EventsInv
  <2>4. ASSUME wpc = "emit"
        PROVE  /\ Queued(Len(batch), Len(events))'
               /\ \A k \in DOMAIN events : \E i \in DOMAIN batch :
                     /\ events[k].xid = batch[i].xid /\ events[k].rev = Revision(batch[i])
                     /\ Queued(i, k)'
    <3>1. batch # <<>>
      BY <2>4, Zenon DEF WatchInv, BatchInv
    <3>2. PICK m, k : m = Len(batch) /\ k = Len(events)
      BY Zenon
    <3>3. m \in DOMAIN batch
      BY <1>5, <3>1, <3>2
    <3>4. Queued(m, k)'
      BY <2>2, <2>4, <3>2, <3>3, Zenon DEF WatchInv, EventsInv
    <3>5. Queued(Len(batch), Len(events))'
      BY <1>2, <3>2, <3>4, Zenon DEF Queued
    <3> QED BY <2>2, <2>4, <3>5, Zenon DEF WatchInv, EventsInv
  <2> QED BY <1>2, <2>3, <2>4, Zenon DEF EventsInv, Revision
<1> QED BY <1>1, <1>3, <1>7, <1>8, Zenon DEF WatchInv

(***************************************************************************)
(* The watcher                                                             *)
(***************************************************************************)

\* The loop at the end of a batch: the snapshot it ends with shows what the first one
\* shows and the transactions of the batch.
LEMMA MarkAllIs ==
    ASSUME NEW s, WellFormed(s), NEW b, NEW n \in Nat, Len(b) = n,
           \A i \in 1 .. n : b[i].xid \in Nat
    PROVE  /\ WellFormed(MarkAll(s, b))
           /\ \A x \in Nat : txVisible(MarkAll(s, b), x)
                                 <=> (txVisible(s, x) \/ \E j \in 1 .. n : b[j].xid = x)
<1> DEFINE Rec(f, m) == f = [i \in 0 .. m |-> IF i = 0 THEN s ELSE markComplete(f[i - 1], b[i].xid)]
           Shows(c, m) == /\ WellFormed(c)
                          /\ \A x \in Nat : txVisible(c, x)
                                                <=> (txVisible(s, x) \/ \E j \in 1 .. m : b[j].xid = x)
<1>1. \E f : Rec(f, n)
  <2> DEFINE Bad == {m \in 0 .. n : ~\E f : Rec(f, m)}
  <2> SUFFICES ASSUME Bad # {} PROVE FALSE
    BY DEF Bad
  <2>1. PICK k \in Bad : \A m \in Bad : k <= m
    <3>1. Bad \subseteq Nat
      BY DEF Bad
    <3> HIDE DEF Bad
    <3> QED BY <3>1, LeastProperties, Zenon
  <2>2. k # 0
    <3>1. PICK f : f = [i \in 0 .. 0 |-> s]
      BY Zenon
    <3>2. f = [i \in 0 .. 0 |-> IF i = 0 THEN s ELSE markComplete(f[i - 1], b[i].xid)]
      BY <3>1
    <3> QED BY <2>1, <3>2, Zenon DEF Bad
  <2>3. k \in Nat /\ k - 1 \in 0 .. n /\ k - 1 \notin Bad
    <3>1. k \in 0 .. n
      BY <2>1, Zenon DEF Bad
    <3> HIDE DEF Bad
    <3> QED BY <2>1, <2>2, <3>1
  <2>4. PICK f : Rec(f, k - 1)
    BY <2>3, Zenon DEF Bad
  <2>5. PICK g : g = [i \in 0 .. k |-> IF i < k THEN f[i] ELSE markComplete(f[k - 1], b[k].xid)]
    BY Zenon
  <2>6. ASSUME NEW i \in 0 .. k PROVE g[i] = IF i = 0 THEN s ELSE markComplete(g[i - 1], b[i].xid)
    BY <2>2, <2>3, <2>4, <2>5
  <2>7. Rec(g, k)
    <3>1. g = [i \in 0 .. k |-> g[i]]
      BY <2>5, Zenon
    <3> QED BY <2>6, <3>1, Zenon
  <2> QED BY <2>1, <2>7, Zenon DEF Bad
<1>2. ASSUME NEW f, Rec(f, n) PROVE Shows(f[n], n)
  <2> DEFINE Bad == {m \in 0 .. n : ~Shows(f[m], m)}
  <2> SUFFICES ASSUME Bad # {} PROVE FALSE
    BY DEF Bad
  <2>0. \A i \in 0 .. n : f[i] = IF i = 0 THEN s ELSE markComplete(f[i - 1], b[i].xid)
    BY <1>2, Zenon
  <2> HIDE DEF Rec
  <2>1. PICK k \in Bad : \A m \in Bad : k <= m
    <3>1. Bad \subseteq Nat
      BY DEF Bad
    <3> HIDE DEF Bad
    <3> QED BY <3>1, LeastProperties, Zenon
  <2>2. k \in 0 .. n /\ ~Shows(f[k], k)
    BY <2>1, Zenon DEF Bad
  <2>3. k # 0
    <3>1. f[0] = s
      BY <2>0
    <3> QED BY <2>2, <3>1
  <2>4. k \in Nat /\ k - 1 \in 0 .. n /\ k - 1 \notin Bad /\ k \in 1 .. n
    BY <2>1, <2>2, <2>3
  <2>5. f[k] = markComplete(f[k - 1], b[k].xid)
    <3>1. k \in 0 .. n
      BY <2>4, Zenon
    <3> QED BY <2>0, <2>3, <3>1, Zenon
  <2>6. Shows(f[k - 1], k - 1)
    BY <2>4, Zenon DEF Bad
  <2>7. /\ WellFormed(f[k])
        /\ \A x \in Nat : txVisible(f[k], x) <=> (txVisible(f[k - 1], x) \/ x = b[k].xid)
    <3>1. b[k].xid \in Nat /\ WellFormed(f[k - 1])
      BY <2>4, <2>6, Zenon
    <3>2. PICK c, y : c = f[k - 1] /\ y = b[k].xid
      BY Zenon
    <3>3. /\ WellFormed(markComplete(c, y))
          /\ \A x \in Nat : txVisible(markComplete(c, y), x) <=> (txVisible(c, x) \/ x = y)
      <4>1. y \in Nat /\ WellFormed(c)
        BY <3>1, <3>2, Zenon
      <4> QED BY <4>1, MarkCompleteAddsOne, Zenon
    <3> QED BY <2>5, <3>2, <3>3, Zenon
  <2>8. \A x : (\E j \in 1 .. k : b[j].xid = x) <=> ((\E j \in 1 .. (k - 1) : b[j].xid = x) \/ x = b[k].xid)
    BY <2>4
  <2> QED BY <2>2, <2>6, <2>7, <2>8, Zenon
<1>3. PICK f : Rec(f, n) /\ MarkAll(s, b) = f[n]
  <2>1. MarkAll(s, b) = (CHOOSE f : f = [i \in 0 .. Len(b) |->
                                           IF i = 0 THEN s ELSE markComplete(f[i - 1], b[i].xid)])[Len(b)]
    BY Zenon DEF MarkAll
  <2>2. Rec(CHOOSE f : Rec(f, n), n)
    BY <1>1, Zenon
  <2> QED BY <2>1, <2>2, Zenon
<1> HIDE DEF Rec, Shows
<1>4. Shows(MarkAll(s, b), n)
  BY <1>2, <1>3, Zenon
<1> QED BY <1>4, Zenon DEF Shows

\* The watcher's own steps leave the datastore alone.
LEMMA WatcherFrame ==
    ASSUME WatchInv, UNCHANGED dsVars
    PROVE  /\ Inv' /\ LogInv'
           /\ UNCHANGED <<rows, txTable, settled, commitLog>>
           /\ \A x : Changed(x)' <=> Changed(x)
<1>1. Inv /\ LogInv /\ KindOfStep
  BY Zenon DEF WatchInv, KindOfStep
<1>2. Inv'
  BY <1>1, InvStep, Zenon
<1>3. LogInv'
  BY <1>1, LogStep, Zenon
<1>4. UNCHANGED <<rows, txTable, settled, commitLog>>
  BY Zenon DEF dsVars, pgVars
<1> QED BY <1>2, <1>3, <1>4, Zenon DEF Changed, Touches, Deletes

\* No two transactions committed before each other.
LEMMA OrderIsStrict ==
    ASSUME LogInv, NEW t, NEW u, CommitOrder(t, u), CommitOrder(u, t)
    PROVE  FALSE
<1>1. PICK i, j \in DOMAIN commitLog : commitLog[i] = t.xid /\ commitLog[j] = u.xid /\ i < j
  BY Zenon DEF CommitOrder
<1>2. PICK m, n \in DOMAIN commitLog : commitLog[m] = u.xid /\ commitLog[n] = t.xid /\ m < n
  BY Zenon DEF CommitOrder
<1>3. i = n /\ j = m
  BY <1>1, <1>2, Zenon DEF LogInv
<1>4. i \in Nat /\ j \in Nat
  BY <1>1 DEF LogInv
<1> QED BY <1>1, <1>2, <1>3, <1>4

\* A poll: a transaction that one of the batch shows is shown already or was found too,
\* and committed before it.
LEMMA PollStep ==
    ASSUME WatchInv, getNewRevisions
    PROVE  WatchInv'
<1>1. /\ Inv' /\ LogInv' /\ UNCHANGED <<rows, txTable, settled, commitLog>>
      /\ \A x : Changed(x)' <=> Changed(x)
  BY WatcherFrame, Zenon DEF getNewRevisions
<1>2. /\ UNCHANGED <<after, cur, events, emitted, received>> /\ wpc' = "load"
      /\ newRevisions(cur) # {}
  BY Zenon DEF getNewRevisions
<1>3. Inv /\ LogInv /\ ShowsSettled(cur)
  BY Zenon DEF WatchInv
<1> DEFINE S == newRevisions(cur)
<1>4. S \subseteq txTable /\ Cardinality(S) \in Nat
  <2>1. S \subseteq txTable
    BY Zenon DEF newRevisions
  <2>2. IsFiniteSet(S)
    BY <1>3, <2>1, FS_Subset, Zenon DEF LogInv
  <2> QED BY <2>1, <2>2, FS_CardinalityType, Zenon
<1>5. /\ batch' \in [1 .. Cardinality(S) -> S]
      /\ \A t \in S : \E i \in DOMAIN batch' : batch'[i] = t
      /\ \A i, j \in DOMAIN batch' : i < j => CommitOrder(batch'[i], batch'[j])
  BY Zenon DEF getNewRevisions, InOrder
<1> HIDE DEF S
<1>6. batch' \in Seq(txTable) /\ \A i \in DOMAIN batch' : i \in Nat /\ i >= 1
  BY <1>4, <1>5
<1>7. batch' # <<>>
  <2>1. \E i \in DOMAIN batch' : TRUE
    BY <1>2, <1>5, Zenon DEF S
  <2> QED BY <2>1
<1>8. ASSUME NEW i \in DOMAIN batch', NEW t \in txTable, txVisible(Revision(batch'[i]), t.xid),
             ~txVisible(cur, t.xid)
      PROVE  \E j \in 1 .. i : batch'[j].xid = t.xid
  <2>1. PICK u \in txTable : u = batch'[i]
    BY <1>4, <1>5, Zenon
  <2>2. CASE t.xid = u.xid
    <3>1. i \in 1 .. i
      BY <1>6
    <3> QED BY <2>1, <2>2, <3>1, Zenon
  <2>3. CASE t.xid # u.xid
    <3>1. t.xid \in Nat
      BY <1>3, RevisionIs, Zenon
    <3>2. txVisible(u.snapshot, t.xid)
      BY <1>3, <1>8, <2>1, <2>3, <3>1, RevisionIs, Zenon
    <3>3. CommitOrder(t, u)
      BY <1>3, <3>2, Zenon DEF LogInv
    <3>4. t \in S
      <4>1. cur.xmin \in Nat /\ cur.xmax \in Nat
        BY <1>3, Zenon DEF ShowsSettled, WellFormed, Snapshot
      <4> QED BY <1>8, <3>1, <4>1 DEF S, newRevisions, txVisible
    <3>5. PICK j \in DOMAIN batch' : batch'[j] = t
      BY <1>5, <3>4, Zenon
    <3>6. ~(i < j)
      BY <1>3, <1>5, <2>1, <3>3, <3>5, OrderIsStrict, Zenon
    <3>7. j \in 1 .. i
      BY <1>6, <3>5, <3>6
    <3> QED BY <3>5, <3>7, Zenon
  <2> QED BY <2>2, <2>3, Zenon
<1>9. BatchInv'
  BY <1>1, <1>2, <1>6, <1>7, <1>8, Zenon DEF BatchInv, Revision
<1>10. EventsInv'
  <2>1. Event' = Event
    BY Zenon DEF Event, Xids
  <2> QED BY <1>2, <2>1, Zenon DEF WatchInv, EventsInv
<1>11. ShowsSettled(cur)' /\ ShowsSettled(received)' /\ Sent(cur)' /\ Sent(received)'
  BY <1>1, <1>2, Zenon DEF WatchInv, ShowsSettled, Sent
<1> QED BY <1>1, <1>9, <1>10, <1>11, Zenon DEF WatchInv

\* Loading: every transaction of the batch that changed something has its record, in the
\* order of the batch.
LEMMA LoadStep ==
    ASSUME WatchInv, loadChanges
    PROVE  WatchInv'
<1>1. /\ Inv' /\ LogInv' /\ UNCHANGED <<rows, txTable, settled, commitLog>>
      /\ \A x : Changed(x)' <=> Changed(x)
  BY WatcherFrame, Zenon DEF loadChanges
<1>2. UNCHANGED <<after, cur, batch, emitted, received>> /\ wpc = "load" /\ wpc' = "emit"
  BY Zenon DEF loadChanges
<1>3. Inv /\ batch \in Seq(txTable)
  BY Zenon DEF WatchInv, BatchInv
<1> DEFINE C == {i \in DOMAIN batch : Changed(batch[i].xid)}
<1>4. C \subseteq 1 .. Len(batch) /\ Cardinality(C) \in Nat
  <2>1. C \subseteq 1 .. Len(batch) /\ Len(batch) \in Nat
    BY <1>3
  <2> HIDE DEF C
  <2>2. IsFiniteSet(1 .. Len(batch))
    BY <2>1, FS_Interval
  <2> QED BY <2>1, <2>2, FS_Subset, FS_CardinalityType, Zenon
<1>5. PICK p : /\ p \in [1 .. Cardinality(C) -> C]
               /\ \A j \in C : \E k \in DOMAIN p : p[k] = j
               /\ \A k, n \in DOMAIN p : k < n => p[k] < p[n]
               /\ events' = [k \in DOMAIN p |-> ChangesOf(batch[p[k]])]
  BY Zenon DEF loadChanges, InOrder
<1>6. \A j \in 1 .. Len(batch) : Changed(batch[j].xid) => j \in C
  BY <1>3
<1>7. \A j \in C : batch[j] \in txTable
  BY <1>3
<1> HIDE DEF C
<1>8. DOMAIN p = 1 .. Cardinality(C) /\ DOMAIN events' = 1 .. Cardinality(C)
      /\ \A k \in DOMAIN p : p[k] \in C /\ k \in Nat /\ p[k] \in Nat
  <2>1. DOMAIN p = 1 .. Cardinality(C) /\ \A k \in DOMAIN p : p[k] \in C
    BY <1>5, Zenon
  <2>2. DOMAIN events' = 1 .. Cardinality(C)
    BY <1>5, <2>1, Zenon
  <2>3. \A j \in C : j \in Nat
    BY <1>4
  <2>4. \A k \in 1 .. Cardinality(C) : k \in Nat
    BY <1>4
  <2> QED BY <2>1, <2>2, <2>3, <2>4, Zenon
<1>9. ASSUME NEW k \in DOMAIN p
      PROVE  /\ events'[k] = ChangesOf(batch[p[k]])
             /\ events'[k].xid = batch[p[k]].xid /\ events'[k].rev = Revision(batch[p[k]])
  BY <1>5, <1>9, Zenon DEF ChangesOf
<1>10. events' \in Seq(Event)
  <2>1. ASSUME NEW t \in txTable PROVE ChangesOf(t) \in Event
    <3>1. t.xid \in Xids /\ Revision(t) \in Snapshot
      BY <1>3, RevisionIs, Zenon
    <3>2. \A r \in rows : r.val \in Vals
      BY <1>3, Zenon DEF Inv, TypeOK, Row
    <3>3. {<<r.key, r.val>> : r \in Touches(t.xid)} \in SUBSET (Keys \X Vals)
      BY <3>2 DEF Touches
    <3>4. {r.key : r \in Deletes(t.xid)} \in SUBSET Keys
      BY Zenon DEF Deletes
    <3> QED BY <3>1, <3>3, <3>4, Zenon DEF ChangesOf, Event
  <2>2. \A k \in 1 .. Cardinality(C) : events'[k] \in Event
    BY <1>7, <1>8, <1>9, <2>1, Zenon
  <2>3. events' = [k \in 1 .. Cardinality(C) |-> events'[k]]
    BY <1>5, <1>8, Zenon
  <2> QED BY <1>4, <2>2, <2>3
<1>11. Len(events') = Cardinality(C) /\ Cardinality(C) \in Nat
  BY <1>4, <1>8, <1>10
<1>12. ASSUME NEW i \in 1 .. Len(batch), NEW j \in 1 .. i, Changed(batch[j].xid)
       PROVE  \E k \in DOMAIN p : events'[k].xid = batch[j].xid /\ p[k] = j
  <2>1. j \in C
    <3>1. j \in 1 .. Len(batch)
      BY <1>3
    <3> QED BY <1>6, <1>12, <3>1, Zenon
  <2> QED BY <1>5, <1>9, <2>1, Zenon
<1>13. Queued(Len(batch), Len(events))'
  <2>1. \A j \in 1 .. Len(batch) : Changed(batch[j].xid) =>
           \E k \in 1 .. Len(events') : events'[k].xid = batch[j].xid
    <3>1. ASSUME NEW j \in 1 .. Len(batch), Changed(batch[j].xid)
          PROVE  \E k \in 1 .. Len(events') : events'[k].xid = batch[j].xid
      <4>1. Len(batch) \in 1 .. Len(batch)
        BY <1>3, <3>1
      <4> QED BY <1>8, <1>11, <1>12, <3>1, <4>1, Zenon
    <3> QED BY <3>1, Zenon
  <2> QED BY <1>1, <1>2, <2>1, Zenon DEF Queued
<1>14. ASSUME NEW k \in DOMAIN p PROVE Queued(p[k], k)'
  <2>1. ASSUME NEW j \in 1 .. p[k], Changed(batch[j].xid)
        PROVE  \E n \in 1 .. k : events'[n].xid = batch[j].xid
    <3>1. p[k] \in 1 .. Len(batch)
      BY <1>4, <1>8, Zenon
    <3>2. PICK n \in DOMAIN p : events'[n].xid = batch[j].xid /\ p[n] = j
      BY <1>12, <2>1, <3>1, Zenon
    <3>3. ~(k < n)
      BY <1>5, <1>8, <3>2
    <3>4. n \in 1 .. k
      BY <1>8, <3>3
    <3> QED BY <3>2, <3>4, Zenon
  <2> QED BY <1>1, <1>2, <2>1, Zenon DEF Queued
<1>15. EventsInv'
  <2>1. Event' = Event
    BY DEF Event, Xids
  <2>2. \A k \in DOMAIN events' : \E i \in DOMAIN batch' :
           /\ events'[k].xid = batch'[i].xid /\ events'[k].rev = Revision(batch'[i])
           /\ Queued(i, k)'
    <3>1. \A k \in DOMAIN p : p[k] \in DOMAIN batch
      BY <1>3, <1>4, <1>8
    <3> QED BY <1>2, <1>8, <1>9, <1>14, <3>1, Zenon
  <2> QED BY <1>2, <1>10, <1>13, <2>1, <2>2, Zenon DEF EventsInv, Revision
<1>16. BatchInv'
  <2>1. batch # <<>> /\ wpc' \in {"load", "emit"}
    BY <1>2, Zenon DEF WatchInv, BatchInv
  <2>2. batch' = batch /\ cur' = cur /\ txTable' = txTable
    BY <1>1, <1>2, Zenon
  <2>3. BatchInv
    BY Zenon DEF WatchInv
  <2> QED BY <2>1, <2>2, <2>3 DEF BatchInv, Revision
<1>17. ShowsSettled(cur)' /\ ShowsSettled(received)' /\ Sent(cur)' /\ Sent(received)'
  BY <1>1, <1>2, Zenon DEF WatchInv, ShowsSettled, Sent
<1> QED BY <1>1, <1>15, <1>16, <1>17, Zenon DEF WatchInv

\* Sending: the revision of a change is past nothing that was not sent before it.
LEMMA SendStep ==
    ASSUME WatchInv, sendChange
    PROVE  WatchInv'
<1>1. /\ Inv' /\ LogInv' /\ UNCHANGED <<rows, txTable, settled, commitLog>>
      /\ \A x : Changed(x)' <=> Changed(x)
  BY WatcherFrame, Zenon DEF sendChange
<1>2. /\ UNCHANGED <<wpc, after, cur, batch>> /\ wpc = "emit" /\ events # <<>>
      /\ emitted' = emitted \cup {Head(events).xid} /\ received' = Head(events).rev
      /\ events' = Tail(events)
  BY Zenon DEF sendChange
<1>3. Inv /\ batch \in Seq(txTable) /\ events \in Seq(Event)
  BY Zenon DEF WatchInv, BatchInv, EventsInv
<1>4. /\ Head(events) = events[1] /\ 1 \in DOMAIN events /\ Len(events) \in Nat
      /\ Tail(events) \in Seq(Event) /\ Len(Tail(events)) = Len(events) - 1
      /\ \A k \in DOMAIN Tail(events) : k + 1 \in DOMAIN events /\ Tail(events)[k] = events[k + 1]
      /\ \A k \in DOMAIN events : k \in Nat /\ k >= 1
      /\ \A k \in DOMAIN Tail(events) : k \in Nat /\ k >= 1
      /\ \A k \in 2 .. Len(events) : Tail(events)[k - 1] = events[k]
  BY <1>2, <1>3
<1>5. PICK i \in DOMAIN batch : /\ events[1].xid = batch[i].xid
                                /\ events[1].rev = Revision(batch[i]) /\ Queued(i, 1)
  BY <1>2, <1>4, Zenon DEF WatchInv, EventsInv
<1>6. PICK e : e = events[1]
  BY Zenon
<1>7. ShowsSettled(received)'
  <2>1. ShowsSettled(Revision(batch[i]))
    <3>1. batch[i] \in txTable
      BY <1>3
    <3> QED BY <1>3, <3>1, RevisionIs, Zenon
  <2> QED BY <1>1, <1>2, <1>4, <1>5, <2>1, Zenon DEF ShowsSettled
<1>8. ASSUME NEW t \in txTable, txVisible(received', t.xid), ~txVisible(after, t.xid), Changed(t.xid)
      PROVE  t.xid \in emitted'
  <2>1. txVisible(Revision(batch[i]), t.xid)
    BY <1>2, <1>4, <1>5, <1>8, Zenon
  <2>2. CASE txVisible(cur, t.xid)
    BY <1>2, <1>8, <2>2, Zenon DEF WatchInv, Sent
  <2>3. ASSUME NEW j \in 1 .. i, batch[j].xid = t.xid PROVE t.xid \in emitted'
    <3>1. batch[j].xid \in emitted \/ \E n \in 1 .. 1 : events[n].xid = batch[j].xid
      BY <1>5, <1>8, <2>3, Zenon DEF Queued
    <3>2. \A n \in 1 .. 1 : n = 1
      OBVIOUS
    <3> QED BY <1>2, <1>4, <2>3, <3>1, <3>2, Zenon
  <2> QED BY <2>1, <2>2, <2>3, Zenon DEF WatchInv, BatchInv
<1>9. Sent(received)' /\ Sent(cur)' /\ ShowsSettled(cur)'
  <2>1. Sent(received)'
    BY <1>1, <1>2, <1>8, Zenon DEF Sent
  <2>2. Sent(cur)' /\ ShowsSettled(cur)'
    BY <1>1, <1>2, Zenon DEF WatchInv, Sent, ShowsSettled
  <2> QED BY <2>1, <2>2, Zenon
<1>10. ASSUME NEW m, NEW k \in DOMAIN events, Queued(m, k) PROVE Queued(m, k - 1)'
  <2>1. ASSUME NEW j \in 1 .. m, Changed(batch[j].xid)
        PROVE  batch[j].xid \in emitted' \/ \E n \in 1 .. (k - 1) : events'[n].xid = batch[j].xid
    <3>1. CASE batch[j].xid \in emitted
      BY <1>2, <3>1, Zenon
    <3>2. ASSUME NEW n \in 1 .. k, events[n].xid = batch[j].xid
          PROVE  batch[j].xid \in emitted' \/ \E q \in 1 .. (k - 1) : events'[q].xid = batch[j].xid
      <4>1. CASE n = 1
        BY <1>2, <1>4, <3>2, <4>1, Zenon
      <4>2. CASE n # 1
        <5>1. n - 1 \in 1 .. (k - 1) /\ n \in 2 .. Len(events)
          BY <1>3, <1>4, <4>2
        <5>2. events'[n - 1].xid = batch[j].xid
          BY <1>2, <1>4, <3>2, <5>1, Zenon
        <5> QED BY <5>1, <5>2, Zenon
      <4> QED BY <4>1, <4>2, Zenon
    <3> QED BY <1>10, <2>1, <3>1, <3>2, Zenon DEF Queued
  <2> QED BY <1>1, <1>2, <2>1, Zenon DEF Queued
<1>11. EventsInv'
  <2>1. Event' = Event
    BY Zenon DEF Event, Xids
  <2>2. Queued(Len(batch), Len(events))'
    <3>1. PICK m, k : m = Len(batch) /\ k = Len(events)
      BY Zenon
    <3>2. k \in DOMAIN events
      BY <1>2, <1>3, <3>1
    <3>3. Queued(m, k - 1)'
      BY <1>2, <1>10, <3>1, <3>2, Zenon DEF WatchInv, EventsInv
    <3>4. k - 1 = Len(events')
      BY <1>2, <1>4, <3>1, Zenon
    <3> QED BY <1>2, <3>1, <3>3, <3>4, Zenon DEF Queued
  <2>3. ASSUME NEW k \in DOMAIN events'
        PROVE  \E j \in DOMAIN batch' :
                  /\ events'[k].xid = batch'[j].xid /\ events'[k].rev = Revision(batch'[j])
                  /\ Queued(j, k)'
    <3>1. k + 1 \in DOMAIN events /\ events'[k] = events[k + 1] /\ (k + 1) - 1 = k
      <4>1. k \in Nat
        BY <1>2, <1>4, Zenon
      <4>2. (k + 1) - 1 = k
        BY <4>1
      <4> QED BY <1>2, <1>4, <4>2, Zenon
    <3>2. PICK j \in DOMAIN batch : /\ events[k + 1].xid = batch[j].xid
                                    /\ events[k + 1].rev = Revision(batch[j]) /\ Queued(j, k + 1)
      BY <1>2, <3>1, Zenon DEF WatchInv, EventsInv
    <3>3. PICK n : n = k + 1
      BY Zenon
    <3>4. Queued(j, n - 1)'
      BY <1>10, <3>1, <3>2, <3>3, Zenon
    <3>5. Queued(j, k)'
      BY <3>1, <3>3, <3>4, Zenon
    <3> QED BY <1>2, <3>1, <3>2, <3>5, Zenon
  <2> QED BY <1>2, <1>4, <2>1, <2>2, <2>3, Zenon DEF EventsInv, Revision
<1>12. BatchInv'
  <2>1. batch' = batch /\ cur' = cur /\ txTable' = txTable /\ wpc' = wpc
    BY <1>1, <1>2, Zenon
  <2>2. BatchInv
    BY Zenon DEF WatchInv
  <2> QED BY <2>1, <2>2 DEF BatchInv, Revision
<1> QED BY <1>1, <1>7, <1>9, <1>11, <1>12, Zenon DEF WatchInv

\* The checkpoint: the next current revision shows what the last of the batch shows
\* and the batch, all of which has been sent.
LEMMA AdvanceStep ==
    ASSUME WatchInv, Advance
    PROVE  WatchInv'
<1>1. /\ Inv' /\ LogInv' /\ UNCHANGED <<rows, txTable, settled, commitLog>>
      /\ \A x : Changed(x)' <=> Changed(x)
  BY WatcherFrame, Zenon DEF Advance
<1>2. /\ UNCHANGED <<after, events, emitted>> /\ wpc = "emit" /\ events = <<>>
      /\ cur' = MarkAll(Revision(batch[Len(batch)]), batch) /\ received' = cur'
      /\ batch' = <<>> /\ wpc' = "poll"
  BY Zenon DEF Advance, AdvancedRevision
<1>3. Inv /\ batch \in Seq(txTable) /\ events \in Seq(Event)
  BY Zenon DEF WatchInv, BatchInv, EventsInv
<1>4. PICK n : n = Len(batch)
  BY Zenon
<1>5. n \in Nat /\ DOMAIN batch = 1 .. n /\ n \in DOMAIN batch
      /\ (\A j \in 1 .. n : batch[j] \in txTable)
  <2>1. batch # <<>>
    BY <1>2, Zenon DEF WatchInv, BatchInv
  <2> QED BY <1>3, <1>4, <2>1
<1>6. PICK s : s = Revision(batch[n])
  BY Zenon
<1>7. ShowsSettled(s) /\ WellFormed(s)
  BY <1>3, <1>5, <1>6, RevisionIs, Zenon DEF ShowsSettled
<1>8. \A j \in 1 .. n : batch[j].xid \in Nat /\ batch[j].xid \in settled
  BY <1>3, <1>5, RevisionIs, Zenon
<1>9. cur' = MarkAll(s, batch)
  BY <1>2, <1>4, <1>6, Zenon
<1>10. /\ WellFormed(cur')
       /\ \A x \in Nat : txVisible(cur', x)
                             <=> (txVisible(s, x) \/ \E j \in 1 .. n : batch[j].xid = x)
  <2>1. PICK b : b = batch
    BY Zenon
  <2>2. /\ WellFormed(MarkAll(s, b))
        /\ \A x \in Nat : txVisible(MarkAll(s, b), x)
                              <=> (txVisible(s, x) \/ \E j \in 1 .. n : b[j].xid = x)
    <3>1. Len(b) = n
      BY <1>4, <2>1, Zenon
    <3>2. \A j \in 1 .. n : b[j].xid \in Nat
      BY <1>8, <2>1, Zenon
    <3>3. n \in Nat /\ WellFormed(s)
      BY <1>5, <1>7, Zenon
    <3>4. WellFormed(MarkAll(s, b))
      BY <3>1, <3>2, <3>3, MarkAllIs, Zenon
    <3>5. ASSUME NEW x \in Nat
          PROVE  txVisible(MarkAll(s, b), x) <=> (txVisible(s, x) \/ \E j \in 1 .. n : b[j].xid = x)
      <4>1. CASE txVisible(s, x)
        BY <3>1, <3>2, <3>3, <3>5, <4>1, MarkAllIs, Zenon
      <4>2. ASSUME NEW j \in 1 .. n, b[j].xid = x PROVE txVisible(MarkAll(s, b), x)
        BY <3>1, <3>2, <3>3, <3>5, <4>2, MarkAllIs, Zenon
      <4>3. ASSUME txVisible(MarkAll(s, b), x), ~txVisible(s, x)
            PROVE  \E j \in 1 .. n : b[j].xid = x
        BY <3>1, <3>2, <3>3, <3>5, <4>3, MarkAllIs, SMT
      <4> QED BY <4>1, <4>2, <4>3, Zenon
    <3> QED BY <3>4, <3>5, Zenon
  <2> QED BY <1>9, <2>1, <2>2, Zenon
<1>11. ShowsSettled(cur)' /\ ShowsSettled(received)'
  <2>1. PICK c : c = cur'
    BY Zenon
  <2>2. ShowsSettled(c)
    <3>1. \A x \in Nat : txVisible(c, x) => x \in settled
      <4>1. \A x \in Nat : txVisible(s, x) => x \in settled
        BY <1>7, VisibleIsPointwise, Zenon DEF ShowsSettled
      <4> QED BY <1>8, <1>10, <2>1, <4>1, Zenon
    <3>2. Visible(c) \subseteq settled
      BY <1>10, <2>1, <3>1, VisibleIsPointwise, Zenon
    <3> QED BY <1>10, <2>1, <3>2, Zenon DEF ShowsSettled
  <2> QED BY <1>1, <1>2, <2>1, <2>2, Zenon DEF ShowsSettled
<1>12. ASSUME NEW t \in txTable, txVisible(cur', t.xid), ~txVisible(after, t.xid), Changed(t.xid)
       PROVE  t.xid \in emitted
  <2>1. t.xid \in Nat
    BY <1>3, RevisionIs, Zenon
  <2>2. ASSUME NEW j \in 1 .. n, batch[j].xid = t.xid PROVE t.xid \in emitted
    <3>1. batch[j].xid \in emitted \/ \E k \in 1 .. Len(events) : events[k].xid = batch[j].xid
      BY <1>2, <1>4, <1>12, <2>2, Zenon DEF WatchInv, EventsInv, Queued
    <3>2. 1 .. Len(events) = {}
      BY <1>2
    <3> QED BY <2>2, <3>1, <3>2, Zenon
  <2>3. CASE txVisible(cur, t.xid)
    BY <1>12, <2>3, Zenon DEF WatchInv, Sent
  <2>4. CASE txVisible(s, t.xid)
    BY <1>5, <1>6, <2>2, <2>3, <2>4, Zenon DEF WatchInv, BatchInv
  <2> QED BY <1>10, <1>12, <2>1, <2>2, <2>4, Zenon
<1>13. Sent(cur)' /\ Sent(received)'
  BY <1>1, <1>2, <1>12, Zenon DEF Sent
<1>14. BatchInv'
  BY <1>2 DEF BatchInv
<1>15. EventsInv'
  BY <1>2 DEF EventsInv
<1> QED BY <1>1, <1>11, <1>13, <1>14, <1>15, Zenon DEF WatchInv

\* A broken stream forgets its batch; the next goes on from what was received.
LEMMA ReconnectStep ==
    ASSUME WatchInv, Disconnect \/ Resume
    PROVE  WatchInv'
<1>1. /\ Inv' /\ LogInv' /\ UNCHANGED <<rows, txTable, settled, commitLog>>
      /\ \A x : Changed(x)' <=> Changed(x)
  BY WatcherFrame, Zenon DEF Disconnect, Resume
<1>2. UNCHANGED <<after, emitted, received>> /\ (cur' = cur \/ cur' = received)
  BY Zenon DEF Disconnect, Resume
<1>3. ShowsSettled(cur)' /\ ShowsSettled(received)' /\ Sent(cur)' /\ Sent(received)'
  BY <1>1, <1>2, Zenon DEF WatchInv, ShowsSettled, Sent
<1>4. batch' = <<>> /\ wpc' \in {"closed", "poll"}
  BY Zenon DEF WatchInv, BatchInv, Disconnect, Resume
<1>5. BatchInv'
  BY <1>4 DEF BatchInv
<1>6. EventsInv'
  <2>1. Event' = Event
    BY Zenon DEF Event, Xids
  <2>2. events' \in Seq(Event)
    <3>1. events \in Seq(Event) /\ <<>> \in Seq(Event)
      BY DEF WatchInv, EventsInv
    <3>2. events' = events \/ events' = <<>>
      BY Zenon DEF Disconnect, Resume
    <3> QED BY <3>1, <3>2, Zenon
  <2> QED BY <1>4, <2>1, <2>2, Zenon DEF EventsInv
<1> QED BY <1>1, <1>3, <1>5, <1>6, Zenon DEF WatchInv

\* The invariant holds when the watch begins: at a revision of the moment.
LEMMA WatchInitInv ==
    ASSUME WatchInit
    PROVE  WatchInv
<1>1. Inv
  BY InitInv, Zenon DEF WatchInit
<1>2. /\ cur = CurrentSnapshot /\ received = cur /\ after = cur
      /\ batch = <<>> /\ events = <<>> /\ wpc = "poll"
  BY Zenon DEF WatchInit
<1>3. ShowsSettled(cur) /\ ShowsSettled(received)
  BY <1>1, <1>2, CurrentSnapshotIsSettled, Zenon DEF Inv
<1>4. Sent(cur) /\ Sent(received)
  BY <1>2, Zenon DEF Sent
<1>5. BatchInv /\ EventsInv
  BY <1>2 DEF BatchInv, EventsInv
<1>6. LogInv
  <2>1. PICK t : t.xid = 1 /\ txTable = {t} /\ t.snapshot = [xmin |-> 1, xmax |-> 1, xip |-> {}]
    <3> DEFINE u == [xid |-> 1, ts |-> 0, commitTs |-> 0,
                     snapshot |-> [xmin |-> 1, xmax |-> 1, xip |-> {}]]
    <3>1. txTable = {u}
      BY Zenon DEF WatchInit, Init
    <3>2. u.xid = 1 /\ u.snapshot = [xmin |-> 1, xmax |-> 1, xip |-> {}]
      OBVIOUS
    <3> HIDE DEF u
    <3> QED BY <3>1, <3>2, Zenon
  <2>2. IsFiniteSet(txTable)
    BY <2>1, FS_Singleton, Zenon
  <2>3. commitLog = <<1>> /\ 1 \in settled
    BY Zenon DEF WatchInit, Init
  <2>4. 1 \in Xids
    BY PgAssumption DEF Xids
  <2>5. ~txVisible(t.snapshot, t.xid)
    BY <2>1 DEF txVisible
  <2>6. commitLog \in Seq(Xids) /\ DOMAIN commitLog = {1} /\ commitLog[1] = 1
    BY <2>3, <2>4
  <2> QED BY <2>1, <2>2, <2>3, <2>5, <2>6, Zenon DEF LogInv
<1> QED BY <1>1, <1>3, <1>4, <1>5, <1>6, Zenon DEF WatchInv

\* The inductive invariant of the watcher holds in every reachable state.
THEOREM WatchInvariant == WatchSpec => []WatchInv
<1>1. WatchInit => WatchInv
  BY WatchInitInv, Zenon
<1>2. WatchInv /\ [WatchNext]_vars => WatchInv'
  <2> SUFFICES ASSUME WatchInv, [WatchNext]_vars PROVE WatchInv'
    OBVIOUS
  <2>1. CASE (DatastoreNext \/ UNCHANGED dsVars) /\ UNCHANGED watchVars
    BY <2>1, BesideDatastore, Zenon
  <2>2. CASE WatchStep
    BY <2>2, PollStep, LoadStep, SendStep, AdvanceStep, Zenon DEF WatchStep
  <2>3. CASE Disconnect \/ Resume
    BY <2>3, ReconnectStep, Zenon
  <2>4. CASE UNCHANGED vars
    BY <2>1, <2>4, Zenon DEF vars
  <2> QED BY <2>1, <2>2, <2>3, <2>4, Zenon DEF WatchNext
<1> QED BY <1>1, <1>2, PTL DEF WatchSpec

\* No change is skipped (watch.go, "All events following afterRevision will be sent to
\* the caller"): for every number of writers, transactions and broken streams, a change
\* that the watcher's revision shows was sent before the revision moved past it.
THEOREM ChangesAreNotSkipped == WatchSpec => []NoChangeIsSkipped
<1>1. WatchInv => NoChangeIsSkipped
  BY Zenon DEF WatchInv, Sent, NoChangeIsSkipped
<1> QED BY <1>1, WatchInvariant, PTL

=============================================================================
