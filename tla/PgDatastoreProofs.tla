------------------------ MODULE PgDatastoreProofs ------------------------
(***************************************************************************)
(* The theorems about PgDatastore, for every number of writers,            *)
(* relationships, transactions, retries and ticks: the effect of the steps *)
(* on rows and on what snapshots show, the inductive invariant, from the   *)
(* lemmas of PgDatastoreSteps, the properties it implies, the lag of the   *)
(* optimized revision and the refinement of RevisionedStore.               *)
(***************************************************************************)
EXTENDS PgDatastoreSteps, PgStore

\* What EndTx leaves: the call's own changes are gone, the others' stay.
LEMMA EndTxShape ==
    ASSUME Inv, NEW w \in Writers, NEW outcome \in {"idle", "done", "failed"},
           EndTx(w, outcome)
    PROVE  /\ ins'[w] = {} /\ del'[w] = {} /\ lock'[w] = "none" /\ pre'[w] = NoHash
           /\ pc'[w] = outcome
           /\ \A o \in Writers \ {w} :
                 /\ ins'[o] = ins[o] /\ del'[o] = del[o] /\ lock'[o] = lock[o]
                 /\ pre'[o] = pre[o] /\ pc'[o] = pc[o] /\ xid'[o] = xid[o]
                 /\ snapshot'[o] = snapshot[o]
BY Zenon DEF Inv, TypeOK, EndTx

\* Rows: a commit stamps only rows no other open transaction has changed.
LEMMA RowsStep ==
    ASSUME Inv, KindOfStep
    PROVE  RowsInv'
<1> USE PgAssumption
<1>1. TypeOK /\ IdsInv /\ RowsInv /\ settled \subseteq settled'
  BY SettledGrows, Zenon DEF Inv
<1>2. /\ \A w \in Writers : ins[w] \subseteq Row /\ del[w] \subseteq Row
      /\ \A r \in Row : r.key \in AllKeys
  BY <1>1, Zenon DEF TypeOK, Row
\* Steps that change no row and no pending change.
<1>3. ASSUME UNCHANGED <<rows, ins, del>>,
             \A w \in Open : w \in Open' /\ xid'[w] = xid[w]
      PROVE  RowsInv'
  BY <1>1, <1>2, <1>3 DEF RowsInv, LivingObjects, Pending, Open
\* Steps that end a call without committing it.
<1>4. ASSUME NEW w \in Writers, NEW outcome \in {"idle", "done", "failed"},
             EndTx(w, outcome), rows' = rows
      PROVE  RowsInv'
  <2>1. /\ ins'[w] = {} /\ del'[w] = {} /\ pc'[w] = outcome
        /\ \A o \in Writers \ {w} : ins'[o] = ins[o] /\ del'[o] = del[o]
                                    /\ pc'[o] = pc[o] /\ xid'[o] = xid[o]
    BY <1>4, EndTxShape
  <2>2. LivingObjects(rows)' = LivingObjects(rows)
    BY <1>4, Zenon DEF LivingObjects
  <2>3. \A o \in Writers \ Open' : ins'[o] = {} /\ del'[o] = {}
    BY <1>1, <2>1, Zenon DEF RowsInv, Open
  <2>4. \A o \in Writers : del'[o] \subseteq LivingObjects(rows)'
    BY <1>1, <2>1, <2>2, Zenon DEF RowsInv
  <2>5. \A o \in Writers : \A r \in ins'[o] : r.created = xid'[o] /\ r.deleted = Live
    BY <1>1, <2>1, Zenon DEF RowsInv
  <2>6. \A o, q \in Writers, k \in AllKeys : Pending(o, k)' /\ Pending(q, k)' => o = q
    BY <1>1, <2>1 DEF RowsInv, Pending
  <2> QED BY <1>1, <1>4, <2>3, <2>4, <2>5, <2>6, Zenon DEF RowsInv
<1>5. CASE \E w \in Writers : BeginTx(w) \/ TakeSnapshot(w)
  BY <1>1, <1>3, <1>5, Zenon DEF TypeOK, BeginTx, TakeSnapshot, pgVars, Open
<1>6. CASE \E w \in Writers : AssignXid(w)
  BY <1>1, <1>3, <1>6 DEF TypeOK, AssignXid, Open
<1>7. ASSUME NEW w \in Writers, NEW k, NEW D, NEW I, GoodWrite(w, k, D, I) PROVE RowsInv'
  <2>1. PICK v \in Vals : I \subseteq {NewRow(w, k, v)}
    BY <1>7, Zenon DEF GoodWrite
  <2>2. /\ pc[w] = "open" /\ w \in Open /\ k \in AllKeys
        /\ ~Pending(w, k) /\ \A o \in Writers \ {w} : ~Pending(o, k)
        /\ D \subseteq LivingObjects(rows) /\ \A r \in D : r.key = k
        /\ UNCHANGED <<rows, settled, pc, xid>>
    BY <1>7, Zenon DEF GoodWrite, Write, Waits, pgVars, Open
  <2>3. /\ ins'[w] = ins[w] \cup I /\ del'[w] = del[w] \cup D
        /\ \A o \in Writers \ {w} : ins'[o] = ins[o] /\ del'[o] = del[o]
    BY <1>1, <1>7, Zenon DEF TypeOK, GoodWrite, Write
  <2>4. \A r \in I : r.key = k /\ r.created = xid[w] /\ r.deleted = Live
    BY <2>1 DEF NewRow
  <2>5. \A j : Pending(w, j)' => Pending(w, j) \/ j = k
    BY <2>2, <2>3, <2>4, Zenon DEF Pending
  <2>6. \A o \in Writers \ {w} : \A j : Pending(o, j)' => Pending(o, j)
    BY <2>3, Zenon DEF Pending
  <2>7. \A o, q \in Writers, j \in AllKeys : Pending(o, j)' /\ Pending(q, j)' => o = q
    BY <1>1, <2>2, <2>5, <2>6 DEF RowsInv
  <2>8. \A o \in Writers : del'[o] \subseteq LivingObjects(rows)'
    BY <1>1, <2>2, <2>3, Zenon DEF RowsInv, LivingObjects
  <2>9. \A o \in Writers : \A r \in ins'[o] : r.created = xid'[o] /\ r.deleted = Live
    BY <1>1, <2>2, <2>3, <2>4 DEF RowsInv
  <2>10. \A o \in Writers \ Open' : ins'[o] = {} /\ del'[o] = {}
    BY <1>1, <2>2, <2>3, Zenon DEF RowsInv, Open
  <2> QED BY <1>1, <2>2, <2>7, <2>8, <2>9, <2>10, Zenon DEF RowsInv
<1>8. CASE \E w \in Writers, mode \in {"share", "exclusive"} : assertSchemaHash(w, mode)
  BY <1>3, <1>8, Zenon DEF assertSchemaHash, pgVars, Open
<1>9. ASSUME NEW w \in Writers, CommitStep(w) PROVE RowsInv'
  <2>1. PICK outcome \in {"done", "failed"} : EndTx(w, outcome)
    BY <1>9, Zenon DEF CommitStep
  <2>2. /\ ins'[w] = {} /\ del'[w] = {} /\ pc'[w] = outcome
        /\ \A o \in Writers \ {w} : ins'[o] = ins[o] /\ del'[o] = del[o]
                                    /\ pc'[o] = pc[o] /\ xid'[o] = xid[o]
    BY <2>1, EndTxShape, Zenon
  <2>3. /\ settled' = settled \cup {xid[w]}
        /\ rows' = (rows \ del[w])
                       \cup {[r EXCEPT !.deleted = xid[w]] : r \in del[w]} \cup ins[w]
    BY <1>9, Zenon DEF CommitStep, CommitRows, Settle
  <2>4. \A r \in del[w] : /\ r \in Row /\ r \in rows
                          /\ [r EXCEPT !.deleted = xid[w]].created = r.created
                          /\ [r EXCEPT !.deleted = xid[w]].deleted = xid[w]
    BY <1>1, <1>2 DEF RowsInv, LivingObjects, Row
  <2>5. \A r \in ins[w] : r.created = xid[w] /\ r.deleted = Live
    BY <1>1, Zenon DEF RowsInv
  <2>6. \A r \in rows' : r.created \in settled' /\ r.deleted \in settled' \cup {Live}
    <3>1. \A r \in rows : r.created \in settled' /\ r.deleted \in settled' \cup {Live}
      BY <1>1, Zenon DEF RowsInv
    <3>2. \A r \in ins[w] : r.created \in settled' /\ r.deleted \in settled' \cup {Live}
      BY <2>3, <2>5, Zenon
    <3>3. xid[w] \in settled'
      BY <2>3, Zenon
    <3>4. ASSUME NEW q \in del[w]
          PROVE  /\ [q EXCEPT !.deleted = xid[w]].created \in settled'
                 /\ [q EXCEPT !.deleted = xid[w]].deleted \in settled' \cup {Live}
      BY <2>4, <3>1, <3>3, Zenon
    <3> QED BY <2>3, <3>1, <3>2, <3>4, Zenon
  <2>7. \A o \in Writers \ {w} : del[o] \cap del[w] = {}
    <3>1. SUFFICES ASSUME NEW o \in Writers, NEW r \in del[o], r \in del[w]
                   PROVE  o = w
      OBVIOUS
    <3>2. r.key \in AllKeys /\ Pending(o, r.key) /\ Pending(w, r.key)
      BY <1>2, <3>1, Zenon DEF Pending
    <3> QED BY <1>1, <3>2, Zenon DEF RowsInv
  <2>8. \A o \in Writers : del'[o] \subseteq LivingObjects(rows)'
    BY <1>1, <2>2, <2>3, <2>7, Zenon DEF RowsInv, LivingObjects
  <2>9. \A o \in Writers \ Open' : ins'[o] = {} /\ del'[o] = {}
    BY <1>1, <2>2, Zenon DEF RowsInv, Open
  <2>10. \A o \in Writers : \A r \in ins'[o] : r.created = xid'[o] /\ r.deleted = Live
    BY <1>1, <2>2, Zenon DEF RowsInv
  <2>11. \A o, q \in Writers, k \in AllKeys : Pending(o, k)' /\ Pending(q, k)' => o = q
    BY <1>1, <2>2 DEF RowsInv, Pending
  <2> QED BY <2>6, <2>8, <2>9, <2>10, <2>11, Zenon DEF RowsInv
<1>10. CASE \E w \in Writers : RollbackStep(w)
  BY <1>4, <1>10, Zenon DEF RollbackStep, Rollback
<1>11. CASE \E w \in Writers : EarlyError(w)
  BY <1>4, <1>11, Zenon DEF EarlyError, pgVars
<1>12. CASE ReadStep \/ Tick \/ UNCHANGED dsVars
  BY <1>3, <1>12, Zenon DEF ReadStep, Tick, dsVars, pgVars, txVars, Open
<1>13. CASE Heartbeat
  BY <1>3, <1>13, Zenon DEF Heartbeat, txVars, Open
<1> QED
  BY <1>5, <1>6, <1>7, <1>8, <1>9, <1>10, <1>11, <1>12, <1>13, Zenon DEF KindOfStep, CallStep

\* The living rows after a commit.
LEMMA LivingAfterCommit ==
    ASSUME Inv, NEW w \in Writers, CommitStep(w)
    PROVE  LivingObjects(rows)' = (LivingObjects(rows) \ del[w]) \cup ins[w]
<1>1. rows' = (rows \ del[w]) \cup {[r EXCEPT !.deleted = xid[w]] : r \in del[w]} \cup ins[w]
  BY Zenon DEF CommitStep, CommitRows
<1>2. \A r \in del[w] : r \in Row /\ r \in rows
  BY Zenon DEF Inv, TypeOK, RowsInv, LivingObjects
<1>3. xid[w] # Live
  BY PgAssumption DEF Inv, TypeOK, Xids, Live
<1>4. \A r \in del[w] : [r EXCEPT !.deleted = xid[w]].deleted # Live
  BY <1>2, <1>3, Zenon DEF Row
<1>5. \A r \in ins[w] : r.deleted = Live
  BY Zenon DEF Inv, RowsInv
<1> QED BY <1>1, <1>4, <1>5, Zenon DEF LivingObjects

\* A commit changes nothing a snapshot in use shows.
LEMMA CommitKeepsContent ==
    ASSUME Inv, NEW w \in Writers, CommitStep(w), NEW s, ShowsSettled(s)
    PROVE  Content(rows', s) = Content(rows, s)
<1> DEFINE upd(r) == [r EXCEPT !.deleted = xid[w]]
<1>1. rows' = (rows \ del[w]) \cup {upd(r) : r \in del[w]} \cup ins[w]
  BY Zenon DEF CommitStep, CommitRows
<1>2. \A x \in Nat : txVisible(s, x) => x \in settled
  BY VisibleIsPointwise, Zenon DEF ShowsSettled
<1>3. xid[w] \in Nat /\ ~txVisible(s, xid[w])
  BY <1>2 DEF Inv, TypeOK, Xids, IdsInv, Open, CommitStep
<1>4. Live \in Nat /\ ~txVisible(s, Live)
  BY <1>2, PgAssumption DEF Inv, TypeOK, Xids, Live
<1>5. ASSUME NEW r \in del[w]
      PROVE  /\ r \in rows /\ r.deleted = Live
             /\ upd(r).key = r.key /\ upd(r).val = r.val
             /\ upd(r).created = r.created /\ upd(r).deleted = xid[w]
  BY DEF Inv, TypeOK, RowsInv, LivingObjects, Row
<1>6. \A r \in ins[w] : ~txVisible(s, r.created)
  BY <1>3, Zenon DEF Inv, RowsInv
<1> HIDE DEF upd
<1>7. ASSUME NEW r \in AliveAt(rows, s)
      PROVE  \E q \in AliveAt(rows', s) : q.key = r.key /\ q.val = r.val
  <2>1. CASE r \in del[w]
    <3>1. upd(r) \in rows'
      BY <1>1, <2>1, Zenon
    <3> QED BY <1>3, <1>5, <1>7, <2>1, <3>1, Zenon DEF AliveAt
  <2>2. CASE r \notin del[w]
    BY <1>1, <1>7, <2>2, Zenon DEF AliveAt
  <2> QED BY <2>1, <2>2, Zenon
<1>8. ASSUME NEW q \in AliveAt(rows', s)
      PROVE  \E r \in AliveAt(rows, s) : q.key = r.key /\ q.val = r.val
  <2>1. CASE q \in rows
    BY <1>8, <2>1, Zenon DEF AliveAt
  <2>2. CASE q \in ins[w]
    BY <1>6, <1>8, <2>2, Zenon DEF AliveAt
  <2>3. CASE q \in {upd(r) : r \in del[w]}
    <3>1. PICK r \in del[w] : q = upd(r)
      BY <2>3, Zenon
    <3>2. r \in AliveAt(rows, s)
      BY <1>4, <1>5, <1>8, <3>1, Zenon DEF AliveAt
    <3> QED BY <1>5, <3>1, <3>2, Zenon
  <2> QED BY <1>1, <1>8, <2>1, <2>2, <2>3, Zenon DEF AliveAt
<1> QED BY <1>7, <1>8 DEF Content

\* No step changes what a snapshot in use shows.
LEMMA ContentStays ==
    ASSUME Inv, KindOfStep, NEW s, ShowsSettled(s)
    PROVE  Content(rows', s) = Content(rows, s)
<1>1. CASE rows' = rows
  BY <1>1, Zenon
<1>2. CASE \E w \in Writers : CommitStep(w)
  BY <1>2, CommitKeepsContent, Zenon
<1>3. rows' = rows \/ \E w \in Writers : CommitStep(w)
  <2>1. ASSUME NEW w \in Writers, CallStep(w), ~CommitStep(w) PROVE rows' = rows
    <3>1. ASSUME NEW k, NEW D, NEW I, GoodWrite(w, k, D, I) PROVE rows' = rows
      BY <3>1, Zenon DEF GoodWrite, Write, pgVars
    <3>2. ASSUME NEW mode, assertSchemaHash(w, mode) PROVE rows' = rows
      BY <3>2, Zenon DEF assertSchemaHash, pgVars
    <3>3. BeginTx(w) \/ TakeSnapshot(w) \/ AssignXid(w) => rows' = rows
      BY Zenon DEF BeginTx, TakeSnapshot, AssignXid, pgVars
    <3>4. RollbackStep(w) \/ EarlyError(w) => rows' = rows
      BY Zenon DEF RollbackStep, Rollback, EarlyError, pgVars
    <3> QED BY <2>1, <3>1, <3>2, <3>3, <3>4, Zenon DEF CallStep
  <2>2. ReadStep \/ Heartbeat \/ Tick \/ UNCHANGED dsVars => rows' = rows
    BY Zenon DEF ReadStep, Heartbeat, Tick, dsVars, pgVars
  <2> QED BY <2>1, <2>2, Zenon DEF KindOfStep
<1> QED BY <1>1, <1>2, <1>3, Zenon

\* Living rows: one per key, and an insertion replaces all of its key.
LEMMA ReplacesStep ==
    ASSUME Inv, KindOfStep
    PROVE  ReplacesInv'
<1>1. TypeOK /\ RowsInv /\ ReplacesInv
  BY Zenon DEF Inv
<1>2. \A w \in Writers : \A r \in ins[w] \cup del[w] : r.key \in AllKeys /\ Pending(w, r.key)
  BY <1>1 DEF TypeOK, Row, Pending
<1>3. ASSUME UNCHANGED <<rows, ins, del>> PROVE ReplacesInv'
  BY <1>1, <1>3, Zenon DEF ReplacesInv, OneLivingRow, LivingObjects
<1>4. ASSUME NEW w \in Writers, NEW outcome \in {"idle", "done", "failed"},
             EndTx(w, outcome), rows' = rows
      PROVE  ReplacesInv'
  <2>1. /\ ins'[w] = {} /\ del'[w] = {}
        /\ \A o \in Writers \ {w} : ins'[o] = ins[o] /\ del'[o] = del[o]
    BY <1>4, EndTxShape, Zenon
  <2>2. LivingObjects(rows)' = LivingObjects(rows)
    BY <1>4, Zenon DEF LivingObjects
  <2> QED BY <1>1, <2>1, <2>2, Zenon DEF ReplacesInv, OneLivingRow
<1>5. CASE \E w \in Writers : BeginTx(w) \/ TakeSnapshot(w) \/ AssignXid(w)
  BY <1>3, <1>5, Zenon DEF BeginTx, TakeSnapshot, AssignXid, pgVars
<1>6. ASSUME NEW w \in Writers, NEW k, NEW D, NEW I, GoodWrite(w, k, D, I)
      PROVE  ReplacesInv'
  <2>1. PICK v \in Vals : I \subseteq {NewRow(w, k, v)}
    BY <1>6, Zenon DEF GoodWrite
  <2>2. /\ ~Pending(w, k) /\ rows' = rows
        /\ I # {} => \A r \in LivingObjects(rows) : r.key = k => r \in D
    BY <1>6, Zenon DEF GoodWrite, Write, pgVars
  <2>7. \A q \in I : q = NewRow(w, k, v) /\ q.key = k
    BY <2>1 DEF NewRow
  <2>3. /\ ins'[w] = ins[w] \cup I /\ del'[w] = del[w] \cup D
        /\ \A o \in Writers \ {w} : ins'[o] = ins[o] /\ del'[o] = del[o]
    BY <1>1, <1>6, Zenon DEF TypeOK, GoodWrite, Write
  <2>4. LivingObjects(rows)' = LivingObjects(rows)
    BY <2>2, Zenon DEF LivingObjects
  <2>5. \A o \in Writers : \A q \in ins'[o], r \in LivingObjects(rows)' :
            r.key = q.key => r \in del'[o]
    BY <1>1, <2>2, <2>3, <2>4, <2>7, Zenon DEF ReplacesInv
  <2>6. \A o \in Writers : \A q, r \in ins'[o] : q.key = r.key => q = r
    <3> TAKE o \in Writers
    <3> TAKE q, r \in ins'[o]
    <3> HAVE q.key = r.key
    <3>1. CASE q \in ins[o] /\ r \in ins[o]
      BY <1>1, <3>1, Zenon DEF ReplacesInv
    <3>2. CASE q \in I /\ r \in I
      BY <2>7, <3>2, Zenon
    <3>3. \A p \in ins[w] : p.key # k
      BY <1>2, <2>2, Zenon
    <3> QED BY <2>3, <2>7, <3>1, <3>2, <3>3, Zenon
  <2> QED BY <1>1, <2>4, <2>5, <2>6, Zenon DEF ReplacesInv, OneLivingRow
<1>7. CASE \E w \in Writers, mode \in {"share", "exclusive"} : assertSchemaHash(w, mode)
  BY <1>3, <1>7, Zenon DEF assertSchemaHash, pgVars
<1>8. ASSUME NEW w \in Writers, CommitStep(w) PROVE ReplacesInv'
  <2>1. PICK outcome \in {"done", "failed"} : EndTx(w, outcome)
    BY <1>8, Zenon DEF CommitStep
  <2>2. /\ ins'[w] = {} /\ del'[w] = {}
        /\ \A o \in Writers \ {w} : ins'[o] = ins[o] /\ del'[o] = del[o]
    BY <2>1, EndTxShape, Zenon
  <2>3. LivingObjects(rows)' = (LivingObjects(rows) \ del[w]) \cup ins[w]
    BY <1>8, LivingAfterCommit, Zenon
  <2>4. \A r, q \in LivingObjects(rows)' : r.key = q.key => r = q
    BY <1>1, <2>3, Zenon DEF ReplacesInv, OneLivingRow
  <2>5. ASSUME NEW o \in Writers, NEW q \in ins'[o], NEW r \in LivingObjects(rows)',
               r.key = q.key
        PROVE  r \in del'[o]
    <3>1. o # w /\ q \in ins[o] /\ del'[o] = del[o]
      BY <2>2, <2>5, Zenon
    <3>2. r \notin ins[w]
      BY <1>1, <1>2, <2>5, <3>1 DEF RowsInv
    <3> QED BY <1>1, <2>3, <2>5, <3>1, <3>2, Zenon DEF ReplacesInv
  <2>6. \A o \in Writers : \A q, r \in ins'[o] : q.key = r.key => q = r
    BY <1>1, <2>2, Zenon DEF ReplacesInv
  <2> QED BY <2>4, <2>5, <2>6, Zenon DEF ReplacesInv, OneLivingRow
<1>9. CASE \E w \in Writers : RollbackStep(w)
  BY <1>4, <1>9, Zenon DEF RollbackStep, Rollback
<1>10. CASE \E w \in Writers : EarlyError(w)
  BY <1>4, <1>10, Zenon DEF EarlyError, pgVars
<1>11. CASE ReadStep \/ Tick \/ Heartbeat \/ UNCHANGED dsVars
  BY <1>3, <1>11, Zenon DEF ReadStep, Tick, Heartbeat, dsVars, pgVars, txVars
<1> QED
  BY <1>5, <1>6, <1>7, <1>8, <1>9, <1>10, <1>11, Zenon DEF KindOfStep, CallStep


\* A call whose snapshot shows a stored schema goes on seeing one.
LEMMA SeenSchemaStays ==
    ASSUME Inv, KindOfStep, NEW w \in Writers, snapshot'[w] = snapshot[w],
           SeenLiving(w, SchemaKey) # {}
    PROVE  SeenLiving(w, SchemaKey)' # {}
<1>1. Content(rows', snapshot[w]) = Content(rows, snapshot[w])
  BY ContentStays, Zenon DEF Inv, ShownInv
<1>2. PICK r \in AliveAt(rows, snapshot[w]) : r.key = SchemaKey
  BY Zenon DEF SeenLiving
<1>3. <<r.key, r.val>> \in Content(rows', snapshot[w])
  BY <1>1, <1>2, Zenon DEF Content
<1>4. PICK q \in AliveAt(rows', snapshot[w]) : <<r.key, r.val>> = <<q.key, q.val>>
  BY <1>3, Zenon DEF Content
<1>5. q.key = SchemaKey
  BY <1>2, <1>4, Zenon
<1> QED BY <1>4, <1>5, Zenon DEF SeenLiving

\* The stored schema: always one, seen by every snapshot, and fixed while locked.
LEMMA SchemaStep ==
    ASSUME Inv, KindOfStep
    PROVE  SchemaInv'
<1> USE PgAssumption
<1>1. TypeOK /\ IdsInv /\ RowsInv /\ ReplacesInv /\ SchemaInv
  BY Zenon DEF Inv
<1>2. ASSUME NEW w \in Writers, pc[w] \in {"snapped", "open"}, snapshot'[w] = snapshot[w]
      PROVE  SeenLiving(w, SchemaKey)' # {}
  BY <1>1, <1>2, SeenSchemaStays, Zenon DEF SchemaInv
\* Steps that change no row, no pending change and no lock.
<1>3. ASSUME UNCHANGED <<rows, ins, del, lock, pre>>,
             \A w \in Writers : pc'[w] \in {"snapped", "open"}
                                    => SeenLiving(w, SchemaKey)' # {}
      PROVE  SchemaInv'
  BY <1>1, <1>3, Zenon DEF SchemaInv, LivingObjects, Pending, SchemaStaysAsAsserted
<1>4. ASSUME NEW w \in Writers, NEW outcome \in {"idle", "done", "failed"},
             EndTx(w, outcome), rows' = rows
      PROVE  SchemaInv'
  <2>1. /\ ins'[w] = {} /\ del'[w] = {} /\ lock'[w] = "none" /\ pre'[w] = NoHash
        /\ pc'[w] = outcome
        /\ \A o \in Writers \ {w} :
              /\ ins'[o] = ins[o] /\ del'[o] = del[o] /\ lock'[o] = lock[o]
              /\ pre'[o] = pre[o] /\ pc'[o] = pc[o] /\ snapshot'[o] = snapshot[o]
    BY <1>4, EndTxShape
  <2>2. LivingObjects(rows)' = LivingObjects(rows)
    BY <1>4, Zenon DEF LivingObjects
  <2>3. \A o \in Writers : pc'[o] \in {"snapped", "open"} => SeenLiving(o, SchemaKey)' # {}
    BY <1>2, <1>4, <2>1, Zenon
  <2>4. \A o, q \in Writers : lock'[o] # "none" /\ Pending(q, SchemaKey)' => o = q
    BY <1>1, <2>1 DEF SchemaInv, Pending
  <2>5. SchemaStaysAsAsserted'
    BY <1>1, <2>1, <2>2 DEF SchemaInv, SchemaStaysAsAsserted
  <2> QED BY <1>1, <2>1, <2>2, <2>3, <2>4, <2>5 DEF SchemaInv
<1>5. ASSUME NEW w \in Writers, BeginTx(w) \/ AssignXid(w) PROVE SchemaInv'
  <2>1. \A o \in Writers : pc'[o] \in {"snapped", "open"} =>
            pc[o] \in {"snapped", "open"} /\ snapshot'[o] = snapshot[o]
    BY <1>1, <1>5, Zenon DEF TypeOK, BeginTx, AssignXid
  <2> QED BY <1>2, <1>3, <1>5, <2>1, Zenon DEF BeginTx, AssignXid, pgVars
<1>6. ASSUME NEW w \in Writers, TakeSnapshot(w) PROVE SchemaInv'
  <2>1. PICK r \in LivingObjects(rows) : r.key = SchemaKey
    BY <1>1, Zenon DEF SchemaInv
  <2>2. /\ snapshot'[w] = CurrentSnapshot /\ rows' = rows
        /\ \A o \in Writers \ {w} : snapshot'[o] = snapshot[o] /\ pc'[o] = pc[o]
    BY <1>1, <1>6, Zenon DEF TypeOK, TakeSnapshot, pgVars
  <2>3. /\ r \in rows /\ r.created \in settled /\ r.created \in Nat /\ r.deleted = Live
        /\ Live \in Nat /\ Live \notin settled
    BY <1>1, <2>1 DEF TypeOK, RowsInv, LivingObjects, Row, Xids, Live
  <2>4. txVisible(CurrentSnapshot, r.created) /\ ~txVisible(CurrentSnapshot, r.deleted)
    BY <1>1, <2>3, CurrentSnapshotIsSettled, Zenon
  <2>5. SeenLiving(w, SchemaKey)' # {}
    <3>1. r \in AliveAt(rows', snapshot'[w])
      BY <2>2, <2>3, <2>4, Zenon DEF AliveAt
    <3> QED BY <2>1, <3>1, Zenon DEF SeenLiving
  <2>6. \A o \in Writers : pc'[o] \in {"snapped", "open"} => SeenLiving(o, SchemaKey)' # {}
    BY <1>2, <2>2, <2>5, Zenon
  <2> QED BY <1>3, <1>6, <2>6, Zenon DEF TakeSnapshot, pgVars
<1>7. ASSUME NEW w \in Writers, NEW k, NEW D, NEW I, GoodWrite(w, k, D, I)
      PROVE  SchemaInv'
  <2>1. /\ \A r \in D : r.key = k
        /\ \A q \in I : q.key = k
        /\ k = SchemaKey => I # {} /\ \A o \in Writers \ {w} : lock[o] = "none"
        /\ UNCHANGED <<rows, lock, pre, pc, snapshot>>
    BY <1>7 DEF GoodWrite, Write, pgVars, NewRow
  <2>2. /\ ins'[w] = ins[w] \cup I /\ del'[w] = del[w] \cup D
        /\ \A o \in Writers \ {w} : ins'[o] = ins[o] /\ del'[o] = del[o]
    BY <1>1, <1>7, Zenon DEF TypeOK, GoodWrite, Write
  <2>3. LivingObjects(rows)' = LivingObjects(rows)
    BY <2>1, Zenon DEF LivingObjects
  <2>4. \A o \in Writers : pc'[o] \in {"snapped", "open"} => SeenLiving(o, SchemaKey)' # {}
    BY <1>2, <2>1, Zenon
  <2>5. \A o \in Writers : \A r \in del'[o] :
            r.key = SchemaKey => \E q \in ins'[o] : q.key = SchemaKey
    BY <1>1, <2>1, <2>2 DEF SchemaInv
  <2>6. \A o, q \in Writers : lock'[o] # "none" /\ Pending(q, SchemaKey)' => o = q
    <3>1. lock' = lock /\ \A o, q \in Writers : lock[o] # "none" /\ Pending(q, SchemaKey) => o = q
      BY <1>1, <2>1, Zenon DEF SchemaInv
    <3>2. \A q \in Writers \ {w} : Pending(q, SchemaKey)' => Pending(q, SchemaKey)
      BY <2>2, Zenon DEF Pending
    <3>3. Pending(w, SchemaKey)' => Pending(w, SchemaKey) \/ k = SchemaKey
      BY <2>1, <2>2, Zenon DEF Pending
    <3> QED BY <2>1, <3>1, <3>2, <3>3, Zenon
  <2>7. SchemaStaysAsAsserted'
    BY <1>1, <2>1, <2>3, Zenon DEF SchemaInv, SchemaStaysAsAsserted
  <2> QED BY <1>1, <2>1, <2>3, <2>4, <2>5, <2>6, <2>7, Zenon DEF SchemaInv
<1>8. ASSUME NEW w \in Writers, NEW mode \in {"share", "exclusive"}, assertSchemaHash(w, mode)
      PROVE  SchemaInv'
  <2>1. PICK r \in SeenLiving(w, SchemaKey) : pre' = [pre EXCEPT ![w] = r.val]
    BY <1>8, Zenon DEF assertSchemaHash
  <2>2. /\ r \in LivingObjects(rows) /\ r.key = SchemaKey
        /\ \A o \in Writers \ {w} : ~Pending(o, SchemaKey)
        /\ UNCHANGED <<rows, ins, del, pc, snapshot>>
    BY <1>8, <2>1, Zenon DEF assertSchemaHash, CanDelete, SeenLiving, Waits, pgVars
  <2>3. /\ pre'[w] = r.val /\ lock'[w] = mode
        /\ \A o \in Writers \ {w} : pre'[o] = pre[o] /\ lock'[o] = lock[o]
    BY <1>1, <1>8, <2>1 DEF TypeOK, assertSchemaHash
  <2>4. LivingObjects(rows)' = LivingObjects(rows)
    BY <2>2, Zenon DEF LivingObjects
  <2>5. \A o \in Writers : pc'[o] \in {"snapped", "open"} => SeenLiving(o, SchemaKey)' # {}
    BY <1>2, <2>2, Zenon
  <2>6. \A o, q \in Writers : lock'[o] # "none" /\ Pending(q, SchemaKey)' => o = q
    BY <1>1, <2>2, <2>3, Zenon DEF SchemaInv, Pending
  <2>7. SchemaStaysAsAsserted'
    BY <1>1, <2>2, <2>3, <2>4, SMTT(30) DEF SchemaInv, SchemaStaysAsAsserted, ReplacesInv, OneLivingRow
  <2> QED BY <1>1, <2>2, <2>3, <2>4, <2>5, <2>6, <2>7, Zenon DEF SchemaInv
<1>9. ASSUME NEW w \in Writers, CommitStep(w) PROVE SchemaInv'
  <2>1. PICK outcome \in {"done", "failed"} : EndTx(w, outcome)
    BY <1>9, Zenon DEF CommitStep
  <2>2. /\ ins'[w] = {} /\ del'[w] = {} /\ lock'[w] = "none" /\ pre'[w] = NoHash
        /\ pc'[w] = outcome
        /\ \A o \in Writers \ {w} :
              /\ ins'[o] = ins[o] /\ del'[o] = del[o] /\ lock'[o] = lock[o]
              /\ pre'[o] = pre[o] /\ pc'[o] = pc[o] /\ snapshot'[o] = snapshot[o]
    BY <2>1, EndTxShape
  <2>3. LivingObjects(rows)' = (LivingObjects(rows) \ del[w]) \cup ins[w]
    BY <1>9, LivingAfterCommit, Zenon
  <2>4. \E r \in LivingObjects(rows)' : r.key = SchemaKey
    BY <1>1, <2>3, Zenon DEF SchemaInv
  <2>5. \A o \in Writers : pc'[o] \in {"snapped", "open"} => SeenLiving(o, SchemaKey)' # {}
    BY <1>2, <2>2, Zenon
  <2>6. \A o, q \in Writers : lock'[o] # "none" /\ Pending(q, SchemaKey)' => o = q
    BY <1>1, <2>2 DEF SchemaInv, Pending
  <2>7. \A o \in Writers \ {w} : pre[o] # NoHash => \A r \in ins[w] : r.key # SchemaKey
    BY <1>1, Zenon DEF SchemaInv, Pending
  <2>8. SchemaStaysAsAsserted'
    BY <1>1, <2>2, <2>3, <2>7 DEF SchemaInv, SchemaStaysAsAsserted
  <2> QED BY <1>1, <2>2, <2>4, <2>5, <2>6, <2>8 DEF SchemaInv
<1>10. CASE \E w \in Writers : RollbackStep(w)
  BY <1>4, <1>10, Zenon DEF RollbackStep, Rollback
<1>11. CASE \E w \in Writers : EarlyError(w)
  BY <1>4, <1>11, Zenon DEF EarlyError, pgVars
<1>12. CASE ReadStep \/ Tick \/ Heartbeat \/ UNCHANGED dsVars
  <2>1. UNCHANGED <<rows, ins, del, lock, pre, pc, snapshot>>
    BY <1>12, Zenon DEF ReadStep, Tick, Heartbeat, dsVars, pgVars, txVars
  <2> QED BY <1>2, <1>3, <2>1, Zenon
<1> QED
  BY <1>5, <1>6, <1>7, <1>8, <1>9, <1>10, <1>11, <1>12, Zenon DEF KindOfStep, CallStep

\* What committed and what was handed out change by a commit, a heartbeat, or a read
\* of a revision, and by nothing else.
LEMMA StoreSteps ==
    ASSUME KindOfStep
    PROVE  \/ UNCHANGED <<rows, commitLog, tokens>>
           \/ ReadStep
           \/ Heartbeat
           \/ \E w \in Writers : CommitStep(w)
<1>1. ASSUME NEW w \in Writers, CallStep(w), ~CommitStep(w)
      PROVE  UNCHANGED <<rows, commitLog, tokens>>
  <2>1. ASSUME NEW k, NEW D, NEW I, GoodWrite(w, k, D, I) PROVE UNCHANGED <<rows, commitLog, tokens>>
    BY <2>1, Zenon DEF GoodWrite, Write, pgVars
  <2>2. ASSUME NEW mode, assertSchemaHash(w, mode) PROVE UNCHANGED <<rows, commitLog, tokens>>
    BY <2>2, Zenon DEF assertSchemaHash, pgVars
  <2>3. BeginTx(w) \/ TakeSnapshot(w) \/ AssignXid(w) => UNCHANGED <<rows, commitLog, tokens>>
    BY Zenon DEF BeginTx, TakeSnapshot, AssignXid, pgVars
  <2>4. RollbackStep(w) \/ EarlyError(w) => UNCHANGED <<rows, commitLog, tokens>>
    BY Zenon DEF RollbackStep, Rollback, EarlyError, pgVars
  <2> QED BY <1>1, <2>1, <2>2, <2>3, <2>4, Zenon DEF CallStep
<1>2. Tick \/ UNCHANGED dsVars => UNCHANGED <<rows, commitLog, tokens>>
  BY Zenon DEF Tick, dsVars, pgVars
<1> QED BY <1>1, <1>2, Zenon DEF KindOfStep

(***************************************************************************)
(* Theorems                                                                *)
(***************************************************************************)

\* A new datastore satisfies the invariant: the migrations' rows and one transaction.
LEMMA InitInv ==
    ASSUME Init
    PROVE  Inv
<1> USE PgAssumption
<1>1. PICK v \in Vals : rows = {[key |-> k, val |-> v, created |-> 1, deleted |-> Live] :
                                     k \in InitialKeys \cup {SchemaKey}}
  BY InitialValAssumption, Zenon DEF Init
<1>2. rows \subseteq Row
  BY <1>1 DEF Row, AllKeys, Xids
<1>3. TypeOK
  BY <1>2 DEF Init, TypeOK, Xids, Row, TxRow, Snapshot, NoSnapshot
<1>4. IdsInv
  BY DEF Init, IdsInv, Open
<1>5. ShownInv
  BY DEF Init, ShownInv, ShowsSettled, WellFormed, Snapshot, NoSnapshot, Visible, txVisible
<1>6. \A r \in rows : r.created = 1 /\ r.deleted = Live /\ r.val = v
                      /\ r = [key |-> r.key, val |-> v, created |-> 1, deleted |-> Live]
  BY <1>1
<1>7. RowsInv
  BY <1>6, Zenon DEF Init, RowsInv, Open, Pending
<1>8. ReplacesInv
  BY <1>6 DEF Init, ReplacesInv, OneLivingRow, LivingObjects
<1>9. \E r \in LivingObjects(rows) : r.key = SchemaKey
  <2> DEFINE r0 == [key |-> SchemaKey, val |-> v, created |-> 1, deleted |-> Live]
  <2>1. r0 \in rows
    BY <1>1, Zenon
  <2> QED BY <2>1 DEF LivingObjects
<1>10. SchemaInv
  BY <1>9, Zenon DEF Init, SchemaInv, Pending, SchemaStaysAsAsserted
<1> QED BY <1>3, <1>4, <1>5, <1>7, <1>8, <1>10, Zenon DEF Inv

\* Every step of the datastore keeps the invariant.
LEMMA InvStep ==
    ASSUME Inv, [DatastoreNext]_dsVars
    PROVE  Inv'
<1>1. KindOfStep
  BY StepHasKind, Zenon
<1> QED
  BY <1>1, TypeStep, IdsStep, ShownStep, RowsStep, ReplacesStep, SchemaStep, Zenon DEF Inv

\* The tables, the transactions in flight and the revisions in use agree in every
\* state of the Postgres datastore: Inv is inductive.
THEOREM DatastoreInvariant == Spec => []Inv
<1>1. Init => Inv
  BY InitInv, Zenon
<1>2. Inv /\ [DatastoreNext]_dsVars => Inv'
  BY InvStep, Zenon
<1> QED BY <1>1, <1>2, PTL DEF Spec

\* Type correctness of the Postgres datastore.
THEOREM TypeCorrect == Spec => []TypeOK
<1>1. Inv => TypeOK
  BY Zenon DEF Inv
<1> QED BY <1>1, DatastoreInvariant, PTL

\* HeadRevision is at least as fresh as every revision handed out before
\* (HeadRevision of revisions.go, compared with pgSnapshot.compare).
THEOREM HeadIsFresh == Spec => []HeadCoversTokens
<1>1. Inv => HeadCoversTokens
  <2> SUFFICES ASSUME Inv, NEW t \in tokens
               PROVE  compare(t, CurrentSnapshot) \in {"lt", "equal"}
    BY Zenon DEF HeadCoversTokens
  <2>1. WellFormed(t) /\ \A x \in Nat : txVisible(t, x) => x \in settled
    BY VisibleIsPointwise, Zenon DEF Inv, ShownInv, ShowsSettled
  <2>2. /\ WellFormed(CurrentSnapshot)
        /\ \A x \in Nat : txVisible(CurrentSnapshot, x) <=> x \in settled
    BY CurrentSnapshotIsSettled, Zenon DEF Inv
  <2>3. \A x \in Nat : txVisible(t, x) => txVisible(CurrentSnapshot, x)
    BY <2>1, <2>2, Zenon
  <2>4. CASE \A x \in Nat : txVisible(t, x) <=> txVisible(CurrentSnapshot, x)
    BY <2>1, <2>2, <2>4, CompareDecidesInclusion, Zenon
  <2>5. CASE ~\A x \in Nat : txVisible(t, x) <=> txVisible(CurrentSnapshot, x)
    <3>1. \E x \in Nat : txVisible(CurrentSnapshot, x) /\ ~txVisible(t, x)
      BY <2>3, <2>5, Zenon
    <3> QED BY <2>1, <2>2, <2>3, <3>1, CompareDecidesInclusion, Zenon
  <2> QED BY <2>4, <2>5, Zenon
<1> QED BY <1>1, DatastoreInvariant, PTL

\* Concurrent writers leave at most one living row of a relationship and of the
\* schema (WriteRelationships, WriteStoredSchema).
THEOREM LivingRowsAreUnique == Spec => []OneLivingRow
<1>1. Inv => OneLivingRow
  BY Zenon DEF Inv, ReplacesInv
<1> QED BY <1>1, DatastoreInvariant, PTL

\* No relationship write commits against a schema it was not validated against
\* (assertSchemaHash with the locks of WriteStoredSchema).
THEOREM AssertedSchemaStays == Spec => []SchemaStaysAsAsserted
<1>1. Inv => SchemaStaysAsAsserted
  BY Zenon DEF Inv, SchemaInv
<1> QED BY <1>1, DatastoreInvariant, PTL

\* What a read at a revision returns never changes (SnapshotReader).
THEOREM ReadsAreRepeatable == Spec => RepeatableReads
<1>1. ASSUME Inv, [DatastoreNext]_dsVars, NEW t \in tokens
      PROVE  Content(rows', t) = Content(rows, t)
  <2>1. ShowsSettled(t)
    BY <1>1, Zenon DEF Inv, ShownInv
  <2> QED BY <1>1, <2>1, StepHasKind, ContentStays, Zenon
<1>2. Inv /\ [DatastoreNext]_dsVars
         => [\A t \in tokens : Content(rows', t) = Content(rows, t)]_dsVars
  BY <1>1, Zenon
<1> QED BY <1>2, DatastoreInvariant, PTL DEF Spec, RepeatableReads

\* What the revision of a commit shows is what the transaction saw and did.
LEMMA CommitIsExact ==
    ASSUME Inv, NEW w \in Writers, Commit(w)
    PROVE  AliveAt(rows', NewRevision(w))
               = (AliveAt(rows, snapshot[w]) \ del[w]) \cup ins[w]
<1> DEFINE upd(r) == [r EXCEPT !.deleted = xid[w]]
           s == NewRevision(w)
<1>1. rows' = (rows \ del[w]) \cup {upd(r) : r \in del[w]} \cup ins[w]
  BY Zenon DEF Commit, CommitRows
<1>2. xid[w] \in Nat /\ xid[w] \notin settled /\ xid[w] # Live /\ Live \in Nat
      /\ Live \notin settled
  BY PgAssumption DEF Inv, TypeOK, Xids, IdsInv, Open, Commit, Live
<1>3. WellFormed(snapshot[w]) /\ \A x \in Nat : txVisible(snapshot[w], x) => x \in settled
  BY VisibleIsPointwise, Zenon DEF Inv, ShownInv, ShowsSettled
<1>4. \A x \in Nat : txVisible(s, x) <=> (txVisible(snapshot[w], x) \/ x = xid[w])
  BY <1>2, <1>3, MarkCompleteAddsOne, Zenon DEF NewRevision
<1>5. \A r \in rows : /\ r.created \in Nat /\ r.deleted \in Nat
                      /\ r.created # xid[w] /\ r.deleted # xid[w]
  BY <1>2 DEF Inv, TypeOK, RowsInv, Row, Xids
<1>6. \A r \in del[w] : upd(r).deleted = xid[w]
  BY SMTT(30) DEF Inv, TypeOK, RowsInv, LivingObjects, Row
<1>7. \A r \in ins[w] : r.created = xid[w] /\ r.deleted = Live
  BY SMTT(30) DEF Inv, RowsInv
<1> HIDE DEF upd, s
<1>8. \A r \in rows : r \in AliveAt(rows, snapshot[w])
                          <=> (txVisible(s, r.created) /\ ~txVisible(s, r.deleted))
  BY <1>4, <1>5, SMTT(30) DEF AliveAt
<1>9. \A r \in ins[w] : txVisible(s, r.created) /\ ~txVisible(s, r.deleted)
  BY <1>2, <1>3, <1>4, <1>7, Zenon
<1>10. \A r \in del[w] : txVisible(s, upd(r).deleted)
  BY <1>2, <1>4, <1>6, Zenon
<1>11. ASSUME NEW q
       PROVE  q \in AliveAt(rows', s) <=> q \in (AliveAt(rows, snapshot[w]) \ del[w]) \cup ins[w]
  <2>1. CASE q \in ins[w]
    BY <1>1, <1>9, <2>1, Zenon DEF AliveAt
  <2>2. CASE q \in {upd(r) : r \in del[w]} /\ q \notin ins[w]
    <3>1. q \notin rows
      BY <1>5, <1>6, <2>2, Zenon
    <3>2. q \notin AliveAt(rows', s)
      BY <1>10, <2>2, Zenon DEF AliveAt
    <3> QED BY <2>2, <3>1, <3>2, Zenon DEF AliveAt
  <2>3. CASE q \notin ins[w] /\ q \notin {upd(r) : r \in del[w]}
    <3>1. q \in rows' <=> q \in rows /\ q \notin del[w]
      BY <1>1, <2>3, Zenon
    <3> QED BY <1>8, <2>3, <3>1, Zenon DEF AliveAt
  <2> QED BY <2>1, <2>2, <2>3, Zenon
<1> QED BY <1>11, Zenon DEF s

\* ReadWriteTx returns a revision that shows exactly the transaction's own view.
THEOREM CommitsAreExact == Spec => CommittedRevisionIsExact
<1>1. ASSUME Inv, NEW w \in Writers, Commit(w)
      PROVE  Content(rows', NewRevision(w)) =
                 {<<r.key, r.val>> : r \in (AliveAt(rows, snapshot[w]) \ del[w]) \cup ins[w]}
  BY <1>1, CommitIsExact, Zenon DEF Content
<1>2. Inv => [\A w \in Writers : Commit(w) =>
          Content(rows', NewRevision(w)) =
              {<<r.key, r.val>> :
                   r \in (AliveAt(rows, snapshot[w]) \ del[w]) \cup ins[w]}]_dsVars
  BY <1>1, Zenon
<1> QED BY <1>2, DatastoreInvariant, PTL DEF CommittedRevisionIsExact

\* Every revision a client holds is a well-formed snapshot, and what it shows is
\* given by txVisible.
LEMMA TokensShow ==
    ASSUME Inv, NEW t \in tokens
    PROVE  /\ WellFormed(t)
           /\ Visible(t) \subseteq Nat
           /\ \A x \in Nat : x \in Visible(t) <=> txVisible(t, x)
<1>1. WellFormed(t)
  BY Zenon DEF Inv, ShownInv, ShowsSettled
<1> QED BY <1>1 DEF Visible, txVisible, WellFormed, Snapshot

\* The order of the revisions clients hold is inclusion of what they show
\* (pgSnapshot.compare).
THEOREM RevisionsCompareByContent == Spec => []TokensCompareByContent
<1>1. Inv => TokensCompareByContent
  <2> SUFFICES ASSUME Inv, NEW t \in tokens, NEW u \in tokens
               PROVE  compare(t, u) = IF Visible(t) = Visible(u) THEN "equal"
                                      ELSE IF Visible(t) \subseteq Visible(u) THEN "lt"
                                      ELSE IF Visible(u) \subseteq Visible(t) THEN "gt"
                                      ELSE "concurrent"
    BY Zenon DEF TokensCompareByContent
  <2> DEFINE T == Visible(t)
             U == Visible(u)
  <2>1. /\ WellFormed(t) /\ T \subseteq Nat
        /\ \A x \in Nat : x \in T <=> txVisible(t, x)
    BY TokensShow, Zenon
  <2>2. /\ WellFormed(u) /\ U \subseteq Nat
        /\ \A x \in Nat : x \in U <=> txVisible(u, x)
    BY TokensShow, Zenon
  <2>3. compare(t, u) \in {"equal", "lt", "gt", "concurrent"}
    BY Zenon DEF compare
  <2> HIDE DEF T, U
  <2>4. /\ compare(t, u) = "equal" <=> T = U
        /\ compare(t, u) = "lt" <=> T \subseteq U /\ T # U
        /\ compare(t, u) = "gt" <=> U \subseteq T /\ T # U
    BY <2>1, <2>2, CompareDecidesInclusion, Zenon
  <2>5. compare(t, u) = IF T = U THEN "equal"
                        ELSE IF T \subseteq U THEN "lt"
                        ELSE IF U \subseteq T THEN "gt" ELSE "concurrent"
    BY <2>3, <2>4, Zenon
  <2> QED BY <2>5, Zenon DEF T, U
<1> QED BY <1>1, DatastoreInvariant, PTL

\* A replica that passes the guard of a strict read has all the revision shows
\* (replicaContainsRevisionPredicate).
THEOREM StrictReadsHaveAll == Spec => []StrictReadsAreComplete
<1>1. Inv => StrictReadsAreComplete
  <2> SUFFICES ASSUME Inv, NEW replica \in tokens, NEW t \in tokens,
                      replicaContainsRevision(replica, t)
               PROVE  Visible(t) \subseteq Visible(replica)
    BY Zenon DEF StrictReadsAreComplete
  <2>1. \A x \in Nat : txVisible(t, x) => txVisible(replica, x)
    BY TokensShow, ReplicaGuardIsSound, Zenon
  <2> QED BY <2>1, TokensShow, Zenon
<1> QED BY <1>1, DatastoreInvariant, PTL

(***************************************************************************)
(* The lag of OptimizedRevision                                            *)
(***************************************************************************)

\* Times, after every step: a snapshot is taken after its transaction began, and a
\* commit comes at the clock's present time.
LEMMA TimesStep ==
    ASSUME Inv, TimesInv, KindOfStep
    PROVE  TimesInv'
<1> USE PgAssumption
<1>1. TypeOK /\ IdsInv /\ ShownInv /\ TimesInv
  BY Zenon DEF Inv
<1>2. /\ clock \in Nat /\ startTs \in [Writers -> 0 .. MaxClock]
      /\ snapshot \in [Writers -> Snapshot]
      /\ pc \in [Writers -> {"idle", "begun", "snapped", "open", "done", "failed"}]
      /\ \A t \in txTable : t.xid \in settled /\ t.xid \in Nat /\ t.ts \in Nat /\ t.commitTs \in Nat
  BY <1>1 DEF TypeOK, TxRow, Xids, ShownInv
<1>3. \A t \in txTable : txVisible(CurrentSnapshot, t.xid)
  BY <1>1, <1>2, CurrentSnapshotIsSettled, Zenon
<1> DEFINE Begun(o) ==
      /\ startTs'[o] <= clock
      /\ \A t \in txTable : pc'[o] \in {"snapped", "open"} /\ t.commitTs < startTs'[o]
                               => txVisible(snapshot'[o], t.xid)
<1>4. ASSUME NEW o \in Writers, startTs'[o] = startTs[o], snapshot'[o] = snapshot[o],
             pc'[o] \in {"snapped", "open"} => pc[o] \in {"snapped", "open"}
      PROVE  Begun(o)
  BY <1>1, <1>4, Zenon DEF TimesInv
<1>5. ASSUME NEW w \in Writers, NEW outcome \in {"idle", "done", "failed"}, EndTx(w, outcome)
      PROVE  \A o \in Writers : Begun(o)
  <2> TAKE o \in Writers
  <2>1. CASE o = w
    BY <1>2, <1>5, <2>1 DEF EndTx
  <2>2. CASE o # w
    <3>1. startTs'[o] = startTs[o] /\ snapshot'[o] = snapshot[o] /\ pc'[o] = pc[o]
      BY <1>2, <1>5, <2>2, Zenon DEF EndTx
    <3> HIDE DEF Begun
    <3> QED BY <1>4, <3>1, Zenon
  <2> QED BY <2>1, <2>2, Zenon
\* Steps that leave the transaction table and the clock.
<1>6. ASSUME UNCHANGED <<txTable, clock>>, \A o \in Writers : Begun(o)
      PROVE  TimesInv'
  BY <1>1, <1>6, Zenon DEF TimesInv
\* Steps that add a transaction, committed now.
<1>7. ASSUME NEW t, txTable' = txTable \cup {t}, clock' = clock, \A o \in Writers : Begun(o),
             t.commitTs = clock, t.ts \in Nat, t.ts <= clock,
             \A u \in txTable : u.commitTs < t.ts => txVisible(t.snapshot, u.xid)
      PROVE  TimesInv'
  <2>1. \A u \in txTable' : u.ts <= clock /\ u.commitTs <= clock /\ u.ts \in Nat
    BY <1>1, <1>2, <1>7 DEF TimesInv
  <2>2. \A o \in Writers : startTs'[o] <= clock /\ startTs'[o] \in Int
    <3> TAKE o \in Writers
    <3>1. TypeOK'
      BY TypeStep, Zenon
    <3>2. startTs'[o] \in Int
      BY <3>1 DEF TypeOK
    <3> QED BY <1>7, <3>2, Zenon
  <2>3. \A o \in Writers, u \in txTable' :
           pc'[o] \in {"snapped", "open"} /\ u.commitTs < startTs'[o] => txVisible(snapshot'[o], u.xid)
    <3> TAKE o \in Writers, u \in txTable'
    <3>1. CASE u = t
      <4>1. startTs'[o] \in Int /\ startTs'[o] <= clock
        BY <2>2, Zenon
      <4>2. ~(u.commitTs < startTs'[o])
        BY <1>2, <1>7, <3>1, <4>1
      <4> QED BY <4>2, Zenon
    <3>2. CASE u \in txTable
      BY <1>7, <3>2, Zenon
    <3> QED BY <1>7, <3>1, <3>2, Zenon
  <2>4. \A u, v \in txTable' : u.commitTs < v.ts => txVisible(v.snapshot, u.xid)
    <3> TAKE u, v \in txTable'
    <3>1. CASE u = t
      BY <1>2, <1>7, <2>1, <3>1
    <3>2. CASE u # t /\ v = t
      BY <1>7, <3>2, Zenon
    <3>3. CASE u # t /\ v # t
      BY <1>1, <1>7, <3>3, Zenon DEF TimesInv
    <3> QED BY <3>1, <3>2, <3>3, Zenon
  <2> QED BY <1>7, <2>1, <2>2, <2>3, <2>4, Zenon DEF TimesInv
<1>8. ASSUME UNCHANGED <<startTs, snapshot, pc>> PROVE \A o \in Writers : Begun(o)
  <2> HIDE DEF Begun
  <2> QED BY <1>4, <1>8, Zenon
<1>9. ASSUME NEW w \in Writers, BeginTx(w) PROVE TimesInv'
  <2>1. UNCHANGED <<txTable, clock>>
    BY <1>9, Zenon DEF BeginTx, pgVars
  <2>2. ASSUME NEW o \in Writers PROVE Begun(o)
    <3>1. CASE o = w
      BY <1>2, <1>9, <3>1 DEF BeginTx
    <3>2. CASE o # w
      <4>1. startTs'[o] = startTs[o] /\ snapshot'[o] = snapshot[o] /\ pc'[o] = pc[o]
        BY <1>2, <1>9, <3>2, Zenon DEF BeginTx
      <4> HIDE DEF Begun
      <4> QED BY <1>4, <4>1, Zenon
    <3> QED BY <3>1, <3>2, Zenon
  <2> HIDE DEF Begun
  <2> QED BY <1>6, <2>1, <2>2, Zenon
<1>10. ASSUME NEW w \in Writers, TakeSnapshot(w) PROVE TimesInv'
  <2>1. UNCHANGED <<txTable, clock, startTs>>
    BY <1>10, Zenon DEF TakeSnapshot, pgVars
  <2>2. ASSUME NEW o \in Writers PROVE Begun(o)
    <3>1. CASE o = w
      <4>1. snapshot'[w] = CurrentSnapshot
        BY <1>2, <1>10, Zenon DEF TakeSnapshot
      <4>2. startTs'[w] <= clock
        BY <1>1, <2>1, Zenon DEF TimesInv
      <4> QED BY <1>3, <3>1, <4>1, <4>2, Zenon
    <3>2. CASE o # w
      <4>1. startTs'[o] = startTs[o] /\ snapshot'[o] = snapshot[o] /\ pc'[o] = pc[o]
        BY <1>2, <1>10, <2>1, <3>2, Zenon DEF TakeSnapshot
      <4> HIDE DEF Begun
      <4> QED BY <1>4, <4>1
    <3> QED BY <3>1, <3>2
  <2> HIDE DEF Begun
  <2> QED BY <1>6, <2>1, <2>2, Zenon
<1>11. ASSUME NEW w \in Writers, AssignXid(w) PROVE TimesInv'
  <2>1. UNCHANGED <<txTable, clock, startTs, snapshot>>
    BY <1>11, Zenon DEF AssignXid
  <2>2. \A o \in Writers : pc'[o] \in {"snapped", "open"} => pc[o] \in {"snapped", "open"}
    BY <1>2, <1>11, Zenon DEF AssignXid
  <2>3. \A o \in Writers : Begun(o)
    <3> HIDE DEF Begun
    <3> QED BY <1>4, <2>1, <2>2, Zenon
  <2> HIDE DEF Begun
  <2> QED BY <1>6, <2>1, <2>3, Zenon
<1>12. ASSUME \/ ReadStep \/ UNCHANGED dsVars
              \/ \E w, k, D, I : GoodWrite(w, k, D, I)
              \/ \E w, mode : assertSchemaHash(w, mode)
       PROVE  TimesInv'
  <2>1. UNCHANGED <<txTable, clock, startTs, snapshot, pc>>
    BY <1>12 DEF ReadStep, GoodWrite, Write, assertSchemaHash, dsVars, pgVars, txVars
  <2> HIDE DEF Begun
  <2> QED BY <1>6, <1>8, <2>1, Zenon
<1>13. ASSUME NEW w \in Writers, RollbackStep(w) \/ EarlyError(w) PROVE TimesInv'
  <2>1. UNCHANGED <<txTable, clock>> /\ \E outcome \in {"idle", "done", "failed"} : EndTx(w, outcome)
    BY <1>13, Zenon DEF RollbackStep, Rollback, EarlyError, pgVars
  <2> HIDE DEF Begun
  <2> QED BY <1>5, <1>6, <2>1, Zenon
<1>14. ASSUME NEW w \in Writers, CommitStep(w) PROVE TimesInv'
  <2> DEFINE t == [xid |-> xid[w], snapshot |-> snapshot[w], ts |-> startTs[w], commitTs |-> clock]
  <2>1. /\ txTable' = txTable \cup {t} /\ clock' = clock /\ pc[w] = "open"
        /\ \E outcome \in {"idle", "done", "failed"} : EndTx(w, outcome)
    BY <1>14, Zenon DEF CommitStep, CommitRows
  <2>2. /\ t.commitTs = clock /\ t.ts \in Nat /\ t.ts <= clock
        /\ \A u \in txTable : u.commitTs < t.ts => txVisible(t.snapshot, u.xid)
    BY <1>1, <1>2, <2>1 DEF TimesInv
  <2> HIDE DEF t, Begun
  <2> QED BY <1>5, <1>7, <2>1, <2>2, Zenon
<1>15. ASSUME Heartbeat PROVE TimesInv'
  <2> DEFINE t == [xid |-> nextXid, snapshot |-> CurrentSnapshot, ts |-> clock, commitTs |-> clock]
  <2>1. txTable' = txTable \cup {t} /\ UNCHANGED <<clock, startTs, snapshot, pc>>
    BY <1>15, Zenon DEF Heartbeat, txVars
  <2>2. /\ t.commitTs = clock /\ t.ts \in Nat /\ t.ts <= clock
        /\ \A u \in txTable : u.commitTs < t.ts => txVisible(t.snapshot, u.xid)
    BY <1>2, <1>3
  <2> HIDE DEF t, Begun
  <2> QED BY <1>7, <1>8, <2>1, <2>2, Zenon
<1>16. ASSUME Tick PROVE TimesInv'
  <2>1. clock' = clock + 1 /\ UNCHANGED <<txTable, startTs, snapshot, pc>>
    BY <1>16, Zenon DEF Tick, pgVars, txVars
  <2>2. \A o \in Writers : startTs[o] \in Int
    BY <1>2
  <2> QED BY <1>1, <1>2, <2>1, <2>2 DEF TimesInv
<1> HIDE DEF Begun
<1> QED BY <1>9, <1>10, <1>11, <1>12, <1>13, <1>14, <1>15, <1>16, Zenon DEF KindOfStep, CallStep

\* The revisions that querySelectRevision may pick lag by no more than the follower
\* delay and one quantum, in any state with such times.
LEMMA CandidatesAreRecent ==
    ASSUME Inv, TimesInv
    PROVE  OptimizedStalenessBounded
<1> USE PgAssumption
<1> SUFFICES ASSUME NEW s \in OptimizedCandidates, NEW t \in txTable, t.commitTs < QuantizedNow
             PROVE  txVisible(s, t.xid)
  BY Zenon DEF OptimizedStalenessBounded
<1>1. /\ t.xid \in settled /\ t.xid \in Nat /\ t.commitTs \in Nat
      /\ \A u \in txTable : u.ts \in Nat /\ u.xid \in Nat /\ WellFormed(u.snapshot)
  BY DEF Inv, TypeOK, TxRow, Xids, ShownInv, ShowsSettled
<1>2. CASE SelectedTxs = {}
  <2>1. s = CurrentSnapshot
    BY <1>2, Zenon DEF OptimizedCandidates
  <2> QED BY <1>1, <2>1, CurrentSnapshotIsSettled, Zenon DEF Inv
<1>3. CASE SelectedTxs # {}
  <2>1. PICK u \in SelectedTxs : s = markComplete(u.snapshot, u.xid)
    BY <1>3, Zenon DEF OptimizedCandidates
  <2>2. u \in txTable /\ u.ts >= QuantizedNow
    BY Zenon DEF SelectedTxs
  <2>3. QuantizedNow \in Int
    <3>1. clock - FollowerDelay \in Int /\ Quantization \in Nat \ {0}
      BY DEF Inv, TypeOK, PgAssumption
    <3>2. (clock - FollowerDelay) \div Quantization \in Int
      BY <3>1
    <3> QED BY <3>1, <3>2 DEF QuantizedNow
  <2>4. t.commitTs < u.ts
    BY <1>1, <2>2, <2>3
  <2>5. txVisible(u.snapshot, t.xid)
    BY <2>2, <2>4, Zenon DEF TimesInv
  <2> QED BY <1>1, <2>1, <2>2, <2>5, MarkCompleteAddsOne, Zenon
<1> QED BY <1>2, <1>3, Zenon

\* OptimizedRevision lags by at most the follower delay and one quantum, although
\* querySelectRevision selects by the time a transaction began (revisions.go).
THEOREM OptimizedLagIsBounded == Spec => []OptimizedStalenessBounded
<1>1. Init => TimesInv
  <2> SUFFICES ASSUME Init PROVE TimesInv
    OBVIOUS
  <2>1. /\ \A t \in txTable : t.ts = 0 /\ t.commitTs = 0
        /\ clock = 0 /\ \A w \in Writers : startTs[w] = 0
    BY DEF Init
  <2> QED BY <2>1 DEF TimesInv
<1>2. Inv /\ TimesInv /\ [DatastoreNext]_dsVars => TimesInv'
  BY StepHasKind, TimesStep, Zenon
<1>3. Inv /\ TimesInv => OptimizedStalenessBounded
  BY CandidatesAreRecent, Zenon
<1> QED BY <1>1, <1>2, <1>3, DatastoreInvariant, PTL DEF Spec

(***************************************************************************)
(* The refinement of RevisionedStore                                       *)
(***************************************************************************)

\* The commit log grows by what commits.
LEMMA LogGrows ==
    ASSUME CommitInv, NEW x \in Xids, commitLog' = Append(commitLog, x)
    PROVE  commitLog' \in Seq(Xids) /\ Committed' = Committed \cup {x}
<1>1. commitLog \in Seq(Xids)
  BY Zenon DEF CommitInv
<1>2. /\ Len(commitLog') = Len(commitLog) + 1
      /\ \A i \in DOMAIN commitLog : commitLog'[i] = commitLog[i]
      /\ commitLog'[Len(commitLog) + 1] = x
      /\ DOMAIN commitLog' = DOMAIN commitLog \cup {Len(commitLog) + 1}
  BY <1>1
<1> QED BY <1>1, <1>2 DEF Committed

\* Rows and the commit log agree after every step (CommitRows writes both).
LEMMA CommitInvStep ==
    ASSUME Inv, CommitInv, KindOfStep
    PROVE  CommitInv'
<1> USE PgAssumption
<1>0. settled \subseteq settled'
  BY SettledGrows, Zenon
<1>1. CASE UNCHANGED <<rows, commitLog>>
  <2>1. Committed' = Committed
    BY <1>1, Zenon DEF Committed
  <2> QED BY <1>0, <1>1, <2>1, Zenon DEF CommitInv
<1>2. CASE Heartbeat
  <2>1. nextXid \in Xids /\ commitLog' = Append(commitLog, nextXid) /\ rows' = rows
        /\ settled' = settled \cup {nextXid}
    BY <1>2 DEF Heartbeat, Settle, Inv, TypeOK, Xids
  <2>2. commitLog' \in Seq(Xids) /\ Committed' = Committed \cup {nextXid}
    BY <2>1, LogGrows, Zenon
  <2> QED BY <2>1, <2>2, Zenon DEF CommitInv
<1>3. ASSUME NEW w \in Writers, CommitStep(w) PROVE CommitInv'
  <2>1. /\ xid[w] \in Xids /\ commitLog' = Append(commitLog, xid[w])
        /\ settled' = settled \cup {xid[w]}
        /\ rows' = (rows \ del[w]) \cup {[r EXCEPT !.deleted = xid[w]] : r \in del[w]} \cup ins[w]
    BY <1>3, Zenon DEF CommitStep, CommitRows, Settle, Inv, TypeOK
  <2>2. commitLog' \in Seq(Xids) /\ Committed' = Committed \cup {xid[w]}
    BY <2>1, LogGrows, Zenon
  <2>3. \A r \in ins[w] : r.created = xid[w] /\ r.deleted = Live
    BY Zenon DEF Inv, RowsInv
  <2>4. ASSUME NEW r \in del[w]
        PROVE  r \in rows /\ [r EXCEPT !.deleted = xid[w]].created = r.created
               /\ [r EXCEPT !.deleted = xid[w]].deleted = xid[w]
    <3>1. r \in rows /\ r \in Row
      BY Zenon DEF Inv, RowsInv, LivingObjects, TypeOK
    <3> QED BY <3>1, Zenon DEF Row
  <2>5. ASSUME NEW r \in rows'
        PROVE  r.created \in Committed' /\ r.deleted \in Committed' \cup {Live}
    <3>1. CASE r \in rows
      BY <2>2, <3>1, Zenon DEF CommitInv
    <3>2. CASE r \in ins[w]
      BY <2>2, <2>3, <3>2, Zenon
    <3>3. ASSUME NEW q \in del[w], r = [q EXCEPT !.deleted = xid[w]]
          PROVE  r.created \in Committed' /\ r.deleted \in Committed' \cup {Live}
      <4>1. q.created \in Committed /\ r.created = q.created /\ r.deleted = xid[w]
        BY <2>4, <3>3, Zenon DEF CommitInv
      <4> QED BY <2>2, <4>1, Zenon
    <3> QED BY <2>1, <3>1, <3>2, <3>3, Zenon
  <2> QED BY <2>1, <2>2, <2>5, Zenon DEF CommitInv
<1>4. ReadStep => UNCHANGED <<rows, commitLog>>
  BY Zenon DEF ReadStep, pgVars
<1> QED BY StoreSteps, <1>1, <1>2, <1>3, <1>4, Zenon

\* What is read at a revision depends on the committed transactions it shows alone.
LEMMA ContentIsOfTheShown ==
    ASSUME NEW R, NEW K, NEW s, NEW t, WellFormed(s), WellFormed(t),
           K \subseteq Nat, ~txVisible(s, Live), ~txVisible(t, Live),
           \A r \in R : r.created \in K /\ r.deleted \in K \cup {Live},
           Visible(s) \cap K = Visible(t) \cap K
    PROVE  Content(R, s) = Content(R, t)
<1>1. \A x \in K : txVisible(s, x) <=> txVisible(t, x)
  <2>1. \A x \in Nat : /\ x \in Visible(s) <=> txVisible(s, x)
                       /\ x \in Visible(t) <=> txVisible(t, x)
    BY DEF Visible, txVisible, WellFormed, Snapshot
  <2> QED BY <2>1, Zenon
<1>2. AliveAt(R, s) = AliveAt(R, t)
  BY <1>1, Zenon DEF AliveAt
<1> QED BY <1>2, Zenon DEF Content

\* A revision handed out shows and reads the same after any step.
LEMMA ViewStays ==
    ASSUME Inv, CommitInv, KindOfStep, NEW t \in tokens
    PROVE  View(t)' = View(t)
<1>1. ShowsSettled(t) /\ Visible(t) \subseteq settled
  BY Zenon DEF Inv, ShownInv, ShowsSettled
<1>2. Content(rows', t) = Content(rows, t)
  BY <1>1, ContentStays, Zenon
<1>3. Visible(t) \cap Committed' = Visible(t) \cap Committed
  <2>1. CASE UNCHANGED commitLog
    BY <2>1, Zenon DEF Committed
  <2>2. ASSUME NEW x \in Xids, x \notin settled, commitLog' = Append(commitLog, x)
        PROVE  Visible(t) \cap Committed' = Visible(t) \cap Committed
    BY <1>1, <2>2, LogGrows, Zenon
  <2>3. CASE Heartbeat
    <3>1. nextXid \in Xids /\ nextXid \notin settled /\ commitLog' = Append(commitLog, nextXid)
      BY <2>3, PgAssumption DEF Heartbeat, Inv, TypeOK, Xids, IdsInv
    <3> QED BY <2>2, <3>1, Zenon
  <2>4. ASSUME NEW w \in Writers, CommitStep(w)
        PROVE  Visible(t) \cap Committed' = Visible(t) \cap Committed
    <3>1. xid[w] \in Xids /\ xid[w] \notin settled /\ commitLog' = Append(commitLog, xid[w])
      BY <2>4, Zenon DEF CommitStep, CommitRows, Inv, TypeOK, IdsInv, Open
    <3> QED BY <2>2, <3>1, Zenon
  <2>5. ReadStep => UNCHANGED commitLog
    BY Zenon DEF ReadStep, pgVars
  <2> QED BY StoreSteps, <2>1, <2>3, <2>4, <2>5, Zenon
<1> QED BY <1>2, <1>3, Zenon DEF View

\* The revision of a commit shows its transaction.
LEMMA OwnCommitIsShown ==
    ASSUME Inv, NEW w \in Writers, CommitStep(w)
    PROVE  xid[w] \in Visible(NewRevision(w))
<1>1. xid[w] \in Nat /\ WellFormed(snapshot[w])
  BY DEF Inv, TypeOK, Xids, ShownInv, ShowsSettled
<1>2. WellFormed(NewRevision(w)) /\ txVisible(NewRevision(w), xid[w])
  BY <1>1, MarkCompleteAddsOne, Zenon DEF NewRevision
<1> QED BY <1>1, <1>2 DEF Visible, txVisible, WellFormed, Snapshot

\* The Postgres datastore implements RevisionedStore: each of its steps is one of the
\* store's, a commit with the revision it returns, a commit nobody learns of or a
\* revision handed out, or changes neither.
THEOREM PostgresImplementsStore == Spec => ImplementsStore
<1>1. Init => Store!StoreInit /\ CommitInv
  <2> SUFFICES ASSUME Init PROVE Store!StoreInit /\ CommitInv
    OBVIOUS
  <2>1. Store!StoreInit
    BY Zenon DEF Init, Store!StoreInit
  <2>2. commitLog = <<1>> /\ Committed = {1}
    BY DEF Init, Committed
  <2>3. commitLog \in Seq(Xids) /\ Committed \subseteq settled
    BY <2>2, PgAssumption DEF Init, Xids
  <2>4. \A r \in rows : r.created = 1 /\ r.deleted = Live
    BY DEF Init
  <2> QED BY <2>1, <2>2, <2>3, <2>4, Zenon DEF CommitInv
<1>2. Inv /\ CommitInv /\ [DatastoreNext]_dsVars => CommitInv'
  BY StepHasKind, CommitInvStep, Zenon
<1>3. ASSUME Inv, CommitInv, Inv', CommitInv', [DatastoreNext]_dsVars
      PROVE  [Store!StoreNext]_(Store!storeVars)
  <2> DEFINE V == {View(t) : t \in tokens}
             W == {View(t)' : t \in tokens'}
  <2>0. KindOfStep
    BY <1>3, StepHasKind, Zenon
  <2>1. \A t \in tokens : View(t)' = View(t)
    BY <1>3, <2>0, ViewStays, Zenon
  <2>2. \A v \in W : v.shows \subseteq Committed'
    BY DEF View
  <2>3. ASSUME NEW s \in tokens', NEW t \in tokens', View(s)'.shows = View(t)'.shows
        PROVE  View(s)'.content = View(t)'.content
    <3>1. /\ WellFormed(s) /\ ~txVisible(s, Live) /\ WellFormed(t) /\ ~txVisible(t, Live)
          /\ Committed' \subseteq Nat
          /\ \A r \in rows' : r.created \in Committed' /\ r.deleted \in Committed' \cup {Live}
      <4>1. WellFormed(s) /\ Visible(s) \subseteq settled' /\ WellFormed(t) /\ Visible(t) \subseteq settled'
        BY <1>3, Zenon DEF Inv, ShownInv, ShowsSettled
      <4>2. settled' \subseteq Xids /\ Live \in Nat /\ Live \notin settled' /\ Xids \subseteq Nat
        BY <1>3, PgAssumption DEF Inv, TypeOK, Xids, Live
      <4>3. ~txVisible(s, Live) /\ ~txVisible(t, Live)
        BY <4>1, <4>2, VisibleIsPointwise, Zenon
      <4> QED BY <1>3, <4>1, <4>2, <4>3, Zenon DEF CommitInv
    <3> QED BY <2>3, <3>1, ContentIsOfTheShown, Zenon DEF View
  <2>5. Store!Sound(Committed', W)
    BY <2>2, <2>3 DEF Store!Sound
  <2>6. ASSUME NEW s, tokens' = tokens \cup {s},
               Committed \subseteq Committed', Committed' \ Committed \subseteq View(s)'.shows
        PROVE  [Store!StoreNext]_(Store!storeVars)
    <3>1. V \subseteq W /\ W \subseteq V \cup {View(s)'}
      BY <2>1, <2>6, Zenon
    <3>2. \A v, u \in W \ V : v = u
      BY <3>1, Zenon
    <3>3. \A v \in W \ V : Committed' \ Committed \subseteq v.shows
      BY <2>6, <3>1, Zenon
    <3>4. (Committed' = Committed /\ W = V) \/ Committed' \ Committed # {} \/ W \ V # {}
      BY <2>6, <3>1, Zenon
    <3> HIDE DEF V, W
    <3>5. Store!StoreStep(Committed' \ Committed, W \ V) \/ (Committed' = Committed /\ W = V)
      BY <3>2, <3>3, <3>4, Zenon DEF Store!StoreStep
    <3> QED BY <2>5, <2>6, <3>1, <3>5, Zenon DEF Store!StoreNext, Store!storeVars, V, W
  <2>7. ASSUME tokens' = tokens, Committed \subseteq Committed'
        PROVE  [Store!StoreNext]_(Store!storeVars)
    <3>1. V = W
      BY <2>1, <2>7, Zenon
    <3>2. Store!StoreStep(Committed' \ Committed, {}) \/ Committed' = Committed
      BY <2>7, Zenon DEF Store!StoreStep
    <3> HIDE DEF V, W
    <3>3. Store!StoreStep(Committed' \ Committed, W \ V) \/ Committed' = Committed
      BY <3>1, <3>2, Zenon
    <3> QED BY <2>5, <2>7, <3>1, <3>3, Zenon DEF Store!StoreNext, Store!storeVars, V, W
  <2>8. CASE UNCHANGED <<rows, commitLog, tokens>>
    BY <2>7, <2>8, Zenon DEF Committed
  <2>9. CASE ReadStep
    <3>1. UNCHANGED commitLog
      BY <2>9, Zenon DEF ReadStep, pgVars
    <3>2. Committed' = Committed
      BY <3>1, Zenon DEF Committed
    <3> QED BY <2>6, <2>9, <3>2, Zenon DEF ReadStep
  <2>10. CASE Heartbeat
    <3>1. nextXid \in Xids /\ commitLog' = Append(commitLog, nextXid) /\ tokens' = tokens
      BY <2>10, <1>3 DEF Heartbeat, Inv, TypeOK, Xids
    <3>2. Committed' = Committed \cup {nextXid}
      BY <1>3, <3>1, LogGrows, Zenon
    <3> QED BY <2>7, <3>1, <3>2, Zenon
  <2>11. ASSUME NEW w \in Writers, CommitStep(w)
         PROVE  [Store!StoreNext]_(Store!storeVars)
    <3>1. xid[w] \in Xids /\ commitLog' = Append(commitLog, xid[w])
      BY <1>3, <2>11, Zenon DEF CommitStep, CommitRows, Inv, TypeOK
    <3>2. Committed' = Committed \cup {xid[w]}
      BY <1>3, <3>1, LogGrows, Zenon
    <3>3. CASE tokens' = tokens
      BY <2>7, <3>2, <3>3, Zenon
    <3>4. CASE tokens' = tokens \cup {NewRevision(w)}
      <4>1. PICK s : s = NewRevision(w)
        OBVIOUS
      <4>2. xid[w] \in Visible(s)
        BY <1>3, <2>11, <4>1, OwnCommitIsShown, Zenon
      <4>3. Committed' \ Committed \subseteq View(s)'.shows
        BY <3>2, <4>2, Zenon DEF View
      <4> QED BY <2>6, <3>2, <3>4, <4>1, <4>3, Zenon
    <3> QED BY <2>11, <3>3, <3>4, Zenon DEF CommitStep
  <2> QED BY <2>0, StoreSteps, <2>8, <2>9, <2>10, <2>11, Zenon
<1> QED BY <1>1, <1>2, <1>3, DatastoreInvariant, PTL DEF Spec, ImplementsStore, Store!StoreSpec
=============================================================================
