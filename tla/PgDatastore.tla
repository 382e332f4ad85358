---------------------------- MODULE PgDatastore ----------------------------
(***************************************************************************)
(* The Postgres datastore: ReadWriteTx and its retries, the three kinds of *)
(* relationship update, the stored schema and its hash precondition, the   *)
(* heartbeat, and the revisions handed to clients.                         *)
(*                                                                         *)
(* Postgres itself is external.  A transaction id is assigned, is active,  *)
(* and settles when its transaction commits or rolls back; a snapshot      *)
(* lists the active ids below the highest settled one.  A transaction      *)
(* begins (its timestamp), takes its one snapshot at its first statement   *)
(* (REPEATABLE READ or SERIALIZABLE) and is assigned its id by it, with    *)
(* other transactions free to run in between.                              *)
(***************************************************************************)
EXTENDS PgSnapshot, Sequences

CONSTANTS
    Writers,        \* calls of ReadWriteTx, each made once
    Calls,          \* the calls their functions may make, a subset of AllCalls
    Keys,           \* relationships, without caveat and expiration
    InitialKeys,    \* relationships written before the first call
    Vals,           \* caveats of a relationship, or hashes of a schema
    InitialVal,     \* the one of the rows written before the first call
    SchemaKey,      \* the row of schema_revision
    NoHash,
    MaxRetries,
    Quantization, FollowerDelay,    \* of the optimized revision, in ticks
    MaxXid,         \* bound on transaction ids
    MaxClock,       \* bound on the database's clock
    MaxTokens       \* bound on the revisions that reads hand out

AllCalls == {"create", "touch", "delete", "assert", "schema"}

ASSUME PgAssumption ==
    /\ Calls \subseteq AllCalls /\ InitialKeys \subseteq Keys
    /\ MaxXid \in Nat \ {0} /\ MaxClock \in Nat /\ MaxTokens \in Nat
    /\ MaxRetries \in Nat
    /\ Quantization \in Nat \ {0} /\ FollowerDelay \in Nat
    /\ SchemaKey \notin Keys /\ NoHash \notin Vals

ASSUME InitialValAssumption == InitialVal \in Vals

VARIABLES
    nextXid, settled, latest,   \* Postgres: next id, settled ids, the highest
    rows,                       \* committed rows of relation_tuple and schema_revision
    txTable,                    \* committed rows of relation_tuple_transaction
    commitLog,                  \* ids in the order of pg_xact_commit_timestamp
    clock,
    pc, attempts, startTs, snapshot, xid, ins, del, lock, pre,  \* per call
    tokens                      \* revisions handed to clients

pgVars == <<nextXid, settled, latest, rows, txTable, commitLog>>
txVars == <<pc, attempts, startTs, snapshot, xid, ins, del, lock, pre>>
dsVars == <<pgVars, clock, txVars, tokens>>

Xids == 0 .. MaxXid
Live == MaxXid + 1              \* liveDeletedTxnID: larger than any id
AllKeys == Keys \cup {SchemaKey}
Row == [key : AllKeys, val : Vals, created : Xids, deleted : Xids \cup {Live}]
NoSnapshot == [xmin |-> 0, xmax |-> 0, xip |-> {}]
TxRow == [xid : Xids, snapshot : Snapshot, ts : Nat, commitTs : Nat]

CurrentSnapshot ==
    LET xip == {x \in 0 .. latest : x \notin settled}
    IN  [xmin |-> IF xip = {} THEN latest + 1 ELSE Least(xip),
         xmax |-> latest + 1,
         xip  |-> xip]

(***************************************************************************)
(* Reading: buildLivingObjectFilterForRevision, currentlyLivingObjects.    *)
(***************************************************************************)
AliveAt(R, s) == {r \in R : txVisible(s, r.created) /\ ~txVisible(s, r.deleted)}
Content(R, s) == {<<r.key, r.val>> : r \in AliveAt(R, s)}
LivingObjects(R) == {r \in R : r.deleted = Live}

(***************************************************************************)
(* ReadWriteTx                                                             *)
(***************************************************************************)
Init ==
    /\ nextXid = 2 /\ settled = {0, 1} /\ latest = 1
    /\ rows = {[key |-> k, val |-> InitialVal, created |-> 1, deleted |-> Live] :
                   k \in InitialKeys \cup {SchemaKey}}
    /\ txTable = {[xid |-> 1, ts |-> 0, commitTs |-> 0,
                   snapshot |-> [xmin |-> 1, xmax |-> 1, xip |-> {}]]}
    /\ commitLog = <<1>>
    /\ clock = 0
    /\ pc = [w \in Writers |-> "idle"]
    /\ attempts = [w \in Writers |-> 0]
    /\ startTs = [w \in Writers |-> 0]
    /\ snapshot = [w \in Writers |-> NoSnapshot]
    /\ xid = [w \in Writers |-> 0]
    /\ ins = [w \in Writers |-> {}]
    /\ del = [w \in Writers |-> {}]
    /\ lock = [w \in Writers |-> "none"]
    /\ pre = [w \in Writers |-> NoHash]
    /\ tokens = {}

BeginTx(w) ==
    /\ pc[w] = "idle"
    /\ pc' = [pc EXCEPT ![w] = "begun"]
    /\ startTs' = [startTs EXCEPT ![w] = clock]
    /\ UNCHANGED <<pgVars, clock, attempts, snapshot, xid, ins, del, lock, pre,
                   tokens>>

\* createNewTransaction: the snapshot its INSERT runs under ...
TakeSnapshot(w) ==
    /\ pc[w] = "begun"
    /\ pc' = [pc EXCEPT ![w] = "snapped"]
    /\ snapshot' = [snapshot EXCEPT ![w] = CurrentSnapshot]
    /\ UNCHANGED <<pgVars, clock, attempts, startTs, xid, ins, del, lock, pre,
                   tokens>>

\* ... and the id the INSERT makes Postgres assign.
AssignXid(w) ==
    /\ pc[w] = "snapped"
    /\ nextXid <= MaxXid
    /\ pc' = [pc EXCEPT ![w] = "open"]
    /\ xid' = [xid EXCEPT ![w] = nextXid]
    /\ nextXid' = nextXid + 1
    /\ UNCHANGED <<settled, latest, rows, txTable, commitLog, clock, attempts,
                   startTs, snapshot, ins, del, lock, pre, tokens>>

Pending(w, k) == \E r \in ins[w] \cup del[w] : r.key = k

\* A statement that meets a row another open transaction has changed waits for it.
Waits(w, k) == \E o \in Writers \ {w} : Pending(o, k)

NewRow(w, k, v) == [key |-> k, val |-> v, created |-> xid[w], deleted |-> Live]

SeenLiving(w, k) ==
    {r \in AliveAt(rows, snapshot[w]) : r.key = k}

\* An update of a living row its snapshot shows: the row must still be living,
\* or Postgres reports a serialization failure.
CanDelete(w, k) == SeenLiving(w, k) \subseteq LivingObjects(rows)

Write(w, k, deleted, inserted) ==
    /\ pc[w] = "open" /\ ~Pending(w, k) /\ ~Waits(w, k)
    /\ del' = [del EXCEPT ![w] = @ \cup deleted]
    /\ ins' = [ins EXCEPT ![w] = @ \cup inserted]
    /\ UNCHANGED <<pgVars, clock, pc, attempts, startTs, snapshot, xid, lock, pre,
                   tokens>>

\* WriteRelationships, CREATE: the unique index over living rows, which knows no
\* snapshots, must have no row for the key.
WriteCreate(w, k, v) ==
    /\ \A r \in LivingObjects(rows) : r.key # k
    /\ Write(w, k, {}, {NewRow(w, k, v)})

\* Mutant: the row with the old caveat is not deleted.
WriteTouch_NoDelete(w, k, v) ==
    /\ {r \in LivingObjects(rows) : r.key = k} \subseteq SeenLiving(w, k)
    /\ Write(w, k, {}, {NewRow(w, k, v)} \ LivingObjects(rows))

\* WriteRelationships, TOUCH: INSERT ... ON CONFLICT DO NOTHING; a row that
\* conflicts must be in the snapshot, and one with another caveat is deleted and
\* inserted again.
WriteTouch(w, k, v) ==
    LET living  == {r \in LivingObjects(rows) : r.key = k}
        changed == {r \in living : r.val # v}
    IN  /\ living \subseteq SeenLiving(w, k)
        /\ IF living = {}
           THEN Write(w, k, {}, {NewRow(w, k, v)})
           ELSE Write(w, k, changed,
                      IF changed = {} THEN {} ELSE {NewRow(w, k, v)})

\* WriteRelationships, DELETE, and DeleteRelationships for one relationship.
WriteDelete(w, k) ==
    /\ CanDelete(w, k)
    /\ Write(w, k, SeenLiving(w, k), {})

\* Mutant: a FOR SHARE lock does not hold up FOR UPDATE.
LockWaits_ShareIgnored(w, mode) == \E o \in Writers \ {w} : lock[o] = "exclusive"

\* The row locks of assertSchemaHash: FOR SHARE, or FOR UPDATE when exclusive,
\* held until the transaction ends.
LockWaits(w, mode) ==
    \E o \in Writers \ {w} : \/ lock[o] = "exclusive"
                             \/ lock[o] = "share" /\ mode = "exclusive"

\* assertSchemaHash, when the stored hash is the expected one.
assertSchemaHash(w, mode) ==
    /\ pc[w] = "open" /\ lock[w] = "none" /\ ins[w] = {} /\ del[w] = {}
    /\ ~LockWaits(w, mode) /\ ~Waits(w, SchemaKey)
    /\ CanDelete(w, SchemaKey)
    /\ \E r \in SeenLiving(w, SchemaKey) : pre' = [pre EXCEPT ![w] = r.val]
    /\ lock' = [lock EXCEPT ![w] = mode]
    /\ UNCHANGED <<pgVars, clock, pc, attempts, startTs, snapshot, xid, ins, del,
                   tokens>>

\* WriteStoredSchema: the living hash row is marked deleted, the new one inserted.
WriteStoredSchema(w, v) ==
    /\ ~LockWaits(w, "exclusive")
    /\ CanDelete(w, SchemaKey)
    /\ Write(w, SchemaKey, SeenLiving(w, SchemaKey), {NewRow(w, SchemaKey, v)})

\* A settled id: latestCompletedXid of Postgres follows.
Settle(x) ==
    /\ settled' = settled \cup {x}
    /\ latest' = IF x > latest THEN x ELSE latest

CommitRows(w) ==
    /\ Settle(xid[w])
    /\ rows' = (rows \ del[w])
                   \cup {[r EXCEPT !.deleted = xid[w]] : r \in del[w]}
                   \cup ins[w]
    /\ txTable' = txTable \cup {[xid |-> xid[w], snapshot |-> snapshot[w],
                                 ts |-> startTs[w], commitTs |-> clock]}
    /\ commitLog' = Append(commitLog, xid[w])

EndTx(w, outcome) ==
    /\ pc' = [pc EXCEPT ![w] = outcome]
    /\ startTs' = [startTs EXCEPT ![w] = 0]
    /\ snapshot' = [snapshot EXCEPT ![w] = NoSnapshot]
    /\ xid' = [xid EXCEPT ![w] = 0]
    /\ ins' = [ins EXCEPT ![w] = {}]
    /\ del' = [del EXCEPT ![w] = {}]
    /\ lock' = [lock EXCEPT ![w] = "none"]
    /\ pre' = [pre EXCEPT ![w] = NoHash]

\* Mutant: the transaction's own id is not marked complete.
NewRevision_SnapshotOnly(w) == snapshot[w]

NewRevision(w) == markComplete(snapshot[w], xid[w])

Commit(w) ==
    /\ pc[w] = "open"
    /\ CommitRows(w)
    /\ EndTx(w, "done")
    /\ tokens' = tokens \cup {NewRevision(w)}
    /\ UNCHANGED <<nextXid, clock, attempts>>

\* The commit succeeds but its acknowledgement is lost: the caller gets an error
\* that errorRetryable does not retry.
CommitUnacknowledged(w) ==
    /\ pc[w] = "open"
    /\ CommitRows(w)
    /\ EndTx(w, "failed")
    /\ UNCHANGED <<nextXid, clock, attempts, tokens>>

Rollback(w, outcome) ==
    /\ pc[w] = "open"
    /\ Settle(xid[w])
    /\ EndTx(w, outcome)
    /\ UNCHANGED <<nextXid, rows, txTable, commitLog, clock, tokens>>

\* A serialization failure, possible once another transaction ran concurrently:
\* retried while attempts remain.
SerializationError(w) ==
    /\ \E x \in 0 .. (nextXid - 1) : x # xid[w] /\ ~txVisible(snapshot[w], x)
    /\ Rollback(w, IF attempts[w] < MaxRetries THEN "idle" ELSE "failed")
    /\ attempts' = [attempts EXCEPT ![w] = @ + 1]

\* Any other error: of the caller's function, a unique constraint, a precondition
\* that does not hold, a cancelled context.
FinalError(w) ==
    /\ Rollback(w, "failed")
    /\ UNCHANGED attempts

\* An error before the transaction has an id: retried when pgconn.SafeToRetry.
EarlyError(w) ==
    /\ pc[w] \in {"begun", "snapped"}
    /\ \/ attempts[w] < MaxRetries /\ EndTx(w, "idle")
       \/ EndTx(w, "failed")
    /\ attempts' = [attempts EXCEPT ![w] = @ + 1]
    /\ UNCHANGED <<pgVars, clock, tokens>>

(***************************************************************************)
(* Revisions                                                               *)
(***************************************************************************)
HeadRevision ==
    /\ Cardinality(tokens) < MaxTokens
    /\ tokens' = tokens \cup {CurrentSnapshot}
    /\ UNCHANGED <<pgVars, clock, txVars>>

QuantizedNow == ((clock - FollowerDelay) \div Quantization) * Quantization

\* Mutant: the first transaction of all.
SelectedTxs_NoBoundary ==
    {t \in txTable : \A u \in txTable : t.ts <= u.ts}

\* querySelectRevision: the transactions it may select, first by timestamp among
\* those not before the quantized time.
SelectedTxs ==
    LET recent == {t \in txTable : t.ts >= QuantizedNow}
    IN  {t \in recent : \A u \in recent : t.ts <= u.ts}

OptimizedCandidates ==
    IF SelectedTxs = {} THEN {CurrentSnapshot}
    ELSE {markComplete(t.snapshot, t.xid) : t \in SelectedTxs}

optimizedRevisionFunc ==
    /\ Cardinality(tokens) < MaxTokens
    /\ \E s \in OptimizedCandidates : tokens' = tokens \cup {s}
    /\ UNCHANGED <<pgVars, clock, txVars>>

\* schemaHashForSelectedXID: compares ids, not snapshots.
SchemaHashForSelectedXID(x) ==
    LET found == {r \in rows : /\ r.key = SchemaKey
                               /\ r.created <= x /\ r.deleted > x}
    IN  {r.val : r \in {f \in found : \A g \in found : g.created <= f.created}}

\* insertHeartBeatRevision, one statement in a transaction of its own.
Heartbeat ==
    /\ nextXid <= MaxXid
    /\ \A t \in txTable : t.ts < (clock \div Quantization) * Quantization
    /\ Settle(nextXid)
    /\ nextXid' = nextXid + 1
    /\ txTable' = txTable \cup {[xid |-> nextXid, snapshot |-> CurrentSnapshot,
                                 ts |-> clock, commitTs |-> clock]}
    /\ commitLog' = Append(commitLog, nextXid)
    /\ UNCHANGED <<rows, clock, txVars, tokens>>

Tick ==
    /\ clock < MaxClock
    /\ clock' = clock + 1
    /\ UNCHANGED <<pgVars, txVars, tokens>>

WriterStep(w) ==
    \/ BeginTx(w) \/ TakeSnapshot(w) \/ AssignXid(w)
    \/ /\ "create" \in Calls
       /\ \E k \in Keys, v \in Vals : WriteCreate(w, k, v)
    \/ /\ "touch" \in Calls
       /\ \E k \in Keys, v \in Vals : WriteTouch(w, k, v)
    \/ /\ "delete" \in Calls
       /\ \E k \in Keys : WriteDelete(w, k)
    \/ /\ "assert" \in Calls
       /\ \E mode \in {"share", "exclusive"} : assertSchemaHash(w, mode)
    \/ /\ "schema" \in Calls
       /\ \E v \in Vals : WriteStoredSchema(w, v)
    \/ Commit(w) \/ CommitUnacknowledged(w)
    \/ SerializationError(w) \/ FinalError(w) \/ EarlyError(w)

DatastoreNext ==
    \/ \E w \in Writers : WriterStep(w)
    \/ HeadRevision \/ optimizedRevisionFunc \/ Heartbeat \/ Tick

Spec == Init /\ [][DatastoreNext]_dsVars

(***************************************************************************)
(* Properties                                                              *)
(***************************************************************************)

\* Type invariant of the datastore's tables and of the calls in flight.
TypeOK ==
    /\ nextXid \in 2 .. (MaxXid + 1)
    /\ settled \in SUBSET Xids /\ latest \in Xids
    /\ rows \in SUBSET Row
    /\ txTable \in SUBSET TxRow
    /\ clock \in 0 .. MaxClock
    /\ pc \in [Writers -> {"idle", "begun", "snapped", "open", "done", "failed"}]
    /\ attempts \in [Writers -> 0 .. (MaxRetries + 1)]
    /\ startTs \in [Writers -> 0 .. MaxClock]
    /\ snapshot \in [Writers -> Snapshot]
    /\ xid \in [Writers -> Xids]
    /\ ins \in [Writers -> SUBSET Row]
    /\ del \in [Writers -> SUBSET Row]
    /\ lock \in [Writers -> {"none", "share", "exclusive"}]
    /\ pre \in [Writers -> Vals \cup {NoHash}]
    /\ tokens \in SUBSET Snapshot

\* Reads at a revision a client holds never change, whatever commits later and
\* in whatever order (SnapshotReader with buildLivingObjectFilterForRevision):
\* no transaction a revision shows as settled can still write.
RepeatableReads ==
    [][\A t \in tokens : Content(rows', t) = Content(rows, t)]_dsVars

\* HeadRevision is "at least as fresh as right now" (pkg/datastore/datastore.go):
\* no revision handed out before, by a commit, by OptimizedRevision or by
\* HeadRevision itself, shows anything the current snapshot hides.
HeadCoversTokens ==
    \A t \in tokens : compare(t, CurrentSnapshot) \in {"lt", "equal"}

\* compare of snapshot.go, which never looks at the sets of visible transactions,
\* orders the revisions clients hold as inclusion orders what they show, and calls
\* them concurrent exactly when neither includes the other.
TokensCompareByContent ==
    \A t, u \in tokens :
        compare(t, u) = IF Visible(t) = Visible(u) THEN "equal"
                        ELSE IF Visible(t) \subseteq Visible(u) THEN "lt"
                        ELSE IF Visible(u) \subseteq Visible(t) THEN "gt"
                        ELSE "concurrent"

\* A replica whose own snapshot, some earlier snapshot of the primary's, passes the
\* guard of strictreader.go shows every transaction the requested revision shows,
\* although transactions commit and are replayed out of the order of their ids.
StrictReadsAreComplete ==
    \A replica, t \in tokens :
        replicaContainsRevision(replica, t) => Visible(t) \subseteq Visible(replica)

\* The revision ReadWriteTx returns shows what the transaction's snapshot showed,
\* without the rows it deleted and with the rows it inserted, and nothing of the
\* transactions that ran concurrently, even those that took lower ids.
CommittedRevisionIsExact ==
    [][\A w \in Writers : Commit(w) =>
          Content(rows', NewRevision(w)) =
              {<<r.key, r.val>> :
                   r \in (AliveAt(rows, snapshot[w]) \ del[w]) \cup ins[w]}]_dsVars

\* Concurrent writers of one relationship, and of the schema, leave at most one
\* living row of it (uq_relation_tuple_living_xid; schema_revision has no such
\* index and relies on the row lock of WriteStoredSchema's UPDATE).
OneLivingRow ==
    \A r, q \in LivingObjects(rows) : r.key = q.key => r = q

\* assertSchemaHash: from the check until the transaction ends, the schema stays
\* the one it was checked against, "guaranteeing no relationship write commits
\* against a schema it was not validated against" (storedschema.go:36).
SchemaStaysAsAsserted ==
    \A w \in Writers, r \in LivingObjects(rows) :
        pre[w] # NoHash /\ r.key = SchemaKey => r.val = pre[w]

\* OptimizedRevision lags by at most the follower delay and one quantum: what
\* was committed before the quantized time is visible in every revision
\* querySelectRevision may pick, although it picks by the time a transaction
\* began and not by the time it committed.
OptimizedStalenessBounded ==
    \A s \in OptimizedCandidates, t \in txTable :
        t.commitTs < QuantizedNow => txVisible(s, t.xid)

\* RevisionWithSchemaHash is "a revision paired with the schema hash that was
\* active at that revision" (pkg/datastore/datastore.go:1081), here for the pair
\* optimizedRevisionFunc returns.
OptimizedHashIsActive ==
    \A t \in SelectedTxs :
        SchemaHashForSelectedXID(t.xid) =
            {r.val : r \in {q \in AliveAt(rows, markComplete(t.snapshot, t.xid)) :
                               q.key = SchemaKey}}

(***************************************************************************)
(* The inductive invariant from which the properties above follow.         *)
(***************************************************************************)
Open == {w \in Writers : pc[w] = "open"}

\* Ids settle once, and an open transaction has an unsettled one of its own; a
\* call that has not failed has retries to spare.
IdsInv ==
    /\ latest \in settled /\ latest < nextXid
    /\ \A x \in settled : x <= latest
    /\ \A w \in Open : xid[w] \notin settled /\ xid[w] < nextXid
    /\ \A w, o \in Open : xid[w] = xid[o] => w = o
    /\ \A w \in Writers : pc[w] # "failed" => attempts[w] <= MaxRetries

\* No snapshot in use shows an unsettled id.
ShowsSettled(s) == WellFormed(s) /\ Visible(s) \subseteq settled
ShownInv ==
    /\ \A s \in tokens : ShowsSettled(s)
    /\ \A w \in Writers : ShowsSettled(snapshot[w])
    /\ \A t \in txTable : ShowsSettled(t.snapshot) /\ t.xid \in settled

\* Committed rows carry settled ids; what an open transaction deletes is still
\* living, what it inserts carries its id, and no other has changes of that key.
RowsInv ==
    /\ \A r \in rows : r.created \in settled /\ r.deleted \in settled \cup {Live}
    /\ \A w \in Writers \ Open : ins[w] = {} /\ del[w] = {}
    /\ \A w \in Writers : del[w] \subseteq LivingObjects(rows)
    /\ \A w \in Writers : \A r \in ins[w] : r.created = xid[w] /\ r.deleted = Live
    /\ \A w, o \in Writers, k \in AllKeys : Pending(w, k) /\ Pending(o, k) => w = o

\* An insertion replaces every living row of its key.
ReplacesInv ==
    /\ OneLivingRow
    /\ \A w \in Writers : \A q \in ins[w], r \in LivingObjects(rows) :
          r.key = q.key => r \in del[w]
    /\ \A w \in Writers : \A q, r \in ins[w] : q.key = r.key => q = r

\* A schema is always stored and every snapshot shows one; a lock on its row keeps
\* the others from changing it, and an asserted hash is a locked one.
SchemaInv ==
    /\ \E r \in LivingObjects(rows) : r.key = SchemaKey
    /\ \A w \in Writers : pc[w] \in {"snapped", "open"} => SeenLiving(w, SchemaKey) # {}
    /\ \A w \in Writers : \A r \in del[w] :
          r.key = SchemaKey => \E q \in ins[w] : q.key = SchemaKey
    /\ \A w, o \in Writers : lock[w] # "none" /\ Pending(o, SchemaKey) => w = o
    /\ \A w \in Writers : pre[w] # NoHash => lock[w] # "none"
    /\ SchemaStaysAsAsserted

\* The state of the tables, of the transactions in flight and of the revisions in
\* use always agree: the strengthening under which every step of ReadWriteTx, of
\* the reads and of the heartbeat preserves the properties above.
Inv == TypeOK /\ IdsInv /\ ShownInv /\ RowsInv /\ ReplacesInv /\ SchemaInv

\* What had committed when a transaction began is in its snapshot, whatever the clock
\* did between its start, its snapshot and its commit.
TimesInv ==
    /\ \A t \in txTable : t.ts <= clock /\ t.commitTs <= clock
    /\ \A w \in Writers : startTs[w] <= clock
    /\ \A w \in Writers, t \in txTable :
          pc[w] \in {"snapped", "open"} /\ t.commitTs < startTs[w] => txVisible(snapshot[w], t.xid)
    /\ \A t, u \in txTable : t.commitTs < u.ts => txVisible(u.snapshot, t.xid)
=============================================================================
