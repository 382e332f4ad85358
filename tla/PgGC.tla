------------------------------- MODULE PgGC -------------------------------
(***************************************************************************)
(* Garbage collection of the Postgres datastore (gc.go, driven by          *)
(* RunGarbageCollection of pkg/datastore/gc.go) beside its writers, and    *)
(* CheckRevision, which tells whether a revision may still be read.        *)
(*                                                                         *)
(* Every node runs a collector; an advisory lock lets one run at a time.   *)
(* A run reads the clock, finds a watermark transaction before the window, *)
(* then deletes in batches, each statement a transaction of its own.  An   *)
(* error, a timeout or a crash ends a run between any two statements, and  *)
(* the lock goes with the connection.                                      *)
(***************************************************************************)
EXTENDS PgDatastore, FiniteSetsExt

CONSTANTS
    Collectors,
    Window,         \* gcWindow, in ticks
    BatchSize       \* gcBatchDeleteSize

ASSUME GCAssumption == Window \in Nat /\ BatchSize \in Nat \ {0}

VARIABLES
    gpc,            \* per collector: "idle", "locked", "before", "rows" or "txs"
    gcLock,         \* collectors that hold gcRunLock: none or one
    now,            \* per collector: the time read by Now
    watermark,      \* per collector: the row TxIDBefore returned
    watermarks,     \* ids of all watermarks so far
    issued          \* every revision handed out, with the content it showed then

gcVars == <<gpc, gcLock, now, watermark, watermarks, issued>>
vars == <<dsVars, gcVars>>

FirstTx == [xid |-> 1, ts |-> 0, commitTs |-> 0,
            snapshot |-> [xmin |-> 1, xmax |-> 1, xip |-> {}]]

GCInit ==
    /\ Init
    /\ gpc = [g \in Collectors |-> "idle"]
    /\ gcLock = {}
    /\ now = [g \in Collectors |-> 0]
    /\ watermark = [g \in Collectors |-> FirstTx]
    /\ watermarks = {}
    /\ issued = {}

\* LockForGCRun: a collector that finds the lock taken returns and changes nothing.
LockForGCRun(g) ==
    /\ gpc[g] = "idle" /\ gcLock = {}
    /\ gcLock' = {g}
    /\ gpc' = [gpc EXCEPT ![g] = "locked"]
    /\ UNCHANGED <<dsVars, now, watermark, watermarks, issued>>

Now(g) ==
    /\ gpc[g] = "locked"
    /\ now' = [now EXCEPT ![g] = clock]
    /\ gpc' = [gpc EXCEPT ![g] = "before"]
    /\ UNCHANGED <<dsVars, gcLock, watermark, watermarks, issued>>

\* getRevisionForGC: the highest id among the transactions before the window.
TxIDBefore(g) ==
    LET old == {t \in txTable : t.ts < now[g] - Window}
    IN  /\ gpc[g] = "before"
        /\ \E t \in old :
              /\ \A u \in old : u.xid <= t.xid
              /\ watermark' = [watermark EXCEPT ![g] = t]
              /\ watermarks' = watermarks \cup {t.xid}
        /\ gpc' = [gpc EXCEPT ![g] = "rows"]
        /\ UNCHANGED <<dsVars, gcLock, now, issued>>

\* Mutant: the watermark's own id in place of its snapshot's xmin.
minTxAlive_OwnXid(g) == watermark[g].xid

minTxAlive(g) == watermark[g].snapshot.xmin

\* One statement of batchDelete over the set S: which rows of a larger set it
\* takes is Postgres' choice; a batch that is not full is the last.
Batch(S) == IF Cardinality(S) <= BatchSize THEN {S} ELSE kSubset(BatchSize, S)
LastBatch(B) == Cardinality(B) < BatchSize

EndRun(g) ==
    /\ gcLock' = {}
    /\ gpc' = [gpc EXCEPT ![g] = "idle"]
    /\ now' = [now EXCEPT ![g] = 0]
    /\ watermark' = [watermark EXCEPT ![g] = FirstTx]

\* deleteBeforeTx, first batchDelete: relationships dead before the watermark.
DeleteRows(g) ==
    /\ gpc[g] = "rows"
    /\ \E B \in Batch({r \in rows : r.key \in Keys /\ r.deleted < minTxAlive(g)}) :
          /\ rows' = rows \ B
          /\ gpc' = IF LastBatch(B) THEN [gpc EXCEPT ![g] = "txs"] ELSE gpc
    /\ UNCHANGED <<nextXid, settled, latest, txTable, commitLog, clock, txVars,
                   tokens, gcLock, now, watermark, watermarks, issued>>

DeadTxs(g) == {t \in txTable : t.xid < minTxAlive(g)}

\* Second batchDelete, then the lock is released.  The third, over namespaces,
\* which this model has not, and DeleteExpiredRels change nothing here.
DeleteTxs(g) ==
    /\ gpc[g] = "txs"
    /\ \E B \in Batch(DeadTxs(g)) :
          /\ txTable' = txTable \ B
          /\ IF LastBatch(B) THEN EndRun(g)
             ELSE UNCHANGED <<gcLock, gpc, now, watermark>>
    /\ UNCHANGED <<nextXid, settled, latest, rows, commitLog, clock, txVars,
                   tokens, watermarks, issued>>

\* An error of a statement (for TxIDBefore, no transaction before the window), or
\* the task's timeout, or the node's crash.
GCFails(g) ==
    /\ gpc[g] # "idle"
    /\ EndRun(g)
    /\ UNCHANGED <<dsVars, watermarks, issued>>

CollectorStep(g) ==
    LockForGCRun(g) \/ Now(g) \/ TxIDBefore(g) \/ DeleteRows(g) \/ DeleteTxs(g)

\* queryValidTransaction: the first transaction inside the window or, when there
\* is none, the newest of all.
MinimumValid ==
    LET inside == {t \in txTable : t.ts >= clock - Window}
    IN  IF inside # {} THEN {t \in inside : \A u \in inside : t.ts <= u.ts}
        ELSE {t \in txTable : \A u \in txTable : u.ts <= t.ts}

\* CheckRevision accepts the revision, whichever of the transactions with the same
\* timestamp the query returns.
CheckRevision(s) ==
    /\ ~GreaterThan(s, CurrentSnapshot)
    /\ \A t \in MinimumValid : ~GreaterThan(markComplete(t.snapshot, t.xid), s)

GCNext ==
    \/ /\ DatastoreNext
       /\ issued' = issued \cup
                        {[rev |-> s, content |-> Content(rows', s)] : s \in tokens' \ tokens}
       /\ UNCHANGED <<gpc, gcLock, now, watermark, watermarks>>
    \/ \E g \in Collectors : CollectorStep(g) \/ GCFails(g)

GCSpec == GCInit /\ [][GCNext]_vars

(***************************************************************************)
(* Properties                                                              *)
(***************************************************************************)

\* Type invariant of the collectors; the lock is held by exactly those running.
GCTypeOK ==
    /\ gpc \in [Collectors -> {"idle", "locked", "before", "rows", "txs"}]
    /\ gcLock = {g \in Collectors : gpc[g] # "idle"}
    /\ Cardinality(gcLock) <= 1
    /\ now \in [Collectors -> 0 .. MaxClock]
    /\ watermark \in [Collectors -> TxRow]
    /\ watermarks \subseteq Xids

\* A revision that shows the watermark transaction of every run so far still
\* reads as it did when it was handed out, wherever runs stopped: only rows dead
\* in the watermark's own snapshot were collected, although their ids are
\* compared with a number alone.
CollectionSparesLaterRevisions ==
    \A i \in issued :
        (\A x \in watermarks : txVisible(i.rev, x)) => Content(rows, i.rev) = i.content

\* CheckRevision "checks the specified revision to make sure it's valid and hasn't
\* been garbage collected" (pkg/datastore/datastore.go:763).
CheckedRevisionIsReadable ==
    \A i \in issued : CheckRevision(i.rev) => Content(rows, i.rev) = i.content

(***************************************************************************)
(* The inductive invariant from which CollectionSparesLaterRevisions       *)
(* follows.                                                                *)
(***************************************************************************)

\* The transactions whose rows are in the table, or with a running collector.
KnownTxs == txTable \cup {watermark[g] : g \in {h \in Collectors : gpc[h] \in {"rows", "txs"}}}

Snapshots == tokens \cup {snapshot[w] : w \in Writers} \cup {t.snapshot : t \in KnownTxs}

\* A snapshot that shows a transaction shows what the transaction's own shows: it was
\* taken after the transaction ended, or made from its row.
Covers(s, t) ==
    txVisible(s, t.xid) => \A x \in Xids : txVisible(t.snapshot, x) => txVisible(s, x)

ClosedInv ==
    /\ \A s \in Snapshots, t \in KnownTxs : Covers(s, t)
    /\ \A t, u \in KnownTxs : t.xid = u.xid => t.snapshot = u.snapshot

\* A collector deletes by a settled transaction, one of the watermarks.
RunsInv ==
    /\ gpc \in [Collectors -> {"idle", "locked", "before", "rows", "txs"}]
    /\ watermark \in [Collectors -> TxRow]
    /\ \A t \in KnownTxs : t \in TxRow /\ ShowsSettled(t.snapshot) /\ t.xid \in settled
    /\ \A g \in Collectors : gpc[g] \in {"rows", "txs"} => watermark[g].xid \in watermarks
    /\ \A i \in issued : i.rev \in tokens

GCInv == Inv /\ RunsInv /\ ClosedInv /\ CollectionSparesLaterRevisions
=============================================================================
