------------------------------- MODULE MemDB -------------------------------
(***************************************************************************)
(* The in-memory datastore: one write transaction at a time, with the      *)
(* writers behind it waiting on a condition variable; a snapshot of the    *)
(* whole database for each revision; revisions that are times; Close; and  *)
(* Watch over the changelog.  Regions that hold mdb.RWMutex are one step.  *)
(*                                                                         *)
(* go-memdb is external: a database maps objects to values, a transaction  *)
(* works on a copy of it, and a watch channel fires when it commits.       *)
(***************************************************************************)
EXTENDS Naturals, Sequences, FiniteSets

CONSTANTS
    Writers,        \* calls of ReadWriteTx, each made once
    Rels,           \* relationships, without caveat and expiration
    Names,          \* names of namespaces and caveats
    HashKey,        \* the row of the table schemarevision
    Vals,           \* caveats of a relationship, contents of a definition, hashes
    None,
    NoWriter,
    ResourceType(_),    \* the namespace of a relationship's resource
    MaxAttempts,    \* maxRetries, or 1 with DisableRetries
    Quantization, GCWindow,
    Watchers,
    Content(_),     \* of a watcher: a subset of {"rels", "schema", "checkpoints"}
    BufferLength,
    MaxClock, MaxTokens     \* bounds on the clock and on the revisions handed out

Objects == Rels \cup Names \cup {HashKey}

ASSUME MemAssumption ==
    /\ None \notin Vals /\ NoWriter \notin Writers
    /\ \A r \in Rels : ResourceType(r) \in Names
    /\ MaxAttempts \in Nat \ {0} /\ Quantization \in Nat \ {0} /\ GCWindow \in Nat
    /\ BufferLength \in Nat \ {0} /\ MaxClock \in Nat /\ MaxTokens \in Nat

VARIABLES
    now,                    \* time.Now
    closed,                 \* mdb.db is nil
    db, changelog,          \* the tables
    revisions,              \* snapshots, a sequence
    activeWriteTxn,         \* whose write transaction is active
    writeTxReady,           \* the writers waiting on the condition, in order
    tx, touched, newRevision,   \* the active transaction
    wpc, wattempts,         \* per writer
    issued,                 \* revisions handed out, and what they read then
    watch                   \* per watcher

storeVars == <<closed, db, changelog, revisions, activeWriteTxn, writeTxReady>>
txnVars == <<tx, touched, newRevision>>
memVars == <<now, storeVars, txnVars, wpc, wattempts, issued, watch>>

Empty == [o \in Objects |-> None]
Last(s) == s[Len(s)]
head == Last(revisions).rev

(***************************************************************************)
(* SnapshotReader and the revisions it accepts                             *)
(***************************************************************************)
checkRevision(t) ==
    IF t # head /\ t + GCWindow < now THEN "stale"
    ELSE IF t > now /\ t > head THEN "unknown"
    ELSE "valid"

\* The last snapshot at or before the revision, or else the oldest.
SnapshotAt(t) ==
    LET before == {i \in DOMAIN revisions : revisions[i].rev <= t}
    IN  IF before = {} THEN revisions[1]
        ELSE revisions[CHOOSE i \in before : \A j \in before : j <= i]

Hand(t) ==
    issued' = issued \cup {[rev |-> t, settled |-> t <= head, content |-> SnapshotAt(t).db]}

\* Created at any time within a quantum.
MemInit ==
    /\ now \in 0 .. (Quantization - 1) /\ closed = FALSE
    /\ db = Empty /\ changelog = <<>>
    /\ revisions = <<[rev |-> now, hash |-> None, db |-> Empty]>>
    /\ activeWriteTxn = NoWriter /\ writeTxReady = <<>>
    /\ tx = Empty /\ touched = {} /\ newRevision = 0
    /\ wpc = [w \in Writers |-> "idle"] /\ wattempts = [w \in Writers |-> 0]
    /\ issued = {}
    /\ watch = [u \in Watchers |->
                   [pc |-> "off", start |-> 0, settled |-> TRUE, currentTxn |-> 0,
                    staged |-> <<>>, updates |-> <<>>, copy |-> Empty,
                    received |-> 0, complete |-> TRUE]]

(***************************************************************************)
(* ReadWriteTx                                                             *)
(***************************************************************************)
newRevisionID == IF now > head THEN now ELSE head + 1

\* txSrc, on the transaction's first use and after each wake-up.
TxSrc(w) ==
    /\ wpc[w] \in {"idle", "woken"}
    /\ \/ /\ activeWriteTxn # NoWriter
          /\ writeTxReady' = Append(writeTxReady, w)
          /\ wpc' = [wpc EXCEPT ![w] = "waiting"]
          /\ UNCHANGED <<activeWriteTxn, txnVars>>
       \/ /\ activeWriteTxn = NoWriter /\ closed
          /\ wpc' = [wpc EXCEPT ![w] = "failed"]
          /\ UNCHANGED <<activeWriteTxn, writeTxReady, txnVars>>
       \/ /\ activeWriteTxn = NoWriter /\ ~closed
          /\ activeWriteTxn' = w
          /\ tx' = db /\ touched' = {} /\ newRevision' = newRevisionID
          /\ wpc' = [wpc EXCEPT ![w] = "open"]
          /\ UNCHANGED writeTxReady
    /\ UNCHANGED <<now, closed, db, changelog, revisions, wattempts, issued, watch>>

\* The user function never used the transaction, and failed or returned.
UnusedTx(w) ==
    /\ wpc[w] = "idle"
    /\ \/ /\ ~closed /\ Cardinality(issued) < MaxTokens
          /\ Hand(head)
          /\ wpc' = [wpc EXCEPT ![w] = "done"]
       \/ wpc' = [wpc EXCEPT ![w] = "failed"] /\ UNCHANGED issued
    /\ UNCHANGED <<now, storeVars, txnVars, wattempts, watch>>

\* The API refuses two changes of one object in a transaction.
Change(w, objects, value) ==
    /\ wpc[w] = "open" /\ objects \cap touched = {}
    /\ tx' = [o \in Objects |-> IF o \in objects THEN value ELSE tx[o]]
    /\ touched' = touched \cup objects
    /\ UNCHANGED <<now, storeVars, newRevision, wpc, wattempts, issued, watch>>

Existing(objects) == {o \in objects : tx[o] # None}

\* WriteRelationships: CREATE (and BulkLoad), TOUCH and DELETE.
WriteCreate(w, r, v) == tx[r] = None /\ Change(w, {r}, v)
WriteTouch(w, r, v) == tx[r] # v /\ Change(w, {r}, v)
WriteDelete(w, r) == tx[r] # None /\ Change(w, {r}, None)

\* DeleteRelationships of a resource type, whole or up to a limit.
DeleteRelationships(w, n, limit) ==
    LET matching == Existing({r \in Rels : ResourceType(r) = n})
    IN  \E chosen \in SUBSET matching :
            /\ chosen # {}
            /\ chosen = matching \/ Cardinality(chosen) = limit
            /\ Change(w, chosen, None)

\* LegacyWriteNamespaces and LegacyWriteCaveats, and their deletion: of the
\* definition alone, or with the relationships of the namespace.
LegacyWrite(w, n, v) == Change(w, {n}, v)
LegacyDelete(w, n) ==
    /\ tx[n] # None
    /\ \/ Change(w, {n}, None)
       \/ Change(w, {n} \cup Existing({r \in Rels : ResourceType(r) = n}), None)

\* WriteStoredSchema: the old hash never stays, a new one may come with the schema.
WriteStoredSchema(w, h) == Change(w, {HashKey}, h)

\* Mutant: nobody is woken.
Signal_Lost(states) == wpc' = states /\ UNCHANGED writeTxReady

\* writeTxReady.Signal wakes the writer that waits longest.
Signal(states) ==
    IF writeTxReady = <<>>
    THEN wpc' = states /\ UNCHANGED writeTxReady
    ELSE /\ wpc' = [states EXCEPT ![Head(writeTxReady)] = "woken"]
         /\ writeTxReady' = Tail(writeTxReady)

\* The function, or the schema hash precondition before it, failed; a
\* serialization error is retried while attempts remain.
AbortTx(w) ==
    /\ wpc[w] = "open"
    /\ activeWriteTxn' = NoWriter
    /\ \/ Signal([wpc EXCEPT ![w] = "failed"]) /\ UNCHANGED wattempts
       \/ /\ wattempts' = [wattempts EXCEPT ![w] = @ + 1]
          /\ Signal([wpc EXCEPT ![w] = IF wattempts'[w] < MaxAttempts THEN "idle"
                                                                    ELSE "failed"])
    /\ UNCHANGED <<now, closed, db, changelog, revisions, txnVars, issued, watch>>

\* What the changelog says of the transaction: the tables of the stored schema and
\* of its hash are not tracked.
Tracked == {[object |-> o, value |-> tx[o]] : o \in touched \ {HashKey}}

CommitSnapshot == [rev |-> newRevision, hash |-> tx[HashKey], db |-> tx]

\* Mutant: the caller is given the revision the transaction began at.
CommitRevision_Head == [rev |-> head, settled |-> TRUE, content |-> db]
CommitRevision == [rev |-> newRevision, settled |-> TRUE, content |-> tx]

CommitTx(w) ==
    /\ wpc[w] = "open"
    /\ db' = tx
    /\ changelog' = Append(changelog, [rev |-> newRevision, changes |-> Tracked])
    /\ activeWriteTxn' = NoWriter
    /\ IF closed
       THEN /\ Signal([wpc EXCEPT ![w] = "failed"])
            /\ UNCHANGED <<revisions, issued>>
       ELSE /\ Signal([wpc EXCEPT ![w] = "done"])
            /\ revisions' = Append(revisions, CommitSnapshot)
            /\ issued' = issued \cup {CommitRevision}
    /\ UNCHANGED <<now, closed, txnVars, wattempts, watch>>

Close ==
    /\ closed' = TRUE
    /\ revisions' = IF closed THEN <<>>
                    ELSE <<[rev |-> now, hash |-> None, db |-> db]>>
    /\ UNCHANGED <<now, db, changelog, activeWriteTxn, writeTxReady, txnVars, wpc,
                   wattempts, issued, watch>>

(***************************************************************************)
(* Revisions handed to clients                                             *)
(***************************************************************************)
HeadRevision ==
    /\ ~closed /\ Cardinality(issued) < MaxTokens
    /\ Hand(head)
    /\ UNCHANGED <<now, storeVars, txnVars, wpc, wattempts, watch>>

optimized ==
    LET rounded == now - (now % Quantization)
    IN  IF rounded < revisions[1].rev THEN head ELSE rounded

OptimizedRevision ==
    /\ ~closed /\ Cardinality(issued) < MaxTokens
    /\ Hand(optimized)
    /\ UNCHANGED <<now, storeVars, txnVars, wpc, wattempts, watch>>

Tick ==
    /\ now < MaxClock
    /\ now' = now + 1
    /\ UNCHANGED <<storeVars, txnVars, wpc, wattempts, issued, watch>>

(***************************************************************************)
(* Watch                                                                   *)
(***************************************************************************)
WatchFrame == UNCHANGED <<now, storeVars, txnVars, wpc, wattempts, issued>>
Set(u, w) == watch' = [watch EXCEPT ![u] = w]

\* Watch(afterRevision), by a client that has read everything at that revision.
Watch(u, t) ==
    /\ watch[u].pc = "off" /\ ~closed
    /\ Set(u, [watch[u] EXCEPT !.pc = "load", !.start = t, !.settled = t <= head,
                               !.currentTxn = t, !.copy = SnapshotAt(t).db,
                               !.received = t])
    /\ WatchFrame

Update(c) == [rev |-> c.rev, changes |-> c.changes, checkpoint |-> FALSE]
Checkpoint(c) == [rev |-> c.rev, changes |-> {}, checkpoint |-> TRUE]

\* Mutant: the checkpoint of a revision comes before its changes.
EventsOf_CheckpointFirst(c, content) ==
    <<Checkpoint(c)>> \o (IF c.changes # {} THEN <<Update(c)>> ELSE <<>>)

\* loadChanges, of one revision: && binds tighter than ||, so that deletions of
\* definitions are sent whatever the content, and changes of both kinds twice.
EventsOf(c, content) ==
    LET rels    == {x \in c.changes : x.object \in Rels}
        defs    == {x \in c.changes : x.object \in Names}
        changed == {x \in defs : x.value # None}
    IN  (IF "rels" \in content /\ rels # {} THEN <<Update(c)>> ELSE <<>>)
        \o (IF ("schema" \in content /\ changed # {}) \/ defs \ changed # {}
            THEN <<Update(c)>> ELSE <<>>)
        \o (IF "checkpoints" \in content THEN <<Checkpoint(c)>> ELSE <<>>)

Staged(t, content) ==
    LET after == SelectSeq(changelog, LAMBDA c : c.rev > t)
        Upto[i \in 0 .. Len(after)] ==
            IF i = 0 THEN <<>> ELSE Upto[i - 1] \o EventsOf(after[i], content)
    IN  Upto[Len(after)]

LoadChanges(u) ==
    LET w == watch[u]
    IN  /\ w.pc = "load"
        /\ IF closed THEN Set(u, [w EXCEPT !.pc = "ended"])
           ELSE Set(u, [w EXCEPT !.pc = "send",
                                 !.staged = Staged(w.currentTxn, Content(u)),
                                 !.currentTxn = IF changelog # <<>> /\ Last(changelog).rev > @
                                                THEN Last(changelog).rev ELSE @])
        /\ WatchFrame

\* sendChange, with room in the buffer, or after its timeout.
SendChange(u) ==
    LET w == watch[u]
    IN  /\ w.pc = "send" /\ w.staged # <<>>
        /\ IF Len(w.updates) < BufferLength
           THEN Set(u, [w EXCEPT !.staged = Tail(@),
                                 !.updates = Append(@, Head(w.staged))])
           ELSE Set(u, [w EXCEPT !.pc = "ended", !.staged = <<>>])
        /\ WatchFrame

\* Everything staged is sent: wait until the changelog has changed since it was
\* loaded, or until the context is cancelled.
WaitForChanges(u) ==
    LET w == watch[u]
    IN  /\ w.pc = "send" /\ w.staged = <<>>
        /\ \/ /\ changelog # <<>> /\ Last(changelog).rev > w.currentTxn
              /\ Set(u, [w EXCEPT !.pc = "load"])
           \/ Set(u, [w EXCEPT !.pc = "ended"])
        /\ WatchFrame

\* The client takes an event and applies it to its copy.
Receive(u) ==
    LET w == watch[u]
        e == Head(w.updates)
    IN  /\ w.updates # <<>>
        /\ Set(u, [w EXCEPT !.updates = Tail(@), !.received = e.rev,
                            !.complete = e.checkpoint,
                            !.copy = [o \in Objects |->
                                IF \E x \in e.changes : x.object = o
                                THEN (CHOOSE x \in e.changes : x.object = o).value
                                ELSE @[o]]])
        /\ WatchFrame

WriterStep(w) ==
    \/ TxSrc(w) \/ UnusedTx(w)
    \/ \E r \in Rels, v \in Vals : WriteCreate(w, r, v) \/ WriteTouch(w, r, v)
    \/ \E r \in Rels : WriteDelete(w, r)
    \/ \E n \in Names, limit \in 1 .. Cardinality(Rels) : DeleteRelationships(w, n, limit)
    \/ \E n \in Names, v \in Vals : LegacyWrite(w, n, v)
    \/ \E n \in Names : LegacyDelete(w, n)
    \/ \E h \in Vals \cup {None} : WriteStoredSchema(w, h)
    \/ AbortTx(w) \/ CommitTx(w)

WatcherStep(u) == LoadChanges(u) \/ SendChange(u) \/ WaitForChanges(u)

MemNext ==
    \/ \E w \in Writers : WriterStep(w)
    \/ HeadRevision \/ OptimizedRevision \/ Close \/ Tick
    \/ \E u \in Watchers : WatcherStep(u) \/ Receive(u)
    \/ \E u \in Watchers, t \in {i.rev : i \in issued} : Watch(u, t)

MemSpec == MemInit /\ [][MemNext]_memVars

(***************************************************************************)
(* Properties                                                              *)
(***************************************************************************)

\* Type invariant: one transaction is active exactly while its writer is in it, and
\* "revisions MUST be sorted in strictly increasing revision order" (memdb.go:96),
\* the active transaction's above them.
MemTypeOK ==
    /\ now \in 0 .. MaxClock /\ closed \in BOOLEAN
    /\ db \in [Objects -> Vals \cup {None}] /\ tx \in [Objects -> Vals \cup {None}]
    /\ wpc \in [Writers -> {"idle", "waiting", "woken", "open", "done", "failed"}]
    /\ wattempts \in [Writers -> 0 .. MaxAttempts]
    /\ {w \in Writers : wpc[w] = "open"} = {activeWriteTxn} \ {NoWriter}
    /\ {w \in Writers : wpc[w] = "waiting"} = {writeTxReady[i] : i \in DOMAIN writeTxReady}
    /\ \A i, j \in DOMAIN revisions : i < j => revisions[i].rev < revisions[j].rev
    /\ ~closed /\ activeWriteTxn # NoWriter => newRevision > head
    /\ \A u \in Watchers : Len(watch[u].updates) <= BufferLength

\* A client that reads at a settled revision, watches from it and applies what it
\* receives has, at each checkpoint, what a read at the checkpoint returns.
WatchedCopyIsSnapshot ==
    \A u \in Watchers :
        LET w == watch[u]
        IN  /\ ~closed /\ w.pc # "off" /\ w.settled /\ w.complete
            /\ {"rels", "schema"} \subseteq Content(u)
            => \A o \in Objects \ {HashKey} : w.copy[o] = SnapshotAt(w.received).db[o]

\* While the datastore is open, a writer that waits for the active transaction has
\* somebody to wait for: the transaction in progress, or a writer just woken that
\* will take its turn and signal in its turn.  Each end of a transaction signals one
\* waiter, and a writer that overtakes the one it woke signals again.  (After Close
\* the woken writer fails without signalling the next.)
NoLostWakeup ==
    ~closed /\ writeTxReady # <<>> =>
        activeWriteTxn # NoWriter \/ \E w \in Writers : wpc[w] = "woken"

(***************************************************************************)
(* MemDB as an implementation of RevisionedStore: its transactions are     *)
(* their revisions, and a settled revision shows the ones up to it.        *)
(***************************************************************************)
MemCommitted == {changelog[i].rev : i \in DOMAIN changelog}
MemView(i) ==
    [shows |-> {r \in MemCommitted : r <= i.rev},
     content |-> IF closed THEN i.content ELSE SnapshotAt(i.rev).db]

MemStore == INSTANCE RevisionedStore WITH
    committed <- MemCommitted,
    views <- {MemView(i) : i \in {j \in issued : j.settled}}

\* MemDB implements the store of pkg/datastore/datastore.go in the revisions that
\* ReadWriteTx and HeadRevision return, until it is closed.
MemImplementsStore == MemStore!StoreSpec

(***************************************************************************)
(* The inductive invariant of ReadWriteTx and the revisions handed out.    *)
(***************************************************************************)
Database == [Objects -> Vals \cup {None}]

StoreTypes ==
    /\ now \in Nat /\ closed \in BOOLEAN /\ newRevision \in Nat
    /\ db \in Database /\ tx \in Database /\ touched \subseteq Objects
    /\ revisions \in Seq([rev : Nat, hash : Vals \cup {None}, db : Database])
    /\ changelog \in Seq([rev : Nat, changes : SUBSET [object : Objects, value : Vals \cup {None}]])
    /\ issued \subseteq [rev : Nat, settled : BOOLEAN, content : Database]
    /\ activeWriteTxn \in Writers \cup {NoWriter} /\ writeTxReady \in Seq(Writers)
    /\ wpc \in [Writers -> {"idle", "waiting", "woken", "open", "done", "failed"}]

\* Until Close there is a snapshot for each transaction in the changelog, after the one
\* of the beginning, "sorted in strictly increasing revision order" (memdb.go:96).
RevisionsInv ==
    ~closed => /\ Len(revisions) = Len(changelog) + 1
               /\ \A i \in DOMAIN changelog : revisions[i + 1].rev = changelog[i].rev
               /\ \A i, j \in DOMAIN revisions : i < j => revisions[i].rev < revisions[j].rev

\* The active transaction's revision is above all there are.
ActiveInv ==
    /\ \A w \in Writers : wpc[w] = "open" <=> w = activeWriteTxn
    /\ activeWriteTxn # NoWriter =>
          /\ \A r \in MemCommitted : r < newRevision
          /\ \A i \in issued : i.settled => i.rev < newRevision
          /\ ~closed => head < newRevision

\* A settled revision still reads as it did, and the same as every other that shows the
\* same transactions.
IssuedInv ==
    /\ ~closed => \A i \in issued : i.settled => i.rev <= head /\ SnapshotAt(i.rev).db = i.content
    /\ \A i, j \in issued :
          i.settled /\ j.settled /\ MemView(i).shows = MemView(j).shows => i.content = j.content

MemInv == StoreTypes /\ RevisionsInv /\ ActiveInv /\ IssuedInv /\ NoLostWakeup
=============================================================================
