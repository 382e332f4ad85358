------------------------------- MODULE MySQL -------------------------------
(***************************************************************************)
(* The MySQL datastore: calls of ReadWriteTx, revisions that are ids of    *)
(* transactions, Watch, garbage collection and CheckRevision.              *)
(*                                                                         *)
(* MySQL is external: ids come from an auto-increment column, before the   *)
(* transaction does anything else and in another order than commits; in a  *)
(* serializable transaction every statement sees the rows last committed   *)
(* and locks them, and the gap where there are none, until the end; a      *)
(* deadlock or a lock wait timeout ends the attempt.  Tables are kept as   *)
(* one set of rows: relationships with their caveats, definitions with     *)
(* their contents, the stored schema with its hash.                        *)
(***************************************************************************)
EXTENDS Naturals, Sequences, FiniteSets

CONSTANTS
    MyCalls,            \* calls of ReadWriteTx, each made once
    MyRels,             \* relationships, without caveat and expiration
    MyDefs,             \* names of namespaces and caveats
    SchemaName,
    MyVals,             \* caveats, contents and hashes
    MyBaseVal,          \* of the rows there are at the beginning
    NoVal,
    MyMaxRetries,
    MyQuantum, MyWindow, MyDelay,   \* revisionQuantization, gcWindow, followerReadDelay
    MyCollectors,
    MyMaxId, MyMaxClock, MyMaxHanded, MyMaxResumes  \* bounds

ASSUME MyAssumption ==
    /\ NoVal \notin MyVals /\ MyBaseVal \in MyVals
    /\ MyMaxRetries \in Nat /\ MyQuantum \in Nat \ {0} /\ MyWindow \in Nat
    /\ MyDelay \in Nat /\ MyMaxId \in Nat \ {0} /\ MyMaxClock \in Nat
    /\ MyMaxHanded \in Nat /\ MyMaxResumes \in Nat

VARIABLES
    txnTable,       \* relation_tuple_transaction
    myRows,         \* the other tables
    autoInc,        \* the last id given
    call,           \* per call
    commitIds,      \* ids in the order of their commits
    myClock,
    handed,         \* revisions handed out: what they read, which ids were open below
    headId,         \* what loadRevision returned to HeadRevision, or nothing
    mygc,           \* per collector
    collected,      \* relationship rows deleted by collectors
    myWatch

myDbVars == <<txnTable, myRows, autoInc, commitIds>>
mysqlVars == <<myDbVars, call, myClock, handed, headId, mygc, collected, myWatch>>

MyKeys == MyRels \cup MyDefs \cup {SchemaName}
LiveTxn == MyMaxId + 1      \* liveDeletedTxnID

MyRow(k, v, created) == [key |-> k, val |-> v, created |-> created, deleted |-> LiveTxn]
Living(k) == {r \in myRows : r.key = k /\ r.deleted = LiveTxn}

(***************************************************************************)
(* Reading at a revision                                                   *)
(***************************************************************************)
\* Mutant: what lives now, as within a transaction.
Alive_Now(r, rev) == r.deleted = LiveTxn

\* buildLivingObjectFilterForRevision
Alive(r, rev) == r.created <= rev /\ r.deleted > rev

ContentAt(rev) == {<<r.key, r.val>> : r \in {q \in myRows : Alive(q, rev)}}

\* loadSchemaHash, and the same in querySelectRevision.
HashAt(rev) ==
    LET found == {r \in myRows : r.key = SchemaName /\ Alive(r, rev)}
    IN  IF found = {} THEN NoVal
        ELSE (CHOOSE r \in found : \A q \in found : q.created <= r.created).val

CommittedIds == {commitIds[i] : i \in DOMAIN commitIds}
OpenIds == {call[c].id : c \in {d \in MyCalls : call[d].pc \in {"open", "done"}}}

Handing(id, hash) ==
    [rev |-> id, hash |-> hash, at |-> myClock, content |-> ContentAt(id),
     ids |-> {i \in CommittedIds : i <= id}, open |-> {i \in OpenIds : i < id}]

Greatest(S) == CHOOSE i \in S : \A j \in S : j <= i
LeastId(S) == CHOOSE i \in S : \A j \in S : i <= j
Ids == {t.id : t \in txnTable}
IdsSince(time) == {t.id : t \in {u \in txnTable : u.ts >= time}}

\* The base transaction is seeded with a timestamp before all others.
MySQLInit ==
    /\ txnTable = {[id |-> 1, ts |-> 0]} /\ autoInc = 1 /\ commitIds = <<1>>
    /\ myRows = {MyRow(k, MyBaseVal, 1) : k \in MyKeys}
    /\ call = [c \in MyCalls |->
                  [pc |-> "idle", id |-> 0, ts |-> 0, tries |-> 0, asserted |-> NoVal,
                   shared |-> {}, locked |-> {}, del |-> {}, ins |-> {}]]
    /\ myClock = 1 /\ handed = {} /\ headId = {}
    /\ mygc = [g \in MyCollectors |-> [pc |-> "idle", now |-> 0, mark |-> 0]]
    /\ collected = {}
    /\ myWatch = [pc |-> "off", after |-> 0, cur |-> 0, next |-> 0, events |-> <<>>,
                  copy |-> {}, sent |-> {}, received |-> 0, resumes |-> 0]

(***************************************************************************)
(* ReadWriteTx                                                             *)
(***************************************************************************)
CallFrame == UNCHANGED <<myClock, headId, mygc, collected, myWatch>>
Become(c, r) == call' = [call EXCEPT ![c] = r]
LockFree(c, k) == \A d \in MyCalls \ {c} : k \notin call[d].locked \cup call[d].shared
ShareFree(c, k) == \A d \in MyCalls \ {c} : k \notin call[d].locked

\* createNewTransaction: the insertion gives the id and the timestamp.
MyBegin(c) ==
    /\ call[c].pc = "idle" /\ autoInc < MyMaxId
    /\ autoInc' = autoInc + 1
    /\ Become(c, [call[c] EXCEPT !.pc = "open", !.id = autoInc', !.ts = myClock])
    /\ UNCHANGED <<txnTable, myRows, commitIds, handed>> /\ CallFrame

\* The attempt is rolled back and the call has failed.
Fails(c) ==
    /\ Become(c, [call[c] EXCEPT !.pc = "failed", !.shared = {}, !.locked = {},
                                 !.del = {}, !.ins = {}, !.asserted = NoVal])
    /\ UNCHANGED <<myDbVars, handed>> /\ CallFrame

\* Mutant: the row is read without a lock.
AssertLock_None(c, exclusive) == call[c]

AssertLock(c, exclusive) ==
    IF exclusive THEN [call[c] EXCEPT !.locked = @ \cup {SchemaName}]
    ELSE [call[c] EXCEPT !.shared = @ \cup {SchemaName}]

\* assertSchemaHash, FOR UPDATE before schema writes and FOR SHARE before others.
MyAssert(c, hash, exclusive) ==
    /\ call[c].pc = "open" /\ call[c].asserted = NoVal
    /\ IF exclusive THEN LockFree(c, SchemaName) ELSE ShareFree(c, SchemaName)
    /\ IF \E r \in Living(SchemaName) : r.val = hash
       THEN /\ Become(c, [AssertLock(c, exclusive) EXCEPT !.asserted = hash])
            /\ UNCHANGED <<myDbVars, handed>> /\ CallFrame
       ELSE Fails(c)

\* The statements of a write, which end with the function of the call.
Statements(c, keys, del, ins) ==
    /\ call[c].pc = "open"
    /\ \A k \in keys : LockFree(c, k)
    /\ Become(c, [call[c] EXCEPT !.pc = "done", !.locked = @ \cup keys,
                                 !.del = del, !.ins = ins])
    /\ UNCHANGED <<myDbVars, handed>> /\ CallFrame

\* WriteRelationships with a CREATE, and BulkLoad: the index on living rows
\* refuses a second one.
MyCreate(c, k, v) ==
    /\ call[c].pc = "open" /\ LockFree(c, k)
    /\ IF Living(k) = {} THEN Statements(c, {k}, {}, {MyRow(k, v, call[c].id)}) ELSE Fails(c)

\* The rows a TOUCH or a DELETE looks at: also those deleted by a later id.
Found(c, k) == {r \in myRows : r.key = k /\ r.deleted >= call[c].id}

\* The first of them with the value of the TOUCH stands for it: nothing is
\* inserted, and the living row is deleted if that is another one.
MyTouch(c, k, v) ==
    LET same == {r \in Found(c, k) : r.val = v}
    IN  \/ same = {} /\ Statements(c, {k}, Living(k), {MyRow(k, v, call[c].id)})
        \/ \E first \in same : Statements(c, {k}, Living(k) \ {first}, {})

MyDelete(c, k) == Statements(c, {k}, Living(k), {})

\* DeleteRelationships by a filter that matches all, whole or up to a limit.
MyDeleteRelationships(c, limit) ==
    LET matching == UNION {Living(k) : k \in MyRels}
    IN  \E chosen \in SUBSET matching :
            /\ chosen = matching \/ Cardinality(chosen) = limit
            /\ Statements(c, MyRels, chosen, {})

\* LegacyWriteNamespaces, and LegacyWriteCaveats.
MyWriteDef(c, k, v) == Statements(c, {k}, Living(k), {MyRow(k, v, call[c].id)})

\* The chunks of the schema and its hash, each deleted and inserted.
WriteStoredSchema(c, v) ==
    Statements(c, {SchemaName}, Living(SchemaName), {MyRow(SchemaName, v, call[c].id)})

\* LegacyDeleteCaveats, and LegacyDeleteNamespaces with or without the
\* relationships; a namespace must exist.
MyDeleteDef(c, k) ==
    /\ call[c].pc = "open" /\ LockFree(c, k)
    /\ \/ Statements(c, {k}, Living(k), {})
       \/ IF Living(k) = {} THEN Fails(c)
          ELSE Statements(c, {k} \cup MyRels,
                          Living(k) \cup UNION {Living(q) : q \in MyRels}, {})

\* A deadlock or a lock wait timeout, retried while attempts remain.
MyRetry(c) ==
    /\ call[c].pc \in {"open", "done"} /\ call[c].tries < MyMaxRetries
    /\ Become(c, [call[c] EXCEPT !.pc = "idle", !.tries = @ + 1, !.shared = {},
                                 !.locked = {}, !.del = {}, !.ins = {},
                                 !.asserted = NoVal])
    /\ UNCHANGED <<myDbVars, handed>> /\ CallFrame

MyError(c) == call[c].pc \in {"open", "done"} /\ Fails(c)

\* Commit, acknowledged or not; the caller is given the id of this attempt.
MyCommit(c, acknowledged) ==
    LET w == call[c]
    IN  /\ w.pc = "done"
        /\ txnTable' = txnTable \cup {[id |-> w.id, ts |-> w.ts]}
        /\ myRows' = (myRows \ w.del) \cup {[r EXCEPT !.deleted = w.id] : r \in w.del}
                         \cup w.ins
        /\ commitIds' = Append(commitIds, w.id)
        /\ Become(c, [w EXCEPT !.pc = IF acknowledged THEN "committed" ELSE "failed",
                               !.shared = {}, !.locked = {}, !.del = {}, !.ins = {},
                               !.asserted = NoVal])
        /\ CallFrame
        /\ handed' = IF acknowledged THEN handed \cup {Handing(w.id, HashAt(w.id))'} ELSE handed
        /\ UNCHANGED autoInc

(***************************************************************************)
(* Revisions                                                               *)
(***************************************************************************)
ReadFrame == UNCHANGED <<myDbVars, call, myClock, mygc, collected, myWatch>>

\* HeadRevision: loadRevision, then loadSchemaHash in a query of its own.
MyHeadLoads ==
    /\ headId = {} /\ Cardinality(handed) < MyMaxHanded
    /\ headId' = {Handing(Greatest(Ids), NoVal)}
    /\ UNCHANGED handed /\ ReadFrame

MyHeadPairs ==
    \E h \in headId :
        /\ handed' = handed \cup {[h EXCEPT !.hash = HashAt(h.rev)]}
        /\ headId' = {}
        /\ ReadFrame

\* querySelectRevision
OptimizedId ==
    LET back  == IF myClock > MyDelay THEN myClock - MyDelay ELSE 0
        since == IdsSince(back - (back % MyQuantum))
    IN  IF since # {} THEN LeastId(since) ELSE Greatest(Ids)

MyOptimized ==
    /\ Cardinality(handed) < MyMaxHanded
    /\ handed' = handed \cup {Handing(OptimizedId, HashAt(OptimizedId))}
    /\ UNCHANGED headId /\ ReadFrame

\* checkValidTransaction: fresh, and not unknown.
MyCheckRevision(rev) ==
    LET inside == IdsSince(IF myClock > MyWindow THEN myClock - MyWindow ELSE 0)
    IN  /\ rev >= IF inside # {} THEN LeastId(inside) ELSE Greatest(Ids)
        /\ rev <= Greatest(Ids)

MyTick ==
    /\ myClock < MyMaxClock
    /\ myClock' = myClock + 1
    /\ UNCHANGED <<myDbVars, call, handed, headId, mygc, collected, myWatch>>

(***************************************************************************)
(* Garbage collection.  The lock of a run is taken on one connection of    *)
(* the pool and released on any, and ends with its connection: it keeps no *)
(* two nodes apart.                                                        *)
(***************************************************************************)
GCFrame == UNCHANGED <<autoInc, commitIds, call, myClock, handed, headId, myWatch>>

MyNow(g) ==
    /\ mygc[g].pc = "idle"
    /\ mygc' = [mygc EXCEPT ![g] = [pc |-> "before", now |-> myClock, mark |-> 0]]
    /\ UNCHANGED <<txnTable, myRows, collected>> /\ GCFrame

\* Mutant: a transaction at the edge of the window is out of it.
IdsBefore_Inclusive(time) == {t.id : t \in {u \in txnTable : u.ts <= time}}

IdsBefore(time) == Ids \ IdsSince(time)

MyTxIDBefore(g) ==
    LET old == IF mygc[g].now > MyWindow THEN IdsBefore(mygc[g].now - MyWindow) ELSE {}
    IN  /\ mygc[g].pc = "before" /\ old # {}
        /\ mygc' = [mygc EXCEPT ![g].pc = "rows", ![g].mark = Greatest(old)]
        /\ UNCHANGED <<txnTable, myRows, collected>> /\ GCFrame

\* DeleteBeforeTx, its statements one by one; batches of a statement in any order.
MyDeleteRows(g) ==
    /\ mygc[g].pc = "rows"
    /\ LET dead == {r \in myRows : r.key \in MyRels /\ r.deleted <= mygc[g].mark}
       IN  IF dead = {}
           THEN /\ mygc' = [mygc EXCEPT ![g].pc = "txs"]
                /\ UNCHANGED <<txnTable, myRows, collected>>
           ELSE \E r \in dead :
                    /\ myRows' = myRows \ {r} /\ collected' = collected \cup {r}
                    /\ UNCHANGED <<txnTable, mygc>>
    /\ GCFrame

OldTxns(mark) == {t \in txnTable : t.id < mark}

MyDeleteTxns(g) ==
    /\ mygc[g].pc = "txs"
    /\ txnTable' = txnTable \ OldTxns(mygc[g].mark)
    /\ mygc' = [mygc EXCEPT ![g].pc = "defs"]
    /\ UNCHANGED <<myRows, collected>> /\ GCFrame

\* Namespaces; rows of caveats and of the schema stay.
MyDeleteDefs(g) ==
    /\ mygc[g].pc = "defs"
    /\ LET dead == {r \in myRows : r.key \in MyDefs /\ r.deleted <= mygc[g].mark}
       IN  myRows' = myRows \ dead /\ collected' = collected \cup dead
    /\ mygc' = [mygc EXCEPT ![g].pc = "idle"]
    /\ UNCHANGED txnTable /\ GCFrame

\* No transaction before the window, an error, the timeout, or a crash.
MyGCEnds(g) ==
    /\ mygc[g].pc # "idle"
    /\ mygc' = [mygc EXCEPT ![g].pc = "idle"]
    /\ UNCHANGED <<txnTable, myRows, collected>> /\ GCFrame

(***************************************************************************)
(* Watch, and a client that applies what it receives to a copy             *)
(***************************************************************************)
WatchedFrame == UNCHANGED <<myDbVars, call, myClock, handed, headId, mygc, collected>>

RelsAt(rev) == {kv \in ContentAt(rev) : kv[1] \in MyRels}

MyWatchFrom(rev) ==
    /\ myWatch.pc = "off"
    /\ myWatch' = [myWatch EXCEPT !.pc = "poll", !.after = rev, !.cur = rev,
                                  !.copy = RelsAt(rev), !.received = rev]
    /\ WatchedFrame

\* loadChanges: loadRevision, then the rows created or deleted in the range.
MyWatchLoads ==
    /\ myWatch.pc = "poll" /\ Greatest(Ids) # myWatch.cur
    /\ myWatch' = [myWatch EXCEPT !.pc = "load", !.next = Greatest(Ids)]
    /\ WatchedFrame

\* Mutant: the rows above the revision loaded come with it.
InRange_Open(id, after, upto) == id > after /\ id <= MyMaxId

InRange(id, after, upto) == id > after /\ id <= upto

TouchedBy(id) == {r \in myRows : r.key \in MyRels /\ r.created = id}
DeletedBy(id) == {r \in myRows : /\ r.key \in MyRels /\ r.deleted = id
                                 /\ \A t \in TouchedBy(id) : t.key # r.key}
ChangedBy(id) == TouchedBy(id) # {} \/ DeletedBy(id) # {}

MyWatchStages ==
    LET changed == {i \in 1 .. MyMaxId : InRange(i, myWatch.cur, myWatch.next) /\ ChangedBy(i)}
        Upto[i \in 0 .. MyMaxId] ==
            IF i = 0 THEN <<>>
            ELSE Upto[i - 1] \o
                 IF i \in changed
                 THEN <<[id |-> i, touched |-> {<<r.key, r.val>> : r \in TouchedBy(i)},
                         deleted |-> {r.key : r \in DeletedBy(i)}]>>
                 ELSE <<>>
    IN  /\ myWatch.pc = "load"
        /\ myWatch' = [myWatch EXCEPT !.pc = "send", !.cur = myWatch.next,
                                      !.events = Upto[MyMaxId]]
        /\ WatchedFrame

MyWatchSends ==
    LET e == Head(myWatch.events)
    IN  /\ myWatch.pc = "send" /\ myWatch.events # <<>>
        /\ myWatch' = [myWatch EXCEPT
               !.events = Tail(@), !.sent = @ \cup {e.id}, !.received = e.id,
               !.copy = {kv \in @ : /\ kv[1] \notin e.deleted
                                    /\ \A t \in e.touched : t[1] # kv[1]} \cup e.touched]
        /\ WatchedFrame

\* The checkpoint, then the next poll.
MyWatchCheckpoints ==
    /\ myWatch.pc = "send" /\ myWatch.events = <<>>
    /\ myWatch' = [myWatch EXCEPT !.pc = "poll", !.received = myWatch.cur]
    /\ WatchedFrame

\* A full buffer or an error ends the stream; the client watches again from the
\* last revision it received.
MyWatchResumes ==
    /\ myWatch.pc \in {"load", "send"} /\ myWatch.resumes < MyMaxResumes
    /\ myWatch' = [myWatch EXCEPT !.pc = "poll", !.cur = myWatch.received,
                                  !.events = <<>>, !.resumes = @ + 1]
    /\ WatchedFrame

(***************************************************************************)
(* The specification                                                       *)
(***************************************************************************)
CallStep(c) ==
    \/ MyBegin(c)
    \/ \E h \in MyVals, x \in BOOLEAN : MyAssert(c, h, x)
    \/ \E k \in MyRels, v \in MyVals : MyCreate(c, k, v) \/ MyTouch(c, k, v)
    \/ \E k \in MyRels : MyDelete(c, k)
    \/ \E limit \in 1 .. Cardinality(MyRels) : MyDeleteRelationships(c, limit)
    \/ \E k \in MyDefs, v \in MyVals : MyWriteDef(c, k, v)
    \/ \E v \in MyVals : WriteStoredSchema(c, v)
    \/ \E k \in MyDefs : MyDeleteDef(c, k)
    \/ MyRetry(c) \/ MyError(c)
    \/ \E a \in BOOLEAN : MyCommit(c, a)

GCStep(g) ==
    \/ MyNow(g) \/ MyTxIDBefore(g) \/ MyDeleteRows(g) \/ MyDeleteTxns(g)
    \/ MyDeleteDefs(g) \/ MyGCEnds(g)

MyWatchStep ==
    \/ MyWatchLoads \/ MyWatchStages \/ MyWatchSends \/ MyWatchCheckpoints
    \/ MyWatchResumes

MySQLNext ==
    \/ \E c \in MyCalls : CallStep(c)
    \/ MyHeadLoads \/ MyHeadPairs \/ MyOptimized \/ MyTick
    \/ \E g \in MyCollectors : GCStep(g)
    \/ \E h \in handed : MyWatchFrom(h.rev)
    \/ MyWatchStep

MySQLSpec == MySQLInit /\ [][MySQLNext]_mysqlVars

(***************************************************************************)
(* Properties                                                              *)
(***************************************************************************)
\* Ids that committed after a greater one.
LateIds == {commitIds[j] : j \in {n \in DOMAIN commitIds :
                \E i \in 1 .. (n - 1) : commitIds[i] > commitIds[n]}}

\* SnapshotReader: a revision reads as it did when it was handed out, and has the
\* schema hash it was handed out with, until one of the ids below it that were
\* open then commits or CheckRevision refuses it; what other calls write, however
\* they failed, were retried or overtook each other, is not seen.
SettledReads ==
    \A h \in handed :
        h.open \cap CommittedIds = {} /\ MyCheckRevision(h.rev)
            => ContentAt(h.rev) = h.content /\ HashAt(h.rev) = h.hash

\* "guaranteeing no relationship write commits against a schema it was not
\* validated against" (storedschema.go): until the call that asserted a hash
\* ends, that hash is the stored one.
AssertedHashStays ==
    \A c \in MyCalls :
        call[c].asserted # NoVal
            => \E r \in Living(SchemaName) : r.val = call[c].asserted

\* CheckRevision accepts no revision that shows a row a collector deleted, wherever
\* it starts, runs and stops beside writers and the clock.
CollectedIsUnreadable ==
    \A r \in collected, rev \in 1 .. autoInc : MyCheckRevision(rev) => ~Alive(r, rev)

\* While commits follow the order of ids, the client of Watch has, at each
\* checkpoint, what a read at its revision returns: nothing was skipped, sent
\* early or put in the wrong order, wherever the stream broke.
WatchedIsRead ==
    /\ myWatch.pc = "poll" /\ myWatch.received = myWatch.cur
    /\ LateIds = {} /\ MyCheckRevision(myWatch.cur)
    => myWatch.copy = RelsAt(myWatch.cur)
=============================================================================
