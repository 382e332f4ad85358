------------------------------ MODULE PgWatch ------------------------------
(***************************************************************************)
(* Watch of the Postgres datastore (watch.go) beside its writers: one      *)
(* client, which applies what it receives to a copy of the relationships   *)
(* and, when disconnected, watches again from the last revision received.  *)
(*                                                                         *)
(* The stream itself is not kept, only what the properties need of it: the *)
(* ids emitted, those emitted again, and the client's copy.                *)
(***************************************************************************)
EXTENDS PgDatastore

CONSTANT MaxResumes     \* bound on disconnections

ASSUME WatchAssumption == MaxResumes \in Nat

VARIABLES
    wpc,        \* "poll", "load", "emit" or "closed"
    after,      \* afterRevision of the first Watch
    cur,        \* currentTxn
    batch,      \* newTxns
    events,     \* changesToWrite not yet sent
    emitted, repeated,
    received,   \* revision of the last event or checkpoint received
    copy,       \* the client's copy
    resumes

watchVars == <<wpc, after, cur, batch, events, emitted, repeated, received, copy,
               resumes>>
vars == <<dsVars, watchVars>>

WatchInit ==
    /\ Init
    /\ wpc = "poll"
    /\ after = CurrentSnapshot /\ cur = CurrentSnapshot /\ received = CurrentSnapshot
    /\ batch = <<>> /\ events = <<>>
    /\ emitted = {} /\ repeated = {}
    /\ copy = {kv \in Content(rows, CurrentSnapshot) : kv[1] \in Keys}
    /\ resumes = 0

Revision(t) == markComplete(t.snapshot, t.xid)

CommitOrder(t, u) ==
    \E i, j \in DOMAIN commitLog :
        commitLog[i] = t.xid /\ commitLog[j] = u.xid /\ i < j

\* Mutant: a transaction below the snapshot's xmax is taken for seen.
newRevisions_AboveXmax(s) == {t \in txTable : t.xid >= s.xmax}

\* newRevisionsQuery, without its ORDER BY.
newRevisions(s) ==
    {t \in txTable : \/ t.xid >= s.xmax
                     \/ t.xid >= s.xmin /\ ~txVisible(s, t.xid)}

\* The sequences of the elements of S in the order of Before: one, for a total order.
InOrder(S, Before(_, _)) ==
    {s \in [1 .. Cardinality(S) -> S] :
        /\ \A x \in S : \E i \in DOMAIN s : s[i] = x
        /\ \A i, j \in DOMAIN s : i < j => Before(s[i], s[j])}

getNewRevisions ==
    /\ wpc = "poll"
    /\ newRevisions(cur) # {}
    /\ batch' \in InOrder(newRevisions(cur), CommitOrder)
    /\ wpc' = "load"
    /\ UNCHANGED <<dsVars, after, cur, events, emitted, repeated, received, copy,
                   resumes>>

\* AddRelationshipChange: one touch or delete per key, a touch replacing a delete.
Touches(x) == {r \in rows : r.key \in Keys /\ r.created = x}
Deletes(x) ==
    {r \in rows : /\ r.key \in Keys /\ r.deleted = x
                  /\ \A t \in Touches(x) : t.key # r.key}

\* Mutant: a delete in the transaction of a touch wins.
ChangesOf_DeleteWins(t) ==
    [xid |-> t.xid, rev |-> Revision(t),
     touched |-> {<<r.key, r.val>> : r \in {q \in Touches(t.xid) :
                     \A d \in rows : d.deleted = t.xid => d.key # q.key}},
     deleted |-> {r.key : r \in {q \in rows : q.deleted = t.xid}}]

ChangesOf(t) ==
    [xid |-> t.xid, rev |-> Revision(t),
     touched |-> {<<r.key, r.val>> : r \in Touches(t.xid)},
     deleted |-> {r.key : r \in Deletes(t.xid)}]

Changed(x) == Touches(x) # {} \/ Deletes(x) # {}

\* loadChanges, in transactions of its own: a record exists only for an id that
\* changed something; records come in the order of newTxns.
loadChanges ==
    /\ wpc = "load"
    /\ \E p \in InOrder({i \in DOMAIN batch : Changed(batch[i].xid)}, LAMBDA i, j : i < j) :
          events' = [i \in DOMAIN p |-> ChangesOf(batch[p[i]])]
    /\ wpc' = "emit"
    /\ UNCHANGED <<dsVars, after, cur, batch, emitted, repeated, received, copy,
                   resumes>>

Apply(R, e) ==
    {kv \in R : kv[1] \notin e.deleted /\ \A t \in e.touched : t[1] # kv[1]}
        \cup e.touched

\* sendChange, when the client makes room in the buffer in time.
sendChange ==
    /\ wpc = "emit" /\ events # <<>>
    /\ LET e == Head(events)
       IN  /\ repeated' = IF e.xid \in emitted THEN repeated \cup {e.xid} ELSE repeated
           /\ emitted' = emitted \cup {e.xid}
           /\ copy' = Apply(copy, e)
           /\ received' = e.rev
    /\ events' = Tail(events)
    /\ UNCHANGED <<dsVars, wpc, after, cur, batch, resumes>>

\* The snapshot s with every transaction of b marked complete, one after the other.
MarkAll(s, b) ==
    LET upto[i \in 0 .. Len(b)] ==
            IF i = 0 THEN s ELSE markComplete(upto[i - 1], b[i].xid)
    IN  upto[Len(b)]

\* The loop that builds the next currentTxn from newTxns.
AdvancedRevision(b) == MarkAll(Revision(b[Len(b)]), b)

\* currentTxn moves, and a checkpoint is sent.
Advance ==
    /\ wpc = "emit" /\ events = <<>>
    /\ cur' = AdvancedRevision(batch)
    /\ received' = cur'
    /\ batch' = <<>>
    /\ wpc' = "poll"
    /\ UNCHANGED <<dsVars, after, events, emitted, repeated, copy, resumes>>

\* A full buffer for longer than the write timeout, or an error of a query.
Disconnect ==
    /\ wpc # "closed" /\ resumes < MaxResumes
    /\ wpc' = "closed"
    /\ batch' = <<>> /\ events' = <<>>
    /\ UNCHANGED <<dsVars, after, cur, emitted, repeated, received, copy, resumes>>

Resume ==
    /\ wpc = "closed"
    /\ wpc' = "poll"
    /\ cur' = received
    /\ resumes' = resumes + 1
    /\ UNCHANGED <<dsVars, after, batch, events, emitted, repeated, received, copy>>

WatchStep == getNewRevisions \/ loadChanges \/ sendChange \/ Advance

WatchNext ==
    \/ DatastoreNext /\ UNCHANGED watchVars
    \/ WatchStep \/ Disconnect \/ Resume

\* The goroutine of Watch keeps running and its client keeps reading and, when
\* disconnected, reconnects; writers may stop at any time.
WatchSpec ==
    /\ WatchInit /\ [][WatchNext]_vars
    /\ WF_vars(WatchStep) /\ WF_vars(Resume)

(***************************************************************************)
(* Properties                                                              *)
(***************************************************************************)

\* Type invariant of the watcher's own state.
WatchTypeOK ==
    /\ wpc \in {"poll", "load", "emit", "closed"}
    /\ {after, cur, received} \subseteq Snapshot
    /\ \A i \in DOMAIN batch : batch[i] \in TxRow
    /\ {emitted, repeated} \subseteq SUBSET Xids
    /\ copy \subseteq Keys \X Vals
    /\ resumes \in 0 .. MaxResumes

\* "All events following afterRevision will be sent to the caller"
\* (datastore.go:773): whatever order transactions take ids, snapshots and
\* commits in, and wherever the stream broke and was resumed, a change that the
\* watcher's own revision shows was sent before the revision moved past it.
NoChangeIsSkipped ==
    \A t \in txTable :
        txVisible(cur, t.xid) /\ ~txVisible(after, t.xid) /\ Changed(t.xid)
            => t.xid \in emitted

\* Between batches, while the watcher's revision shows all that was sent and
\* nothing was sent twice, the client's copy, built from the events alone, is what
\* a read at that revision returns: events carry all changes, in an order that
\* respects those on the same relationship.
CopyIsCheckpoint ==
    wpc = "poll" /\ repeated = {} /\ (\A x \in emitted : txVisible(cur, x))
        => copy = {kv \in Content(rows, cur) : kv[1] \in Keys}

\* Every committed change is eventually sent: again and again, whatever the order
\* of commits and wherever the stream breaks, nothing committed is left unsent.
ChangesAreSent ==
    []<>(\A x \in Xids \ {0, 1} : Changed(x) => x \in emitted)

\* A watcher with nothing left to send has brought its client's copy to the
\* current state.
CaughtUpCopyIsHead ==
    wpc = "poll" /\ newRevisions(cur) = {}
        => copy = {kv \in Content(rows, CurrentSnapshot) : kv[1] \in Keys}

(***************************************************************************)
(* The inductive invariant from which NoChangeIsSkipped follows.           *)
(***************************************************************************)

\* The commit order: a transaction comes after those its snapshot shows.
LogInv ==
    /\ IsFiniteSet(txTable)
    /\ commitLog \in Seq(Xids)
    /\ \A i \in DOMAIN commitLog : commitLog[i] \in settled
    /\ \A i, j \in DOMAIN commitLog : commitLog[i] = commitLog[j] => i = j
    /\ \A t \in txTable : \E i \in DOMAIN commitLog : commitLog[i] = t.xid
    /\ \A t, u \in txTable : txVisible(u.snapshot, t.xid) => CommitOrder(t, u)

\* What s shows beyond the first revision has been sent.
Sent(s) ==
    \A t \in txTable :
        txVisible(s, t.xid) /\ ~txVisible(after, t.xid) /\ Changed(t.xid) => t.xid \in emitted

\* What a transaction of the batch shows is shown by the current revision or comes
\* before it in the batch.
BatchInv ==
    /\ batch \in Seq(txTable)
    /\ wpc \in {"load", "emit"} <=> batch # <<>>
    /\ \A i \in DOMAIN batch, t \in txTable :
          txVisible(Revision(batch[i]), t.xid)
              => txVisible(cur, t.xid) \/ \E j \in 1 .. i : batch[j].xid = t.xid

Event == [xid : Xids, rev : Snapshot, touched : SUBSET (Keys \X Vals), deleted : SUBSET Keys]

\* The changes up to the i-th of the batch have been sent, or are the first k to send.
Queued(i, k) ==
    \A j \in 1 .. i : Changed(batch[j].xid) =>
        \/ batch[j].xid \in emitted
        \/ \E n \in 1 .. k : events[n].xid = batch[j].xid

EventsInv ==
    /\ events \in Seq(Event)
    /\ wpc = "emit" =>
          /\ Queued(Len(batch), Len(events))
          /\ \A k \in DOMAIN events : \E i \in DOMAIN batch :
                /\ events[k].xid = batch[i].xid /\ events[k].rev = Revision(batch[i])
                /\ Queued(i, k)

WatchInv ==
    /\ Inv /\ LogInv
    /\ ShowsSettled(cur) /\ ShowsSettled(received)
    /\ Sent(cur) /\ Sent(received)
    /\ BatchInv /\ EventsInv
=============================================================================
