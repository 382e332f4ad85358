------------------------------- MODULE MCPgGC -------------------------------
(***************************************************************************)
(* Small instances of PgGC: behaviours with collectors, in which rows are  *)
(* only deleted, commits are acknowledged, no attempt is retried and one   *)
(* that fails before it has an id stays where it is; and behaviours        *)
(* without collectors, whose writers touch, delete and retry while         *)
(* revisions are handed out.                                               *)
(***************************************************************************)
EXTENDS PgGC, TLC

VARIABLE collecting

mcVars == <<vars, collecting>>

Symmetry == Permutations(Writers) \cup Permutations(Collectors)

MCInit == GCInit /\ collecting \in BOOLEAN

\* A step of the datastore, its new revisions recorded as GCNext records them.
Recorded ==
    /\ UNCHANGED <<gpc, gcLock, now, watermark, watermarks, collecting>>
    /\ issued' = IF collecting
                 THEN issued \cup {[rev |-> s, content |-> Content(rows', s)] :
                                       s \in tokens' \ tokens}
                 ELSE issued

Retrying == ~collecting /\ Recorded

\* The bound on the clock of the behaviours without collectors.
RetryClock == 1

MCNext ==
    \/ \E w \in Writers : BeginTx(w) /\ Recorded
    \/ \E w \in Writers : TakeSnapshot(w) /\ Recorded
    \/ \E w \in Writers : AssignXid(w) /\ Recorded
    \/ \E w \in Writers, k \in Keys, v \in Vals : WriteTouch(w, k, v) /\ Retrying
    \/ \E w \in Writers, k \in Keys : WriteDelete(w, k) /\ Recorded
    \/ \E w \in Writers : Commit(w) /\ Recorded
    \/ \E w \in Writers : CommitUnacknowledged(w) /\ Retrying
    \/ \E w \in Writers : SerializationError(w) /\ Retrying
    \/ \E w \in Writers : FinalError(w) /\ Recorded
    \/ \E w \in Writers : EarlyError(w) /\ Retrying
    \/ HeadRevision /\ Retrying
    \/ optimizedRevisionFunc /\ Retrying
    \/ Heartbeat /\ Recorded
    \/ Tick /\ (collecting \/ clock < RetryClock) /\ Recorded
    \/ \E g \in Collectors : LockForGCRun(g) /\ collecting /\ UNCHANGED collecting
    \/ \E g \in Collectors : Now(g) /\ UNCHANGED collecting
    \/ \E g \in Collectors : TxIDBefore(g) /\ UNCHANGED collecting
    \/ \E g \in Collectors : DeleteRows(g) /\ UNCHANGED collecting
    \/ \E g \in Collectors : DeleteTxs(g) /\ UNCHANGED collecting
    \/ \E g \in Collectors : GCFails(g) /\ UNCHANGED collecting

MCSpec == MCInit /\ [][MCNext]_mcVars

\* Every behaviour of PgGC.
MCCheckSpec == GCInit /\ collecting = TRUE /\ [][GCNext /\ UNCHANGED collecting]_mcVars
=============================================================================
