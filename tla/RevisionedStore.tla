-------------------------- MODULE RevisionedStore --------------------------
(***************************************************************************)
(* What a datastore promises (pkg/datastore/datastore.go: Datastore,       *)
(* SnapshotReader, ReadWriteTx), whatever its revisions are made of: a     *)
(* transaction commits once; a revision shows a set of transactions that   *)
(* have committed; and what is read at it is settled when it is handed     *)
(* out, whatever commits later.                                            *)
(***************************************************************************)
VARIABLES
    committed,      \* the transactions that have committed
    views           \* revisions handed out: what each shows, and what it reads

storeVars == <<committed, views>>

StoreInit == views = {}

\* A revision shows committed transactions, and two that show the same read the same.
Sound(c, V) ==
    /\ \A v \in V : v.shows \subseteq c
    /\ \A v, u \in V : v.shows = u.shows => v.content = u.content

\* ReadWriteTx commits and returns a revision that shows its transaction, or its
\* caller never learns of the commit; or HeadRevision or OptimizedRevision hands
\* out a revision.
StoreStep(new, published) ==
    /\ new # {} \/ published # {}
    /\ \A v, u \in published : v = u
    /\ \A v \in published : new \subseteq v.shows

StoreNext ==
    LET c == committed'
        V == views'
    IN  /\ committed \subseteq c /\ views \subseteq V
        /\ StoreStep(c \ committed, V \ views)
        /\ Sound(c, V)

StoreSpec == StoreInit /\ [][StoreNext]_storeVars
=============================================================================
