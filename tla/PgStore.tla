------------------------------- MODULE PgStore -------------------------------
(***************************************************************************)
(* The Postgres datastore as an implementation of RevisionedStore: the     *)
(* transactions it has committed are those of the commit log, and a        *)
(* revision shows the ones among them that its snapshot shows.             *)
(***************************************************************************)
EXTENDS PgDatastore

Committed == {commitLog[i] : i \in DOMAIN commitLog}

View(t) == [shows |-> Visible(t) \cap Committed, content |-> Content(rows, t)]

Store == INSTANCE RevisionedStore WITH
    committed <- Committed, views <- {View(t) : t \in tokens}

\* The Postgres datastore, with its concurrent transactions, rollbacks, retries,
\* heartbeats and lost acknowledgements, implements the store that
\* pkg/datastore/datastore.go promises: a revision shows only transactions that
\* have committed, the revision of a ReadWriteTx its own among them, and what is
\* read at it is the same for ever.
ImplementsStore == Store!StoreSpec

\* What the refinement needs beside the invariant of PgDatastore: what has committed is
\* settled, and rows were written by transactions that have committed.
CommitInv ==
    /\ commitLog \in Seq(Xids) /\ Committed \subseteq settled
    /\ \A r \in rows : r.created \in Committed /\ r.deleted \in Committed \cup {Live}
=============================================================================
