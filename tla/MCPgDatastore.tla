--------------------------- MODULE MCPgDatastore ---------------------------
(***************************************************************************)
(* Small instances of PgDatastore.                                         *)
(***************************************************************************)
EXTENDS PgStore, TLC

Symmetry == Permutations(Writers)

\* The writers and the revisions they are read at while the clock stands still:
\* MCPgGC has the behaviours with Tick and Heartbeat.
MCNext ==
    \/ \E w \in Writers : WriterStep(w)
    \/ HeadRevision
    \/ optimizedRevisionFunc

MCSpec == Init /\ [][MCNext]_dsVars
=============================================================================
