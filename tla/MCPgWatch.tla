----------------------------- MODULE MCPgWatch -----------------------------
(***************************************************************************)
(* Small instances of PgWatch.                                             *)
(***************************************************************************)
EXTENDS PgWatch, TLC

Symmetry == Permutations(Writers)
=============================================================================
