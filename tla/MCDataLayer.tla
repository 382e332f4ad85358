---------------------------- MODULE MCDataLayer ----------------------------
(***************************************************************************)
(* Instances of DataLayer for TLC.                                         *)
(***************************************************************************)
EXTENDS DataLayer, TLC

CONSTANTS p1, p2, p3

Mix(a, b, c) == (p1 :> a) @@ (p2 :> b) @@ (p3 :> c)
SomeMixes ==
    {Mix("read", "relationships", "schema"), Mix("read", "read", "schema"),
     Mix("relationships", "schema", "schema")}
=============================================================================
