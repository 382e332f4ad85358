---------------------------- MODULE PgSnapshot ----------------------------
(***************************************************************************)
(* The revisions of the Postgres datastore: pgSnapshot                     *)
(* (internal/datastore/postgres/snapshot.go), its partial order, the two   *)
(* edits the datastore makes to it, and the guard a strict-read replica    *)
(* evaluates before it serves a revision.                                  *)
(*                                                                         *)
(* The sorted, duplicate-free xipList is the set xip.  A transaction is    *)
(* settled (committed or rolled back) at a snapshot when txVisible holds.  *)
(***************************************************************************)
EXTENDS Integers, FiniteSets

Snapshot == [xmin : Nat, xmax : Nat, xip : SUBSET Nat]

\* What Postgres promises of every snapshot it hands out, and what the edits
\* below preserve: in-progress ids lie between xmin and xmax.
WellFormed(s) ==
    /\ s \in Snapshot
    /\ s.xmin <= s.xmax
    /\ \A x \in s.xip : s.xmin <= x /\ x < s.xmax

Least(S) == CHOOSE x \in S : \A y \in S : x <= y

txVisible(s, txid) ==
    \/ txid < s.xmin
    \/ txid < s.xmax /\ txid \notin s.xip

Visible(s) == {x \in 0 .. s.xmax : txVisible(s, x)}

\* Mutant: the frontier alone decides, as if every id below it had settled.
otherHasMoreInfo_FrontierOnly(s, other) == other.xmax > s.xmax

\* The two binary searches of the code count the elements of other.xip in
\* [s.xmax, other.xmax).
otherHasMoreInfo(s, other) ==
    \/ \E x \in s.xip : txVisible(other, x)
    \/ /\ other.xmax > s.xmax
       /\ Cardinality(other.xip \cap (s.xmax .. (other.xmax - 1)))
             < other.xmax - s.xmax

compare(s, rhs) ==
    LET rhsHasMoreInfo == otherHasMoreInfo(s, rhs)
        lhsHasMoreInfo == otherHasMoreInfo(rhs, s)
    IN  IF rhsHasMoreInfo
        THEN IF lhsHasMoreInfo THEN "concurrent" ELSE "lt"
        ELSE IF lhsHasMoreInfo THEN "gt" ELSE "equal"

Equal(s, rhs) == compare(s, rhs) = "equal"
GreaterThan(s, rhs) == compare(s, rhs) = "gt"
LessThan(s, rhs) == compare(s, rhs) = "lt"

\* Mutant: the ids skipped between the old xmax and txid are forgotten.
markComplete_NoGap(s, txid) ==
    IF txid < s.xmin THEN s
    ELSE LET xmax == IF txid >= s.xmax THEN txid + 1 ELSE s.xmax
             xip  == s.xip \ {txid}
         IN  [xmin |-> IF xip # {} THEN Least(xip) ELSE xmax,
              xmax |-> xmax,
              xip  |-> xip]

markComplete(s, txid) ==
    IF txid < s.xmin THEN s
    ELSE LET xmax == IF txid >= s.xmax THEN txid + 1 ELSE s.xmax
             xip  == (s.xip \cup (s.xmax .. txid)) \ {txid}
         IN  [xmin |-> IF xip # {} THEN Least(xip) ELSE xmax,
              xmax |-> xmax,
              xip  |-> xip]

\* The ids at the top of the snapshot that are all in progress: the code drops
\* them from the list and lowers xmax to the lowest of them.
InProgressRun(xip, xmax) == {y \in xip : (y .. (xmax - 1)) \subseteq xip}

markInProgress(s, txid) ==
    IF txid >= s.xmax THEN s
    ELSE LET xip == s.xip \cup {txid}
             run == InProgressRun(xip, s.xmax)
         IN  [xmin |-> IF txid < s.xmin THEN txid ELSE s.xmin,
              xmax |-> IF run # {} THEN Least(run) ELSE s.xmax,
              xip  |-> xip \ run]

(***************************************************************************)
(* replicaContainsRevisionPredicate of strictreader.go, evaluated by the   *)
(* replica against its own current snapshot.  (Mutant first: commit order  *)
(* taken for id order.)                                                    *)
(***************************************************************************)
replicaContainsRevision_FrontierOnly(replica, s) ==
    replica.xmax >= s.xmax

replicaContainsRevision(replica, s) ==
    /\ replica.xmax >= s.xmax
    /\ ~\E x \in replica.xip : x < s.xmax /\ x \notin s.xip
=============================================================================
