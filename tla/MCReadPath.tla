----------------------------- MODULE MCReadPath -----------------------------
(***************************************************************************)
(* Small instances of MySQL and ReadPath.  A behaviour is one of a part:   *)
(*   write    calls of every kind, while revisions are handed out;         *)
(*   collect  calls that change rows, a collector and the clock;           *)
(*   watch    calls that change relationships, and a watcher;              *)
(*   pick     the revisions requests are given, beside one write of the    *)
(*            schema, over the longest time;                               *)
(*   replica  what requests read then, from the replicas or the primary.   *)
(***************************************************************************)
EXTENDS ReadPath, TLC

CONSTANTS
    Parts,      \* those explored
    c1,         \* the call beside requests
    k1          \* the relationship of write

VARIABLE part

mcVars == <<part, pathVars>>

Stores == Parts \ {"pick", "replica"}

MCInit == part \in Parts /\ PathInit

InMySQL(parts) == part \in parts /\ UNCHANGED <<part, readVars>>
InPath(parts) == part \in parts /\ UNCHANGED part

Writing == IF part \in Stores THEN MyCalls ELSE {c1}
Written == IF part \in Stores THEN MyVals ELSE MyVals \ {MyBaseVal}

\* The bounds of a part.
Related == IF part = "write" THEN {k1} ELSE MyRels
MayTick == part = "pick" \/ myClock < 3
MayBegin == part = "pick" => myClock < 3
MayHandOut == part = "write" => handed = {}

MCNext ==
    \/ \E c \in Writing : InMySQL(Parts) /\ MayBegin /\ MyBegin(c)
    \/ \E c \in MyCalls, h \in MyVals, x \in BOOLEAN :
           InMySQL({"write"}) /\ MyAssert(c, h, x)
    \/ \E c \in MyCalls, k \in Related, v \in MyVals :
           InMySQL({"write"}) /\ MyCreate(c, k, v)
    \/ \E c \in MyCalls, k \in Related, v \in MyVals : InMySQL(Stores) /\ MyTouch(c, k, v)
    \/ \E c \in MyCalls, k \in Related : InMySQL(Stores) /\ MyDelete(c, k)
    \/ \E c \in MyCalls, limit \in 1 .. Cardinality(MyRels) :
           InMySQL({"watch"}) /\ MyDeleteRelationships(c, limit)
    \/ \E c \in MyCalls, k \in MyDefs, v \in MyVals : InMySQL({"collect"}) /\ MyWriteDef(c, k, v)
    \/ \E c \in MyCalls, v \in Written :
           InMySQL({"write", "pick", "replica"}) /\ WriteStoredSchema(c, v)
    \/ \E c \in MyCalls, k \in MyDefs : InMySQL({"collect"}) /\ MyDeleteDef(c, k)
    \/ \E c \in MyCalls : InMySQL({"write"}) /\ MyRetry(c)
    \/ \E c \in MyCalls : InMySQL({"write"}) /\ MyError(c)
    \/ \E c \in MyCalls : InMySQL({"write", "collect"}) /\ MyCommit(c, FALSE)
    \/ \E c \in MyCalls : InMySQL(Parts \ {"collect"}) /\ MyCommit(c, TRUE)
    \/ InMySQL({"write", "watch"}) /\ MayHandOut /\ MyHeadLoads
    \/ InMySQL({"write", "watch"}) /\ MyHeadPairs
    \/ InMySQL({"write"}) /\ MayHandOut /\ MyOptimized
    \/ InMySQL(Parts \ {"watch"}) /\ MayTick /\ MyTick
    \/ \E g \in MyCollectors : InMySQL({"collect"}) /\ MyNow(g)
    \/ \E g \in MyCollectors : InMySQL({"collect"}) /\ MyTxIDBefore(g)
    \/ \E g \in MyCollectors : InMySQL({"collect"}) /\ MyDeleteRows(g)
    \/ \E g \in MyCollectors : InMySQL({"collect"}) /\ MyDeleteTxns(g)
    \/ \E g \in MyCollectors : InMySQL({"collect"}) /\ MyDeleteDefs(g)
    \/ \E g \in MyCollectors : InMySQL({"collect"}) /\ MyGCEnds(g)
    \/ \E h \in handed : InMySQL({"watch"}) /\ MyWatchFrom(h.rev)
    \/ InMySQL({"watch"}) /\ MyWatchLoads
    \/ InMySQL({"watch"}) /\ MyWatchStages
    \/ InMySQL({"watch"}) /\ MyWatchSends
    \/ InMySQL({"watch"}) /\ MyWatchCheckpoints
    \/ InMySQL({"watch"}) /\ MyWatchResumes
    \/ \E q \in Reqs : InPath({"pick"}) /\ Arrive(q, "min", NoToken, FALSE)
    \/ \E q \in Reqs : InPath({"replica"}) /\ Arrive(q, "full", NoToken, FALSE)
    \/ \E q \in Reqs, t \in Tokens, f \in BOOLEAN :
           InPath({"pick"}) /\ Arrive(q, "fresh", t, f)
    \/ \E q \in Reqs, t \in Tokens, f \in BOOLEAN :
           InPath({"replica"}) /\ Arrive(q, "exact", t, f)
    \/ \E q \in Reqs, t \in Tokens : InPath({"replica"}) /\ Arrive(q, "cursor", t, FALSE)
    \/ \E q \in Reqs, back \in Reach : InPath({"pick"}) /\ CachedRevision(q, back)
    \/ \E q \in Reqs, back \in Reach : InPath({"pick"}) /\ JoinComputation(q, back)
    \/ \E q \in Reqs : InPath({"pick"}) /\ DirectQuery(q)
    \/ \E q \in Reqs : InPath({"pick"}) /\ DirectReturns(q)
    \/ \E q \in Reqs : InPath({"replica"}) /\ CheckedRevision(q)
    \/ \E q \in Reqs : InPath({"pick"}) /\ RequestFails(q)
    \/ \E q \in Reqs : InPath({"replica"}) /\ SnapshotReader(q)
    \/ \E q \in Reqs : InPath({"replica"}) /\ FirstRead(q)
    \/ \E q \in Reqs : InPath({"replica"}) /\ FirstReadFails(q)
    \/ \E q \in Reqs : InPath({"replica"}) /\ LaterRead(q)
    \/ InPath({"pick"}) /\ SharedQuery
    \/ InPath({"pick"}) /\ SharedReturns
    \/ InPath({"pick"}) /\ SharedFails
    \/ InPath({"pick", "replica"}) /\ SharedHeadLoads
    \/ InPath({"pick", "replica"}) /\ SharedHeadPairs
    \/ \E p \in Replicas : InPath({"replica"}) /\ Apply(p)

MCSpec == MCInit /\ [][MCNext]_mcVars

\* Requests differ only by what they do.
Symmetry == Permutations(Reqs)
=============================================================================
