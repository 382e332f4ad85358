------------------------------ MODULE ReadPath ------------------------------
(***************************************************************************)
(* From a request to what it reads: the consistency middleware picks a     *)
(* revision, through the singleflight proxy and the cache of optimized     *)
(* revisions, and the replicated datastore reads at it from a replica or   *)
(* from the primary.  The primary is MySQL, the datastore the checking     *)
(* proxy is made for; collectors do not run here.                          *)
(*                                                                         *)
(* A replica, external, applies the commits of the primary in their order. *)
(***************************************************************************)
EXTENDS MySQL

CONSTANTS
    Reqs,               \* requests, each made once
    Replicas,           \* 0 .. n - 1
    MaxStaleness,       \* maxRevisionStaleness
    SharedTimeout,      \* optimizedRevisionSharedTimeout
    MismatchOption      \* "full", "minlatency" or "error"

ASSUME ReadPathAssumption ==
    /\ Replicas = 0 .. (Cardinality(Replicas) - 1) /\ Replicas # {}
    /\ MaxStaleness \in Nat /\ SharedTimeout \in Nat
    /\ MismatchOption \in {"full", "minlatency", "error"}

VARIABLES
    req,            \* per request
    candidates,     \* of CachedOptimizedRevisions, with the time they are valid through
    shared,         \* the computation in flight in updateGroup, or nothing
    lastReplica,
    applied,        \* per replica, how many commits it has
    lastCheck       \* per replica, lastCheckRevision; 0 for nil

readVars == <<req, candidates, shared, lastReplica, applied, lastCheck>>
pathVars == <<mysqlVars, readVars>>

NoToken == [rev |-> 0, hash |-> NoVal, ids |-> {}]

PathInit ==
    /\ MySQLInit
    /\ req = [q \in Reqs |->
                 [pc |-> "idle", mode |-> "min", token |-> NoToken, foreign |-> FALSE,
                  at |-> 0, rev |-> 0, hash |-> NoVal, valid |-> 0,
                  retried |-> 0, replica |-> 0, seen |-> {}]]
    /\ candidates = <<>> /\ shared = {}
    /\ lastReplica = 0 /\ applied = [p \in Replicas |-> 1]
    /\ lastCheck = [p \in Replicas |-> 0]

Goes(q, r) == req' = [req EXCEPT ![q] = r]
Quiet == UNCHANGED <<mysqlVars, lastReplica, applied, lastCheck>>

(***************************************************************************)
(* A request arrives, with a mode of consistency and perhaps a token, of   *)
(* this datastore or of another one                                        *)
(***************************************************************************)
Arrive(q, mode, token, foreign) ==
    /\ req[q].pc = "idle"
    /\ LET r == [req[q] EXCEPT !.mode = mode, !.token = token, !.foreign = foreign]
       IN  Goes(q, CASE mode \in {"min", "fresh"} -> [r EXCEPT !.pc = "optimize", !.at = myClock]
                     [] mode = "full" -> [r EXCEPT !.pc = "head"]
                     [] mode \in {"exact", "cursor"} -> [r EXCEPT !.pc = "check"])
    /\ UNCHANGED <<candidates, shared>> /\ Quiet

Picked(r, rev, hash) ==
    [r EXCEPT !.pc = "picked", !.rev = rev, !.hash = hash, !.retried = 0, !.valid = 0]
Refused(r) ==
    [r EXCEPT !.pc = "error", !.token = NoToken, !.at = 0, !.retried = 0, !.valid = 0]

\* pickBestRevision, once the optimized revision is there.
Best(r, rev, hash) ==
    CASE r.mode = "min" -> Picked(r, rev, hash)
      [] r.mode = "fresh" /\ r.foreign ->
            (CASE MismatchOption = "full" -> [r EXCEPT !.pc = "head"]
               [] MismatchOption = "minlatency" -> Picked(r, rev, hash)
               [] MismatchOption = "error" -> Refused(r))
      [] r.mode = "fresh" /\ ~r.foreign ->
            IF rev > r.token.rev THEN Picked(r, rev, hash)
            ELSE Picked(r, r.token.rev, r.token.hash)

(***************************************************************************)
(* CachedOptimizedRevisions                                                *)
(***************************************************************************)
Reach == IF MaxStaleness = 0 THEN {0} ELSE 0 .. (MaxStaleness - 1)

\* Mutant: a candidate once valid is returned until it is pruned.
IsValid_Kept(c, time) == TRUE

IsValid(c, time) == c.until > time

\* The candidates valid at the adjusted time, of which the first is returned.
ValidAt(q, back) ==
    {i \in DOMAIN candidates : IsValid(candidates[i], IF req[q].at > back THEN req[q].at - back ELSE 0)}

CachedRevision(q, back) ==
    /\ req[q].pc = "optimize" /\ ValidAt(q, back) # {}
    /\ LET c == candidates[LeastId(ValidAt(q, back))]
       IN  Goes(q, Best(req[q], c.rev, c.hash))
    /\ UNCHANGED <<candidates, shared>> /\ Quiet

\* No candidate: the call begins the shared computation, or waits for it.
JoinComputation(q, back) ==
    /\ req[q].pc = "optimize" /\ ValidAt(q, back) = {}
    /\ Goes(q, [req[q] EXCEPT !.pc = "wait"])
    /\ shared' = IF shared = {} THEN {[now |-> req[q].at, began |-> myClock, rev |-> 0,
                                           hash |-> NoVal, valid |-> 0]}
                 ELSE shared
    /\ UNCHANGED candidates /\ Quiet

\* querySelectRevision, in the shared computation or the one of a request.
ValidFor == MyQuantum - (myClock % MyQuantum)

SharedQuery ==
    \E s \in shared :
        /\ s.rev = 0
        /\ shared' = {[s EXCEPT !.rev = OptimizedId, !.hash = HashAt(OptimizedId),
                                !.valid = ValidFor]}
        /\ UNCHANGED <<req, candidates>> /\ Quiet

\* Those that have definitely expired go, up to the first that has not.
Pruned(time) ==
    LET kept == {i \in DOMAIN candidates : candidates[i].until + MaxStaleness >= time}
    IN  IF kept = {} THEN <<>>
        ELSE SubSeq(candidates, LeastId(kept), Len(candidates))

Remembered(rev, hash, valid, time) ==
    Append(Pruned(time), [rev |-> rev, hash |-> hash, until |-> time + valid])

Waiting == {q \in Reqs : req[q].pc = "wait"}

SharedReturns ==
    \E s \in shared :
        /\ s.rev # 0 /\ myClock <= s.began + SharedTimeout
        /\ candidates' = Remembered(s.rev, s.hash, s.valid, s.now)
        /\ shared' = {}
        /\ req' = [q \in Reqs |-> IF q \in Waiting THEN Best(req[q], s.rev, s.hash) ELSE req[q]]
        /\ Quiet

\* An error, or optimizedRevisionSharedTimeout: those who waited try by themselves.
SharedFails ==
    /\ shared # {} /\ shared' = {}
    /\ req' = [q \in Reqs |-> IF q \in Waiting
                              THEN [req[q] EXCEPT !.pc = "retry", !.retried = myClock]
                              ELSE req[q]]
    /\ UNCHANGED candidates /\ Quiet

\* The direct computation: the query, then its record and the answer.
DirectQuery(q) ==
    /\ req[q].pc = "retry"
    /\ Goes(q, [req[q] EXCEPT !.pc = "record", !.rev = OptimizedId,
                             !.hash = HashAt(OptimizedId), !.valid = ValidFor])
    /\ UNCHANGED <<candidates, shared>> /\ Quiet

DirectReturns(q) ==
    /\ req[q].pc = "record"
    /\ candidates' = Remembered(req[q].rev, req[q].hash, req[q].valid, req[q].retried)
    /\ Goes(q, Best(req[q], req[q].rev, req[q].hash))
    /\ UNCHANGED shared /\ Quiet

(***************************************************************************)
(* HeadRevision through the singleflight proxy: one call in flight answers *)
(* all that ask before it returns                                          *)
(***************************************************************************)
Heading == {q \in Reqs : req[q].pc = "head"}

SharedHeadLoads == Heading # {} /\ MyHeadLoads /\ UNCHANGED readVars

SharedHeadPairs ==
    /\ MyHeadPairs
    /\ req' = [q \in Reqs |-> IF q \in Heading
                              THEN LET h == CHOOSE g \in headId : TRUE
                                   IN  Picked(req[q], h.rev, HashAt(h.rev))
                              ELSE req[q]]
    /\ UNCHANGED <<candidates, shared, lastReplica, applied, lastCheck>>

\* At an exact snapshot or from a cursor.
CheckedRevision(q) ==
    LET r == req[q]
    IN  /\ r.pc = "check"
        /\ Goes(q, IF (r.mode = "exact" /\ r.foreign) \/ ~MyCheckRevision(r.token.rev)
                  THEN Refused(r)
                  ELSE Picked(r, r.token.rev, r.token.hash))
        /\ UNCHANGED <<candidates, shared>> /\ Quiet

\* The caller goes away, its deadline passes, or its query fails.
RequestFails(q) ==
    /\ req[q].pc \in {"wait", "retry", "record", "head", "check"}
    /\ Goes(q, Refused(req[q]))
    /\ UNCHANGED <<candidates, shared>> /\ Quiet

(***************************************************************************)
(* checkingReplicatedDatastore                                             *)
(***************************************************************************)
Apply(p) ==
    /\ applied[p] < Len(commitIds)
    /\ applied' = [applied EXCEPT ![p] = @ + 1]
    /\ UNCHANGED <<mysqlVars, req, candidates, shared, lastReplica, lastCheck>>

AppliedIds(p) == {commitIds[i] : i \in 1 .. applied[p]}

\* checkValidTransaction on the tables of the replica.
ReplicaHas(p, rev) == rev <= Greatest(AppliedIds(p))
ReplicaFresh(p, rev) ==
    LET inside == IdsSince(IF myClock > MyWindow THEN myClock - MyWindow ELSE 0) \cap AppliedIds(p)
    IN  rev >= IF inside # {} THEN LeastId(inside) ELSE Greatest(AppliedIds(p))

\* SnapshotReader: selectReplica.
Next_(p) == (p + 1) % Cardinality(Replicas)

SnapshotReader(q) ==
    /\ req[q].pc = "picked"
    /\ lastReplica' = Next_(lastReplica)
    /\ Goes(q, [req[q] EXCEPT !.pc = "reader", !.replica = Next_(lastReplica)])
    /\ UNCHANGED <<mysqlVars, candidates, shared, applied, lastCheck>>

\* CheckRevision of cachedCheckRevision; only a first revision is remembered.
Passed(p, rev) == lastCheck[p] # 0 /\ lastCheck[p] >= rev

\* Mutant: no replica is asked.
Contains_Any(p, rev) == TRUE

Contains(p, rev) == Passed(p, rev) \/ ReplicaHas(p, rev)

Reads(r, ids) == [r EXCEPT !.pc = "done", !.seen = {i \in ids : i <= r.rev}]

\* The first call on the reader: determineSource, then the read.
FirstRead(q) ==
    LET r == req[q] p == req[q].replica
    IN  /\ r.pc = "reader"
        /\ IF ~Contains(p, r.rev)
           THEN /\ Goes(q, Reads(r, CommittedIds))
                /\ UNCHANGED lastCheck
           ELSE IF Passed(p, r.rev) \/ ReplicaFresh(p, r.rev)
           THEN /\ Goes(q, Reads(r, AppliedIds(p)))
                /\ lastCheck' = [lastCheck EXCEPT ![p] = IF @ = 0 THEN r.rev ELSE @]
           ELSE /\ Goes(q, [r EXCEPT !.pc = "failed"])
                /\ UNCHANGED lastCheck
        /\ UNCHANGED <<mysqlVars, candidates, shared, lastReplica, applied>>

\* The check of the replica fails for another reason.
FirstReadFails(q) ==
    /\ req[q].pc = "reader"
    /\ Goes(q, [req[q] EXCEPT !.pc = "failed"])
    /\ UNCHANGED <<candidates, shared>> /\ Quiet

\* The next call on that reader: the choice was made once, without an error to
\* return and without a reader to use.
LaterRead(q) ==
    /\ req[q].pc = "failed"
    /\ Goes(q, [req[q] EXCEPT !.pc = "panic"])
    /\ UNCHANGED <<candidates, shared>> /\ Quiet

(***************************************************************************)
(* The specification                                                       *)
(***************************************************************************)
Tokens == {[rev |-> h.rev, hash |-> h.hash, ids |-> h.ids] : h \in handed}

ReqStep(q) ==
    \/ \E mode \in {"min", "full"} : Arrive(q, mode, NoToken, FALSE)
    \/ \E mode \in {"fresh", "exact"}, t \in Tokens, f \in BOOLEAN : Arrive(q, mode, t, f)
    \/ \E t \in Tokens : Arrive(q, "cursor", t, FALSE)
    \/ \E back \in Reach : CachedRevision(q, back) \/ JoinComputation(q, back)
    \/ DirectQuery(q) \/ DirectReturns(q) \/ CheckedRevision(q) \/ RequestFails(q)
    \/ SnapshotReader(q) \/ FirstRead(q) \/ FirstReadFails(q) \/ LaterRead(q)

PathNext ==
    \/ \E q \in Reqs : ReqStep(q)
    \/ SharedQuery \/ SharedReturns \/ SharedFails \/ SharedHeadLoads \/ SharedHeadPairs
    \/ \E p \in Replicas : Apply(p)
    \/ (\E c \in MyCalls : CallStep(c)) /\ UNCHANGED readVars
    \/ MyTick /\ UNCHANGED readVars

PathSpec == PathInit /\ [][PathNext]_pathVars

(***************************************************************************)
(* Properties                                                              *)
(***************************************************************************)
\* While commits follow the order of ids: the revision picked for a request has
\* all that its token stands for, and comes with its schema hash; and a request
\* that has read saw, from a replica or from the primary, all there is at it.
RequestsReadAsAsked ==
    \A q \in Reqs :
        LET committed == {i \in CommittedIds : i <= req[q].rev}
        IN  req[q].pc \in {"picked", "reader", "done"} /\ LateIds = {}
                => /\ req[q].foreign \/ req[q].token.ids \subseteq committed
                   /\ req[q].hash = HashAt(req[q].rev)
                   /\ req[q].pc = "done" => req[q].seen = committed

Longest(a, b) == IF a > b THEN a ELSE b

\* MyDelay, in whole quanta.
DelayQuanta == ((MyDelay + MyQuantum - 1) \div MyQuantum) * MyQuantum

\* OptimizedRevision: what was handed out longer ago than a candidate can be
\* returned, or a shared computation can take, is not missed by a request that
\* asks for the least latency.
OptimizedIsRecent ==
    \A q \in Reqs, h \in handed :
        /\ req[q].pc \in {"picked", "reader", "done"} /\ req[q].mode = "min"
        /\ h.at + DelayQuanta + Longest(MyQuantum + MaxStaleness, SharedTimeout) < req[q].at
        => h.rev <= req[q].rev
=============================================================================
