----------------------------- MODULE MCServing -----------------------------
(***************************************************************************)
(* The parts that serve requests, for TLC.  A behaviour is one of a part,  *)
(* the others stay as they began:                                          *)
(*   store     MemDB with a clock, revisions handed out, and Close;        *)
(*   watch     MemDB with a watcher, and transactions of two changes;      *)
(*   cache     MemDB under the watching schema cache;                      *)
(*   dispatch  checks through the caching and singleflight dispatchers;    *)
(*   cluster   a request hedged by the cluster dispatcher.                 *)
(***************************************************************************)
EXTENDS MemDBCache, Dispatch, ClusterDispatch, TLC

VARIABLE part

servingVars == <<part, memVars, cacheVars, dispatchVars, clusterVars>>

(***************************************************************************)
(* Constants                                                               *)
(***************************************************************************)
CONSTANTS A, B, C, q1, q2, u1, r2

MCResourceType(r) == CHOOSE n \in Names : TRUE
MCContent(u) == IF u = CacheWatch THEN {"schema", "checkpoints"}
                ELSE {"rels", "schema", "checkpoints"}
Before(a, b) == a < b
Same(a, b) == a = b

Triangle == (A :> {B, C}) @@ (B :> {C}) @@ (C :> {})
Cycle == (A :> {B}) @@ (B :> {A}) @@ (C :> {})
Graph(s, m) == [sub |-> s, direct |-> m]
MCGraphs == {Graph(Triangle, {}), Graph(Triangle, {C}), Graph(Cycle, {})}
Ask(k, depth, debug, bloom) ==
    [problem |-> k, depth |-> depth, debug |-> debug, bloom |-> bloom]
MCAsks(q) == IF q = q1 THEN {Ask(A, 3, FALSE, {})}
             ELSE {Ask(B, 1, FALSE, {}), Ask(B, 2, TRUE, {}), Ask(B, 2, FALSE, NoBloom)}

(***************************************************************************)
(* The specification                                                       *)
(***************************************************************************)
MCInit ==
    /\ part \in {"store", "watch", "cache", "dispatch", "cluster"}
    /\ CachedInit /\ DispatchInit /\ ClusterInit
    /\ part # "store" => now = 0
    /\ part # "dispatch" => graph = Graph(Cycle, {})
    /\ part # "cluster" => form = "sync" /\ running = {Primary}

InStore(parts) == part \in parts /\ UNCHANGED <<part, cacheVars, dispatchVars, clusterVars>>
InCache == part = "cache" /\ UNCHANGED <<part, dispatchVars, clusterVars>>
InDispatch == part = "dispatch" /\ UNCHANGED <<part, memVars, cacheVars, clusterVars>>
InCluster == part = "cluster" /\ UNCHANGED <<part, memVars, cacheVars, dispatchVars>>

Stores == {"store", "watch", "cache"}

\* The second relationship is for the watcher alone.
Tuples == IF part = "watch" THEN Rels ELSE Rels \ {r2}
Few == Cardinality(touched) < IF part = "watch" THEN 2 ELSE 1

MCNext ==
    \/ \E w \in Writers : TxSrc(w) /\ InStore(Stores)
    \/ \E w \in Writers : UnusedTx(w) /\ InStore({"store"})
    \/ \E w \in Writers, r \in Tuples, v \in Vals :
           Few /\ WriteCreate(w, r, v) /\ InStore({"store", "watch"})
    \/ \E w \in Writers, r \in Tuples, v \in Vals :
           Few /\ WriteTouch(w, r, v) /\ InStore({"store", "watch"})
    \/ \E w \in Writers, r \in Tuples :
           Few /\ WriteDelete(w, r) /\ InStore({"store", "watch"})
    \/ \E w \in Writers, n \in Names, limit \in 1 .. Cardinality(Rels) :
           Few /\ DeleteRelationships(w, n, limit) /\ InStore({"store", "watch"})
    \/ \E w \in Writers, n \in Names, v \in Vals : Few /\ LegacyWrite(w, n, v) /\ InStore(Stores)
    \/ \E w \in Writers, n \in Names : Few /\ LegacyDelete(w, n) /\ InStore(Stores)
    \/ \E w \in Writers, h \in Vals \cup {None} :
           Few /\ WriteStoredSchema(w, h) /\ InStore({"store"})
    \/ \E w \in Writers : AbortTx(w) /\ InStore({"store", "watch"})
    \/ \E w \in Writers : CommitTx(w) /\ InStore(Stores)
    \/ HeadRevision /\ InStore({"store", "watch"})
    \/ OptimizedRevision /\ InStore({"store"})
    \/ Close /\ InStore({"store"})
    \/ Tick /\ InStore({"store"})
    \/ \E t \in {i.rev : i \in issued} : Watch(u1, t) /\ InStore({"watch"})
    \/ \E u \in Watchers : LoadChanges(u) /\ InStore({"watch", "cache"})
    \/ \E u \in Watchers : SendChange(u) /\ InStore({"watch", "cache"})
    \/ \E u \in Watchers : WaitForChanges(u) /\ InStore({"watch", "cache"})
    \/ Receive(u1) /\ InStore({"watch"})
    \/ CachedHead /\ InCache
    \/ CachedReset /\ InCache
    \/ CachedUpdate /\ InCache
    \/ CachedWatch /\ InCache
    \/ CachedEvent /\ InCache
    \/ CachedEnd /\ InCache
    \/ CachedStop /\ InCache
    \/ CachedGC /\ InCache
    \/ \E p \in Readers : CachedRead(p) /\ InCache
    \/ \E q \in Requests : DispatchCheck(q) /\ InDispatch
    \/ ClientLeaves(q1) /\ InDispatch
    \/ Evict(C) /\ InDispatch
    \/ \E c \in DOMAIN calls : CacheGet(c) /\ InDispatch
    \/ \E c \in DOMAIN calls : Singleflight(c) /\ InDispatch
    \/ \E c \in DOMAIN calls : WorkReturns(c) /\ InDispatch
    \/ \E c \in DOMAIN calls : WaitCanceled(c) /\ InDispatch
    \/ \E c \in DOMAIN calls : CheckDirect(c) /\ InDispatch
    \/ \E c \in DOMAIN calls : Union_(c) /\ InDispatch
    \/ \E c \in DOMAIN calls : WorkEnds(c) /\ InDispatch
    \/ OverallTimeout /\ InCluster
    \/ CallerLeaves /\ InCluster
    \/ \E d \in Dispatchers : Wake(d) /\ InCluster
    \/ \E d \in Dispatchers : SyncCall(d) /\ InCluster
    \/ SyncReturn /\ InCluster
    \/ \E d \in Dispatchers : CreateClient(d) /\ InCluster
    \/ \E d \in Dispatchers : LoopCanceled(d) /\ InCluster
    \/ \E d \in Dispatchers : LoopGoesOn(d) /\ InCluster
    \/ \E d \in Dispatchers : RecvResult(d) /\ InCluster
    \/ \E d \in Dispatchers : RecvError(d) /\ InCluster
    \/ \E d \in Dispatchers : Publish(d) /\ InCluster
    \/ StreamReturn /\ InCluster

MCSpec == MCInit /\ [][MCNext]_servingVars
=============================================================================
