----------------------------- MODULE MemDBCache -----------------------------
(***************************************************************************)
(* The watching schema cache over MemDB: the supervisor's watch is one of  *)
(* MemDB's watchers, and its events are what that watcher was sent.        *)
(***************************************************************************)
EXTENDS MemDB, SchemaWatchCache

CONSTANT CacheWatch     \* the supervisor's watcher, for schema and checkpoints

cachedVars == <<memVars, cacheVars>>

DefOf(o, v) == [name |-> o, value |-> v]
DefinitionsAt(t) ==
    {DefOf(n, SnapshotAt(t).db[n]) : n \in {m \in Names : SnapshotAt(t).db[m] # None}}

CachedInit == MemInit /\ CacheInit

NoWatch == [watch EXCEPT ![CacheWatch] =
               [@ EXCEPT !.pc = "off", !.staged = <<>>, !.updates = <<>>]]

CachedHead == ~closed /\ SupHead(head) /\ UNCHANGED memVars
CachedReset == SupReset(DefinitionsAt(sup.head)) /\ UNCHANGED memVars
CachedUpdate ==
    /\ \/ \E n \in DefNames : SupGetTracker(n) \/ SupMakeTracker(n)
       \/ SupAdd
    /\ UNCHANGED memVars
CachedWatch == SupWatch /\ Watch(CacheWatch, sup.head)
CachedEvent ==
    /\ watch[CacheWatch].updates # <<>>
    /\ LET e == Head(watch[CacheWatch].updates)
       IN  SupEvent(e.rev, e.checkpoint,
                    {DefOf(x.object, x.value) :
                         x \in {y \in e.changes : y.object \in Names}})
    /\ Receive(CacheWatch)
CachedEnd ==
    /\ \/ watch[CacheWatch].pc = "ended" /\ SupEnd(TRUE)
       \/ watch[CacheWatch].pc = "ended" /\ watch[CacheWatch].updates = <<>>
          /\ SupEnd(FALSE)
       \/ watch[CacheWatch].pc = "off" /\ SupEnd(TRUE)
    /\ watch' = NoWatch /\ WatchFrame
CachedStop == SupStop /\ UNCHANGED memVars
CachedGC == (\E n \in DefNames : gcStaleEntries(n)) /\ UNCHANGED memVars
CachedRead(p) ==
    /\ \/ \E n \in DefNames, i \in issued : ReadState(p, n, i.rev)
       \/ ReaderStep(p)
       \/ reader[p].pc = "fallback"
          /\ ReadFallback(p, SnapshotAt(reader[p].rev).db[reader[p].name])
    /\ UNCHANGED memVars

\* A read of a definition through the cache, of a revision head had reached when it
\* was handed out, returns the definition the datastore holds at that revision, while
\* cycles restart, trackers are made twice and dropped, and intervals are removed.
CachedReadsAreExact ==
    \A p \in Readers : reader[p].pc = "done" =>
        \A i \in issued : i.rev = reader[p].rev /\ i.settled =>
            reader[p].answer = i.content[reader[p].name]
=============================================================================
