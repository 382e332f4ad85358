-------------------------- MODULE SchemaWatchCache --------------------------
(***************************************************************************)
(* The watching schema cache (proxy/schemacaching): a supervisor that      *)
(* populates the cache at head and then follows the schema watch, readers  *)
(* that use it for revisions up to its checkpoint and else the fallback    *)
(* cache, and the hourly removal of old intervals.  One cache, of          *)
(* namespaces: the cache of caveats is the same code in the same loop.     *)
(*                                                                         *)
(* The datastore is a parameter: its revisions and their order here, its   *)
(* head, contents and events in the actions.                               *)
(***************************************************************************)
EXTENDS Integers, Sequences

CONSTANTS
    DefNames,           \* names of definitions
    NotFound,           \* in place of a definition: there is none
    NoRev,              \* a nil revision
    RevLessThan(_, _), RevEqual(_, _),  \* of datastore.Revision
    Readers,            \* calls of LegacyReadNamespaceByName, each made once
    MaxTrackers, MaxCycles          \* bounds on trackers made and on watch cycles

ASSUME CacheAssumption ==
    /\ MaxTrackers \in Nat \ {0} /\ MaxCycles \in Nat

VARIABLES
    fallback, checkpoint, entries,  \* schemaWatchCache: flag, revision, tracker by name
    trackers,                       \* the interval trackers ever made
    sup,                            \* the supervisor and the update it performs
    reader,                         \* per reader
    defCache                        \* definitionCachingProxy: name@revision

cacheVars == <<fallback, checkpoint, entries, trackers, sup, reader, defCache>>

RevGreaterThan(a, b) == RevLessThan(b, a)

(***************************************************************************)
(* intervalTracker                                                         *)
(***************************************************************************)
Interval(v, r) == [value |-> v, start |-> r, end |-> NoRev]

\* The comparison of lookup: 0 when the entry holds the revision, -1 when it comes
\* before it in the slice, 1 when after.
Compare(e, rev, last) ==
    LET inclusive == IF last = NoRev THEN e.start ELSE last
    IN  CASE RevEqual(e.start, rev) -> 0
          [] RevGreaterThan(e.start, rev) -> -1
          [] e.end # NoRev -> IF RevLessThan(rev, e.end) THEN 0 ELSE 1
          [] RevLessThan(rev, inclusive) \/ RevEqual(rev, inclusive) -> 0
          [] RevGreaterThan(rev, inclusive) -> -1
          [] OTHER -> 1

\* Mutant: the checkpoint is not looked at.
lookup_NoCheckpoint(s, rev, last) ==
    LET holds == {i \in DOMAIN s : ~RevLessThan(rev, s[i].start) /\
                                   (s[i].end = NoRev \/ RevLessThan(rev, s[i].end))}
    IN  {s[i].value : i \in holds}

\* lookup: slices.BinarySearchFunc; the value found, if any.
lookup(s, rev, last) ==
    LET cmp(i) == Compare(s[i + 1], rev, last)
        search[i \in 0 .. Len(s), j \in 0 .. Len(s)] ==
            IF i >= j THEN i
            ELSE LET h == (i + j) \div 2
                 IN  IF cmp(h) < 0 THEN search[h + 1, j] ELSE search[i, h]
        found == search[0, Len(s)]
    IN  IF found < Len(s) /\ cmp(found) = 0 THEN {s[found + 1].value} ELSE {}

CanAdd(s, rev) == s = <<>> \/ ~RevLessThan(rev, s[1].start)

\* add: the latest entry first, closed by the next one.
add(s, v, rev) ==
    CASE s = <<>> -> <<Interval(v, rev)>>
      [] s # <<>> /\ (RevLessThan(rev, s[1].start) \/ RevEqual(rev, s[1].start)) -> s
      [] OTHER -> <<Interval(v, rev), [s[1] EXCEPT !.end = rev]>> \o Tail(s)

(***************************************************************************)
(* getTrackerForName, by the supervisor and by readers: looked up under    *)
(* the read lock and, if missing, made and stored under the write lock.    *)
(***************************************************************************)
Missing(n) == entries[n] = 0

MakeTracker(n) ==
    /\ Len(trackers) < MaxTrackers
    /\ trackers' = Append(trackers, <<>>)
    /\ entries' = [entries EXCEPT ![n] = Len(trackers) + 1]

CacheInit ==
    /\ fallback = TRUE /\ checkpoint = NoRev
    /\ entries = [n \in DefNames |-> 0] /\ trackers = <<>>
    /\ sup = [pc |-> "start", cycles |-> 0, head |-> NoRev, rev |-> NoRev,
              todo |-> {}, tracker |-> 0]
    /\ reader = [p \in Readers |-> [pc |-> "idle"]]
    /\ defCache = {}

(***************************************************************************)
(* The supervisor: startSync and runWatchOnce                              *)
(***************************************************************************)
SupFrame == UNCHANGED <<reader, defCache>>
Sup(f) == sup' = f

\* HeadRevision: its result, or an error.
SupHead(h) ==
    /\ sup.pc = "start"
    /\ \/ Sup([sup EXCEPT !.pc = "reset", !.head = h]) /\ UNCHANGED fallback
       \/ fallback' = TRUE /\ UNCHANGED sup
    /\ UNCHANGED <<checkpoint, entries, trackers>> /\ SupFrame

\* reset, and the definitions LegacyListAllNamespaces returns at the head revision.
SupReset(defs) ==
    /\ sup.pc = "reset"
    /\ fallback' = TRUE /\ checkpoint' = NoRev
    /\ entries' = [n \in DefNames |-> 0]
    /\ Sup([sup EXCEPT !.pc = "update", !.rev = sup.head, !.todo = defs])
    /\ UNCHANGED trackers /\ SupFrame

\* updateDefinition, of one of the definitions to do.
SupGetTracker(n) ==
    /\ sup.pc = "update" /\ sup.todo # {}
    /\ n = (CHOOSE d \in sup.todo : TRUE).name
    /\ Sup([sup EXCEPT !.pc = IF Missing(n) THEN "make" ELSE "add",
                       !.tracker = entries[n]])
    /\ UNCHANGED <<fallback, checkpoint, entries, trackers>> /\ SupFrame

SupMakeTracker(n) ==
    /\ sup.pc = "make" /\ n = (CHOOSE d \in sup.todo : TRUE).name
    /\ MakeTracker(n)
    /\ Sup([sup EXCEPT !.pc = "add", !.tracker = Len(trackers) + 1])
    /\ UNCHANGED <<fallback, checkpoint>> /\ SupFrame

\* An insertion out of order puts the cache into fallback mode.
SupAdd ==
    LET d == CHOOSE d \in sup.todo : TRUE
        s == trackers[sup.tracker]
    IN  /\ sup.pc = "add"
        /\ trackers' = [trackers EXCEPT ![sup.tracker] = add(s, d.value, sup.rev)]
        /\ fallback' = (fallback \/ ~CanAdd(s, sup.rev))
        /\ Sup([sup EXCEPT !.pc = "update", !.todo = @ \ {d}])
        /\ UNCHANGED <<checkpoint, entries>> /\ SupFrame

\* The cache is populated: the watch begins at the head revision and the cache is
\* put to use.
SupWatch ==
    /\ sup.pc = "update" /\ sup.todo = {} /\ sup.head # NoRev
    /\ checkpoint' = sup.head /\ fallback' = FALSE
    /\ Sup([sup EXCEPT !.head = NoRev, !.rev = NoRev])
    /\ UNCHANGED <<entries, trackers>> /\ SupFrame

Watching == sup.pc = "update" /\ sup.todo = {} /\ sup.head = NoRev

\* An event of the watch: a checkpoint, or changed and deleted definitions.
SupEvent(rev, isCheckpoint, defs) ==
    /\ Watching
    /\ IF isCheckpoint THEN checkpoint' = rev /\ UNCHANGED sup
       ELSE Sup([sup EXCEPT !.rev = rev, !.todo = defs]) /\ UNCHANGED checkpoint
    /\ UNCHANGED <<fallback, entries, trackers>> /\ SupFrame

\* The cycle ends: with an error, of the watch or of a read that populates the cache,
\* in fallback mode; or because the channel was closed.
SupEnd(withError) ==
    /\ \/ Watching
       \/ sup.pc = "update" /\ sup.head # NoRev /\ withError
    /\ sup.cycles < MaxCycles
    /\ fallback' = (fallback \/ withError)
    /\ Sup([sup EXCEPT !.pc = "start", !.cycles = @ + 1, !.head = NoRev, !.todo = {}])
    /\ UNCHANGED <<checkpoint, entries, trackers>> /\ SupFrame

\* A terminal error, or Close: the cache stays in fallback mode.
SupStop ==
    /\ sup.pc \in {"start", "update"} /\ sup.todo = {}
    /\ fallback' = TRUE
    /\ Sup([sup EXCEPT !.pc = "stopped"])
    /\ UNCHANGED <<checkpoint, entries, trackers>> /\ SupFrame

\* gcStaleEntries: intervals that have ended and are old go, the oldest being last,
\* and so does a tracker without intervals.
gcStaleEntries(n) ==
    LET s == trackers[entries[n]]
    IN  /\ ~Missing(n)
        /\ \/ /\ s = <<>>
              /\ entries' = [entries EXCEPT ![n] = 0] /\ UNCHANGED trackers
           \/ /\ \E kept \in 1 .. (Len(s) - 1) :
                     trackers' = [trackers EXCEPT ![entries[n]] = SubSeq(s, 1, kept)]
              /\ UNCHANGED entries
        /\ UNCHANGED <<fallback, checkpoint, sup>> /\ SupFrame

(***************************************************************************)
(* Readers: readDefinitionByName                                           *)
(***************************************************************************)
ReaderFrame == UNCHANGED <<fallback, checkpoint, sup>>
SetReader(p, f) == reader' = [reader EXCEPT ![p] = f]

ReadState(p, n, rev) ==
    /\ reader[p].pc = "idle"
    /\ SetReader(p, [pc |-> IF fallback THEN "fallback" ELSE "get", name |-> n,
                     rev |-> rev, last |-> checkpoint])
    /\ ReaderFrame /\ UNCHANGED <<entries, trackers, defCache>>

With(p, field, v) ==
    [x \in DOMAIN reader[p] \cup {field} |-> IF x = field THEN v ELSE reader[p][x]]

ReadGetTracker(p) ==
    /\ reader[p].pc = "get"
    /\ IF Missing(reader[p].name)
       THEN SetReader(p, [reader[p] EXCEPT !.pc = "make"])
       ELSE SetReader(p, [With(p, "tracker", entries[reader[p].name])
                             EXCEPT !.pc = "lookup"])
    /\ ReaderFrame /\ UNCHANGED <<entries, trackers, defCache>>

ReadMakeTracker(p) ==
    /\ reader[p].pc = "make"
    /\ MakeTracker(reader[p].name)
    /\ SetReader(p, [With(p, "tracker", Len(trackers) + 1) EXCEPT !.pc = "lookup"])
    /\ ReaderFrame /\ UNCHANGED defCache

Answer(p, v) ==
    SetReader(p, [pc |-> "done", name |-> reader[p].name, rev |-> reader[p].rev,
                  answer |-> v])

ReadLookup(p) ==
    LET found == lookup(trackers[reader[p].tracker], reader[p].rev, reader[p].last)
    IN  /\ reader[p].pc = "lookup"
        /\ \/ \E v \in found : Answer(p, v)
           \/ found = {} /\ SetReader(p, [reader[p] EXCEPT !.pc = "fallback"])
        /\ ReaderFrame /\ UNCHANGED <<entries, trackers, defCache>>

\* readAndCache: the cached definition, or what the datastore returns at the revision.
ReadFallback(p, v) ==
    LET n == reader[p].name
        r == reader[p].rev
        cached == {d \in defCache : d.name = n /\ d.rev = r}
    IN  /\ reader[p].pc = "fallback"
        /\ \/ \E d \in cached : Answer(p, d.value) /\ UNCHANGED defCache
           \/ /\ cached = {}
              /\ Answer(p, v)
              /\ defCache' = defCache \cup {[name |-> n, rev |-> r, value |-> v]}
        /\ ReaderFrame /\ UNCHANGED <<entries, trackers>>

ReaderStep(p) == ReadGetTracker(p) \/ ReadMakeTracker(p) \/ ReadLookup(p)
=============================================================================
