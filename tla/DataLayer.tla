----------------------------- MODULE DataLayer -----------------------------
(***************************************************************************)
(* pkg/datalayer, in the schema modes that read the unified schema: the    *)
(* schema cache indexed by hash with its singleflight (hashcache.go), and  *)
(* reads and ReadWriteTx over it (impl.go).                                *)
(*                                                                         *)
(* A schema stands for its own hash.  The datastore is external: its       *)
(* versions of the schema, a lock on the stored one, and a pool of         *)
(* connections, one of which a transaction holds from its start to its end.*)
(* A revision is the number of the version it shows, and the datastore     *)
(* pairs revisions and hashes exactly.                                     *)
(***************************************************************************)
EXTENDS Naturals, Sequences, FiniteSets

CONSTANTS
    Calls,          \* each call made once
    Mixes,          \* what they may be: functions from Calls to Kinds
    Schemas, InitialSchema, None,
    Conns,          \* connections of the pool
    MaxAttempts,    \* maxSchemaHashAttempts
    MaxInner        \* bound on the retries inside the datastore's ReadWriteTx, of all calls

Kinds == {"read", "relationships", "schema"}

ASSUME DataLayerAssumption ==
    /\ Mixes \subseteq [Calls -> Kinds]
    /\ InitialSchema \in Schemas /\ None \notin Schemas \cup Calls
    /\ Conns \in Nat \ {0} /\ MaxAttempts \in Nat \ {0}
    /\ MaxInner \in Nat

VARIABLES
    history, lock, free,        \* datastore: versions, the lock of each call, free connections
    cache, latest,              \* schemaHashCache; latest is <<hash, schema>>
    flight,                     \* its singleflight: per hash, the leader and who waits
    last,                       \* lastSchemaHash
    kind, pc, rev, hash, got, wrote, attempt, started,  \* per call
    inner,                      \* retries inside the datastore's ReadWriteTx
    left                        \* hashes whose load was left running by the transaction it runs in

dbVars == <<history, lock, free>>
cacheVars == <<cache, latest, flight, left>>
vars == <<dbVars, cacheVars, last, kind, pc, rev, hash, got, wrote, attempt, inner, started>>

Current == history[Len(history)]
NoFlight == [lead |-> None, waiting |-> {}, loading |-> FALSE]
Ends == {"ok", "error", "precondition"}

Init ==
    /\ history = <<InitialSchema>> /\ lock = [p \in Calls |-> "none"] /\ free = Conns
    /\ cache = [h \in Schemas |-> None] /\ latest = <<None, None>>
    /\ flight = [h \in Schemas |-> NoFlight] /\ left = {}
    /\ last = None
    /\ kind \in Mixes /\ pc = [p \in Calls |-> "idle"]
    /\ rev = [p \in Calls |-> 0] /\ hash = [p \in Calls |-> None]
    /\ got = [p \in Calls |-> None] /\ wrote = [p \in Calls |-> None]
    /\ attempt = [p \in Calls |-> 0] /\ inner = 0
    /\ started = [p \in Calls |-> 0]

observeSchemaHash(h) == last' = IF h # None THEN h ELSE last

(***************************************************************************)
(* The datastore                                                           *)
(***************************************************************************)
InTx(p) == kind[p] # "read"

\* ReadStoredSchema of a reader at its revision, on a connection of its own, or of
\* a transaction on the transaction's, which sees its own write.
CanLoad(p) == InTx(p) \/ free > 0
ReadStoredSchema(p) ==
    IF ~InTx(p) THEN history[rev[p]]
    ELSE IF wrote[p] # None THEN wrote[p] ELSE Current

\* Mutant: the shared lock does not hold up an exclusive one.
LockWaits_ShareIgnored(p, mode) == \E o \in Calls \ {p} : lock[o] = "exclusive"

LockWaits(p, mode) ==
    \E o \in Calls \ {p} : \/ lock[o] = "exclusive"
                           \/ lock[o] = "share" /\ mode = "exclusive"

(***************************************************************************)
(* schemaHashCache                                                         *)
(***************************************************************************)
\* Mutant: the fast path does not compare the hash.
get_AnyLatest(h) == IF latest[2] # None THEN latest[2] ELSE cache[h]

get(h) == IF latest[1] = h THEN latest[2] ELSE cache[h]

Set(h, s) ==
    /\ latest' = <<h, s>>
    /\ cache' = [cache EXCEPT ![h] = s]

\* The backing cache drops what it likes.
Evict(h) ==
    /\ cache[h] # None
    /\ cache' = [cache EXCEPT ![h] = None]
    /\ UNCHANGED <<dbVars, latest, flight, left, last, kind, pc, rev, hash, got, wrote, attempt,
                   inner, started>>

callVars == <<kind, rev, hash, wrote, attempt, inner, started>>

\* What the call does with the schema: a read returns it, a transaction goes on.
AfterRead(p) == IF InTx(p) THEN "write" ELSE "ok"

Return(p, s) ==
    /\ got' = [got EXCEPT ![p] = s]
    /\ pc' = [pc EXCEPT ![p] = AfterRead(p)]

\* An error of the load ends a read and rolls a transaction back.
AfterError(p) == IF InTx(p) THEN "rollback" ELSE "error"

\* A call joins the load in flight, or begins one, and leaves it again.  The load that
\* nobody waits for any more is cancelled.
Joined(f, p) ==
    [f EXCEPT !.lead = IF f = NoFlight THEN p ELSE f.lead, !.waiting = f.waiting \cup {p}]
Left(f, p) == IF f.waiting \ {p} = {} THEN NoFlight ELSE [f EXCEPT !.waiting = f.waiting \ {p}]

\* GetOrLoad: a bypass sentinel, here None, goes to the loader; otherwise the cache,
\* and then the load in flight for the hash, joined or begun.
GetOrLoad(p) ==
    /\ pc[p] = "get"
    /\ IF hash[p] = None
       THEN /\ pc' = [pc EXCEPT ![p] = "fallback"]
            /\ UNCHANGED <<got, flight>>
       ELSE IF get(hash[p]) # None
       THEN Return(p, get(hash[p])) /\ UNCHANGED flight
       ELSE /\ pc' = [pc EXCEPT ![p] = "flying"]
            /\ flight' = [flight EXCEPT ![hash[p]] = Joined(@, p)]
            /\ UNCHANGED got
    /\ UNCHANGED <<dbVars, cache, latest, left, last, callVars>>

Deliver(h, s) ==
    /\ got' = [p \in Calls |-> IF p \in flight[h].waiting THEN s ELSE got[p]]
    /\ pc' = [p \in Calls |-> IF p \in flight[h].waiting THEN AfterRead(p) ELSE pc[p]]
    /\ flight' = [flight EXCEPT ![h] = NoFlight]

\* The function given to singleflight.Do, run in a goroutine: its own look at the
\* cache ...
FlightBegins(h) ==
    /\ flight[h] # NoFlight /\ ~flight[h].loading
    /\ IF get(h) # None
       THEN Deliver(h, get(h))
       ELSE /\ flight' = [flight EXCEPT ![h].loading = TRUE]
            /\ UNCHANGED <<pc, got>>
    /\ UNCHANGED <<dbVars, cache, latest, left, last, callVars>>

\* ... and the load, with the leader's reader, that is then cached.
LoadAndCache(h) ==
    /\ flight[h].loading /\ flight[h].lead # None /\ CanLoad(flight[h].lead)
    /\ Set(h, ReadStoredSchema(flight[h].lead))

FlightLoads(h) ==
    /\ LoadAndCache(h) /\ Deliver(h, ReadStoredSchema(flight[h].lead))
    /\ UNCHANGED <<dbVars, left, last, callVars>>

\* The load fails, for all who wait for it; it does when its transaction is over.
FlightFails(h) ==
    /\ flight[h].loading
    /\ pc' = [p \in Calls |-> IF p \in flight[h].waiting THEN AfterError(p) ELSE pc[p]]
    /\ flight' = [flight EXCEPT ![h] = NoFlight]
    /\ UNCHANGED <<dbVars, cache, latest, left, last, got, callVars>>

\* Mutant: nobody stops waiting for the load in flight.
SingleflightTimeout_Never(p) == FALSE /\ UNCHANGED vars

\* singleflightTimeout: the call looks at the cache once more and else loads by
\* itself.  When nobody is left, the load is cancelled, unless it is just done: then
\* it is cached all the same.
SingleflightTimeout(p) ==
    LET h == hash[p]
    IN  /\ pc[p] = "flying"
        /\ flight' = [flight EXCEPT ![h] = Left(@, p)]
        /\ left' = IF InTx(p) /\ flight'[h].lead = p THEN left \cup {h} ELSE left
        /\ IF get(h) # None
           THEN Return(p, get(h))
           ELSE pc' = [pc EXCEPT ![p] = "fallback"] /\ UNCHANGED got
        /\ \/ UNCHANGED <<cache, latest>>
           \/ flight'[h] = NoFlight /\ LoadAndCache(h)
        /\ UNCHANGED <<dbVars, last, callVars>>

\* loader(ctx), whose result is not cached.
Fallback(p) ==
    /\ pc[p] = "fallback" /\ CanLoad(p)
    /\ Return(p, ReadStoredSchema(p))
    /\ UNCHANGED <<dbVars, cacheVars, last, callVars>>

FallbackFails(p) ==
    /\ pc[p] = "fallback"
    /\ pc' = [pc EXCEPT ![p] = AfterError(p)]
    /\ UNCHANGED <<dbVars, cacheVars, last, got, callVars>>

(***************************************************************************)
(* Reads, and ReadWriteTx                                                  *)
(***************************************************************************)

\* SnapshotReader at a revision of HeadRevision, OptimizedRevision or a token, with
\* its hash or, for a token without one, a bypass sentinel; then ReadSchema.
StartRead(p) ==
    /\ pc[p] = "idle" /\ ~InTx(p)
    /\ \E r \in DOMAIN history : \E h \in {history[r], None} :
          /\ rev' = [rev EXCEPT ![p] = r]
          /\ hash' = [hash EXCEPT ![p] = h]
          /\ observeSchemaHash(h)
    /\ pc' = [pc EXCEPT ![p] = "get"]
    /\ UNCHANGED <<dbVars, cacheVars, kind, got, wrote, attempt, inner, started>>

\* ReadWriteTx: the precondition is the hash observed last, or that of HeadRevision,
\* or, when that fails, none.
StartTx(p) ==
    /\ pc[p] = "idle" /\ InTx(p)
    /\ \/ last # None /\ hash' = [hash EXCEPT ![p] = last] /\ UNCHANGED last
       \/ /\ last = None /\ free > 0
          /\ hash' = [hash EXCEPT ![p] = Current] /\ observeSchemaHash(Current)
       \/ last = None /\ UNCHANGED <<hash, last>>
    /\ started' = [started EXCEPT ![p] = Len(history)]
    /\ attempt' = [attempt EXCEPT ![p] = 1]
    /\ pc' = [pc EXCEPT ![p] = "opening"]
    /\ UNCHANGED <<dbVars, cacheVars, kind, rev, got, wrote, inner>>

\* The datastore begins a transaction; pendingHash and pendingSchema are reset.
OpenTx(p) ==
    /\ pc[p] = "opening" /\ free > 0
    /\ free' = free - 1
    /\ pc' = [pc EXCEPT ![p] = "assert"]
    /\ wrote' = [wrote EXCEPT ![p] = None]
    /\ got' = [got EXCEPT ![p] = None]
    /\ UNCHANGED <<history, lock, cacheVars, last, kind, rev, hash, attempt, inner, started>>

\* The end of a transaction, which gives back its lock and its connection; a load
\* that still runs in it has nothing to load from.
EndTx(p) ==
    /\ lock' = [lock EXCEPT ![p] = "none"]
    /\ free' = free + 1
    /\ flight' = [h \in Schemas |-> IF flight[h].lead = p THEN [flight[h] EXCEPT !.lead = None]
                                                          ELSE flight[h]]

Mode(p) == IF kind[p] = "schema" THEN "exclusive" ELSE "share"

\* Mutant: the stored hash is not compared.
AssertSchemaHash_Unchecked(p) ==
    /\ pc[p] = "assert"
    /\ ~LockWaits(p, Mode(p))
    /\ lock' = [lock EXCEPT ![p] = Mode(p)]
    /\ pc' = [pc EXCEPT ![p] = "get"]
    /\ UNCHANGED <<history, free, cacheVars, last, got, callVars>>

\* The precondition, checked by the datastore before fn is called.
AssertSchemaHash(p) ==
    /\ pc[p] = "assert"
    /\ \/ /\ hash[p] = None
          /\ pc' = [pc EXCEPT ![p] = "get"] /\ UNCHANGED <<lock, free, flight>>
       \/ /\ hash[p] = Current /\ ~LockWaits(p, Mode(p))
          /\ lock' = [lock EXCEPT ![p] = Mode(p)]
          /\ pc' = [pc EXCEPT ![p] = "get"] /\ UNCHANGED <<free, flight>>
       \/ /\ hash[p] \notin {None, Current} /\ ~LockWaits(p, Mode(p))
          /\ EndTx(p) /\ pc' = [pc EXCEPT ![p] = "refresh"]
    /\ UNCHANGED <<history, cache, latest, left, last, got, callVars>>

\* fn, after ReadSchema: relationships validated against the schema, or WriteSchema.
WriteTx(p) ==
    /\ pc[p] = "write"
    /\ pc' = [pc EXCEPT ![p] = "commit"]
    /\ \/ kind[p] = "relationships" /\ UNCHANGED <<lock, wrote>>
       \/ /\ kind[p] = "schema" /\ ~LockWaits(p, "exclusive")
          /\ lock' = [lock EXCEPT ![p] = "exclusive"]
          /\ \E s \in Schemas : wrote' = [wrote EXCEPT ![p] = s]
    /\ UNCHANGED <<history, free, cacheVars, last, got, kind, rev, hash, attempt, inner, started>>

\* The commit, whose acknowledgement may be lost.
Commit(p, acknowledged) ==
    /\ pc[p] = "commit"
    /\ EndTx(p)
    /\ history' = IF wrote[p] = None THEN history ELSE Append(history, wrote[p])
    /\ pc' = [pc EXCEPT ![p] = IF acknowledged THEN "committed" ELSE "error"]
    /\ UNCHANGED <<cache, latest, left, last, got, callVars>>

\* After it, the cache and the observed hash learn of the schema written.
AfterCommit(p) ==
    /\ pc[p] = "committed"
    /\ IF wrote[p] = None THEN UNCHANGED <<cache, latest, last>>
       ELSE Set(wrote[p], wrote[p]) /\ observeSchemaHash(wrote[p])
    /\ pc' = [pc EXCEPT ![p] = "ok"]
    /\ UNCHANGED <<dbVars, flight, left, got, callVars>>

\* Errors of the transaction: the datastore rolls it back and tries again with the
\* same precondition, or gives up.
TxFails(p) ==
    /\ pc[p] \in {"assert", "write", "commit", "rollback"}
    /\ EndTx(p)
    /\ \/ /\ inner < MaxInner
          /\ inner' = inner + 1
          /\ pc' = [pc EXCEPT ![p] = "opening"]
       \/ pc' = [pc EXCEPT ![p] = "error"] /\ UNCHANGED inner
    /\ UNCHANGED <<history, cache, latest, left, last, got, kind, rev, hash, wrote, attempt, started>>

\* Mutant: the hash of OptimizedRevision, which may be an older one.
Refresh_Optimized(p) ==
    /\ pc[p] = "refresh" /\ free > 0
    /\ \E r \in DOMAIN history : /\ hash' = [hash EXCEPT ![p] = history[r]]
                                 /\ observeSchemaHash(history[r])
    /\ IF attempt[p] < MaxAttempts
       THEN /\ attempt' = [attempt EXCEPT ![p] = @ + 1]
            /\ pc' = [pc EXCEPT ![p] = "opening"]
       ELSE /\ pc' = [pc EXCEPT ![p] = "precondition"] /\ UNCHANGED attempt
    /\ UNCHANGED <<dbVars, cacheVars, got, kind, rev, wrote, inner, started>>

\* ErrSchemaHashPreconditionFailed: the hash of HeadRevision and, while attempts are
\* left, a new transaction.
Refresh(p) ==
    /\ pc[p] = "refresh" /\ free > 0
    /\ hash' = [hash EXCEPT ![p] = Current] /\ observeSchemaHash(Current)
    /\ IF attempt[p] < MaxAttempts
       THEN /\ attempt' = [attempt EXCEPT ![p] = @ + 1]
            /\ pc' = [pc EXCEPT ![p] = "opening"]
       ELSE /\ pc' = [pc EXCEPT ![p] = "precondition"] /\ UNCHANGED attempt
    /\ UNCHANGED <<dbVars, cacheVars, got, kind, rev, wrote, inner, started>>

\* HeadRevision fails, and the call ends with the error it has.
RefreshFails(p) ==
    /\ pc[p] = "refresh"
    /\ pc' = [pc EXCEPT ![p] = "error"]
    /\ UNCHANGED <<dbVars, cacheVars, last, got, callVars>>

Step(p) ==
    \/ GetOrLoad(p) \/ SingleflightTimeout(p) \/ Fallback(p)
    \/ OpenTx(p) \/ AssertSchemaHash(p) \/ WriteTx(p) \/ Commit(p, TRUE) \/ AfterCommit(p)
    \/ pc[p] = "rollback" /\ TxFails(p)
    \/ Refresh(p)

Start(p) == StartRead(p) \/ StartTx(p)

Error(p) == FallbackFails(p) \/ TxFails(p) \/ Commit(p, FALSE) \/ RefreshFails(p)

FlightStep(h) ==
    \/ FlightBegins(h) \/ FlightLoads(h)
    \/ flight[h].lead = None /\ FlightFails(h)

\* Every call has its answer.
Done == (\A p \in Calls : pc[p] \in Ends) /\ UNCHANGED vars

Next ==
    \/ \E p \in Calls : Start(p) \/ Step(p) \/ Error(p)
    \/ \E h \in Schemas : FlightStep(h) \/ FlightFails(h) \/ Evict(h)
    \/ Done

\* Goroutines run, queries and transactions end, timers fire; nothing has to fail.
Fairness ==
    /\ \A p \in Calls : WF_vars(Step(p))
    /\ \A h \in Schemas : WF_vars(FlightStep(h))

Spec == Init /\ [][Next]_vars /\ Fairness

(***************************************************************************)
(* Properties                                                              *)
(***************************************************************************)

Places == Ends \cup {"idle", "get", "flying", "fallback", "opening", "assert", "write", "commit",
                    "rollback", "committed", "refresh"}

\* Type invariant of the cache, the flights and the calls.
TypeOK ==
    /\ history \in Seq(Schemas) /\ free \in 0 .. Conns
    /\ lock \in [Calls -> {"none", "share", "exclusive"}]
    /\ cache \in [Schemas -> Schemas \cup {None}]
    /\ latest \in (Schemas \cup {None}) \X (Schemas \cup {None})
    /\ flight \in [Schemas -> [lead : Calls \cup {None}, waiting : SUBSET Calls,
                               loading : BOOLEAN]]
    /\ left \subseteq Schemas /\ last \in Schemas \cup {None}
    /\ kind \in Mixes
    /\ pc \in [Calls -> Places]
    /\ rev \in [Calls -> Nat] /\ started \in [Calls -> Nat]
    /\ hash \in [Calls -> Schemas \cup {None}]
    /\ got \in [Calls -> Schemas \cup {None}]
    /\ wrote \in [Calls -> Schemas \cup {None}]
    /\ attempt \in [Calls -> 0 .. MaxAttempts] /\ inner \in 0 .. MaxInner

\* The cache holds under a hash the schema of that hash, whoever loaded it: a reader
\* at an old revision, a transaction whose schema must not change while it loads, or
\* a schema write after its commit.  Left out are the hashes whose load a transaction
\* left running when its wait timed out, since that load may meet the transaction's
\* own write.
CacheIsFaithful ==
    \A h \in Schemas \ left :
        cache[h] \in {None, h} /\ (latest[1] = h => latest[2] = h)

\* A read returns the schema of its revision, also from the cache, from a load that
\* another call began, and after a timeout.
ReadsAreExact ==
    \A p \in Calls : kind[p] = "read" /\ pc[p] = "ok" /\ hash[p] \notin left
        => got[p] = history[rev[p]]

\* What a transaction with a precondition validated against is the schema that is
\* stored when it commits, however often it was retried inside and outside the
\* datastore and wherever it took the schema from.
CommitsAreValidated ==
    [][\A p \in Calls :
          pc[p] = "commit" /\ pc'[p] \in {"committed", "error"} /\ hash[p] \notin left \cup {None}
              => got[p] = Current]_vars

\* "Use HeadRevision (not OptimizedRevision) to guarantee we see the hash of the write
\* that just invalidated our precondition" (impl.go:167): while HeadRevision answers,
\* the precondition error reaches the caller only when the schema was changed again
\* for every attempt after the first.
PreconditionErrorsAreEarned ==
    \A p \in Calls :
        pc[p] = "precondition" => Len(history) - started[p] >= MaxAttempts - 1

\* The timeout "prevents a possible deadlock when all connections in a pool are held
\* by goroutines waiting on the singleflight while the singleflight leader is blocked
\* waiting for a connection" (hashcache.go:19): every call gets its answer.
CallsEnd == []<>(\A p \in Calls : pc[p] \in Ends \cup {"idle"})

(***************************************************************************)
(* The inductive invariant from which the safety properties follow.        *)
(***************************************************************************)

\* Where a transaction is after its precondition, and where it has a connection.
Asserted == {"get", "flying", "fallback", "write", "commit", "rollback"}
InPool == {p \in Calls : InTx(p) /\ pc[p] \in Asserted \cup {"assert"}}

\* The connections that are not free are those of the transactions.
PoolInv == IsFiniteSet(InPool) /\ free + Cardinality(InPool) = Conns

\* An exclusive lock is the only one, and locks are those of transactions.
LocksInv ==
    /\ \A p, o \in Calls : p # o /\ lock[p] = "exclusive" => lock[o] = "none"
    /\ \A p \in Calls : lock[p] # "none" => InTx(p) /\ pc[p] \in Asserted

\* A transaction that writes a schema has the exclusive lock, and one that asserted a
\* hash has a lock under which the hash stays the stored one.
TxInv ==
    \A p \in Calls : InTx(p) =>
        /\ pc[p] \in (Asserted \cup {"assert"}) \ {"commit"} => wrote[p] = None
        /\ pc[p] = "commit" /\ wrote[p] # None => lock[p] = "exclusive"
        /\ pc[p] \in Asserted /\ hash[p] # None => lock[p] # "none" /\ hash[p] = Current

\* A read keeps a revision there is, and its hash.
ReadInv ==
    \A p \in Calls : ~InTx(p) =>
        /\ pc[p] \in {"idle", "get", "flying", "fallback", "ok", "error"}
        /\ pc[p] # "idle" =>
               rev[p] \in DOMAIN history /\ hash[p] \in {None, history[rev[p]]}

\* Who waits for a load wants its hash; so does the reader that leads it, and the
\* transaction that leads it waits for it or has left it.
FlightInv ==
    /\ \A p \in Calls : pc[p] = "flying" => hash[p] # None
    /\ \A h \in Schemas : \A p \in flight[h].waiting : pc[p] = "flying" /\ hash[p] = h
    /\ \A h \in Schemas, p \in Calls : flight[h].lead = p =>
           IF InTx(p) THEN p \in flight[h].waiting \/ h \in left
                      ELSE pc[p] # "idle" /\ hash[p] = h

\* The schema a call was given is that of its hash, or of its revision.
GotInv ==
    \A p \in Calls : hash[p] \notin left =>
        /\ ~InTx(p) /\ pc[p] = "ok" => got[p] = history[rev[p]]
        /\ InTx(p) /\ pc[p] \in {"write", "commit"} /\ hash[p] # None => got[p] = hash[p]

\* Each attempt after the first met the hash of its time; when that is not the stored
\* one any more, a schema was written since.
AttemptInv ==
    \A p \in Calls : InTx(p) /\ pc[p] # "idle" =>
        /\ attempt[p] >= 1 /\ started[p] <= Len(history)
        /\ pc[p] \in Asserted \cup {"opening", "assert"} /\ attempt[p] >= 2 =>
               /\ Len(history) - started[p] >= attempt[p] - 2
               /\ hash[p] # Current => Len(history) - started[p] >= attempt[p] - 1
        /\ pc[p] = "refresh" => Len(history) - started[p] >= attempt[p] - 1
        /\ pc[p] = "precondition" => Len(history) - started[p] >= MaxAttempts - 1

Inv ==
    /\ TypeOK /\ history # <<>> /\ PoolInv /\ LocksInv /\ TxInv /\ ReadInv
    /\ FlightInv /\ CacheIsFaithful /\ GotInv /\ AttemptInv
=============================================================================
