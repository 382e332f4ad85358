-------------------------- MODULE DataLayerProofs --------------------------
(***************************************************************************)
(* The schema cache and ReadWriteTx of the data layer, for every number of *)
(* calls, schemas, connections and attempts.                               *)
(***************************************************************************)
EXTENDS DataLayer, FiniteSetTheorems, TLAPS

\* The steps of the schema cache: GetOrLoad with its branches, the load in flight, and
\* what the backing cache drops.
Loads ==
    \/ \E p \in Calls : GetOrLoad(p) \/ SingleflightTimeout(p) \/ Fallback(p) \/ FallbackFails(p)
    \/ \E h \in Schemas : FlightBegins(h) \/ FlightLoads(h) \/ FlightFails(h) \/ Evict(h)
    \/ UNCHANGED vars

\* Every step is one of the schema cache or one of a call.
LEMMA StepHasKind ==
    ASSUME [Next]_vars
    PROVE  \/ Loads
           \/ \E p \in Calls : \/ StartRead(p) \/ StartTx(p) \/ OpenTx(p) \/ AssertSchemaHash(p)
                               \/ WriteTx(p) \/ AfterCommit(p) \/ TxFails(p) \/ Refresh(p)
                               \/ RefreshFails(p) \/ \E a \in BOOLEAN : Commit(p, a)
BY Zenon DEF Next, Start, Step, Error, FlightStep, Done, Loads

\* The types of what the calls are made of.
LEMMA Types ==
    ASSUME TypeOK
    PROVE  /\ DOMAIN pc = Calls /\ DOMAIN lock = Calls /\ DOMAIN kind = Calls
           /\ DOMAIN rev = Calls /\ DOMAIN hash = Calls /\ DOMAIN wrote = Calls
           /\ DOMAIN got = Calls /\ DOMAIN attempt = Calls /\ DOMAIN started = Calls
           /\ \A p \in Calls : kind[p] \in Kinds /\ hash[p] \in Schemas \cup {None}
           /\ history \in Seq(Schemas) /\ None \notin Schemas \cup Calls
BY DataLayerAssumption DEF TypeOK

\* The types of the flights.
LEMMA FlightTypes ==
    ASSUME TypeOK
    PROVE  /\ DOMAIN flight = Schemas
           /\ \A h \in Schemas :
                  flight[h] \in [lead : Calls \cup {None}, waiting : SUBSET Calls,
                                 loading : BOOLEAN]
BY Zenon DEF TypeOK

\* A step of the schema cache leaves the datastore and what a call knows alone, and
\* takes calls through GetOrLoad or out of it.
LEMMA LoadEffects ==
    ASSUME TypeOK, FlightInv, Loads
    PROVE  /\ UNCHANGED <<dbVars, last, callVars>>
           /\ pc' \in [Calls -> Places]
           /\ \A q \in Calls : \/ pc'[q] = pc[q]
                               \/ /\ pc[q] \in {"get", "flying", "fallback"}
                                  /\ pc'[q] \in {"flying", "fallback", AfterRead(q), AfterError(q)}
<1> USE Types, FlightTypes DEF dbVars, cacheVars, callVars
<1>1. pc \in [Calls -> Places] /\ "flying" \in Places /\ "fallback" \in Places
  BY Zenon DEF TypeOK, Places
<1>2. ASSUME NEW p \in Calls, GetOrLoad(p) \/ SingleflightTimeout(p) \/ Fallback(p) \/ FallbackFails(p)
      PROVE  /\ UNCHANGED <<dbVars, last, callVars>>
             /\ pc[p] \in {"get", "flying", "fallback"}
             /\ \/ pc' = [pc EXCEPT ![p] = "flying"] \/ pc' = [pc EXCEPT ![p] = "fallback"]
                \/ pc' = [pc EXCEPT ![p] = AfterRead(p)] \/ pc' = [pc EXCEPT ![p] = AfterError(p)]
  BY <1>2, Zenon DEF GetOrLoad, SingleflightTimeout, Fallback, FallbackFails, Return
<1>3. ASSUME NEW h \in Schemas, FlightBegins(h) \/ FlightLoads(h) \/ FlightFails(h) \/ Evict(h)
      PROVE  /\ UNCHANGED <<dbVars, last, callVars>>
             /\ \/ pc' = pc
                \/ pc' = [p \in Calls |-> IF p \in flight[h].waiting THEN AfterRead(p) ELSE pc[p]]
                \/ pc' = [p \in Calls |-> IF p \in flight[h].waiting THEN AfterError(p) ELSE pc[p]]
  BY <1>3, Zenon DEF FlightBegins, FlightLoads, FlightFails, Evict, Deliver
<1>4. \A q \in Calls : AfterRead(q) \in Places /\ AfterError(q) \in Places
  BY Zenon DEF AfterRead, AfterError, Places, Ends
<1>5. \A h \in Schemas : \A q \in flight[h].waiting : pc[q] = "flying"
  BY Zenon DEF FlightInv
<1>6. CASE \E p \in Calls : GetOrLoad(p) \/ SingleflightTimeout(p) \/ Fallback(p) \/ FallbackFails(p)
  BY <1>1, <1>2, <1>4, <1>6
<1>7. CASE \E h \in Schemas : FlightBegins(h) \/ FlightLoads(h) \/ FlightFails(h) \/ Evict(h)
  BY <1>1, <1>3, <1>4, <1>5, <1>7
<1>8. CASE UNCHANGED vars
  BY <1>1, <1>8, Zenon DEF vars
<1> QED BY <1>6, <1>7, <1>8, Zenon DEF Loads

\* The row locks of the stored schema exclude each other, and are held only by a
\* transaction past its precondition: a lock is taken only when nobody is in its way.
LEMMA LocksStep ==
    ASSUME TypeOK, LocksInv, ReadInv, FlightInv, [Next]_vars
    PROVE  LocksInv'
<1> USE Types DEF dbVars, cacheVars, callVars, InTx, Asserted, Kinds, LocksInv
<1>0. \A q \in Calls : /\ lock[q] \in {"none", "share", "exclusive"}
                       /\ pc[q] \in {"assert", "write"} => kind[q] # "read"
  BY Zenon DEF TypeOK, ReadInv
<1>1. CASE Loads
  BY <1>1, LoadEffects DEF AfterRead, AfterError
<1>2. ASSUME NEW p \in Calls, StartRead(p) PROVE LocksInv'
  BY <1>2 DEF StartRead
<1>3. ASSUME NEW p \in Calls, StartTx(p) PROVE LocksInv'
  BY <1>3, Zenon DEF StartTx
<1>4. ASSUME NEW p \in Calls, OpenTx(p) PROVE LocksInv'
  BY <1>4, Zenon DEF OpenTx
<1>5. ASSUME NEW p \in Calls, AssertSchemaHash(p) PROVE LocksInv'
  <2>1. CASE lock' = [lock EXCEPT ![p] = Mode(p)] /\ ~LockWaits(p, Mode(p))
             /\ pc' = [pc EXCEPT ![p] = "get"]
    <3>1. /\ lock'[p] \in {"share", "exclusive"} /\ pc'[p] = "get" /\ kind[p] # "read"
          /\ \A o \in Calls \ {p} : /\ lock'[o] = lock[o] /\ lock[o] # "exclusive" /\ pc'[o] = pc[o]
                                    /\ lock'[p] = "exclusive" => lock[o] = "none"
      <4>1. \A o \in Calls \ {p} : lock[o] # "exclusive" /\ (Mode(p) = "exclusive" => lock[o] # "share")
        BY <2>1, Zenon DEF LockWaits
      <4> QED BY <1>0, <1>5, <2>1, <4>1, Zenon DEF AssertSchemaHash, Mode
    <3> QED BY <1>5, <3>1 DEF AssertSchemaHash
  <2>2. CASE lock' = [lock EXCEPT ![p] = "none"] /\ pc' = [pc EXCEPT ![p] = "refresh"]
    BY <1>0, <1>5, <2>2, Zenon DEF AssertSchemaHash
  <2>3. CASE lock' = lock /\ pc' = [pc EXCEPT ![p] = "get"]
    BY <1>0, <1>5, <2>3, Zenon DEF AssertSchemaHash
  <2> QED BY <1>5, <2>1, <2>2, <2>3, Zenon DEF AssertSchemaHash, EndTx
<1>6. ASSUME NEW p \in Calls, WriteTx(p) PROVE LocksInv'
  <2>1. CASE kind[p] = "relationships"
    BY <1>0, <1>6, <2>1 DEF WriteTx
  <2>2. CASE kind[p] = "schema"
    <3>1. /\ lock'[p] = "exclusive" /\ pc'[p] = "commit"
          /\ \A o \in Calls \ {p} : lock'[o] = lock[o] /\ lock[o] = "none" /\ pc'[o] = pc[o]
      BY <1>0, <1>6, <2>2 DEF WriteTx, LockWaits
    <3> QED BY <1>6, <2>2, <3>1 DEF WriteTx
  <2> QED BY <1>6, <2>1, <2>2, Zenon DEF WriteTx
<1>7. ASSUME NEW p \in Calls, AfterCommit(p) PROVE LocksInv'
  BY <1>7, Zenon DEF AfterCommit
<1>8. ASSUME NEW p \in Calls, TxFails(p) PROVE LocksInv'
  BY <1>8 DEF TxFails, EndTx
<1>9. ASSUME NEW p \in Calls, Refresh(p) PROVE LocksInv'
  BY <1>9 DEF Refresh
<1>10. ASSUME NEW p \in Calls, RefreshFails(p) PROVE LocksInv'
  BY <1>10, Zenon DEF RefreshFails
<1>11. ASSUME NEW p \in Calls, NEW a \in BOOLEAN, Commit(p, a) PROVE LocksInv'
  BY <1>11, Zenon DEF Commit, EndTx
<1> QED BY StepHasKind, <1>1, <1>2, <1>3, <1>4, <1>5, <1>6, <1>7, <1>8, <1>9, <1>10, <1>11, Zenon

\* A reader stays at the revision SnapshotReader gave it, with that revision's hash.
LEMMA ReadStep ==
    ASSUME TypeOK, ReadInv, FlightInv, history # <<>>, [Next]_vars
    PROVE  ReadInv'
<1> USE Types DEF dbVars, cacheVars, callVars, InTx, Asserted, Kinds, ReadInv
<1>1. CASE Loads
  BY <1>1, LoadEffects, Zenon DEF AfterRead, AfterError
<1>2. ASSUME NEW p \in Calls, StartRead(p) PROVE ReadInv'
  BY <1>2 DEF StartRead
<1>3. ASSUME NEW p \in Calls, StartTx(p) PROVE ReadInv'
  BY <1>3, Zenon DEF StartTx
<1>4. ASSUME NEW p \in Calls, OpenTx(p) PROVE ReadInv'
  BY <1>4, Zenon DEF OpenTx
<1>5. ASSUME NEW p \in Calls, AssertSchemaHash(p) PROVE ReadInv'
  BY <1>5 DEF AssertSchemaHash, EndTx, Mode, LockWaits
<1>6. ASSUME NEW p \in Calls, WriteTx(p) PROVE ReadInv'
  BY <1>6, Zenon DEF WriteTx, LockWaits
<1>7. ASSUME NEW p \in Calls, AfterCommit(p) PROVE ReadInv'
  BY <1>7, Zenon DEF AfterCommit
<1>8. ASSUME NEW p \in Calls, TxFails(p) PROVE ReadInv'
  BY <1>8 DEF TxFails, EndTx
<1>9. ASSUME NEW p \in Calls, Refresh(p) PROVE ReadInv'
  BY <1>9 DEF Refresh
<1>10. ASSUME NEW p \in Calls, RefreshFails(p) PROVE ReadInv'
  BY <1>10, Zenon DEF RefreshFails
<1>11. ASSUME NEW p \in Calls, NEW a \in BOOLEAN, Commit(p, a) PROVE ReadInv'
  BY <1>11 DEF Commit, EndTx
<1> QED BY StepHasKind, <1>1, <1>2, <1>3, <1>4, <1>5, <1>6, <1>7, <1>8, <1>9, <1>10, <1>11

\* From AssertSchemaHash to its end, a transaction's hash is that of the stored schema:
\* another schema could only be committed under an exclusive lock.
LEMMA TxStep ==
    ASSUME TypeOK, TxInv, LocksInv, ReadInv, FlightInv, history # <<>>, [Next]_vars
    PROVE  TxInv'
<1> USE Types DEF dbVars, cacheVars, callVars, InTx, Asserted, Kinds, TxInv
<1>0. ASSUME history' = history PROVE Current' = Current
  BY <1>0, Zenon DEF Current
<1>1. CASE Loads
  BY <1>1, <1>0, LoadEffects DEF AfterRead, AfterError
<1>2. ASSUME NEW p \in Calls, StartRead(p) PROVE TxInv'
  BY <1>2, <1>0 DEF StartRead
<1>3. ASSUME NEW p \in Calls, StartTx(p) PROVE TxInv'
  BY <1>3, <1>0, Zenon DEF StartTx
<1>4. ASSUME NEW p \in Calls, OpenTx(p) PROVE TxInv'
  BY <1>4, <1>0, Zenon DEF OpenTx
<1>5. ASSUME NEW p \in Calls, AssertSchemaHash(p) PROVE TxInv'
  BY <1>5, <1>0 DEF AssertSchemaHash, EndTx, Mode, LockWaits
<1>6. ASSUME NEW p \in Calls, WriteTx(p) PROVE TxInv'
  BY <1>6, <1>0 DEF WriteTx, LockWaits
<1>7. ASSUME NEW p \in Calls, AfterCommit(p) PROVE TxInv'
  BY <1>7, <1>0, Zenon DEF AfterCommit
<1>8. ASSUME NEW p \in Calls, TxFails(p) PROVE TxInv'
  BY <1>8, <1>0 DEF TxFails, EndTx
<1>9. ASSUME NEW p \in Calls, Refresh(p) PROVE TxInv'
  BY <1>9, <1>0 DEF Refresh
<1>10. ASSUME NEW p \in Calls, RefreshFails(p) PROVE TxInv'
  BY <1>10, <1>0, Zenon DEF RefreshFails
<1>11. ASSUME NEW p \in Calls, NEW a \in BOOLEAN, Commit(p, a) PROVE TxInv'
  <2>1. CASE wrote[p] = None
    BY <1>0, <1>11, <2>1, Zenon DEF Commit, EndTx
  <2>2. CASE wrote[p] # None
    <3>1. lock[p] = "exclusive" /\ kind[p] # "read"
      BY <1>11, <2>2, Zenon DEF Commit, ReadInv
    <3> QED BY <1>11, <2>2, <3>1 DEF Commit, EndTx, LocksInv
  <2> QED BY <2>1, <2>2, Zenon
<1> QED BY StepHasKind, <1>1, <1>2, <1>3, <1>4, <1>5, <1>6, <1>7, <1>8, <1>9, <1>10, <1>11, Zenon

\* The loop of ReadWriteTx counts no attempt without a schema written since the last.
LEMMA AttemptStep ==
    ASSUME TypeOK, AttemptInv, FlightInv, history # <<>>, [Next]_vars
    PROVE  AttemptInv'
<1> USE Types DEF dbVars, cacheVars, callVars, InTx, Asserted, Kinds, AttemptInv
<1>0. ASSUME history' = history PROVE Current' = Current
  BY <1>0, Zenon DEF Current
<1>a. /\ \A q \in Calls : attempt[q] \in Nat /\ attempt[q] <= MaxAttempts /\ started[q] \in Nat
      /\ MaxAttempts \in Nat /\ Len(history) \in Nat
  BY DataLayerAssumption DEF TypeOK
<1>1. CASE Loads
  BY <1>1, <1>0, LoadEffects, Zenon DEF AfterRead, AfterError
<1>2. ASSUME NEW p \in Calls, StartRead(p) PROVE AttemptInv'
  BY <1>2, <1>0, Zenon DEF StartRead
<1>3. ASSUME NEW p \in Calls, StartTx(p) PROVE AttemptInv'
  BY <1>3, <1>0 DEF StartTx
<1>4. ASSUME NEW p \in Calls, OpenTx(p) PROVE AttemptInv'
  BY <1>4, <1>0, Zenon DEF OpenTx
<1>5. ASSUME NEW p \in Calls, AssertSchemaHash(p) PROVE AttemptInv'
  BY <1>0, <1>a, <1>5 DEF AssertSchemaHash, EndTx
<1>6. ASSUME NEW p \in Calls, WriteTx(p) PROVE AttemptInv'
  BY <1>6, <1>0, Zenon DEF WriteTx, LockWaits
<1>7. ASSUME NEW p \in Calls, AfterCommit(p) PROVE AttemptInv'
  BY <1>7, <1>0, Zenon DEF AfterCommit
<1>8. ASSUME NEW p \in Calls, TxFails(p) PROVE AttemptInv'
  BY <1>8, <1>0 DEF TxFails, EndTx
<1>9. ASSUME NEW p \in Calls, Refresh(p) PROVE AttemptInv'
  BY <1>0, <1>a, <1>9 DEF Refresh
<1>10. ASSUME NEW p \in Calls, RefreshFails(p) PROVE AttemptInv'
  BY <1>10, <1>0, Zenon DEF RefreshFails
<1>11. ASSUME NEW p \in Calls, NEW a \in BOOLEAN, Commit(p, a) PROVE AttemptInv'
  <2>1. CASE wrote[p] = None
    BY <1>0, <1>11, <2>1, Zenon DEF Commit, EndTx
  <2>2. CASE wrote[p] # None
    <3>1. Len(history') = Len(history) + 1
      BY <1>11, <2>2 DEF Commit, TypeOK
    <3> QED BY <1>a, <1>11, <2>2, <3>1 DEF Commit, EndTx
  <2> QED BY <2>1, <2>2, Zenon
<1> QED BY StepHasKind, <1>1, <1>2, <1>3, <1>4, <1>5, <1>6, <1>7, <1>8, <1>9, <1>10, <1>11, Zenon

\* What a load in flight finds is the schema of its hash, unless it was left behind.
LEMMA LoadedIsHash ==
    ASSUME TypeOK, FlightInv, TxInv, ReadInv, NEW h \in Schemas, h \notin left,
           flight[h].lead # None
    PROVE  ReadStoredSchema(flight[h].lead) = h
<1> DEFINE p == flight[h].lead
<1>1. p \in Calls /\ h # None
  BY Types, FlightTypes, Zenon
<1>2. CASE InTx(p)
  <2>1. pc[p] = "flying" /\ hash[p] = h
    BY <1>1, <1>2, Zenon DEF FlightInv
  <2>2. wrote[p] = None /\ Current = h
    BY <1>1, <1>2, <2>1, Zenon DEF TxInv, Asserted
  <2> QED BY <1>2, <2>2, Zenon DEF ReadStoredSchema
<1>3. CASE ~InTx(p)
  <2>1. pc[p] # "idle" /\ hash[p] = h
    BY <1>1, <1>3, Zenon DEF FlightInv
  <2>2. history[rev[p]] = h
    BY <1>1, <1>3, <2>1, Zenon DEF ReadInv
  <2> QED BY <1>3, <2>2, Zenon DEF ReadStoredSchema
<1> QED BY <1>2, <1>3, Zenon

\* The calls that wait for a load in flight, and the one whose reader it loads with,
\* want the hash it is made for.
LEMMA FlightsStep ==
    ASSUME TypeOK, ReadInv, FlightInv, [Next]_vars
    PROVE  FlightInv'
<1> USE Types, FlightTypes DEF dbVars, cacheVars, callVars, InTx, Kinds, FlightInv, NoFlight
<1>0. ASSUME UNCHANGED <<flight, kind>>, left \subseteq left',
             \A q \in Calls : pc[q] = "flying" <=> pc'[q] = "flying",
             \A q \in Calls : pc[q] = "flying" => hash'[q] = hash[q],
             \A q \in Calls : ~InTx(q) /\ pc[q] # "idle" => pc'[q] # "idle" /\ hash'[q] = hash[q]
      PROVE  FlightInv'
  BY <1>0
<1>a. ASSUME NEW h \in Schemas, UNCHANGED <<kind, hash, left>>, flight'[h] = NoFlight,
             \A g \in Schemas \ {h} : flight'[g] = flight[g],
             \A q \in Calls \ flight[h].waiting : pc'[q] = pc[q],
             \A q \in flight[h].waiting : pc'[q] \notin {"idle", "flying"}
      PROVE  FlightInv'
  <2>1. \A g \in Schemas \ {h} : flight[g].waiting \cap flight[h].waiting = {}
    OBVIOUS
  <2>2. \A q \in Calls : /\ pc'[q] = "flying" => pc[q] = "flying"
                         /\ pc[q] # "idle" => pc'[q] # "idle"
    BY <1>a, Zenon
  <2>3. \A g \in Schemas : \A q \in flight'[g].waiting : pc'[q] = "flying" /\ hash[q] = g
    BY <1>a, <2>1
  <2> QED BY <1>a, <2>2, <2>3
<1>1. CASE Loads
  <2>1. ASSUME NEW p \in Calls, GetOrLoad(p) PROVE FlightInv'
    <3>1. pc[p] = "get" /\ UNCHANGED <<kind, hash, left>> /\ pc'[p] # "idle"
          /\ \A q \in Calls \ {p} : pc'[q] = pc[q]
      BY <2>1 DEF GetOrLoad, Return, AfterRead
    <3>2. CASE hash[p] = None \/ get(hash[p]) # None
      BY <1>0, <2>1, <3>1, <3>2 DEF GetOrLoad, Return, AfterRead
    <3>3. CASE hash[p] # None /\ get(hash[p]) = None
      <4>0. /\ hash[p] \in Schemas /\ pc'[p] = "flying"
            /\ flight' = [flight EXCEPT ![hash[p]] = Joined(flight[hash[p]], p)]
        BY <2>1, <3>3 DEF GetOrLoad
      <4>1. /\ flight'[hash[p]].waiting = flight[hash[p]].waiting \cup {p}
            /\ flight'[hash[p]].lead \in {p, flight[hash[p]].lead}
            /\ \A h \in Schemas \ {hash[p]} : flight'[h] = flight[h]
        BY <4>0 DEF Joined
      <4> QED BY <3>1, <4>0, <4>1
    <3> QED BY <3>2, <3>3, Zenon
  <2>2. ASSUME NEW p \in Calls, SingleflightTimeout(p) PROVE FlightInv'
    <3> DEFINE h == hash[p]
    <3>1. pc[p] = "flying" /\ UNCHANGED <<kind, hash>> /\ pc'[p] # "idle" /\ left \subseteq left'
          /\ \A q \in Calls \ {p} : pc'[q] = pc[q]
      BY <2>2 DEF SingleflightTimeout, Return, AfterRead
    <3>2. h \in Schemas
      BY <3>1, Zenon
    <3>3. /\ \A g \in Schemas \ {h} : flight'[g] = flight[g]
          /\ flight'[h].waiting = flight[h].waiting \ {p}
          /\ flight'[h].lead = flight[h].lead \/ flight'[h].lead = None
          /\ flight'[h].lead = p /\ InTx(p) => h \in left'
      BY <2>2, <3>2 DEF SingleflightTimeout, Left
    <3> QED BY <3>1, <3>2, <3>3
  <2>3. ASSUME NEW p \in Calls, Fallback(p) \/ FallbackFails(p) PROVE FlightInv'
    BY <1>0, <2>3 DEF Fallback, FallbackFails, Return, AfterRead, AfterError
  <2>4. ASSUME NEW h \in Schemas, FlightBegins(h) PROVE FlightInv'
    <3>1. CASE get(h) # None
      <4>1. Deliver(h, get(h)) /\ UNCHANGED <<kind, hash, left>>
        BY <2>4, <3>1, Zenon DEF FlightBegins
      <4> QED BY <1>a, <4>1 DEF Deliver, AfterRead
    <3>2. CASE get(h) = None
      <4>1. /\ UNCHANGED <<kind, hash, left, pc>>
            /\ \A g \in Schemas : flight'[g].waiting = flight[g].waiting
                                  /\ flight'[g].lead = flight[g].lead
        BY <2>4, <3>2 DEF FlightBegins
      <4> QED BY <4>1
    <3> QED BY <3>1, <3>2, Zenon
  <2>5. ASSUME NEW h \in Schemas, FlightLoads(h) PROVE FlightInv'
    BY <1>a, <2>5 DEF FlightLoads, Deliver, AfterRead
  <2>6. ASSUME NEW h \in Schemas, FlightFails(h) \/ Evict(h) PROVE FlightInv'
    <3>1. CASE FlightFails(h)
      BY <1>a, <3>1 DEF FlightFails, AfterError
    <3>2. CASE Evict(h)
      BY <1>0, <3>2, Zenon DEF Evict
    <3> QED BY <2>6, <3>1, <3>2, Zenon
  <2>7. CASE UNCHANGED vars
    BY <2>7 DEF vars
  <2> QED BY <1>1, <2>1, <2>2, <2>3, <2>4, <2>5, <2>6, <2>7, Zenon DEF Loads
<1>2. ASSUME NEW p \in Calls, StartRead(p) PROVE FlightInv'
  BY <1>2 DEF StartRead
<1>3. ASSUME NEW p \in Calls, StartTx(p) PROVE FlightInv'
  BY <1>3 DEF StartTx
<1>4. ASSUME NEW p \in Calls, OpenTx(p) PROVE FlightInv'
  BY <1>4 DEF OpenTx
<1>5. ASSUME NEW p \in Calls, AssertSchemaHash(p) PROVE FlightInv'
  <2>1. CASE UNCHANGED flight
    BY <1>0, <1>5, <2>1 DEF AssertSchemaHash, EndTx, ReadInv
  <2>2. CASE EndTx(p)
    BY <1>5, <2>2 DEF AssertSchemaHash, EndTx, ReadInv
  <2> QED BY <1>5, <2>1, <2>2, Zenon DEF AssertSchemaHash
<1>6. ASSUME NEW p \in Calls, WriteTx(p) PROVE FlightInv'
  BY <1>6 DEF WriteTx, LockWaits
<1>7. ASSUME NEW p \in Calls, AfterCommit(p) PROVE FlightInv'
  BY <1>7 DEF AfterCommit
<1>8. ASSUME NEW p \in Calls, TxFails(p) PROVE FlightInv'
  BY <1>8 DEF TxFails, EndTx
<1>9. ASSUME NEW p \in Calls, Refresh(p) PROVE FlightInv'
  BY <1>0, <1>9 DEF Refresh, ReadInv
<1>10. ASSUME NEW p \in Calls, RefreshFails(p) PROVE FlightInv'
  BY <1>10 DEF RefreshFails
<1>11. ASSUME NEW p \in Calls, NEW a \in BOOLEAN, Commit(p, a) PROVE FlightInv'
  BY <1>11 DEF Commit, EndTx
<1> QED BY StepHasKind, <1>1, <1>2, <1>3, <1>4, <1>5, <1>6, <1>7, <1>8, <1>9, <1>10, <1>11

\* The schema cache stays faithful: what is put under a hash is what a load of that hash
\* found, or what a transaction wrote and committed.
LEMMA CacheStep ==
    ASSUME TypeOK, FlightInv, TxInv, ReadInv, CacheIsFaithful, [Next]_vars
    PROVE  CacheIsFaithful'
<1> USE Types, FlightTypes DEF dbVars, cacheVars, callVars, InTx, Kinds, CacheIsFaithful
<1>0. DOMAIN cache = Schemas /\ latest \in (Schemas \cup {None}) \X (Schemas \cup {None})
  BY Zenon DEF TypeOK
<1>1. CASE Loads
  <2>1. ASSUME NEW p \in Calls, GetOrLoad(p) PROVE CacheIsFaithful'
    BY <2>1, Zenon DEF GetOrLoad, Return
  <2>a. ASSUME NEW h \in Schemas, LoadAndCache(h), left \subseteq left' PROVE CacheIsFaithful'
    <3>1. h \notin left => ReadStoredSchema(flight[h].lead) = h
      BY <2>a, LoadedIsHash, Zenon DEF LoadAndCache
    <3> QED BY <1>0, <2>a, <3>1 DEF LoadAndCache, Set
  <2>2. ASSUME NEW p \in Calls, SingleflightTimeout(p) PROVE CacheIsFaithful'
    <3>1. hash[p] \in Schemas /\ left \subseteq left'
      BY <2>2, Zenon DEF SingleflightTimeout, FlightInv
    <3>2. CASE UNCHANGED <<cache, latest>>
      BY <3>1, <3>2, Zenon
    <3> QED BY <2>2, <2>a, <3>1, <3>2, Zenon DEF SingleflightTimeout
  <2>3. ASSUME NEW p \in Calls, Fallback(p) \/ FallbackFails(p) PROVE CacheIsFaithful'
    BY <2>3 DEF Fallback, FallbackFails, Return
  <2>4. ASSUME NEW h \in Schemas, FlightBegins(h) PROVE CacheIsFaithful'
    BY <2>4, Zenon DEF FlightBegins, Deliver
  <2>5. ASSUME NEW h \in Schemas, FlightLoads(h) PROVE CacheIsFaithful'
    BY <2>5, <2>a, Zenon DEF FlightLoads
  <2>6. ASSUME NEW h \in Schemas, FlightFails(h) \/ Evict(h) PROVE CacheIsFaithful'
    BY <1>0, <2>6 DEF FlightFails, Evict
  <2>7. CASE UNCHANGED vars
    BY <2>7, Zenon DEF vars
  <2> QED BY <1>1, <2>1, <2>2, <2>3, <2>4, <2>5, <2>6, <2>7, Zenon DEF Loads
<1>2. ASSUME NEW p \in Calls, StartRead(p) PROVE CacheIsFaithful'
  BY <1>2, Zenon DEF StartRead
<1>3. ASSUME NEW p \in Calls, StartTx(p) PROVE CacheIsFaithful'
  BY <1>3, Zenon DEF StartTx
<1>4. ASSUME NEW p \in Calls, OpenTx(p) PROVE CacheIsFaithful'
  BY <1>4, Zenon DEF OpenTx
<1>5. ASSUME NEW p \in Calls, AssertSchemaHash(p) PROVE CacheIsFaithful'
  BY <1>5, Zenon DEF AssertSchemaHash, EndTx, Mode, LockWaits
<1>6. ASSUME NEW p \in Calls, WriteTx(p) PROVE CacheIsFaithful'
  BY <1>6, Zenon DEF WriteTx, LockWaits
<1>7. ASSUME NEW p \in Calls, AfterCommit(p) PROVE CacheIsFaithful'
  BY <1>0, <1>7 DEF AfterCommit, Set
<1>8. ASSUME NEW p \in Calls, TxFails(p) PROVE CacheIsFaithful'
  BY <1>8, Zenon DEF TxFails, EndTx
<1>9. ASSUME NEW p \in Calls, Refresh(p) PROVE CacheIsFaithful'
  BY <1>9, Zenon DEF Refresh
<1>10. ASSUME NEW p \in Calls, RefreshFails(p) PROVE CacheIsFaithful'
  BY <1>10, Zenon DEF RefreshFails
<1>11. ASSUME NEW p \in Calls, NEW a \in BOOLEAN, Commit(p, a) PROVE CacheIsFaithful'
  BY <1>11, Zenon DEF Commit, EndTx
<1> QED BY StepHasKind, <1>1, <1>2, <1>3, <1>4, <1>5, <1>6, <1>7, <1>8, <1>9, <1>10, <1>11

\* What ReadSchema returns, from the cache, a load in flight or the call's own load, is
\* the schema of the call's hash or revision.
LEMMA GotStep ==
    ASSUME TypeOK, FlightInv, TxInv, ReadInv, CacheIsFaithful, GotInv, [Next]_vars
    PROVE  GotInv'
<1> USE Types, FlightTypes DEF dbVars, cacheVars, callVars, InTx, Kinds, GotInv
<1>0. \A h \in Schemas \ left : get(h) # None => get(h) = h
  BY Zenon DEF get, CacheIsFaithful
<1>1. CASE Loads
  <2>1. ASSUME NEW p \in Calls, GetOrLoad(p) PROVE GotInv'
    BY <1>0, <2>1 DEF GetOrLoad, Return, AfterRead, ReadInv
  <2>2. ASSUME NEW p \in Calls, SingleflightTimeout(p) PROVE GotInv'
    <3>1. UNCHANGED <<history, kind, rev, hash>> /\ left \subseteq left'
          /\ \A q \in Calls \ {p} : pc'[q] = pc[q] /\ got'[q] = got[q]
      BY <2>2 DEF SingleflightTimeout, Return
    <3>2. \/ pc'[p] = "fallback"
          \/ /\ pc'[p] = AfterRead(p) /\ got'[p] = get(hash[p]) /\ get(hash[p]) # None
             /\ pc[p] = "flying"
      BY <2>2 DEF SingleflightTimeout, Return
    <3> QED BY <1>0, <3>1, <3>2 DEF AfterRead, ReadInv, FlightInv
  <2>3. ASSUME NEW p \in Calls, Fallback(p) \/ FallbackFails(p) PROVE GotInv'
    BY <2>3 DEF Fallback, FallbackFails, Return, AfterRead, AfterError, ReadStoredSchema, TxInv, Asserted
  <2>4. ASSUME NEW h \in Schemas, FlightBegins(h) PROVE GotInv'
    BY <1>0, <2>4 DEF FlightBegins, Deliver, AfterRead, FlightInv, ReadInv
  <2>5. ASSUME NEW h \in Schemas, FlightLoads(h) PROVE GotInv'
    <3>1. h \notin left => ReadStoredSchema(flight[h].lead) = h
      BY <2>5, LoadedIsHash, Zenon DEF FlightLoads, LoadAndCache
    <3> QED BY <2>5, <3>1 DEF FlightLoads, Deliver, AfterRead, FlightInv, ReadInv
  <2>6. ASSUME NEW h \in Schemas, FlightFails(h) \/ Evict(h) PROVE GotInv'
    BY <2>6 DEF FlightFails, Evict, AfterError
  <2>7. CASE UNCHANGED vars
    BY <2>7, Zenon DEF vars
  <2> QED BY <1>1, <2>1, <2>2, <2>3, <2>4, <2>5, <2>6, <2>7, Zenon DEF Loads
<1>2. ASSUME NEW p \in Calls, StartRead(p) PROVE GotInv'
  BY <1>2 DEF StartRead
<1>3. ASSUME NEW p \in Calls, StartTx(p) PROVE GotInv'
  BY <1>3 DEF StartTx
<1>4. ASSUME NEW p \in Calls, OpenTx(p) PROVE GotInv'
  BY <1>4, Zenon DEF OpenTx
<1>5. ASSUME NEW p \in Calls, AssertSchemaHash(p) PROVE GotInv'
  BY <1>5 DEF AssertSchemaHash, EndTx, Mode, LockWaits
<1>6. ASSUME NEW p \in Calls, WriteTx(p) PROVE GotInv'
  BY <1>6 DEF WriteTx, LockWaits
<1>7. ASSUME NEW p \in Calls, AfterCommit(p) PROVE GotInv'
  BY <1>7, Zenon DEF AfterCommit, ReadInv
<1>8. ASSUME NEW p \in Calls, TxFails(p) PROVE GotInv'
  BY <1>8 DEF TxFails, EndTx
<1>9. ASSUME NEW p \in Calls, Refresh(p) PROVE GotInv'
  BY <1>9 DEF Refresh
<1>10. ASSUME NEW p \in Calls, RefreshFails(p) PROVE GotInv'
  BY <1>10, Zenon DEF RefreshFails
<1>11. ASSUME NEW p \in Calls, NEW a \in BOOLEAN, Commit(p, a) PROVE GotInv'
  BY <1>11 DEF Commit, EndTx, ReadInv
<1> QED BY StepHasKind, <1>1, <1>2, <1>3, <1>4, <1>5, <1>6, <1>7, <1>8, <1>9, <1>10, <1>11

\* A connection is taken when a transaction is opened and given back when it ends.
LEMMA PoolStep ==
    ASSUME TypeOK, ReadInv, FlightInv, PoolInv, [Next]_vars
    PROVE  PoolInv' /\ free' \in 0 .. Conns
<1> USE Types DEF dbVars, cacheVars, callVars, InTx, Asserted, Kinds
<1>0. free \in 0 .. Conns /\ Conns \in Nat /\ Cardinality(InPool) \in Nat
  BY DataLayerAssumption, FS_CardinalityType, Zenon DEF TypeOK, PoolInv
<1>a. ASSUME UNCHANGED free, \A q \in Calls : q \in InPool <=> q \in InPool'
      PROVE  PoolInv' /\ free' \in 0 .. Conns
  <2>1. InPool' = InPool
    BY <1>a, Zenon DEF InPool
  <2> QED BY <1>0, <1>a, <2>1, Zenon DEF PoolInv
<1>b. ASSUME NEW p \in Calls, EndTx(p), UNCHANGED kind, InTx(p),
             pc[p] \in {"assert", "write", "commit", "rollback"},
             NEW c \in {"refresh", "opening", "committed", "error"}, pc' = [pc EXCEPT ![p] = c]
      PROVE  PoolInv' /\ free' \in 0 .. Conns
  <2>1. p \in InPool /\ InPool' = InPool \ {p}
    BY <1>b, Zenon DEF InPool
  <2>2. /\ IsFiniteSet(InPool \ {p})
        /\ Cardinality(InPool \ {p}) = Cardinality(InPool) - 1
    BY <2>1, FS_RemoveElement, Zenon DEF PoolInv
  <2>3. Cardinality(InPool \ {p}) \in Nat
    BY <2>2, FS_CardinalityType, Zenon
  <2>4. free' = free + 1
    BY <1>b, Zenon DEF EndTx
  <2> QED BY <1>0, <2>1, <2>2, <2>3, <2>4 DEF PoolInv
<1>1. CASE Loads
  BY <1>1, <1>a, LoadEffects, Zenon DEF AfterRead, AfterError, InPool
<1>2. ASSUME NEW p \in Calls, StartRead(p) PROVE PoolInv' /\ free' \in 0 .. Conns
  BY <1>2, <1>a, Zenon DEF StartRead, InPool
<1>3. ASSUME NEW p \in Calls, StartTx(p) PROVE PoolInv' /\ free' \in 0 .. Conns
  BY <1>3, <1>a, Zenon DEF StartTx, InPool
<1>4. ASSUME NEW p \in Calls, OpenTx(p) PROVE PoolInv' /\ free' \in 0 .. Conns
  <2>1. p \notin InPool /\ InPool' = InPool \cup {p} /\ kind[p] # "read"
    BY <1>4 DEF OpenTx, InPool, ReadInv
  <2>2. /\ IsFiniteSet(InPool \cup {p})
        /\ Cardinality(InPool \cup {p}) = Cardinality(InPool) + 1
    BY <2>1, FS_AddElement, Zenon DEF PoolInv
  <2>3. free > 0 /\ free' = free - 1
    BY <1>4, Zenon DEF OpenTx
  <2> QED BY <1>0, <2>1, <2>2, <2>3 DEF PoolInv
<1>5. ASSUME NEW p \in Calls, AssertSchemaHash(p) PROVE PoolInv' /\ free' \in 0 .. Conns
  <2>1. InTx(p) /\ pc[p] = "assert" /\ UNCHANGED kind
    BY <1>5, Zenon DEF AssertSchemaHash, ReadInv
  <2>2. CASE UNCHANGED free /\ pc' = [pc EXCEPT ![p] = "get"]
    BY <1>a, <2>1, <2>2, Zenon DEF InPool
  <2>3. CASE EndTx(p) /\ pc' = [pc EXCEPT ![p] = "refresh"]
    BY <1>b, <2>1, <2>3, Zenon
  <2> QED BY <1>5, <2>2, <2>3, Zenon DEF AssertSchemaHash
<1>6. ASSUME NEW p \in Calls, WriteTx(p) PROVE PoolInv' /\ free' \in 0 .. Conns
  BY <1>6, <1>a, Zenon DEF WriteTx, InPool
<1>7. ASSUME NEW p \in Calls, AfterCommit(p) PROVE PoolInv' /\ free' \in 0 .. Conns
  BY <1>7, <1>a, Zenon DEF AfterCommit, InPool
<1>8. ASSUME NEW p \in Calls, TxFails(p) PROVE PoolInv' /\ free' \in 0 .. Conns
  BY <1>8, <1>b, Zenon DEF TxFails, ReadInv
<1>9. ASSUME NEW p \in Calls, Refresh(p) PROVE PoolInv' /\ free' \in 0 .. Conns
  BY <1>9, <1>a DEF Refresh, InPool
<1>10. ASSUME NEW p \in Calls, RefreshFails(p) PROVE PoolInv' /\ free' \in 0 .. Conns
  BY <1>10, <1>a, Zenon DEF RefreshFails, InPool
<1>11. ASSUME NEW p \in Calls, NEW a \in BOOLEAN, Commit(p, a)
       PROVE  PoolInv' /\ free' \in 0 .. Conns
  BY <1>11, <1>b, Zenon DEF Commit, ReadInv
<1> QED BY StepHasKind, <1>1, <1>2, <1>3, <1>4, <1>5, <1>6, <1>7, <1>8, <1>9, <1>10, <1>11, Zenon

\* A load returns a schema, which the callers are given.
LEMMA LoadTypes ==
    ASSUME TypeOK, ReadInv, FlightInv, history # <<>>, Loads
    PROVE  /\ cache' \in [Schemas -> Schemas \cup {None}]
           /\ latest' \in (Schemas \cup {None}) \X (Schemas \cup {None})
           /\ flight' \in [Schemas -> [lead : Calls \cup {None}, waiting : SUBSET Calls,
                                       loading : BOOLEAN]]
           /\ left' \subseteq Schemas /\ got' \in [Calls -> Schemas \cup {None}]
<1> DEFINE Flights == [lead : Calls \cup {None}, waiting : SUBSET Calls, loading : BOOLEAN]
<1>0. /\ cache \in [Schemas -> Schemas \cup {None}]
      /\ latest \in (Schemas \cup {None}) \X (Schemas \cup {None})
      /\ flight \in [Schemas -> Flights] /\ NoFlight \in Flights
      /\ left \subseteq Schemas /\ got \in [Calls -> Schemas \cup {None}]
      /\ \A p \in Calls : hash[p] \in Schemas \cup {None}
  BY Zenon DEF TypeOK, NoFlight
<1>1. \A h \in Schemas \cup {None} : get(h) # None => (h \in Schemas => get(h) \in Schemas)
  BY <1>0, Zenon DEF get
<1>2. ASSUME NEW p \in Calls, pc[p] # "idle" PROVE ReadStoredSchema(p) \in Schemas
  <2>1. Current \in Schemas /\ wrote[p] \in Schemas \cup {None}
    BY DEF Current, TypeOK
  <2>2. ~InTx(p) => rev[p] \in DOMAIN history /\ history[rev[p]] \in Schemas
    BY <1>2 DEF ReadInv, TypeOK
  <2> QED BY <2>1, <2>2, Zenon DEF ReadStoredSchema
<1>3. ASSUME NEW p \in Calls, GetOrLoad(p)
      PROVE  UNCHANGED <<cache, latest, left>> /\ flight' \in [Schemas -> Flights]
             /\ got' \in [Calls -> Schemas \cup {None}]
  <2>1. UNCHANGED <<cache, latest, left>>
    BY <1>3, Zenon DEF GetOrLoad
  <2>2. CASE hash[p] = None
    BY <1>0, <1>3, <2>2, <2>1, Zenon DEF GetOrLoad
  <2>3. CASE hash[p] \in Schemas /\ get(hash[p]) # None
    BY <1>0, <1>1, <1>3, <2>1, <2>3, Types, SMTT(30) DEF GetOrLoad, Return
  <2>4. CASE hash[p] \in Schemas /\ get(hash[p]) = None
    <3>1. Joined(flight[hash[p]], p) \in Flights
      BY <1>0, <2>4, Zenon DEF Joined
    <3>2. flight' = [flight EXCEPT ![hash[p]] = Joined(flight[hash[p]], p)] /\ UNCHANGED got
      BY <1>3, <2>4, Types, Zenon DEF GetOrLoad
    <3> QED BY <1>0, <2>1, <3>1, <3>2, Zenon
  <2> QED BY <1>0, <2>2, <2>3, <2>4, Zenon
<1>a. ASSUME NEW h \in Schemas, LoadAndCache(h)
      PROVE  /\ cache' \in [Schemas -> Schemas \cup {None}]
             /\ latest' \in (Schemas \cup {None}) \X (Schemas \cup {None})
             /\ ReadStoredSchema(flight[h].lead) \in Schemas
  <2>1. flight[h].lead \in Calls
    BY <1>0, <1>a, Zenon DEF LoadAndCache
  <2>2. ReadStoredSchema(flight[h].lead) \in Schemas
    <3>1. InTx(flight[h].lead) => ReadStoredSchema(flight[h].lead) \in Schemas
      BY <2>1 DEF ReadStoredSchema, Current, TypeOK
    <3>2. ~InTx(flight[h].lead) => pc[flight[h].lead] # "idle"
      BY <2>1 DEF FlightInv
    <3> QED BY <1>2, <2>1, <3>1, <3>2, Zenon
  <2> QED BY <1>0, <1>a, <2>2, Zenon DEF LoadAndCache, Set
<1>4. ASSUME NEW p \in Calls, SingleflightTimeout(p)
      PROVE  /\ cache' \in [Schemas -> Schemas \cup {None}]
             /\ latest' \in (Schemas \cup {None}) \X (Schemas \cup {None})
             /\ flight' \in [Schemas -> Flights]
             /\ left' \subseteq Schemas /\ got' \in [Calls -> Schemas \cup {None}]
  <2>0. hash[p] \in Schemas
    BY <1>0, <1>4, Zenon DEF SingleflightTimeout, FlightInv
  <2>a. /\ cache' \in [Schemas -> Schemas \cup {None}]
        /\ latest' \in (Schemas \cup {None}) \X (Schemas \cup {None})
    BY <1>0, <1>4, <1>a, <2>0, Zenon DEF SingleflightTimeout
  <2>1. Left(flight[hash[p]], p) \in Flights
    BY <1>0, <2>0, Zenon DEF Left
  <2>2. flight' = [flight EXCEPT ![hash[p]] = Left(flight[hash[p]], p)]
    BY <1>4, Zenon DEF SingleflightTimeout
  <2>3. left' \subseteq Schemas
    BY <1>0, <1>4, <2>0, Zenon DEF SingleflightTimeout
  <2>4. got' \in [Calls -> Schemas \cup {None}]
    BY <1>0, <1>1, <1>4, <2>0 DEF SingleflightTimeout, Return
  <2> QED BY <1>0, <2>0, <2>a, <2>1, <2>2, <2>3, <2>4, Zenon
<1>5. ASSUME NEW p \in Calls, Fallback(p) \/ FallbackFails(p)
      PROVE  UNCHANGED <<cache, latest, flight, left>> /\ got' \in [Calls -> Schemas \cup {None}]
  BY <1>0, <1>2, <1>5 DEF Fallback, FallbackFails, Return, cacheVars
<1>6. ASSUME NEW h \in Schemas, NEW s \in Schemas, Deliver(h, s)
      PROVE  flight' \in [Schemas -> Flights] /\ got' \in [Calls -> Schemas \cup {None}]
  BY <1>0, <1>6, Zenon DEF Deliver
<1>7. ASSUME NEW h \in Schemas, FlightBegins(h)
      PROVE  UNCHANGED <<cache, latest, left>> /\ flight' \in [Schemas -> Flights]
             /\ got' \in [Calls -> Schemas \cup {None}]
  <2>1. UNCHANGED <<cache, latest, left>>
    BY <1>7, Zenon DEF FlightBegins
  <2>2. CASE get(h) # None
    BY <1>1, <1>6, <1>7, <2>1, <2>2, Zenon DEF FlightBegins
  <2>3. CASE get(h) = None
    <3>1. flight' = [flight EXCEPT ![h].loading = TRUE] /\ UNCHANGED got
      BY <1>7, <2>3, Zenon DEF FlightBegins
    <3>2. [flight[h] EXCEPT !.loading = TRUE] \in Flights
      BY <1>0, Zenon
    <3>3. flight' = [flight EXCEPT ![h] = [flight[h] EXCEPT !.loading = TRUE]]
      BY <3>1, Zenon
    <3> QED BY <1>0, <2>1, <3>1, <3>2, <3>3
  <2> QED BY <2>2, <2>3, Zenon
<1>8. ASSUME NEW h \in Schemas, FlightLoads(h)
      PROVE  /\ cache' \in [Schemas -> Schemas \cup {None}]
             /\ latest' \in (Schemas \cup {None}) \X (Schemas \cup {None})
             /\ flight' \in [Schemas -> Flights] /\ UNCHANGED left
             /\ got' \in [Calls -> Schemas \cup {None}]
  BY <1>6, <1>8, <1>a, Zenon DEF FlightLoads
<1>9. ASSUME NEW h \in Schemas, FlightFails(h) \/ Evict(h)
      PROVE  /\ cache' \in [Schemas -> Schemas \cup {None}] /\ UNCHANGED <<latest, left, got>>
             /\ flight' \in [Schemas -> Flights]
  BY <1>0, <1>9, ZenonT(30) DEF FlightFails, Evict
<1>10. CASE \E p \in Calls : GetOrLoad(p) \/ SingleflightTimeout(p) \/ Fallback(p) \/ FallbackFails(p)
  BY <1>0, <1>3, <1>4, <1>5, <1>10, Zenon
<1>11. CASE \E h \in Schemas : FlightBegins(h) \/ FlightLoads(h) \/ FlightFails(h) \/ Evict(h)
  BY <1>0, <1>7, <1>8, <1>9, <1>11, Zenon
<1>12. CASE UNCHANGED vars
  BY <1>0, <1>12, Zenon DEF vars, cacheVars
<1> QED BY <1>10, <1>11, <1>12, Zenon DEF Loads

\* Every step keeps the types.
LEMMA TypeStep ==
    ASSUME TypeOK, ReadInv, FlightInv, PoolInv, history # <<>>, [Next]_vars
    PROVE  TypeOK'
<1> USE DEF dbVars, cacheVars, callVars
<1>0. free' \in 0 .. Conns
  BY PoolStep, Zenon
<1>a. Current \in Schemas /\ MaxAttempts \in Nat \ {0} /\ Len(history) \in Nat
  BY DataLayerAssumption DEF Current, TypeOK
<1>b. ASSUME NEW p \in Calls, EndTx(p)
      PROVE  /\ lock' \in [Calls -> {"none", "share", "exclusive"}]
             /\ flight' \in [Schemas -> [lead : Calls \cup {None}, waiting : SUBSET Calls,
                                        loading : BOOLEAN]]
  <2>1. lock' \in [Calls -> {"none", "share", "exclusive"}]
    BY <1>b, Zenon DEF EndTx, TypeOK
  <2>2. \A h \in Schemas : [flight[h] EXCEPT !.lead = None]
            \in [lead : Calls \cup {None}, waiting : SUBSET Calls, loading : BOOLEAN]
    BY FlightTypes, Zenon
  <2> QED BY <1>b, <2>1, <2>2, FlightTypes, Zenon DEF EndTx
<1>c. ASSUME NEW p \in Calls, NEW c \in Places, pc' = [pc EXCEPT ![p] = c]
      PROVE  pc' \in [Calls -> Places]
  BY <1>c, Zenon DEF TypeOK
<1>d. {"get", "opening", "assert", "commit", "rollback", "committed", "refresh", "ok", "error",
       "precondition"} \subseteq Places
  BY Zenon DEF Places, Ends
<1>1. CASE Loads
  BY <1>0, <1>1, LoadEffects, LoadTypes DEF TypeOK
<1>2. ASSUME NEW p \in Calls, StartRead(p) PROVE TypeOK'
  <2>1. pc' \in [Calls -> Places]
    BY <1>2, <1>c, <1>d, Zenon DEF StartRead
  <2> QED BY <1>2, <2>1 DEF TypeOK, StartRead, observeSchemaHash
<1>3. ASSUME NEW p \in Calls, StartTx(p) PROVE TypeOK'
  <2>1. pc' \in [Calls -> Places]
    BY <1>3, <1>c, <1>d, Zenon DEF StartTx
  <2>2. hash' \in [Calls -> Schemas \cup {None}] /\ last' \in Schemas \cup {None}
    <3>1. hash \in [Calls -> Schemas \cup {None}] /\ last \in Schemas \cup {None}
      BY Zenon DEF TypeOK
    <3> QED BY <1>3, <1>a, <3>1, Zenon DEF StartTx, observeSchemaHash
  <2>3. started' \in [Calls -> Nat] /\ attempt' \in [Calls -> 0 .. MaxAttempts]
    BY <1>3, <1>a DEF StartTx, TypeOK
  <2> QED BY <1>3, <2>1, <2>2, <2>3, Zenon DEF TypeOK, StartTx
<1>4. ASSUME NEW p \in Calls, OpenTx(p) PROVE TypeOK'
  <2>1. pc' \in [Calls -> Places]
    BY <1>4, <1>c, <1>d, Zenon DEF OpenTx
  <2> QED BY <1>0, <1>4, <2>1, Zenon DEF TypeOK, OpenTx
<1>5. ASSUME NEW p \in Calls, AssertSchemaHash(p) PROVE TypeOK'
  <2>1. pc' \in [Calls -> Places]
    BY <1>5, <1>c, <1>d, Zenon DEF AssertSchemaHash
  <2>2. /\ lock' \in [Calls -> {"none", "share", "exclusive"}]
        /\ flight' \in [Schemas -> [lead : Calls \cup {None}, waiting : SUBSET Calls,
                                    loading : BOOLEAN]]
    <3>1. Mode(p) \in {"none", "share", "exclusive"}
      BY Zenon DEF Mode
    <3> QED BY <1>5, <1>b, <3>1, ZenonT(30) DEF AssertSchemaHash, TypeOK
  <2> QED BY <1>0, <1>5, <2>1, <2>2, Zenon DEF TypeOK, AssertSchemaHash
<1>6. ASSUME NEW p \in Calls, WriteTx(p) PROVE TypeOK'
  <2>1. pc' \in [Calls -> Places]
    BY <1>6, <1>c, <1>d, Zenon DEF WriteTx
  <2>2. /\ lock' \in [Calls -> {"none", "share", "exclusive"}]
        /\ wrote' \in [Calls -> Schemas \cup {None}]
    <3>1. /\ lock \in [Calls -> {"none", "share", "exclusive"}]
          /\ wrote \in [Calls -> Schemas \cup {None}]
      BY Zenon DEF TypeOK
    <3> QED BY <1>6, <3>1, Zenon DEF WriteTx
  <2> QED BY <1>6, <2>1, <2>2, Zenon DEF TypeOK, WriteTx
<1>7. ASSUME NEW p \in Calls, AfterCommit(p) PROVE TypeOK'
  <2>1. pc' \in [Calls -> Places]
    BY <1>7, <1>c, <1>d, Zenon DEF AfterCommit
  <2>2. /\ cache' \in [Schemas -> Schemas \cup {None}]
        /\ latest' \in (Schemas \cup {None}) \X (Schemas \cup {None})
        /\ last' \in Schemas \cup {None}
    <3>1. /\ cache \in [Schemas -> Schemas \cup {None}]
          /\ latest \in (Schemas \cup {None}) \X (Schemas \cup {None})
          /\ last \in Schemas \cup {None} /\ wrote[p] \in Schemas \cup {None}
      BY Zenon DEF TypeOK
    <3> QED BY <1>7, <3>1 DEF AfterCommit, Set, observeSchemaHash
  <2> QED BY <1>7, <2>1, <2>2, Zenon DEF TypeOK, AfterCommit
<1>8. ASSUME NEW p \in Calls, TxFails(p) PROVE TypeOK'
  <2>1. pc' \in [Calls -> Places]
    BY <1>8, <1>c, <1>d, Zenon DEF TxFails
  <2>2. inner' \in 0 .. MaxInner
    BY <1>8, DataLayerAssumption DEF TxFails, TypeOK
  <2> QED BY <1>0, <1>8, <1>b, <2>1, <2>2, Zenon DEF TypeOK, TxFails
<1>9. ASSUME NEW p \in Calls, Refresh(p) PROVE TypeOK'
  <2>1. pc' \in [Calls -> Places]
    BY <1>9, <1>c, <1>d, Zenon DEF Refresh
  <2>2. hash' \in [Calls -> Schemas \cup {None}] /\ last' \in Schemas \cup {None}
    BY <1>9, <1>a, Zenon DEF Refresh, observeSchemaHash, TypeOK
  <2>3. attempt' \in [Calls -> 0 .. MaxAttempts]
    <3>1. attempt \in [Calls -> 0 .. MaxAttempts]
      BY Zenon DEF TypeOK
    <3> QED BY <1>9, <1>a, <3>1 DEF Refresh
  <2> QED BY <1>9, <2>1, <2>2, <2>3, Zenon DEF TypeOK, Refresh
<1>10. ASSUME NEW p \in Calls, RefreshFails(p) PROVE TypeOK'
  BY <1>10, <1>c, <1>d, Zenon DEF TypeOK, RefreshFails
<1>11. ASSUME NEW p \in Calls, NEW a \in BOOLEAN, Commit(p, a) PROVE TypeOK'
  <2>1. pc' \in [Calls -> Places]
    BY <1>11, <1>c, <1>d, Zenon DEF Commit
  <2>2. history' \in Seq(Schemas)
    BY <1>11 DEF Commit, TypeOK
  <2> QED BY <1>0, <1>11, <1>b, <2>1, <2>2, Zenon DEF TypeOK, Commit
<1> QED BY StepHasKind, <1>1, <1>2, <1>3, <1>4, <1>5, <1>6, <1>7, <1>8, <1>9, <1>10, <1>11, Zenon

\* The inductive invariant of the data layer: the locks, the pool, the loads in flight,
\* the cache and the attempts of ReadWriteTx stay in step with the stored schema.
THEOREM DataLayerInvariant == Spec => []Inv
<1>1. Init => Inv
  <2> SUFFICES ASSUME Init PROVE Inv
    OBVIOUS
  <2> USE DataLayerAssumption DEF Init
  <2>1. TypeOK
    BY DEF TypeOK, Places, NoFlight
  <2>2. InPool = {}
    BY Zenon DEF InPool, Asserted
  <2>3. PoolInv
    BY <2>2, FS_EmptySet DEF PoolInv
  <2>4. LocksInv /\ TxInv /\ ReadInv /\ CacheIsFaithful /\ GotInv /\ AttemptInv
    BY Zenon DEF LocksInv, TxInv, ReadInv, CacheIsFaithful, GotInv, AttemptInv, Asserted
  <2>5. FlightInv
    BY Zenon DEF FlightInv, NoFlight
  <2> QED BY <2>1, <2>3, <2>4, <2>5, Zenon DEF Inv
<1>2. Inv /\ [Next]_vars => Inv'
  <2> SUFFICES ASSUME Inv, [Next]_vars PROVE Inv'
    OBVIOUS
  <2> USE DEF Inv
  <2>1. history' # <<>>
    <3>1. CASE UNCHANGED history
      BY <3>1, Zenon
    <3>2. ASSUME NEW p \in Calls, NEW a \in BOOLEAN, Commit(p, a) PROVE history' # <<>>
      BY <3>2, Types DEF Commit
    <3> QED BY <3>1, <3>2, StepHasKind, LoadEffects
         DEF dbVars, StartRead, StartTx, OpenTx, AssertSchemaHash, WriteTx, AfterCommit, TxFails,
             Refresh, RefreshFails
  <2>2. TypeOK' /\ PoolInv' /\ LocksInv' /\ TxInv' /\ ReadInv'
    BY TypeStep, PoolStep, LocksStep, TxStep, ReadStep, Zenon
  <2>3. FlightInv' /\ CacheIsFaithful' /\ GotInv' /\ AttemptInv'
    BY FlightsStep, CacheStep, GotStep, AttemptStep, Zenon
  <2> QED BY <2>1, <2>2, <2>3, Zenon
<1> QED BY <1>1, <1>2, PTL DEF Spec

\* The schema cache is faithful (hashcache.go): under a hash there is never the schema of
\* another, however loads, evictions, commits and timeouts interleave.
THEOREM SchemaCacheIsFaithful == Spec => []CacheIsFaithful
BY DataLayerInvariant, PTL DEF Inv

\* ReadSchema of a reader returns the schema of the reader's revision, from wherever
\* GetOrLoad took it.
THEOREM SchemaReadsAreExact == Spec => []ReadsAreExact
<1>1. Inv => ReadsAreExact
  BY Zenon DEF Inv, GotInv, ReadsAreExact, InTx
<1> QED BY <1>1, DataLayerInvariant, PTL

\* ReadWriteTx ends with the precondition error only when the schema was changed for
\* every attempt after the first.
THEOREM PreconditionErrorsEarned == Spec => []PreconditionErrorsAreEarned
<1>1. Inv => PreconditionErrorsAreEarned
  BY Zenon DEF Inv, ReadInv, AttemptInv, PreconditionErrorsAreEarned
<1> QED BY <1>1, DataLayerInvariant, PTL

\* A transaction of ReadWriteTx that commits with a precondition validated against the
\* schema that is stored at that moment.
THEOREM CommitsValidated == Spec => CommitsAreValidated
<1>1. ASSUME Inv, NEW p \in Calls, pc[p] = "commit", hash[p] \notin left \cup {None}
      PROVE  got[p] = Current
  <2>1. InTx(p)
    BY <1>1, Zenon DEF Inv, ReadInv
  <2> QED BY <1>1, <2>1, Zenon DEF Inv, TxInv, GotInv, Asserted
<1>2. Inv /\ [Next]_vars =>
        [\A p \in Calls :
            pc[p] = "commit" /\ pc'[p] \in {"committed", "error"} /\ hash[p] \notin left \cup {None}
                => got[p] = Current]_vars
  BY <1>1, Zenon
<1> QED BY <1>2, DataLayerInvariant, PTL DEF Spec, CommitsAreValidated
=============================================================================
