---------------------------- MODULE MemDBProofs ----------------------------
(***************************************************************************)
(* The in-memory datastore, for every number of writers, objects and       *)
(* revisions: no waiting writer is forgotten, and until it is closed the   *)
(* datastore implements RevisionedStore.                                   *)
(***************************************************************************)
EXTENDS MemDB, WellFoundedInduction, TLAPS

(***************************************************************************)
(* The search of SnapshotReader                                            *)
(***************************************************************************)

\* A non-empty set of naturals with a bound has a greatest element.
LEMMA Greatest ==
    ASSUME NEW S \in SUBSET Nat, S # {}, NEW n \in Nat, \A x \in S : x <= n
    PROVE  \E m \in S : \A x \in S : x <= m
<1> DEFINE R == {p \in Nat \X Nat : p[1] < p[2]}
           D == {n - x : x \in S}
<1>1. IsWellFoundedOn(R, Nat)
  BY NatLessThanWellFounded, Zenon DEF OpToRel
<1>2. D \in SUBSET Nat /\ D # {}
  <2>1. \A x \in S : n - x \in Nat
    OBVIOUS
  <2> QED BY <2>1, Zenon
<1>3. PICK d \in D : \A e \in D : ~(<<e, d>> \in R)
  <2> HIDE DEF R, D
  <2> QED BY <1>1, <1>2, WFMin, Zenon
<1>4. \A e \in D : ~(e < d)
  BY <1>2, <1>3, Zenon
<1>5. PICK m \in S : d = n - m
  OBVIOUS
<1>6. ASSUME NEW x \in S PROVE x <= m
  <2>1. n - x \in D
    OBVIOUS
  <2>2. ~(n - x < n - m)
    BY <1>4, <1>5, <2>1, Zenon
  <2> QED BY <2>2
<1> QED BY <1>6, Zenon

\* SnapshotAt, of any sequence of snapshots.
At(R, t) ==
    LET before == {i \in DOMAIN R : R[i].rev <= t}
    IN  IF before = {} THEN R[1] ELSE R[CHOOSE i \in before : \A j \in before : j <= i]

\* The search finds the last snapshot at or before a revision, or the first of all.
LEMMA AtFinds ==
    ASSUME NEW S, NEW R \in Seq(S), NEW t
    PROVE  \/ (\A i \in DOMAIN R : ~(R[i].rev <= t)) /\ At(R, t) = R[1]
           \/ \E k \in DOMAIN R : /\ R[k].rev <= t /\ At(R, t) = R[k]
                                  /\ \A j \in DOMAIN R : R[j].rev <= t => j <= k
<1> DEFINE before == {i \in DOMAIN R : R[i].rev <= t}
<1>1. CASE before = {}
  BY <1>1, Zenon DEF At
<1>2. CASE before # {}
  <2>1. before \in SUBSET Nat /\ \A x \in before : x <= Len(R)
    OBVIOUS
  <2>2. \E m \in before : \A x \in before : x <= m
    <3> HIDE DEF before
    <3>1. Len(R) \in Nat
      OBVIOUS
    <3> QED BY <1>2, <2>1, <3>1, Greatest, Zenon
  <2> DEFINE k == CHOOSE i \in before : \A j \in before : j <= i
  <2>3. k \in before /\ \A j \in before : j <= k
    <3> HIDE DEF before
    <3> QED BY <2>2, Zenon
  <2>4. At(R, t) = R[k]
    BY <1>2, Zenon DEF At
  <2> HIDE DEF k
  <2> QED BY <2>3, <2>4, Zenon
<1> QED BY <1>1, <1>2, Zenon

\* A snapshot added above a revision does not change what is found for it, and one
\* added at or below it is what is found.
LEMMA AtAppend ==
    ASSUME NEW S, NEW R \in Seq(S), R # <<>>, NEW e \in S, NEW t
    PROVE  /\ ~(e.rev <= t) => At(Append(R, e), t) = At(R, t)
           /\ e.rev <= t => At(Append(R, e), t) = e
<1> DEFINE Q == Append(R, e)
<1>1. /\ Q \in Seq(S) /\ DOMAIN Q = DOMAIN R \cup {Len(R) + 1} /\ Q[Len(R) + 1] = e
      /\ \A i \in DOMAIN R : Q[i] = R[i]
      /\ 1 \in DOMAIN R /\ DOMAIN R = 1 .. Len(R) /\ Len(R) \in Nat
  OBVIOUS
<1> HIDE DEF Q
<1>2. \/ (\A i \in DOMAIN Q : ~(Q[i].rev <= t)) /\ At(Q, t) = Q[1]
      \/ \E k \in DOMAIN Q : /\ Q[k].rev <= t /\ At(Q, t) = Q[k]
                             /\ \A j \in DOMAIN Q : Q[j].rev <= t => j <= k
  BY <1>1, AtFinds, Zenon
<1>3. \/ (\A i \in DOMAIN R : ~(R[i].rev <= t)) /\ At(R, t) = R[1]
      \/ \E k \in DOMAIN R : /\ R[k].rev <= t /\ At(R, t) = R[k]
                             /\ \A j \in DOMAIN R : R[j].rev <= t => j <= k
  BY AtFinds, Zenon
<1>4. e.rev <= t => At(Q, t) = e
  BY <1>1, <1>2
<1>5. ~(e.rev <= t) => At(Q, t) = At(R, t)
  BY <1>1, <1>2, <1>3
<1> QED BY <1>4, <1>5, Zenon DEF Q

\* Two revisions between the same snapshots read the same one.
LEMMA AtSame ==
    ASSUME NEW S, NEW R \in Seq(S), R # <<>>, NEW t \in Nat, NEW u \in Nat,
           \A i \in DOMAIN R : R[i].rev \in Nat,
           \A i, j \in DOMAIN R : i < j => R[i].rev < R[j].rev,
           \A i \in DOMAIN R \ {1} : R[i].rev <= t <=> R[i].rev <= u
    PROVE  At(R, t) = At(R, u)
<1>1. \/ (\A i \in DOMAIN R : ~(R[i].rev <= t)) /\ At(R, t) = R[1]
      \/ \E k \in DOMAIN R : /\ R[k].rev <= t /\ At(R, t) = R[k]
                             /\ \A j \in DOMAIN R : R[j].rev <= t => j <= k
  BY AtFinds, Zenon
<1>2. \/ (\A i \in DOMAIN R : ~(R[i].rev <= u)) /\ At(R, u) = R[1]
      \/ \E k \in DOMAIN R : /\ R[k].rev <= u /\ At(R, u) = R[k]
                             /\ \A j \in DOMAIN R : R[j].rev <= u => j <= k
  BY AtFinds, Zenon
<1>3. DOMAIN R = 1 .. Len(R) /\ Len(R) \in Nat /\ 1 \in DOMAIN R
  OBVIOUS
<1> QED BY <1>1, <1>2, <1>3

(***************************************************************************)
(* The steps of the datastore                                              *)
(***************************************************************************)

\* A step of a watcher, or of none, leaves the datastore as it is.
Quiet == UNCHANGED <<now, storeVars, txnVars, wpc, wattempts, issued>>

\* The ways a revision is handed out without a commit.
Handed(t) ==
    /\ ~closed /\ Hand(t)
    /\ UNCHANGED <<now, storeVars, txnVars, wattempts>>

\* Every step is one of ReadWriteTx, of the functions that hand out revisions, of the
\* clock, Close, or leaves the datastore alone.
LEMMA StepHasKind ==
    ASSUME [MemNext]_memVars
    PROVE  \/ \E w \in Writers : \/ TxSrc(w) \/ AbortTx(w) \/ CommitTx(w)
                                 \/ /\ wpc[w] = "idle" /\ Handed(head)
                                    /\ wpc' = [wpc EXCEPT ![w] = "done"]
                                 \/ /\ wpc[w] = "idle"
                                    /\ wpc' = [wpc EXCEPT ![w] = "failed"]
                                    /\ UNCHANGED <<now, storeVars, txnVars, issued>>
           \/ \E w \in Writers, O \in SUBSET Objects, v \in Vals \cup {None} : Change(w, O, v)
           \/ (Handed(head) \/ Handed(optimized)) /\ UNCHANGED wpc
           \/ Close \/ Tick \/ Quiet
<1>1. ASSUME NEW w \in Writers, WriterStep(w)
      PROVE  \/ TxSrc(w) \/ UnusedTx(w) \/ AbortTx(w) \/ CommitTx(w)
             \/ \E O \in SUBSET Objects, v \in Vals \cup {None} : Change(w, O, v)
  <2>1. ASSUME NEW r \in Rels, NEW v \in Vals, WriteCreate(w, r, v) \/ WriteTouch(w, r, v)
        PROVE  \E O \in SUBSET Objects, x \in Vals \cup {None} : Change(w, O, x)
    <3>1. {r} \in SUBSET Objects /\ v \in Vals \cup {None}
      BY Zenon DEF Objects
    <3>2. Change(w, {r}, v)
      BY <2>1, Zenon DEF WriteCreate, WriteTouch
    <3> QED BY <3>1, <3>2, Zenon
  <2>2. ASSUME NEW r \in Rels, WriteDelete(w, r)
        PROVE  \E O \in SUBSET Objects, x \in Vals \cup {None} : Change(w, O, x)
    <3>1. {r} \in SUBSET Objects /\ None \in Vals \cup {None}
      BY Zenon DEF Objects
    <3>2. Change(w, {r}, None)
      BY <2>2, Zenon DEF WriteDelete
    <3> QED BY <3>1, <3>2, Zenon
  <2>3. ASSUME NEW n \in Names, NEW limit, DeleteRelationships(w, n, limit)
        PROVE  \E O \in SUBSET Objects, x \in Vals \cup {None} : Change(w, O, x)
    <3>1. PICK chosen \in SUBSET Existing({r \in Rels : ResourceType(r) = n}) : Change(w, chosen, None)
      BY <2>3, Zenon DEF DeleteRelationships
    <3>2. chosen \in SUBSET Objects /\ None \in Vals \cup {None}
      BY Zenon DEF Objects, Existing
    <3> QED BY <3>1, <3>2, Zenon
  <2>4. ASSUME NEW n \in Names, NEW v \in Vals, LegacyWrite(w, n, v)
        PROVE  \E O \in SUBSET Objects, x \in Vals \cup {None} : Change(w, O, x)
    <3>1. {n} \in SUBSET Objects /\ v \in Vals \cup {None}
      BY Zenon DEF Objects
    <3> QED BY <2>4, <3>1, Zenon DEF LegacyWrite
  <2>5. ASSUME NEW n \in Names, LegacyDelete(w, n)
        PROVE  \E O \in SUBSET Objects, x \in Vals \cup {None} : Change(w, O, x)
    <3>1. /\ {n} \in SUBSET Objects /\ None \in Vals \cup {None}
          /\ {n} \cup Existing({r \in Rels : ResourceType(r) = n}) \in SUBSET Objects
      BY Zenon DEF Objects, Existing
    <3> QED BY <2>5, <3>1, Zenon DEF LegacyDelete
  <2>6. ASSUME NEW h \in Vals \cup {None}, WriteStoredSchema(w, h)
        PROVE  \E O \in SUBSET Objects, x \in Vals \cup {None} : Change(w, O, x)
    <3>1. {HashKey} \in SUBSET Objects
      BY Zenon DEF Objects
    <3> QED BY <2>6, <3>1, Zenon DEF WriteStoredSchema
  <2> QED BY <1>1, <2>1, <2>2, <2>3, <2>4, <2>5, <2>6, Zenon DEF WriterStep
<1>2. ASSUME NEW w \in Writers, UnusedTx(w)
      PROVE  \/ /\ wpc[w] = "idle" /\ Handed(head)
                /\ wpc' = [wpc EXCEPT ![w] = "done"]
             \/ /\ wpc[w] = "idle"
                /\ wpc' = [wpc EXCEPT ![w] = "failed"]
                /\ UNCHANGED <<now, storeVars, txnVars, issued>>
  BY <1>2, Zenon DEF UnusedTx, Handed, storeVars, txnVars
<1>3. HeadRevision \/ OptimizedRevision => (Handed(head) \/ Handed(optimized)) /\ UNCHANGED wpc
  BY Zenon DEF HeadRevision, OptimizedRevision, Handed
<1>4. ASSUME NEW u \in Watchers, WatcherStep(u) \/ Receive(u) \/ (\E t : Watch(u, t))
      PROVE  Quiet
  BY <1>4, Zenon DEF WatcherStep, LoadChanges, SendChange, WaitForChanges, Receive, Watch, WatchFrame, Quiet
<1>5. UNCHANGED memVars => Quiet
  BY Zenon DEF memVars, Quiet
<1> QED BY <1>1, <1>2, <1>3, <1>4, <1>5, Zenon DEF MemNext

Pcs == {"idle", "waiting", "woken", "open", "done", "failed"}
Snapshots == [rev : Nat, hash : Vals \cup {None}, db : Database]
Revisions == [rev : Nat, settled : BOOLEAN, content : Database]

\* Signal wakes at most one writer, one if any waits, and moves no other.
LEMMA SignalWakes ==
    ASSUME writeTxReady \in Seq(Writers), NEW states \in [Writers -> Pcs], Signal(states)
    PROVE  /\ writeTxReady' \in Seq(Writers) /\ wpc' \in [Writers -> Pcs]
           /\ \A v \in Writers : wpc'[v] \in {states[v], "woken"}
           /\ writeTxReady' # <<>> => \E v \in Writers : wpc'[v] = "woken"
<1>1. CASE writeTxReady = <<>>
  BY <1>1, Zenon DEF Signal
<1>2. CASE writeTxReady # <<>>
  <2>1. /\ Head(writeTxReady) \in Writers /\ Tail(writeTxReady) \in Seq(Writers)
    BY <1>2
  <2>2. /\ wpc' = [states EXCEPT ![Head(writeTxReady)] = "woken"]
        /\ writeTxReady' = Tail(writeTxReady)
    BY <1>2, Zenon DEF Signal
  <2> QED BY <2>1, <2>2, Zenon DEF Pcs
<1> QED BY <1>1, <1>2, Zenon

\* Until Close, there is a head.
LEMMA HeadIs ==
    ASSUME StoreTypes, RevisionsInv, ~closed
    PROVE  /\ revisions \in Seq(Snapshots) /\ revisions # <<>> /\ head \in Nat
           /\ head = revisions[Len(revisions)].rev
           /\ Len(revisions) \in DOMAIN revisions /\ 1 \in DOMAIN revisions
           /\ \A i \in DOMAIN revisions : revisions[i] \in Snapshots /\ revisions[i].rev <= head
<1>1. revisions \in Seq(Snapshots) /\ changelog \in Seq([rev : Nat, changes : SUBSET [object : Objects, value : Vals \cup {None}]])
  BY Zenon DEF StoreTypes, Snapshots
<1>2. Len(changelog) \in Nat /\ Len(revisions) = Len(changelog) + 1
  BY <1>1 DEF RevisionsInv
<1>3. Len(revisions) \in DOMAIN revisions /\ 1 \in DOMAIN revisions /\ revisions # <<>>
  BY <1>1, <1>2
<1>4. head = revisions[Len(revisions)].rev
  BY Zenon DEF head, Last
<1>5. \A i \in DOMAIN revisions : revisions[i] \in Snapshots
  BY <1>1
<1>6. head \in Nat
  BY <1>3, <1>4, <1>5, Zenon DEF Snapshots
<1>7. ASSUME NEW i \in DOMAIN revisions PROVE revisions[i].rev <= head
  <2>1. i = Len(revisions) \/ i < Len(revisions)
    BY <1>1
  <2>2. revisions[i].rev \in Nat
    BY <1>5, Zenon DEF Snapshots
  <2> QED BY <1>3, <1>4, <1>6, <2>1, <2>2 DEF RevisionsInv
<1> QED BY <1>1, <1>3, <1>4, <1>5, <1>6, <1>7, Zenon

\* A read finds one of the snapshots.
LEMMA AtType ==
    ASSUME NEW R \in Seq(Snapshots), R # <<>>, NEW t
    PROVE  At(R, t) \in Snapshots
<1>1. 1 \in DOMAIN R /\ \A i \in DOMAIN R : R[i] \in Snapshots
  OBVIOUS
<1> QED BY <1>1, AtFinds, Zenon

\* The revision handed out by OptimizedRevision is a time or the head.
LEMMA OptimizedIs ==
    ASSUME StoreTypes, RevisionsInv, ~closed, MemAssumption
    PROVE  optimized \in Nat
<1>1. now \in Nat /\ Quantization \in Nat \ {0}
  BY Zenon DEF StoreTypes, MemAssumption
<1> DEFINE m == now % Quantization
<1>2. m \in Nat /\ m <= now
  <2>1. m \in 0 .. Quantization - 1 /\ now = Quantization * (now \div Quantization) + m
    BY <1>1
  <2>2. now \div Quantization \in Nat
    BY <1>1
  <2>3. Quantization * (now \div Quantization) \in Nat
    BY <1>1, <2>2
  <2> HIDE DEF m
  <2> QED BY <1>1, <2>1, <2>3
<1>3. now - m \in Nat
  <2> HIDE DEF m
  <2> QED BY <1>1, <1>2
<1>4. optimized = IF now - m < revisions[1].rev THEN head ELSE now - m
  BY Zenon DEF optimized
<1> QED BY <1>3, <1>4, HeadIs, Zenon

\* What Hand adds.
LEMMA HandIs ==
    ASSUME StoreTypes, RevisionsInv, ~closed, NEW t \in Nat, Hand(t)
    PROVE  /\ issued' \subseteq Revisions
           /\ \E i \in Revisions : /\ issued' = issued \cup {i}
                                   /\ i.rev = t /\ i.settled = (t <= head)
                                   /\ i.content = At(revisions, t).db
<1>1. issued' = issued \cup {[rev |-> t, settled |-> t <= head, content |-> At(revisions, t).db]}
  BY Zenon DEF Hand, SnapshotAt, At
<1>2. At(revisions, t).db \in Database
  BY HeadIs, AtType, Zenon DEF Snapshots
<1>3. (t <= head) \in BOOLEAN
  OBVIOUS
<1>4. \A b \in BOOLEAN, c \in Database :
          /\ [rev |-> t, settled |-> b, content |-> c] \in Revisions
          /\ [rev |-> t, settled |-> b, content |-> c].rev = t
          /\ [rev |-> t, settled |-> b, content |-> c].settled = b
          /\ [rev |-> t, settled |-> b, content |-> c].content = c
  BY Zenon DEF Revisions
<1>5. \E i \in Revisions : /\ i = [rev |-> t, settled |-> t <= head, content |-> At(revisions, t).db]
                           /\ i.rev = t /\ i.settled = (t <= head)
                           /\ i.content = At(revisions, t).db
  BY <1>2, <1>3, <1>4, Zenon
<1>6. issued \subseteq Revisions
  BY Zenon DEF StoreTypes, Revisions
<1> QED BY <1>1, <1>5, <1>6, Zenon

Changes == [rev : Nat, changes : SUBSET [object : Objects, value : Vals \cup {None}]]

\* A commit adds its revision to the changelog, and its snapshot until Close.
LEMMA CommitAdds ==
    ASSUME StoreTypes, NEW w \in Writers, CommitTx(w)
    PROVE  /\ changelog' \in Seq(Changes)
           /\ \E e \in Changes : e.rev = newRevision /\ changelog' = Append(changelog, e)
           /\ MemCommitted' = MemCommitted \cup {newRevision}
           /\ CommitSnapshot \in Snapshots /\ CommitRevision \in Revisions
<1>1. /\ changelog \in Seq(Changes) /\ newRevision \in Nat /\ touched \subseteq Objects
      /\ tx \in Database
  BY Zenon DEF StoreTypes, Changes
<1>2. \A o \in Objects : tx[o] \in Vals \cup {None}
  BY <1>1, Zenon DEF Database
<1>3. Tracked \in SUBSET [object : Objects, value : Vals \cup {None}]
  BY <1>1, <1>2 DEF Tracked
<1> DEFINE e == [rev |-> newRevision, changes |-> Tracked]
<1>4. e \in Changes /\ e.rev = newRevision
  BY <1>1, <1>3, Zenon DEF Changes
<1>5. changelog' = Append(changelog, e)
  BY Zenon DEF CommitTx
<1> HIDE DEF e
<1>6. changelog' \in Seq(Changes)
  BY <1>1, <1>4, <1>5
<1>7. MemCommitted' = MemCommitted \cup {newRevision}
  <2>1. /\ DOMAIN changelog' = DOMAIN changelog \cup {Len(changelog) + 1}
        /\ \A i \in DOMAIN changelog : changelog'[i] = changelog[i]
        /\ changelog'[Len(changelog) + 1] = e
    BY <1>1, <1>4, <1>5
  <2> QED BY <1>4, <2>1 DEF MemCommitted
<1>8. CommitSnapshot \in Snapshots /\ CommitRevision \in Revisions
  <2>1. HashKey \in Objects
    BY Zenon DEF Objects
  <2> QED BY <1>1, <1>2, <2>1, Zenon DEF CommitSnapshot, CommitRevision, Snapshots, Revisions
<1> QED BY <1>4, <1>5, <1>6, <1>7, <1>8, Zenon

\* The ends of a transaction are ends of its writer's, and of nobody else's.
LEMMA EndOfTx ==
    ASSUME StoreTypes, NEW w \in Writers, AbortTx(w) \/ CommitTx(w)
    PROVE  /\ wpc[w] = "open" /\ activeWriteTxn' = NoWriter
           /\ writeTxReady' \in Seq(Writers) /\ wpc' \in [Writers -> Pcs]
           /\ wpc'[w] # "open"
           /\ \A v \in Writers : v # w => wpc'[v] \in {wpc[v], "woken"}
           /\ writeTxReady' # <<>> => \E v \in Writers : wpc'[v] = "woken"
<1>1. writeTxReady \in Seq(Writers) /\ wpc \in [Writers -> Pcs]
  BY Zenon DEF StoreTypes, Pcs
<1>2. PICK pc \in {"idle", "failed", "done"} : Signal([wpc EXCEPT ![w] = pc])
  BY Zenon DEF AbortTx, CommitTx
<1>3. [wpc EXCEPT ![w] = pc] \in [Writers -> Pcs]
  BY <1>1, Zenon DEF Pcs
<1>4. /\ writeTxReady' \in Seq(Writers) /\ wpc' \in [Writers -> Pcs]
      /\ \A v \in Writers : wpc'[v] \in {[wpc EXCEPT ![w] = pc][v], "woken"}
      /\ writeTxReady' # <<>> => \E v \in Writers : wpc'[v] = "woken"
  BY <1>1, <1>2, <1>3, SignalWakes, Zenon
<1>5. wpc[w] = "open" /\ activeWriteTxn' = NoWriter
  BY Zenon DEF AbortTx, CommitTx
<1> QED BY <1>1, <1>4, <1>5, Zenon

\* The next revision is above the head (newRevisionID).
LEMMA NewRevisionIsAbove ==
    ASSUME StoreTypes, RevisionsInv, ~closed
    PROVE  newRevisionID \in Nat /\ head < newRevisionID
BY HeadIs DEF StoreTypes, newRevisionID

\* The types are preserved.
LEMMA TypesStep ==
    ASSUME StoreTypes, RevisionsInv, MemAssumption, [MemNext]_memVars
    PROVE  StoreTypes'
<1> USE DEF StoreTypes, storeVars, txnVars
<1>1. ASSUME NEW w \in Writers, TxSrc(w) PROVE StoreTypes'
  <2>1. CASE activeWriteTxn = NoWriter /\ ~closed
    BY <1>1, <2>1, NewRevisionIsAbove, Zenon DEF TxSrc
  <2>2. CASE ~(activeWriteTxn = NoWriter /\ ~closed)
    <3>1. writeTxReady' \in Seq(Writers)
      <4>1. writeTxReady' = writeTxReady \/ writeTxReady' = Append(writeTxReady, w)
        BY <1>1, <2>2, Zenon DEF TxSrc
      <4>2. writeTxReady \in Seq(Writers)
        OBVIOUS
      <4> HIDE DEF StoreTypes
      <4> QED BY <4>1, <4>2
    <3>2. wpc' \in [Writers -> Pcs]
      BY <1>1, <2>2, Zenon DEF TxSrc, Pcs
    <3> QED BY <1>1, <2>2, <3>1, <3>2, Zenon DEF TxSrc, Pcs
  <2> QED BY <2>1, <2>2, Zenon
<1>2. ASSUME NEW w \in Writers, AbortTx(w) PROVE StoreTypes'
  <2>1. writeTxReady' \in Seq(Writers) /\ wpc' \in [Writers -> Pcs]
    BY <1>2, EndOfTx, Zenon
  <2> QED BY <1>2, <2>1, Zenon DEF AbortTx, Pcs
<1>3. ASSUME NEW w \in Writers, CommitTx(w) PROVE StoreTypes'
  <2>1. writeTxReady' \in Seq(Writers) /\ wpc' \in [Writers -> Pcs]
    BY <1>3, EndOfTx, Zenon
  <2>2. revisions' \in Seq(Snapshots) /\ issued' \subseteq Revisions
    <3>1. revisions \in Seq(Snapshots) /\ issued \subseteq Revisions
      BY Zenon DEF Snapshots, Revisions
    <3>2. CommitSnapshot \in Snapshots /\ CommitRevision \in Revisions
      BY <1>3, CommitAdds, Zenon
    <3>3. \/ revisions' = revisions /\ issued' = issued
          \/ revisions' = Append(revisions, CommitSnapshot) /\ issued' = issued \cup {CommitRevision}
      BY <1>3, Zenon DEF CommitTx
    <3> HIDE DEF StoreTypes, storeVars, txnVars
    <3>4. Append(revisions, CommitSnapshot) \in Seq(Snapshots)
      BY <3>1, <3>2
    <3> QED BY <3>1, <3>2, <3>3, <3>4, Zenon
  <2>3. changelog' \in Seq(Changes)
    BY <1>3, CommitAdds, Zenon
  <2> QED BY <1>3, <2>1, <2>2, <2>3, Zenon DEF CommitTx, Pcs, Snapshots, Revisions, Changes
<1>4. ASSUME NEW t \in Nat, Handed(t),
             wpc' = wpc \/ \E w \in Writers : wpc' = [wpc EXCEPT ![w] = "done"]
      PROVE  StoreTypes'
  <2>1. issued' \subseteq Revisions
    BY <1>4, HandIs, Zenon DEF Handed
  <2>2. wpc' \in [Writers -> Pcs]
    BY <1>4, Zenon DEF Pcs
  <2> QED BY <1>4, <2>1, <2>2, Zenon DEF Handed, Revisions, Pcs
<1>5. ASSUME NEW w \in Writers, wpc' = [wpc EXCEPT ![w] = "failed"],
             UNCHANGED <<now, storeVars, txnVars, issued>>
      PROVE  StoreTypes'
  BY <1>5, Zenon
<1>6. ASSUME NEW w \in Writers, NEW O \in SUBSET Objects, NEW v \in Vals \cup {None}, Change(w, O, v)
      PROVE  StoreTypes'
  <2>1. tx' \in Database /\ touched' \subseteq Objects
    BY <1>6, Zenon DEF Change, Database
  <2> QED BY <1>6, <2>1, Zenon DEF Change
<1>7. ASSUME Close PROVE StoreTypes'
  <2>1. revisions' \in Seq(Snapshots)
    <3>1. [rev |-> now, hash |-> None, db |-> db] \in Snapshots
      BY Zenon DEF Snapshots
    <3> QED BY <1>7, <3>1 DEF Close
  <2> QED BY <1>7, <2>1, Zenon DEF Close, Snapshots
<1>8. Tick => StoreTypes'
  BY DEF Tick
<1>9. Quiet => StoreTypes'
  BY Zenon DEF Quiet
<1>10. ~closed => head \in Nat /\ optimized \in Nat
  BY HeadIs, OptimizedIs, Zenon
<1>11. \A t : Handed(t) => ~closed
  BY Zenon DEF Handed
<1> HIDE DEF StoreTypes, storeVars, txnVars
<1> QED BY <1>1, <1>2, <1>3, <1>4, <1>5, <1>6, <1>7, <1>8, <1>9, <1>10, <1>11, StepHasKind, Zenon

\* There stays a snapshot for each transaction of the changelog, in order.
LEMMA RevisionsStep ==
    ASSUME StoreTypes, RevisionsInv, ActiveInv, [MemNext]_memVars
    PROVE  RevisionsInv'
<1>1. ASSUME UNCHANGED <<closed, revisions, changelog>> PROVE RevisionsInv'
  BY <1>1, Zenon DEF RevisionsInv
<1>2. ASSUME NEW w \in Writers, CommitTx(w) PROVE RevisionsInv'
  <2>1. SUFFICES ASSUME ~closed' PROVE RevisionsInv'
    BY Zenon DEF RevisionsInv
  <2>2. ~closed /\ revisions' = Append(revisions, CommitSnapshot)
    BY <1>2, <2>1, Zenon DEF CommitTx
  <2>3. PICK e \in Changes : e.rev = newRevision /\ changelog' = Append(changelog, e)
    BY <1>2, CommitAdds, Zenon
  <2>4. CommitSnapshot \in Snapshots /\ CommitSnapshot.rev = newRevision
    BY <1>2, CommitAdds, Zenon DEF CommitSnapshot
  <2>5. head < newRevision
    <3>1. activeWriteTxn = w /\ w # NoWriter
      BY <1>2, MemAssumption, Zenon DEF CommitTx, ActiveInv, MemAssumption
    <3> QED BY <2>2, <3>1, Zenon DEF ActiveInv
  <2>6. /\ revisions \in Seq(Snapshots) /\ head \in Nat /\ changelog \in Seq(Changes)
        /\ \A i \in DOMAIN revisions : revisions[i] \in Snapshots /\ revisions[i].rev <= head
        /\ newRevision \in Nat
    BY <2>2, HeadIs, Zenon DEF StoreTypes, Changes
  <2>7. /\ Len(revisions') = Len(revisions) + 1 /\ DOMAIN revisions' = 1 .. Len(revisions) + 1
        /\ \A i \in DOMAIN revisions : revisions'[i] = revisions[i]
        /\ revisions'[Len(revisions) + 1] = CommitSnapshot
        /\ DOMAIN revisions = 1 .. Len(revisions) /\ Len(revisions) \in Nat
    BY <2>2, <2>4, <2>6
  <2>8. /\ Len(changelog') = Len(changelog) + 1 /\ DOMAIN changelog' = 1 .. Len(changelog) + 1
        /\ \A i \in DOMAIN changelog : changelog'[i] = changelog[i]
        /\ changelog'[Len(changelog) + 1] = e
        /\ DOMAIN changelog = 1 .. Len(changelog) /\ Len(changelog) \in Nat
    BY <2>3, <2>6
  <2>9. Len(revisions) = Len(changelog) + 1
    BY <2>2, Zenon DEF RevisionsInv
  <2>10. \A i \in DOMAIN changelog' : revisions'[i + 1].rev = changelog'[i].rev
    <3> TAKE i \in DOMAIN changelog'
    <3>1. CASE i = Len(changelog) + 1
      BY <2>3, <2>4, <2>7, <2>8, <2>9, <3>1, Zenon
    <3>2. CASE i # Len(changelog) + 1
      <4>1. i \in DOMAIN changelog /\ i + 1 \in DOMAIN revisions
        BY <2>7, <2>8, <2>9, <3>2
      <4>2. revisions[i + 1].rev = changelog[i].rev
        BY <2>2, <4>1, Zenon DEF RevisionsInv
      <4> QED BY <2>7, <2>8, <4>1, <4>2, Zenon
    <3> QED BY <3>1, <3>2, Zenon
  <2>11. \A i, j \in DOMAIN revisions' : i < j => revisions'[i].rev < revisions'[j].rev
    <3> TAKE i, j \in DOMAIN revisions'
    <3> HAVE i < j
    <3>1. i \in DOMAIN revisions /\ revisions[i].rev \in Nat
      BY <2>6, <2>7 DEF Snapshots
    <3>2. CASE j = Len(revisions) + 1
      BY <2>4, <2>5, <2>6, <2>7, <3>1, <3>2
    <3>3. CASE j # Len(revisions) + 1
      <4>1. j \in DOMAIN revisions
        BY <2>7, <3>3
      <4> QED BY <2>2, <2>7, <3>1, <4>1, Zenon DEF RevisionsInv
    <3> QED BY <3>2, <3>3, Zenon
  <2> QED BY <2>7, <2>8, <2>9, <2>10, <2>11, Zenon DEF RevisionsInv
<1>3. Close => RevisionsInv'
  BY Zenon DEF Close, RevisionsInv
<1>4. ASSUME NEW w \in Writers, TxSrc(w) \/ AbortTx(w)
      PROVE  UNCHANGED <<closed, revisions, changelog>>
  BY <1>4, Zenon DEF TxSrc, AbortTx
<1>5. ASSUME \/ UNCHANGED <<now, storeVars, txnVars, issued>> \/ Tick \/ Quiet
             \/ \E t : Handed(t)
             \/ \E w, O, v : Change(w, O, v)
      PROVE  UNCHANGED <<closed, revisions, changelog>>
  BY <1>5, Zenon DEF storeVars, Tick, Quiet, Handed, Change
<1> QED BY <1>1, <1>2, <1>3, <1>4, <1>5, StepHasKind, Zenon

\* Until Close, the head is the last of the changelog, or before its beginning.
LEMMA CommittedUpToHead ==
    ASSUME StoreTypes, RevisionsInv, ~closed
    PROVE  \A r \in MemCommitted : r \in Nat /\ r <= head
<1> SUFFICES ASSUME NEW i \in DOMAIN changelog
             PROVE  changelog[i].rev \in Nat /\ changelog[i].rev <= head
  BY Zenon DEF MemCommitted
<1>1. changelog \in Seq(Changes) /\ revisions \in Seq(Snapshots)
  BY Zenon DEF StoreTypes, Changes, Snapshots
<1>2. changelog[i].rev \in Nat
  <2>1. changelog[i] \in Changes
    BY <1>1
  <2> QED BY <2>1, Zenon DEF Changes
<1>3. i + 1 \in DOMAIN revisions /\ revisions[i + 1].rev = changelog[i].rev
  BY <1>1 DEF RevisionsInv
<1> QED BY <1>2, <1>3, HeadIs, Zenon

\* Without a change of a writer's place or of the revisions, the active transaction
\* stays in order.
LEMMA ActiveFrame ==
    ASSUME ActiveInv, UNCHANGED <<activeWriteTxn, newRevision, changelog, issued>>,
           \A w \in Writers : wpc'[w] = "open" <=> wpc[w] = "open",
           closed' \/ UNCHANGED <<closed, revisions>>
    PROVE  ActiveInv'
<1>1. MemCommitted' = MemCommitted
  BY Zenon DEF MemCommitted
<1>2. ~closed' => ~closed /\ head' = head
  BY Zenon DEF head, Last
<1> QED BY <1>1, <1>2, Zenon DEF ActiveInv

\* One writer is in its transaction, and its revision stays above all there are.
LEMMA ActiveStep ==
    ASSUME MemInv, MemAssumption, [MemNext]_memVars
    PROVE  ActiveInv'
<1> USE DEF storeVars, txnVars
<1>0. StoreTypes /\ RevisionsInv /\ ActiveInv /\ IssuedInv /\ wpc \in [Writers -> Pcs]
      /\ issued \subseteq Revisions
  BY Zenon DEF MemInv, StoreTypes, Pcs, Revisions
<1>1. ASSUME NEW w \in Writers, TxSrc(w) PROVE ActiveInv'
  <2>1. CASE activeWriteTxn = NoWriter /\ ~closed
    <3>1. /\ activeWriteTxn' = w /\ newRevision' = newRevisionID
          /\ wpc' = [wpc EXCEPT ![w] = "open"]
          /\ UNCHANGED <<closed, revisions, changelog, issued>>
      BY <1>1, <2>1, Zenon DEF TxSrc
    <3>2. newRevisionID \in Nat /\ head < newRevisionID /\ head \in Nat
      BY <1>0, <2>1, NewRevisionIsAbove, HeadIs, Zenon
    <3>3. \A v \in Writers : wpc'[v] = "open" <=> v = activeWriteTxn'
      BY <1>0, <2>1, <3>1, MemAssumption, Zenon DEF ActiveInv, MemAssumption
    <3>4. MemCommitted' = MemCommitted /\ head' = head
      BY <3>1, Zenon DEF MemCommitted, head, Last
    <3>5. \A r \in MemCommitted : r < newRevisionID
      BY <1>0, <2>1, <3>2, CommittedUpToHead
    <3>6. \A i \in issued : i.settled => i.rev < newRevisionID
      <4>1. \A i \in issued : i.rev \in Nat
        BY <1>0, Zenon DEF Revisions
      <4>2. \A i \in issued : i.settled => i.rev <= head
        BY <1>0, <2>1, Zenon DEF IssuedInv
      <4> QED BY <3>2, <4>1, <4>2
    <3> QED BY <3>1, <3>2, <3>3, <3>4, <3>5, <3>6, Zenon DEF ActiveInv
  <2>2. CASE ~(activeWriteTxn = NoWriter /\ ~closed)
    <3>1. /\ UNCHANGED <<activeWriteTxn, newRevision, changelog, issued, closed, revisions>>
          /\ wpc[w] # "open" /\ wpc'[w] # "open" /\ \A v \in Writers : v # w => wpc'[v] = wpc[v]
      BY <1>0, <1>1, <2>2, Zenon DEF TxSrc
    <3> QED BY <1>0, <3>1, ActiveFrame, Zenon
  <2> QED BY <2>1, <2>2, Zenon
<1>2. ASSUME NEW w \in Writers, AbortTx(w) \/ CommitTx(w) PROVE ActiveInv'
  <2>1. /\ wpc[w] = "open" /\ activeWriteTxn' = NoWriter /\ wpc'[w] # "open"
        /\ \A v \in Writers : v # w => wpc'[v] \in {wpc[v], "woken"}
    BY <1>0, <1>2, EndOfTx, Zenon
  <2>2. \A v \in Writers : wpc'[v] # "open"
    BY <1>0, <2>1, Zenon DEF ActiveInv
  <2> QED BY <2>1, <2>2, Zenon DEF ActiveInv, MemAssumption
<1>3. ASSUME NEW t \in Nat, Handed(t), \A w \in Writers : wpc'[w] = "open" <=> wpc[w] = "open"
      PROVE  ActiveInv'
  <2>1. UNCHANGED <<activeWriteTxn, newRevision, changelog, closed, revisions>> /\ ~closed
    BY <1>3, Zenon DEF Handed
  <2>0. PICK n \in Revisions : issued' = issued \cup {n} /\ n.rev = t /\ n.settled = (t <= head)
    BY <1>0, <1>3, HandIs, Zenon DEF Handed
  <2>2. MemCommitted' = MemCommitted /\ head' = head /\ head \in Nat /\ newRevision \in Nat
    BY <1>0, <2>1, HeadIs, Zenon DEF MemCommitted, head, Last, StoreTypes
  <2>3. ASSUME activeWriteTxn # NoWriter, NEW i \in issued', i.settled PROVE i.rev < newRevision
    <3>1. CASE i \in issued
      BY <1>0, <2>3, <3>1, Zenon DEF ActiveInv
    <3>2. CASE i \notin issued
      <4>1. i.rev = t /\ t <= head
        BY <2>0, <2>3, <3>2, Zenon
      <4>2. head < newRevision
        BY <1>0, <2>1, <2>3, Zenon DEF ActiveInv
      <4> QED BY <2>2, <4>1, <4>2
    <3> QED BY <3>1, <3>2, Zenon
  <2>4. \A w \in Writers : wpc'[w] = "open" <=> w = activeWriteTxn
    BY <1>0, <1>3, Zenon DEF ActiveInv
  <2>5. activeWriteTxn # NoWriter => (\A r \in MemCommitted : r < newRevision) /\ head < newRevision
    BY <1>0, <2>1, Zenon DEF ActiveInv
  <2>6. activeWriteTxn # NoWriter => \A i \in issued' : i.settled => i.rev < newRevision
    BY <2>3, Zenon
  <2> QED BY <2>1, <2>2, <2>4, <2>5, <2>6, Zenon DEF ActiveInv
<1>4. ASSUME NEW w \in Writers, wpc[w] = "idle", NEW pc \in {"done", "failed"},
             wpc' = [wpc EXCEPT ![w] = pc]
      PROVE  \A v \in Writers : wpc'[v] = "open" <=> wpc[v] = "open"
  BY <1>0, <1>4, Zenon
<1>5. ASSUME UNCHANGED <<now, storeVars, txnVars, issued>>,
             \A v \in Writers : wpc'[v] = "open" <=> wpc[v] = "open"
      PROVE  ActiveInv'
  BY <1>0, <1>5, ActiveFrame, Zenon
<1>6. ASSUME \/ \E w, O, v : Change(w, O, v)
             \/ Close \/ Tick \/ Quiet
      PROVE  ActiveInv'
  <2>1. /\ UNCHANGED <<activeWriteTxn, newRevision, changelog, issued, wpc>>
        /\ closed' \/ UNCHANGED <<closed, revisions>>
    BY <1>6, Zenon DEF Change, Close, Tick, Quiet
  <2> QED BY <1>0, <2>1, ActiveFrame, Zenon
<1>7. ~closed => head \in Nat /\ optimized \in Nat
  BY <1>0, HeadIs, OptimizedIs, Zenon
<1>8. \A t : Handed(t) => ~closed
  BY Zenon DEF Handed
<1>9. wpc' = wpc => \A v \in Writers : wpc'[v] = "open" <=> wpc[v] = "open"
  OBVIOUS
<1>10. ASSUME NEW w \in Writers, wpc[w] = "idle",
              \/ Handed(head) /\ wpc' = [wpc EXCEPT ![w] = "done"]
              \/ wpc' = [wpc EXCEPT ![w] = "failed"] /\ UNCHANGED <<now, storeVars, txnVars, issued>>
       PROVE  ActiveInv'
  BY <1>3, <1>4, <1>5, <1>7, <1>8, <1>10, Zenon
<1> QED BY <1>1, <1>2, <1>3, <1>6, <1>7, <1>8, <1>9, <1>10, StepHasKind, Zenon

(***************************************************************************)
(* What revisions handed out read                                          *)
(***************************************************************************)

\* What SnapshotReader promises, of any snapshots, transactions and revisions handed out.
Shown(C, i) == {r \in C : r <= i.rev}
ReadStill(R, I) == \A i \in I : i.settled => i.rev <= Last(R).rev /\ At(R, i.rev).db = i.content
SameWhenShown(C, I) ==
    \A i, j \in I : i.settled /\ j.settled /\ Shown(C, i) = Shown(C, j) => i.content = j.content

\* IssuedInv in these terms, before and after a step.
LEMMA IssuedIs ==
    /\ IssuedInv <=> (~closed => ReadStill(revisions, issued)) /\ SameWhenShown(MemCommitted, issued)
    /\ IssuedInv' <=> /\ ~closed' => ReadStill(revisions', issued')
                      /\ SameWhenShown(MemCommitted', issued')
<1>1. IssuedInv <=> (~closed => ReadStill(revisions, issued)) /\ SameWhenShown(MemCommitted, issued)
  <2>1. \A i : MemView(i).shows = Shown(MemCommitted, i) /\ SnapshotAt(i.rev) = At(revisions, i.rev)
    BY Zenon DEF MemView, Shown, SnapshotAt, At
  <2> QED BY <2>1 DEF IssuedInv, ReadStill, SameWhenShown, head
<1>2. IssuedInv' <=> /\ ~closed' => ReadStill(revisions', issued')
                     /\ SameWhenShown(MemCommitted', issued')
  <2>1. \A i : MemView(i)'.shows = Shown(MemCommitted', i) /\ SnapshotAt(i.rev)' = At(revisions', i.rev)
    BY Zenon DEF MemView, Shown, SnapshotAt, At
  <2> QED BY <2>1 DEF IssuedInv, ReadStill, SameWhenShown, head
<1> QED BY <1>1, <1>2, Zenon

\* Revisions that show the same transactions read the same snapshot.
LEMMA ShownDecides ==
    ASSUME StoreTypes, RevisionsInv, ~closed, NEW t \in Nat, NEW u \in Nat,
           {r \in MemCommitted : r <= t} = {r \in MemCommitted : r <= u}
    PROVE  At(revisions, t) = At(revisions, u)
<1>1. /\ revisions \in Seq(Snapshots) /\ revisions # <<>>
      /\ \A i \in DOMAIN revisions : revisions[i].rev \in Nat
  BY HeadIs, Zenon DEF Snapshots
<1>2. ASSUME NEW i \in DOMAIN revisions \ {1} PROVE revisions[i].rev \in MemCommitted
  <2>1. changelog \in Seq(Changes)
    BY Zenon DEF StoreTypes, Changes
  <2>2. i - 1 \in DOMAIN changelog /\ (i - 1) + 1 = i
    BY <1>1, <2>1 DEF RevisionsInv
  <2>3. revisions[i].rev = changelog[i - 1].rev
    BY <2>2, Zenon DEF RevisionsInv
  <2> QED BY <2>2, <2>3, Zenon DEF MemCommitted
<1>3. \A i \in DOMAIN revisions \ {1} : revisions[i].rev <= t <=> revisions[i].rev <= u
  BY <1>2, Zenon
<1>4. \A i, j \in DOMAIN revisions : i < j => revisions[i].rev < revisions[j].rev
  BY Zenon DEF RevisionsInv
<1> QED BY <1>1, <1>3, <1>4, AtSame, Zenon

\* Settled revisions read what they read when they were handed out.
LEMMA IssuedStep ==
    ASSUME MemInv, MemAssumption, [MemNext]_memVars
    PROVE  IssuedInv'
<1> USE DEF storeVars, txnVars
<1>0. StoreTypes /\ RevisionsInv /\ ActiveInv /\ IssuedInv /\ issued \subseteq Revisions
  BY Zenon DEF MemInv, StoreTypes, Revisions
<1>1. ASSUME UNCHANGED <<changelog, issued>>, closed' \/ UNCHANGED <<closed, revisions>>
      PROVE  IssuedInv'
  <2>1. MemCommitted' = MemCommitted
    BY <1>1, Zenon DEF MemCommitted
  <2> QED BY <1>0, <1>1, <2>1, IssuedIs, Zenon
<1>2. ASSUME NEW t \in Nat, Handed(t) PROVE IssuedInv'
  <2>1. UNCHANGED <<changelog, closed, revisions>> /\ ~closed
    BY <1>2, Zenon DEF Handed
  <2>2. PICK n \in Revisions : /\ issued' = issued \cup {n} /\ n.rev = t /\ n.settled = (t <= head)
                               /\ n.content = At(revisions, t).db
    BY <1>0, <1>2, HandIs, Zenon DEF Handed
  <2>3. ReadStill(revisions, issued')
    <3>1. ReadStill(revisions, issued)
      BY <1>0, <2>1, IssuedIs, Zenon
    <3>2. n.settled => n.rev <= Last(revisions).rev /\ At(revisions, n.rev).db = n.content
      BY <2>2, Zenon DEF head
    <3> QED BY <2>2, <3>1, <3>2, Zenon DEF ReadStill
  <2>4. SameWhenShown(MemCommitted, issued')
    <3> SUFFICES ASSUME NEW i \in issued', NEW j \in issued', i.settled, j.settled,
                        Shown(MemCommitted, i) = Shown(MemCommitted, j)
                 PROVE  i.content = j.content
      BY Zenon DEF SameWhenShown
    <3>1. i.rev \in Nat /\ j.rev \in Nat
      BY <1>0, <2>2, Zenon DEF Revisions
    <3>2. At(revisions, i.rev) = At(revisions, j.rev)
      BY <1>0, <2>1, <3>1, ShownDecides, Zenon DEF Shown
    <3> QED BY <2>3, <3>2, Zenon DEF ReadStill
  <2>5. MemCommitted' = MemCommitted
    BY <2>1, Zenon DEF MemCommitted
  <2> QED BY <2>1, <2>3, <2>4, <2>5, IssuedIs, Zenon
<1>3. ASSUME NEW w \in Writers, CommitTx(w) PROVE IssuedInv'
  <2>1. activeWriteTxn = w /\ w # NoWriter
    BY <1>0, <1>3, MemAssumption, Zenon DEF CommitTx, ActiveInv, MemAssumption
  <2>2. /\ \A r \in MemCommitted : r < newRevision
        /\ \A i \in issued : i.settled => i.rev < newRevision
        /\ ~closed => head < newRevision
    BY <1>0, <2>1, Zenon DEF ActiveInv
  <2>3. MemCommitted' = MemCommitted \cup {newRevision} /\ newRevision \in Nat /\ closed' = closed
    BY <1>0, <1>3, CommitAdds, Zenon DEF CommitTx, StoreTypes
  <2>4. ASSUME NEW i \in issued, i.settled PROVE Shown(MemCommitted', i) = Shown(MemCommitted, i)
    <3>1. i.rev \in Nat /\ i.rev < newRevision
      BY <1>0, <2>2, <2>4, Zenon DEF Revisions
    <3> QED BY <2>3, <3>1 DEF Shown
  <2>5. SameWhenShown(MemCommitted', issued)
    <3>1. SameWhenShown(MemCommitted, issued)
      BY <1>0, IssuedIs, Zenon
    <3> QED BY <2>4, <3>1, Zenon DEF SameWhenShown
  <2>6. CASE closed
    <3>1. issued' = issued
      BY <1>3, <2>6, Zenon DEF CommitTx
    <3> QED BY <2>3, <2>5, <2>6, <3>1, IssuedIs, Zenon
  <2>7. CASE ~closed
    <3>1. /\ revisions' = Append(revisions, CommitSnapshot)
          /\ issued' = issued \cup {CommitRevision}
      BY <1>3, <2>7, Zenon DEF CommitTx
    <3>2. /\ CommitSnapshot.rev = newRevision /\ CommitSnapshot.db = tx
          /\ CommitRevision.rev = newRevision /\ CommitRevision.content = tx
      BY Zenon DEF CommitSnapshot, CommitRevision
    <3>3. revisions \in Seq(Snapshots) /\ revisions # <<>> /\ CommitSnapshot \in Snapshots /\ head \in Nat
      BY <1>0, <1>3, <2>7, HeadIs, CommitAdds, Zenon
    <3>4. Last(revisions') = CommitSnapshot
      BY <3>1, <3>3 DEF Last
    <3>5. ReadStill(revisions', issued')
      <4> SUFFICES ASSUME NEW i \in issued', i.settled
                   PROVE  i.rev <= newRevision /\ At(revisions', i.rev).db = i.content
        BY <3>2, <3>4, Zenon DEF ReadStill
      <4>1. CASE i = CommitRevision
        <5>1. CommitSnapshot.rev <= i.rev
          BY <2>3, <3>2, <4>1
        <5>2. At(revisions', i.rev) = CommitSnapshot
          BY <3>1, <3>3, <5>1, AtAppend
        <5> QED BY <2>3, <3>2, <4>1, <5>2
      <4>2. CASE i \in issued
        <5>1. i.rev \in Nat /\ i.rev < newRevision
          BY <1>0, <2>2, <4>2, Zenon DEF Revisions
        <5>2. ~(CommitSnapshot.rev <= i.rev)
          BY <2>3, <3>2, <5>1
        <5>3. At(revisions', i.rev) = At(revisions, i.rev)
          BY <3>1, <3>3, <5>2, AtAppend
        <5>4. At(revisions, i.rev).db = i.content
          BY <1>0, <2>7, <4>2, IssuedIs, Zenon DEF ReadStill
        <5> QED BY <2>3, <5>1, <5>3, <5>4
      <4> QED BY <3>1, <4>1, <4>2, Zenon
    <3>6. SameWhenShown(MemCommitted', issued')
      <4>1. newRevision \in Shown(MemCommitted', CommitRevision)
        BY <2>3, <3>2 DEF Shown
      <4>2. ASSUME NEW i \in issued, i.settled
            PROVE  newRevision \notin Shown(MemCommitted', i)
        <5>1. i.rev \in Nat /\ i.rev < newRevision
          BY <1>0, <2>2, <4>2 DEF Revisions
        <5> QED BY <2>3, <5>1 DEF Shown
      <4> QED BY <2>5, <3>1, <4>1, <4>2, Zenon DEF SameWhenShown
    <3> QED BY <3>5, <3>6, IssuedIs, Zenon
  <2> QED BY <2>6, <2>7, Zenon
<1>4. ASSUME \/ \E w \in Writers : TxSrc(w) \/ AbortTx(w)
             \/ \E w, O, v : Change(w, O, v)
             \/ UNCHANGED <<now, storeVars, txnVars, issued>>
             \/ Close \/ Tick \/ Quiet
      PROVE  UNCHANGED <<changelog, issued>> /\ (closed' \/ UNCHANGED <<closed, revisions>>)
  BY <1>4, Zenon DEF TxSrc, AbortTx, Change, Close, Tick, Quiet
<1>5. ~closed => head \in Nat /\ optimized \in Nat
  BY <1>0, HeadIs, OptimizedIs, Zenon
<1>6. \A t : Handed(t) => ~closed
  BY DEF Handed
<1> HIDE DEF storeVars, txnVars
<1> QED BY <1>1, <1>2, <1>3, <1>4, <1>5, <1>6, StepHasKind, Zenon

(***************************************************************************)
(* The writers that wait                                                   *)
(***************************************************************************)

\* A waiting writer is left with somebody to wait for.
LEMMA WakeStep ==
    ASSUME StoreTypes, NoLostWakeup, MemAssumption, [MemNext]_memVars
    PROVE  NoLostWakeup'
<1> USE DEF storeVars, txnVars
<1>0. wpc \in [Writers -> Pcs] /\ writeTxReady \in Seq(Writers)
  BY Zenon DEF StoreTypes, Pcs
<1>1. ASSUME UNCHANGED <<writeTxReady, activeWriteTxn>>, closed' \/ UNCHANGED closed,
             \A v \in Writers : wpc[v] = "woken" => wpc'[v] = "woken"
      PROVE  NoLostWakeup'
  BY <1>1 DEF NoLostWakeup
<1>2. ASSUME NEW w \in Writers, TxSrc(w) PROVE NoLostWakeup'
  <2>1. CASE activeWriteTxn # NoWriter
    BY <1>2, <2>1, Zenon DEF TxSrc, NoLostWakeup
  <2>2. CASE activeWriteTxn = NoWriter
    BY <1>2, <2>2, Zenon DEF TxSrc, NoLostWakeup, MemAssumption
  <2> QED BY <2>1, <2>2, Zenon
<1>3. ASSUME NEW w \in Writers, AbortTx(w) \/ CommitTx(w) PROVE NoLostWakeup'
  BY <1>3, EndOfTx, Zenon DEF NoLostWakeup
<1>4. ASSUME NEW w \in Writers, wpc[w] = "idle", NEW pc, wpc' = [wpc EXCEPT ![w] = pc]
      PROVE  \A v \in Writers : wpc[v] = "woken" => wpc'[v] = "woken"
  BY <1>0, <1>4, Zenon
<1>5. ASSUME \/ \E w, O, v : Change(w, O, v)
             \/ UNCHANGED <<now, storeVars, txnVars, issued>>
             \/ Close \/ Tick \/ Quiet \/ \E t : Handed(t)
      PROVE  UNCHANGED <<writeTxReady, activeWriteTxn>> /\ (closed' \/ UNCHANGED closed)
  BY <1>5, Zenon DEF Change, Close, Tick, Quiet, Handed
<1>6. ASSUME \/ \E w, O, v : Change(w, O, v)
             \/ Close \/ Tick \/ Quiet \/ UNCHANGED wpc
      PROVE  \A v \in Writers : wpc[v] = "woken" => wpc'[v] = "woken"
  BY <1>6, Zenon DEF Change, Close, Tick, Quiet
<1> HIDE DEF storeVars, txnVars
<1> QED BY <1>1, <1>2, <1>3, <1>4, <1>5, <1>6, StepHasKind, Zenon

\* A new datastore is in order.
LEMMA InitInv ==
    ASSUME MemInit, MemAssumption
    PROVE  MemInv
<1> USE DEF MemInit
<1>1. now \in Nat /\ Empty \in Database
  BY DEF MemAssumption, Empty, Database
<1>2. StoreTypes
  <2>1. [rev |-> now, hash |-> None, db |-> Empty] \in [rev : Nat, hash : Vals \cup {None}, db : Database]
    BY <1>1, Zenon
  <2>2. revisions \in Seq([rev : Nat, hash : Vals \cup {None}, db : Database])
    BY <2>1
  <2>3. /\ changelog \in Seq([rev : Nat, changes : SUBSET [object : Objects, value : Vals \cup {None}]])
        /\ writeTxReady \in Seq(Writers)
    OBVIOUS
  <2>4. wpc \in [Writers -> {"idle", "waiting", "woken", "open", "done", "failed"}]
    OBVIOUS
  <2>5. db \in Database /\ tx \in Database /\ closed \in BOOLEAN /\ newRevision \in Nat
    BY <1>1, Zenon
  <2>6. touched = {} /\ issued = {} /\ activeWriteTxn = NoWriter
    OBVIOUS
  <2> HIDE DEF MemInit
  <2> QED BY <1>1, <2>2, <2>3, <2>4, <2>5, <2>6, Zenon DEF StoreTypes
<1>3. RevisionsInv
  BY DEF RevisionsInv
<1>4. ActiveInv
  BY Zenon DEF ActiveInv, MemAssumption
<1>5. IssuedInv
  BY Zenon DEF IssuedInv
<1>6. NoLostWakeup
  BY Zenon DEF NoLostWakeup
<1> QED BY <1>2, <1>3, <1>4, <1>5, <1>6, Zenon DEF MemInv

\* The inductive invariant of ReadWriteTx, Close and the functions that hand out
\* revisions (memdb.go), whatever the interleaving of writers.
THEOREM MemDBInvariant == MemSpec => []MemInv
<1>1. MemInit => MemInv
  BY MemAssumption, InitInv, Zenon
<1>2. MemInv /\ [MemNext]_memVars => MemInv'
  <2> SUFFICES ASSUME MemInv, [MemNext]_memVars PROVE MemInv'
    OBVIOUS
  <2>1. StoreTypes /\ RevisionsInv /\ ActiveInv /\ NoLostWakeup
    BY Zenon DEF MemInv
  <2>2. StoreTypes'
    BY <2>1, TypesStep, MemAssumption, Zenon
  <2>3. RevisionsInv'
    BY <2>1, RevisionsStep, Zenon
  <2>4. ActiveInv' /\ IssuedInv'
    BY ActiveStep, IssuedStep, MemAssumption, Zenon
  <2>5. NoLostWakeup'
    BY <2>1, WakeStep, MemAssumption, Zenon
  <2> QED BY <2>2, <2>3, <2>4, <2>5, Zenon DEF MemInv
<1> QED BY <1>1, <1>2, PTL DEF MemSpec

\* While the datastore is open, a writer waiting in txSrc waits for a transaction in
\* progress or for a writer already woken: one Signal for each end of a transaction is
\* enough, however the writers overtake one another.
THEOREM WakeupsAreNotLost == MemSpec => []NoLostWakeup
<1>1. MemInv => NoLostWakeup
  BY Zenon DEF MemInv
<1> QED BY <1>1, MemDBInvariant, PTL

(***************************************************************************)
(* MemDB implements RevisionedStore                                        *)
(***************************************************************************)
Views(C, I) == {[shows |-> Shown(C, i), content |-> i.content] : i \in {j \in I : j.settled}}

\* What a settled revision reads is what it read when it was handed out, even after
\* Close, so that the views of the mapping depend on the transactions alone.
LEMMA ViewsAre ==
    /\ IssuedInv => {MemView(i) : i \in {j \in issued : j.settled}} = Views(MemCommitted, issued)
    /\ IssuedInv' => ({MemView(i) : i \in {j \in issued : j.settled}})' = Views(MemCommitted', issued')
<1>1. ASSUME IssuedInv
      PROVE  {MemView(i) : i \in {j \in issued : j.settled}} = Views(MemCommitted, issued)
  <2>1. \A i \in issued : i.settled => MemView(i) = [shows |-> Shown(MemCommitted, i), content |-> i.content]
    BY <1>1, Zenon DEF IssuedInv, MemView, Shown
  <2> QED BY <2>1 DEF Views
<1>2. ASSUME IssuedInv'
      PROVE  ({MemView(i) : i \in {j \in issued : j.settled}})' = Views(MemCommitted', issued')
  <2>1. \A i \in issued' : i.settled => MemView(i)' = [shows |-> Shown(MemCommitted', i), content |-> i.content]
    BY <1>2, Zenon DEF IssuedInv, MemView, Shown
  <2> QED BY <2>1 DEF Views
<1> QED BY <1>1, <1>2, Zenon

\* Views of revisions in order are sound.
LEMMA ViewsAreSound ==
    ASSUME NEW C, NEW I, SameWhenShown(C, I)
    PROVE  MemStore!Sound(C, Views(C, I))
BY DEF MemStore!Sound, Views, Shown, SameWhenShown

\* A step commits nothing or one transaction, hands out nothing or one revision, and
\* the revision shows the transaction.
LEMMA StoreSteps ==
    ASSUME MemInv, MemAssumption, [MemNext]_memVars
    PROVE  /\ MemCommitted \subseteq MemCommitted'
           /\ Views(MemCommitted, issued) \subseteq Views(MemCommitted', issued')
           /\ \A v, u \in Views(MemCommitted', issued') \ Views(MemCommitted, issued) : v = u
           /\ \A v \in Views(MemCommitted', issued') \ Views(MemCommitted, issued) :
                  MemCommitted' \ MemCommitted \subseteq v.shows
<1> USE DEF storeVars, txnVars
<1>0. StoreTypes /\ RevisionsInv /\ ActiveInv /\ issued \subseteq Revisions
  BY Zenon DEF MemInv, StoreTypes, Revisions
<1> DEFINE Goal == /\ MemCommitted \subseteq MemCommitted'
                   /\ Views(MemCommitted, issued) \subseteq Views(MemCommitted', issued')
                   /\ \A v, u \in Views(MemCommitted', issued') \ Views(MemCommitted, issued) : v = u
                   /\ \A v \in Views(MemCommitted', issued') \ Views(MemCommitted, issued) :
                          MemCommitted' \ MemCommitted \subseteq v.shows
<1>1. ASSUME UNCHANGED <<changelog, issued>> PROVE Goal
  <2>1. MemCommitted' = MemCommitted
    BY <1>1, Zenon DEF MemCommitted
  <2> QED BY <1>1, <2>1, Zenon
<1>2. ASSUME NEW t \in Nat, Handed(t) PROVE Goal
  <2>1. MemCommitted' = MemCommitted
    BY <1>2, Zenon DEF Handed, MemCommitted
  <2>2. PICK n \in Revisions : issued' = issued \cup {n}
    BY <1>0, <1>2, HandIs, Zenon DEF Handed
  <2>3. Views(MemCommitted', issued') \subseteq
            Views(MemCommitted, issued) \cup {[shows |-> Shown(MemCommitted, n), content |-> n.content]}
    BY <2>1, <2>2, Zenon DEF Views
  <2>4. Views(MemCommitted, issued) \subseteq Views(MemCommitted', issued')
    BY <2>1, <2>2, Zenon DEF Views
  <2> QED BY <2>1, <2>3, <2>4, Zenon
<1>3. ASSUME NEW w \in Writers, CommitTx(w) PROVE Goal
  <2>1. activeWriteTxn = w /\ w # NoWriter
    BY <1>0, <1>3, MemAssumption, Zenon DEF CommitTx, ActiveInv, MemAssumption
  <2>2. \A i \in issued : i.settled => i.rev < newRevision
    BY <1>0, <2>1, Zenon DEF ActiveInv
  <2>3. MemCommitted' = MemCommitted \cup {newRevision} /\ newRevision \in Nat
    BY <1>0, <1>3, CommitAdds, Zenon DEF StoreTypes
  <2>4. \A i \in issued : i.settled => Shown(MemCommitted', i) = Shown(MemCommitted, i)
    <3>1. \A i \in issued : i.rev \in Nat
      BY <1>0, Zenon DEF Revisions
    <3> QED BY <2>2, <2>3, <3>1 DEF Shown
  <2>5. issued' = issued \/ issued' = issued \cup {CommitRevision}
    BY <1>3, Zenon DEF CommitTx
  <2> DEFINE new == [shows |-> Shown(MemCommitted', CommitRevision), content |-> CommitRevision.content]
  <2>6. Views(MemCommitted, issued) \subseteq Views(MemCommitted', issued')
    BY <2>4, <2>5, Zenon DEF Views
  <2>7. Views(MemCommitted', issued') \subseteq Views(MemCommitted, issued) \cup {new}
    BY <2>4, <2>5, Zenon DEF Views
  <2>8. newRevision \in new.shows
    BY <2>3 DEF Shown, CommitRevision
  <2> HIDE DEF new
  <2> QED BY <2>3, <2>6, <2>7, <2>8, Zenon
<1>4. ASSUME \/ \E w \in Writers : TxSrc(w) \/ AbortTx(w)
             \/ \E w, O, v : Change(w, O, v)
             \/ UNCHANGED <<now, storeVars, txnVars, issued>>
             \/ Close \/ Tick \/ Quiet
      PROVE  UNCHANGED <<changelog, issued>>
  BY <1>4, Zenon DEF TxSrc, AbortTx, Change, Close, Tick, Quiet
<1>5. ~closed => head \in Nat /\ optimized \in Nat
  BY <1>0, HeadIs, OptimizedIs, Zenon
<1>6. \A t : Handed(t) => ~closed
  BY DEF Handed
<1> HIDE DEF storeVars, txnVars, Goal
<1>7. Goal
  BY <1>1, <1>2, <1>3, <1>4, <1>5, <1>6, StepHasKind, Zenon
<1> QED BY <1>7, Zenon DEF Goal

\* The in-memory datastore keeps what pkg/datastore/datastore.go promises of the
\* revisions that ReadWriteTx and HeadRevision return: a transaction commits once, its
\* revision shows it, and revisions that show the same transactions read the same, for
\* good.
THEOREM MemDBImplementsStore == MemSpec => MemImplementsStore
<1>1. MemInit => MemStore!StoreInit
  BY Zenon DEF MemInit, MemStore!StoreInit
<1>2. MemInv /\ MemInv' /\ [MemNext]_memVars => [MemStore!StoreNext]_(MemStore!storeVars)
  <2> SUFFICES ASSUME MemInv, MemInv', [MemNext]_memVars
               PROVE  [MemStore!StoreNext]_(MemStore!storeVars)
    OBVIOUS
  <2> DEFINE V == {MemView(i) : i \in {j \in issued : j.settled}}
  <2>1. V = Views(MemCommitted, issued) /\ V' = Views(MemCommitted', issued')
    BY ViewsAre, Zenon DEF MemInv
  <2>2. SameWhenShown(MemCommitted', issued')
    BY IssuedIs, Zenon DEF MemInv
  <2>3. MemStore!Sound(MemCommitted', V')
    BY <2>1, <2>2, ViewsAreSound, Zenon
  <2>4. /\ MemCommitted \subseteq MemCommitted' /\ V \subseteq V'
        /\ \A v, u \in V' \ V : v = u
        /\ \A v \in V' \ V : MemCommitted' \ MemCommitted \subseteq v.shows
    BY <2>1, StoreSteps, MemAssumption, Zenon
  <2>5. CASE MemCommitted' = MemCommitted /\ V' = V
    BY <2>5, Zenon DEF MemStore!storeVars
  <2>6. CASE ~(MemCommitted' = MemCommitted /\ V' = V)
    <3>1. MemCommitted' \ MemCommitted # {} \/ V' \ V # {}
      BY <2>4, <2>6, Zenon
    <3>2. MemStore!StoreStep(MemCommitted' \ MemCommitted, V' \ V)
      BY <2>4, <3>1, Zenon DEF MemStore!StoreStep
    <3> QED BY <2>3, <2>4, <3>2, Zenon DEF MemStore!StoreNext
  <2> QED BY <2>5, <2>6, Zenon
<1> QED BY <1>1, <1>2, MemDBInvariant, PTL DEF MemSpec, MemImplementsStore, MemStore!StoreSpec
=============================================================================
