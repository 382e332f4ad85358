------------------------- MODULE PgDatastoreSteps -------------------------
(***************************************************************************)
(* What the comparison and the edits of pgSnapshot mean for every          *)
(* well-formed snapshot; the steps of PgDatastore by kind, for every       *)
(* number of writers, relationships, transactions, retries and ticks, and  *)
(* their effect on types, transaction ids and snapshots.                   *)
(***************************************************************************)
EXTENDS PgDatastore, FiniteSetTheorems, WellFoundedInduction, TLAPS

(***************************************************************************)
(* pgSnapshot: compare decides inclusion of the visible sets, markComplete *)
(* and markInProgress add and remove exactly one transaction, and the      *)
(* strict-read guard implies that the replica is missing nothing.          *)
(***************************************************************************)

\* A non-empty set of naturals has a least element, and Least picks it.
LEMMA LeastProperties ==
    ASSUME NEW S \in SUBSET Nat, S # {}
    PROVE  /\ Least(S) \in S
           /\ \A y \in S : Least(S) <= y
<1> DEFINE R == {ss \in Nat \X Nat : ss[1] < ss[2]}
<1>1. IsWellFoundedOn(R, Nat)
  BY NatLessThanWellFounded, Zenon DEF OpToRel
<1>2. PICK x \in S : \A y \in S : ~(<<y, x>> \in R)
  <2> HIDE DEF R
  <2> QED BY <1>1, WFMin, Zenon
<1>3. ASSUME NEW y \in S
      PROVE  x <= y
  <2>1. ~(<<y, x>> \in R)
    BY <1>2, Zenon
  <2>2. ~(y < x)
    BY <2>1, <<y, x>> \in Nat \X Nat, Zenon
  <2>3. QED
    BY <2>2
<1>4. QED
  BY <1>3, Zenon DEF Least

\* The second test of otherHasMoreInfo counts: fewer in-progress ids than ids in
\* the range means that some id of the range is not in progress.
LEMMA CountInRange ==
    ASSUME NEW a \in Nat, NEW b \in Nat, a < b, NEW X \in SUBSET Nat
    PROVE  (Cardinality(X \cap (a .. (b - 1))) < b - a)
              <=> \E x \in a .. (b - 1) : x \notin X
<1> DEFINE I == a .. (b - 1)
<1>1. IsFiniteSet(I) /\ Cardinality(I) = b - a
  BY FS_Interval
<1>2. X \cap I \in SUBSET I
  OBVIOUS
<1> HIDE DEF I
<1>3. /\ Cardinality(X \cap I) \in Nat
      /\ Cardinality(X \cap I) <= Cardinality(I)
      /\ Cardinality(I) = Cardinality(X \cap I) => I = X \cap I
  BY <1>1, <1>2, FS_Subset, FS_CardinalityType, Zenon
<1>4. ASSUME NEW x \in I, x \notin X
      PROVE  Cardinality(X \cap I) < b - a
  BY <1>1, <1>3, <1>4
<1>5. ASSUME \A x \in I : x \in X
      PROVE  ~(Cardinality(X \cap I) < b - a)
  <2>1. X \cap I = I
    BY <1>5, Zenon
  <2>2. Cardinality(X \cap I) = b - a
    BY <2>1, <1>1, Zenon
  <2>3. QED
    BY <2>2, SMT
<1>6. QED
  BY <1>4, <1>5, Zenon DEF I

\* otherHasMoreInfo decides whether the other snapshot sees a settled
\* transaction that this one does not see (snapshot.go, otherHasMoreInfo).
THEOREM MoreInfoIsVisibility ==
    ASSUME NEW s, WellFormed(s), NEW o, WellFormed(o)
    PROVE  otherHasMoreInfo(s, o)
              <=> \E x \in Nat : txVisible(o, x) /\ ~txVisible(s, x)
<1>1. CASE o.xmax > s.xmax
  <2>1. (Cardinality(o.xip \cap (s.xmax .. (o.xmax - 1))) < o.xmax - s.xmax)
           <=> \E x \in s.xmax .. (o.xmax - 1) : x \notin o.xip
    BY <1>1, CountInRange, Zenon DEF WellFormed, Snapshot
  <2>2. otherHasMoreInfo(s, o)
           <=> \/ \E x \in s.xip : txVisible(o, x)
               \/ \E x \in s.xmax .. (o.xmax - 1) : x \notin o.xip
    BY <1>1, <2>1, Zenon DEF otherHasMoreInfo
  <2>3. QED
    BY <2>2, <1>1 DEF txVisible, WellFormed, Snapshot
<1>2. CASE ~(o.xmax > s.xmax)
  BY <1>2 DEF otherHasMoreInfo, txVisible, WellFormed, Snapshot
<1>3. QED
  BY <1>1, <1>2, Zenon

\* GreaterThan, LessThan and Equal of two revisions are strict inclusion, its
\* converse and equality of the sets of settled transactions, for all
\* snapshots (snapshot.go, compare); a token that compares lower never shows
\* a transaction that a higher one hides.
THEOREM CompareDecidesInclusion ==
    ASSUME NEW s, WellFormed(s), NEW t, WellFormed(t)
    PROVE  /\ compare(s, t) = "equal"
                <=> \A x \in Nat : txVisible(s, x) <=> txVisible(t, x)
           /\ compare(s, t) = "lt"
                <=> /\ \A x \in Nat : txVisible(s, x) => txVisible(t, x)
                    /\ \E x \in Nat : txVisible(t, x) /\ ~txVisible(s, x)
           /\ compare(s, t) = "gt"
                <=> /\ \A x \in Nat : txVisible(t, x) => txVisible(s, x)
                    /\ \E x \in Nat : txVisible(s, x) /\ ~txVisible(t, x)
<1> DEFINE R == otherHasMoreInfo(s, t)
           L == otherHasMoreInfo(t, s)
<1>1. R <=> \E x \in Nat : txVisible(t, x) /\ ~txVisible(s, x)
  BY MoreInfoIsVisibility, Zenon
<1>2. L <=> \E x \in Nat : txVisible(s, x) /\ ~txVisible(t, x)
  BY MoreInfoIsVisibility, Zenon
<1>3. /\ compare(s, t) = "equal" <=> ~R /\ ~L
      /\ compare(s, t) = "lt" <=> R /\ ~L
      /\ compare(s, t) = "gt" <=> ~R /\ L
  BY Zenon DEF compare
<1> HIDE DEF R, L
<1>4. QED
  BY <1>1, <1>2, <1>3, Zenon

\* A snapshot record built from its three parts.
LEMMA SnapshotRecord ==
    ASSUME NEW a \in Nat, NEW b \in Nat, NEW X \in SUBSET Nat, a <= b,
           \A x \in X : a <= x /\ x < b
    PROVE  /\ WellFormed([xmin |-> a, xmax |-> b, xip |-> X])
           /\ \A x \in Nat : txVisible([xmin |-> a, xmax |-> b, xip |-> X], x)
                                 <=> (x < b /\ x \notin X)
BY DEF WellFormed, Snapshot, txVisible

\* markComplete settles exactly the given transaction: everything else keeps
\* its disposition, ids between the old xmax and txid stay unsettled, and the
\* result is a well-formed snapshot (snapshot.go, markComplete).
THEOREM MarkCompleteAddsOne ==
    ASSUME NEW s, WellFormed(s), NEW txid \in Nat
    PROVE  /\ WellFormed(markComplete(s, txid))
           /\ \A x \in Nat : txVisible(markComplete(s, txid), x)
                                 <=> (txVisible(s, x) \/ x = txid)
<1>1. CASE txid < s.xmin
  BY <1>1, Zenon DEF markComplete, txVisible, WellFormed, Snapshot
<1>2. CASE ~(txid < s.xmin)
  <2> DEFINE xmax == IF txid >= s.xmax THEN txid + 1 ELSE s.xmax
             xip  == (s.xip \cup (s.xmax .. txid)) \ {txid}
             xmin == IF xip # {} THEN Least(xip) ELSE xmax
  <2>1. markComplete(s, txid) = [xmin |-> xmin, xmax |-> xmax, xip |-> xip]
    BY <1>2, Zenon DEF markComplete
  <2>2. /\ s.xmin \in Nat /\ s.xmax \in Nat /\ s.xip \in SUBSET Nat
        /\ s.xmin <= s.xmax
        /\ \A x \in s.xip : s.xmin <= x /\ x < s.xmax
    BY Zenon DEF WellFormed, Snapshot
  <2>3. /\ xmax \in Nat /\ xmax >= s.xmax
        /\ xip \in SUBSET Nat
        /\ \A x \in xip : x < xmax /\ s.xmin <= x
    BY <2>2, <1>2
  <2>4. /\ xmin \in Nat /\ xmin <= xmax
        /\ \A x \in xip : xmin <= x
    <3> HIDE DEF xip, xmax
    <3>1. CASE xip # {}
      <4>1. Least(xip) \in xip /\ \A y \in xip : Least(xip) <= y
        BY <3>1, <2>3, LeastProperties, Zenon
      <4>2. xmin = Least(xip)
        BY <3>1, Zenon
      <4> HIDE DEF xmin
      <4>3. xmin \in xip /\ \A y \in xip : xmin <= y
        BY <4>1, <4>2, Zenon
      <4>4. xmin \in Nat /\ xmin < xmax
        BY <4>3, <2>3, Zenon
      <4>5. QED
        BY <4>3, <4>4, <2>3
    <3>2. CASE xip = {}
      BY <3>2, <2>3
    <3>3. QED
      BY <3>1, <3>2, Zenon
  <2>5. /\ WellFormed(markComplete(s, txid))
        /\ \A x \in Nat : txVisible(markComplete(s, txid), x)
                              <=> (x < xmax /\ x \notin xip)
    <3> HIDE DEF xip, xmax, xmin
    <3> QED BY <2>1, <2>3, <2>4, SnapshotRecord
  <2>6. ASSUME NEW x \in Nat
        PROVE  (x < xmax /\ x \notin xip) <=> (txVisible(s, x) \/ x = txid)
    BY <2>2, <1>2 DEF txVisible
  <2>7. QED
    <3> HIDE DEF xip, xmax, xmin
    <3> QED BY <2>5, <2>6, Zenon
<1>3. QED
  BY <1>1, <1>2, Zenon

\* markInProgress unsettles exactly the given transaction and yields a
\* well-formed snapshot (snapshot.go, markInProgress): dropping the trailing
\* run of in-progress ids together with xmax changes nothing a reader sees.
THEOREM MarkInProgressRemovesOne ==
    ASSUME NEW s, WellFormed(s), NEW txid \in Nat
    PROVE  /\ WellFormed(markInProgress(s, txid))
           /\ \A x \in Nat : txVisible(markInProgress(s, txid), x)
                                 <=> (txVisible(s, x) /\ x # txid)
<1>0. /\ s.xmin \in Nat /\ s.xmax \in Nat /\ s.xip \in SUBSET Nat
      /\ s.xmin <= s.xmax
      /\ \A x \in s.xip : s.xmin <= x /\ x < s.xmax
  BY DEF WellFormed, Snapshot
<1>1. CASE txid >= s.xmax
  BY <1>0, <1>1 DEF markInProgress, txVisible
<1>2. CASE ~(txid >= s.xmax)
  <2> DEFINE all  == s.xip \cup {txid}
             run  == InProgressRun(all, s.xmax)
             xmin == IF txid < s.xmin THEN txid ELSE s.xmin
             xmax == IF run # {} THEN Least(run) ELSE s.xmax
             xip  == all \ run
  <2>1. markInProgress(s, txid) = [xmin |-> xmin, xmax |-> xmax, xip |-> xip]
    BY <1>2, Zenon DEF markInProgress
  <2>2. /\ all \in SUBSET Nat
        /\ xmin \in Nat
        /\ \A x \in all : xmin <= x /\ x < s.xmax
        /\ xmin <= s.xmax
    BY <1>0, <1>2
  <2>3. /\ run \in SUBSET all
        /\ \A y \in run : \A z \in Nat : y <= z /\ z < s.xmax => z \in all
        /\ \A y \in all : (\A z \in Nat : y <= z /\ z < s.xmax => z \in all)
                            => y \in run
    <3> HIDE DEF all, xmin
    <3>1. run = {y \in all : (y .. (s.xmax - 1)) \subseteq all}
      BY Zenon DEF InProgressRun
    <3>2. ASSUME NEW y \in all
          PROVE  (y .. (s.xmax - 1)) \subseteq all
                     <=> \A z \in Nat : y <= z /\ z < s.xmax => z \in all
      <4>1. y \in Nat /\ s.xmax \in Nat
        BY <1>0, <2>2, Zenon
      <4>2. \A z : z \in y .. (s.xmax - 1) <=> z \in Nat /\ y <= z /\ z < s.xmax
        BY <4>1
      <4> QED BY <4>2, Zenon
    <3> HIDE DEF run
    <3> QED BY <3>1, <3>2, Zenon
  <2>4. /\ xmax \in Nat /\ xmax <= s.xmax /\ xmin <= xmax
        /\ \A z \in Nat : xmax <= z /\ z < s.xmax => z \in run
        /\ \A y \in run : xmax <= y
    <3> HIDE DEF all, run, xmin
    <3>1. CASE run # {}
      <4>1. Least(run) \in run /\ \A y \in run : Least(run) <= y
        <5>1. run \in SUBSET Nat
          BY <2>2, <2>3, Zenon
        <5>2. QED
          BY <5>1, <3>1, LeastProperties, Zenon
      <4>2. xmax = Least(run)
        BY <3>1, Zenon
      <4> HIDE DEF xmax
      <4>3. xmax \in all /\ xmax \in Nat
        BY <4>1, <4>2, <2>2, <2>3, Zenon
      <4>4. ASSUME NEW z \in Nat, xmax <= z, z < s.xmax
            PROVE  z \in run
        <5>1. \A u \in Nat : z <= u /\ u < s.xmax => u \in all
          BY <4>1, <4>2, <4>3, <4>4, <2>3, <1>0
        <5>2. z \in all
          BY <5>1, <4>4
        <5>3. QED
          BY <5>1, <5>2, <2>3, Zenon
      <4>5. QED
        BY <4>1, <4>2, <4>3, <4>4, <2>2, <1>0
    <3>2. CASE run = {}
      BY <3>2, <2>2, <1>0
    <3>3. QED
      BY <3>1, <3>2, Zenon
  <2>5. /\ xip \in SUBSET Nat
        /\ \A x \in xip : xmin <= x /\ x < xmax
    <3> HIDE DEF all, run, xmin, xmax
    <3> QED BY <2>2, <2>3, <2>4
  <2>6. /\ WellFormed(markInProgress(s, txid))
        /\ \A x \in Nat : txVisible(markInProgress(s, txid), x)
                              <=> (x < xmax /\ x \notin xip)
    <3> HIDE DEF xip, xmax, xmin
    <3> QED BY <2>1, <2>2, <2>4, <2>5, SnapshotRecord
  <2>7. ASSUME NEW x \in Nat
        PROVE  (x < xmax /\ x \notin xip) <=> (x < s.xmax /\ x \notin all)
    <3>1. x \in xip <=> x \in all /\ x \notin run
      OBVIOUS
    <3> HIDE DEF all, run, xmin, xmax, xip
    <3> QED BY <3>1, <2>2, <2>3, <2>4, <1>0
  <2>8. ASSUME NEW x \in Nat
        PROVE  (x < s.xmax /\ x \notin all) <=> (txVisible(s, x) /\ x # txid)
    BY <1>0, <1>2 DEF txVisible
  <2>9. QED
    <3> HIDE DEF all, run, xmin, xmax, xip
    <3> QED BY <2>6, <2>7, <2>8, Zenon
<1>3. QED
  BY <1>1, <1>2, Zenon

\* When the strict-read guard of strictreader.go lets a query through, every
\* transaction the requested revision sees is settled on the replica too, so
\* no row of the revision can be missing from the result.
THEOREM ReplicaGuardIsSound ==
    ASSUME NEW replica, WellFormed(replica), NEW s, WellFormed(s),
           replicaContainsRevision(replica, s)
    PROVE  \A x \in Nat : txVisible(s, x) => txVisible(replica, x)
BY DEF replicaContainsRevision, txVisible, WellFormed, Snapshot

(***************************************************************************)
(* Snapshots in use                                                        *)
(***************************************************************************)

\* A snapshot shows only ids of a set exactly when each id it shows is there.
LEMMA VisibleIsPointwise ==
    ASSUME NEW s, WellFormed(s), NEW S
    PROVE  Visible(s) \subseteq S <=> \A x \in Nat : txVisible(s, x) => x \in S
BY DEF Visible, txVisible, WellFormed, Snapshot

\* pg_current_snapshot() shows exactly the settled ids.
LEMMA CurrentSnapshotIsSettled ==
    ASSUME TypeOK, IdsInv
    PROVE  /\ WellFormed(CurrentSnapshot)
           /\ \A x \in Nat : txVisible(CurrentSnapshot, x) <=> x \in settled
           /\ ShowsSettled(CurrentSnapshot)
<1> DEFINE xip == {x \in 0 .. latest : x \notin settled}
           xmin == IF xip = {} THEN latest + 1 ELSE Least(xip)
<1>1. latest \in Nat /\ settled \in SUBSET Nat /\ latest \in settled
      /\ \A x \in settled : x <= latest
  BY PgAssumption DEF TypeOK, IdsInv, Xids
<1>2. xip \in SUBSET Nat /\ \A x \in xip : x <= latest
  BY <1>1
<1>3. xip # {} => Least(xip) \in xip /\ \A y \in xip : Least(xip) <= y
  <2> HIDE DEF xip
  <2> QED BY <1>2, LeastProperties, Zenon
<1>4. /\ xmin \in Nat /\ xmin <= latest + 1
      /\ \A x \in xip : xmin <= x /\ x < latest + 1
  <2>1. CASE xip = {}
    BY <1>1, <2>1
  <2>2. CASE xip # {}
    <3>1. xmin = Least(xip) /\ Least(xip) \in xip /\ \A y \in xip : Least(xip) <= y
      BY <1>3, <2>2, Zenon
    <3>2. PICK m : m = xmin
      OBVIOUS
    <3>3. m \in xip /\ \A y \in xip : m <= y
      BY <3>1, <3>2, Zenon
    <3> HIDE DEF xip, xmin
    <3>4. m \in Nat /\ m <= latest + 1 /\ \A x \in xip : x < latest + 1
      BY <1>1, <1>2, <3>3
    <3> QED BY <3>2, <3>3, <3>4, Zenon
  <2> QED BY <2>1, <2>2, Zenon
<1>5. CurrentSnapshot = [xmin |-> xmin, xmax |-> latest + 1, xip |-> xip]
  BY Zenon DEF CurrentSnapshot
<1>6. /\ WellFormed(CurrentSnapshot)
      /\ \A x \in Nat : txVisible(CurrentSnapshot, x) <=> (x < latest + 1 /\ x \notin xip)
  <2> HIDE DEF xip, xmin
  <2>1. latest + 1 \in Nat
    BY <1>1
  <2> QED BY <1>2, <1>4, <1>5, <2>1, SnapshotRecord
<1>7. \A x \in Nat : (x < latest + 1 /\ x \notin xip) <=> x \in settled
  BY <1>1
<1>8. \A x \in Nat : txVisible(CurrentSnapshot, x) <=> x \in settled
  BY <1>6, <1>7, Zenon
<1> QED BY <1>6, <1>8, VisibleIsPointwise, Zenon DEF ShowsSettled

\* Marking a settled id complete shows nothing unsettled.
LEMMA MarkCompleteShowsSettled ==
    ASSUME NEW s, NEW x \in Nat, NEW S, WellFormed(s), Visible(s) \subseteq S
    PROVE  /\ WellFormed(markComplete(s, x))
           /\ Visible(markComplete(s, x)) \subseteq S \cup {x}
<1>1. /\ WellFormed(markComplete(s, x))
      /\ \A y \in Nat : txVisible(markComplete(s, x), y) <=> (txVisible(s, y) \/ y = x)
  BY MarkCompleteAddsOne, Zenon
<1>2. \A y \in Nat : txVisible(s, y) => y \in S
  BY VisibleIsPointwise, Zenon
<1>3. \A y \in Nat : txVisible(markComplete(s, x), y) => y \in S \cup {x}
  BY <1>1, <1>2, Zenon
<1> QED BY <1>1, <1>3, VisibleIsPointwise, Zenon

(***************************************************************************)
(* The kinds of step                                                       *)
(***************************************************************************)

\* A statement that deletes rows D of key k and inserts rows I of it.
GoodWrite(w, k, D, I) ==
    /\ Write(w, k, D, I)
    /\ k \in AllKeys
    /\ D \subseteq LivingObjects(rows) /\ \A r \in D : r.key = k
    /\ \E v \in Vals : I \subseteq {NewRow(w, k, v)}
    /\ I # {} => \A r \in LivingObjects(rows) : r.key = k => r \in D
    /\ k = SchemaKey => I # {} /\ \A o \in Writers \ {w} : lock[o] = "none"

CommitStep(w) ==
    /\ pc[w] = "open" /\ CommitRows(w)
    /\ EndTx(w, "done") \/ EndTx(w, "failed")
    /\ tokens' = tokens \/ tokens' = tokens \cup {NewRevision(w)}
    /\ UNCHANGED <<nextXid, clock, attempts>>

RollbackStep(w) ==
    \/ /\ Rollback(w, "failed")
       /\ attempts' = attempts \/ attempts' = [attempts EXCEPT ![w] = @ + 1]
    \/ /\ Rollback(w, "idle") /\ attempts[w] < MaxRetries
       /\ attempts' = [attempts EXCEPT ![w] = @ + 1]

ReadStep ==
    /\ \E s : ShowsSettled(s) /\ tokens' = tokens \cup {s}
    /\ UNCHANGED <<pgVars, clock, txVars>>

CallStep(w) ==
    \/ BeginTx(w) \/ TakeSnapshot(w) \/ AssignXid(w)
    \/ \E k, D, I : GoodWrite(w, k, D, I)
    \/ \E mode \in {"share", "exclusive"} : assertSchemaHash(w, mode)
    \/ CommitStep(w) \/ RollbackStep(w) \/ EarlyError(w)

\* Every WriteRelationships and WriteStoredSchema is such a statement.
LEMMA WritesAreGood ==
    ASSUME Inv, NEW w \in Writers,
           \/ \E k \in Keys, v \in Vals : WriteCreate(w, k, v) \/ WriteTouch(w, k, v)
           \/ \E k \in Keys : WriteDelete(w, k)
           \/ \E v \in Vals : WriteStoredSchema(w, v)
    PROVE  \E k, D, I : GoodWrite(w, k, D, I)
<1>1. ASSUME NEW k \in Keys, NEW v \in Vals, WriteCreate(w, k, v)
      PROVE  GoodWrite(w, k, {}, {NewRow(w, k, v)})
  BY <1>1, PgAssumption, Zenon DEF GoodWrite, WriteCreate, AllKeys
<1>2. ASSUME NEW k \in Keys, NEW v \in Vals, WriteTouch(w, k, v)
      PROVE  \E D, I : GoodWrite(w, k, D, I)
  <2> DEFINE living  == {r \in LivingObjects(rows) : r.key = k}
             changed == {r \in living : r.val # v}
  <2>1. CASE living = {}
    <3>1. GoodWrite(w, k, {}, {NewRow(w, k, v)})
      BY <1>2, <2>1, PgAssumption, Zenon DEF GoodWrite, WriteTouch, AllKeys
    <3> QED BY <3>1, Zenon
  <2>2. CASE living # {} /\ changed = {}
    <3>1. Write(w, k, {}, {})
      BY <1>2, <2>2, Zenon DEF WriteTouch
    <3>2. GoodWrite(w, k, {}, {})
      BY <3>1, PgAssumption, Zenon DEF GoodWrite, AllKeys
    <3> QED BY <3>2, Zenon
  <2>3. CASE living # {} /\ changed # {}
    <3>1. Write(w, k, changed, {NewRow(w, k, v)})
      BY <1>2, <2>3, Zenon DEF WriteTouch
    <3>2. \A r \in LivingObjects(rows) : r.key = k => r \in changed
      BY <2>3, Zenon DEF Inv, ReplacesInv, OneLivingRow
    <3>3. GoodWrite(w, k, changed, {NewRow(w, k, v)})
      BY <3>1, <3>2, PgAssumption, Zenon DEF GoodWrite, AllKeys
    <3> QED BY <3>3, Zenon
  <2> QED BY <2>1, <2>2, <2>3, Zenon
<1>3. ASSUME NEW k \in Keys, WriteDelete(w, k)
      PROVE  GoodWrite(w, k, SeenLiving(w, k), {})
  <2>1. Vals # {}
    BY Zenon DEF Inv, SchemaInv, TypeOK, Row, LivingObjects
  <2> QED BY <1>3, <2>1, PgAssumption, Zenon DEF GoodWrite, WriteDelete, CanDelete, SeenLiving, AllKeys
<1>4. ASSUME NEW v \in Vals, WriteStoredSchema(w, v)
      PROVE  GoodWrite(w, SchemaKey, SeenLiving(w, SchemaKey), {NewRow(w, SchemaKey, v)})
  <2>1. Write(w, SchemaKey, SeenLiving(w, SchemaKey), {NewRow(w, SchemaKey, v)})
        /\ SeenLiving(w, SchemaKey) \subseteq LivingObjects(rows)
        /\ pc[w] = "open"
    BY <1>4, Zenon DEF WriteStoredSchema, CanDelete, Write
  <2>2. \A o \in Writers \ {w} : lock[o] = "none"
    BY <1>4, Zenon DEF WriteStoredSchema, LockWaits, Inv, TypeOK
  <2>3. \A r \in SeenLiving(w, SchemaKey) : r.key = SchemaKey
    BY Zenon DEF SeenLiving
  <2>4. SeenLiving(w, SchemaKey) # {}
    BY <2>1, Zenon DEF Inv, SchemaInv
  <2>5. \A r \in LivingObjects(rows) : r.key = SchemaKey => r \in SeenLiving(w, SchemaKey)
    <3>1. PICK q \in SeenLiving(w, SchemaKey) : TRUE
      BY <2>4, Zenon
    <3>2. q \in LivingObjects(rows) /\ q.key = SchemaKey
      BY <2>1, <2>3, <3>1, Zenon
    <3>3. OneLivingRow
      BY Zenon DEF Inv, ReplacesInv
    <3> QED BY <3>1, <3>2, <3>3, Zenon DEF OneLivingRow
  <2> QED BY <2>1, <2>2, <2>3, <2>5, Zenon DEF GoodWrite, AllKeys
<1> QED BY <1>1, <1>2, <1>3, <1>4, Zenon

KindOfStep ==
    \/ \E w \in Writers : CallStep(w)
    \/ ReadStep \/ Heartbeat \/ Tick \/ UNCHANGED dsVars

\* Revisions that HeadRevision and OptimizedRevision return show settled ids only.
LEMMA ReadsShowSettled ==
    ASSUME Inv, HeadRevision \/ optimizedRevisionFunc
    PROVE  ReadStep
<1>1. ShowsSettled(CurrentSnapshot)
  BY CurrentSnapshotIsSettled, Zenon DEF Inv
<1>2. ASSUME NEW t \in txTable
      PROVE  ShowsSettled(markComplete(t.snapshot, t.xid))
  <2>1. t.xid \in Nat /\ t.xid \in settled /\ ShowsSettled(t.snapshot)
    BY <1>2 DEF Inv, TypeOK, TxRow, Xids, ShownInv
  <2>2. settled \cup {t.xid} = settled
    BY <2>1, Zenon
  <2> QED BY <2>1, <2>2, MarkCompleteShowsSettled, Zenon DEF ShowsSettled
<1>3. CASE HeadRevision
  BY <1>1, <1>3, Zenon DEF HeadRevision, ReadStep
<1>4. CASE optimizedRevisionFunc
  <2>1. PICK s \in OptimizedCandidates : tokens' = tokens \cup {s}
    BY <1>4, Zenon DEF optimizedRevisionFunc
  <2>2. \A t \in SelectedTxs : t \in txTable
    BY Zenon DEF SelectedTxs
  <2>3. ShowsSettled(s)
    BY <1>1, <1>2, <2>1, <2>2, Zenon DEF OptimizedCandidates
  <2> QED BY <1>4, <2>1, <2>3, Zenon DEF optimizedRevisionFunc, ReadStep
<1> QED BY <1>3, <1>4, Zenon

\* Every step of a call of ReadWriteTx is of one of these kinds.
LEMMA CallHasKind ==
    ASSUME Inv, NEW w \in Writers, WriterStep(w)
    PROVE  CallStep(w)
<1>1. CASE \/ \E k \in Keys, v \in Vals : WriteCreate(w, k, v) \/ WriteTouch(w, k, v)
           \/ \E k \in Keys : WriteDelete(w, k)
           \/ \E v \in Vals : WriteStoredSchema(w, v)
  BY <1>1, WritesAreGood, Zenon DEF CallStep
<1>2. CASE Commit(w) \/ CommitUnacknowledged(w)
  BY <1>2, Zenon DEF Commit, CommitUnacknowledged, CommitStep, CallStep
<1>3. CASE SerializationError(w)
  <2>1. CASE attempts[w] < MaxRetries
    BY <1>3, <2>1, Zenon DEF SerializationError, RollbackStep, CallStep
  <2>2. CASE ~(attempts[w] < MaxRetries)
    BY <1>3, <2>2, Zenon DEF SerializationError, RollbackStep, CallStep
  <2> QED BY <2>1, <2>2, Zenon
<1>4. CASE FinalError(w)
  BY <1>4, Zenon DEF FinalError, RollbackStep, CallStep
<1>5. CASE BeginTx(w) \/ TakeSnapshot(w) \/ AssignXid(w) \/ EarlyError(w)
  BY <1>5, Zenon DEF CallStep
<1>6. CASE \E mode \in {"share", "exclusive"} : assertSchemaHash(w, mode)
  BY <1>6, Zenon DEF CallStep
<1> QED BY <1>1, <1>2, <1>3, <1>4, <1>5, <1>6, Zenon DEF WriterStep

\* Every step of the datastore is of one of these kinds.
LEMMA StepHasKind ==
    ASSUME Inv, [DatastoreNext]_dsVars
    PROVE  KindOfStep
<1>1. CASE HeadRevision \/ optimizedRevisionFunc
  BY <1>1, ReadsShowSettled, Zenon DEF KindOfStep
<1>2. CASE UNCHANGED dsVars
  BY <1>2, Zenon DEF KindOfStep
<1> QED BY <1>1, <1>2, CallHasKind, Zenon DEF DatastoreNext, KindOfStep

(***************************************************************************)
(* Each conjunct of the invariant is preserved.                            *)
(***************************************************************************)

\* Type correctness of one step.
LEMMA TypeStep ==
    ASSUME Inv, KindOfStep
    PROVE  TypeOK'
<1> USE PgAssumption DEF Inv
<1>1. TypeOK /\ NoSnapshot \in Snapshot
  BY Zenon DEF NoSnapshot, Snapshot
<1>2. ASSUME NEW w \in Writers, NEW outcome \in {"idle", "done", "failed"}, EndTx(w, outcome)
      PROVE  /\ pc' \in [Writers -> {"idle", "begun", "snapped", "open", "done", "failed"}]
             /\ startTs' \in [Writers -> 0 .. MaxClock]
             /\ snapshot' \in [Writers -> Snapshot]
             /\ xid' \in [Writers -> Xids]
             /\ ins' \in [Writers -> SUBSET Row] /\ del' \in [Writers -> SUBSET Row]
             /\ lock' \in [Writers -> {"none", "share", "exclusive"}]
             /\ pre' \in [Writers -> Vals \cup {NoHash}]
  BY <1>1, <1>2 DEF TypeOK, EndTx, Xids
<1>3. ASSUME NEW w \in Writers, BeginTx(w) PROVE TypeOK'
  BY <1>1, <1>3, Zenon DEF TypeOK, BeginTx, pgVars
<1>4. ASSUME NEW w \in Writers, TakeSnapshot(w) PROVE TypeOK'
  <2>1. CurrentSnapshot \in Snapshot
    BY CurrentSnapshotIsSettled, Zenon DEF WellFormed
  <2> QED BY <1>1, <1>4, <2>1, Zenon DEF TypeOK, TakeSnapshot, pgVars
<1>5. ASSUME NEW w \in Writers, AssignXid(w) PROVE TypeOK'
  BY <1>1, <1>5 DEF TypeOK, AssignXid, Xids
<1>6. ASSUME NEW w \in Writers, NEW k, NEW D, NEW I, GoodWrite(w, k, D, I) PROVE TypeOK'
  <2>1. D \subseteq Row
    BY <1>1, <1>6, Zenon DEF TypeOK, GoodWrite, LivingObjects
  <2>2. I \subseteq Row
    BY <1>1, <1>6 DEF TypeOK, GoodWrite, NewRow, Row
  <2> QED BY <1>1, <1>6, <2>1, <2>2, Zenon DEF TypeOK, GoodWrite, Write, pgVars
<1>7. ASSUME NEW w \in Writers, NEW mode \in {"share", "exclusive"}, assertSchemaHash(w, mode)
      PROVE  TypeOK'
  <2>1. \A r \in SeenLiving(w, SchemaKey) : r.val \in Vals
    BY <1>1, Zenon DEF TypeOK, SeenLiving, AliveAt, Row
  <2> QED BY <1>1, <1>7, <2>1, Zenon DEF TypeOK, assertSchemaHash, pgVars
<1>8. ASSUME NEW w \in Writers, CommitStep(w) PROVE TypeOK'
  <2>1. xid[w] \in Xids /\ xid[w] \in Nat
    BY <1>1 DEF TypeOK, Xids
  <2>2. settled' \in SUBSET Xids /\ latest' \in Xids
    BY <1>1, <1>8, <2>1, Zenon DEF TypeOK, CommitStep, CommitRows, Settle
  <2>3. rows' \in SUBSET Row
    <3>1. \A r \in Row : [r EXCEPT !.deleted = xid[w]] \in Row
      BY <2>1, Zenon DEF Row
    <3>2. rows \subseteq Row /\ del[w] \subseteq Row /\ ins[w] \subseteq Row
      BY <1>1, Zenon DEF TypeOK
    <3> QED BY <1>8, <3>1, <3>2, Zenon DEF CommitStep, CommitRows
  <2>4. txTable' \in SUBSET TxRow
    BY <1>1, <1>8, <2>1 DEF TypeOK, CommitStep, CommitRows, TxRow
  <2>5. NewRevision(w) \in Snapshot
    BY <2>1, MarkCompleteShowsSettled, Zenon DEF NewRevision, ShownInv, ShowsSettled, WellFormed
  <2>6. tokens' \in SUBSET Snapshot
    BY <1>1, <1>8, <2>5, Zenon DEF TypeOK, CommitStep
  <2>7. EndTx(w, "done") \/ EndTx(w, "failed")
    BY <1>8, Zenon DEF CommitStep
  <2>8. UNCHANGED <<nextXid, clock, attempts>>
    BY <1>8, Zenon DEF CommitStep
  <2> QED BY <1>1, <1>2, <2>2, <2>3, <2>4, <2>6, <2>7, <2>8, Zenon DEF TypeOK
<1>9. ASSUME NEW w \in Writers, RollbackStep(w) PROVE TypeOK'
  <2>1. pc[w] = "open" /\ Settle(xid[w]) /\ (EndTx(w, "idle") \/ EndTx(w, "failed"))
        /\ UNCHANGED <<nextXid, rows, txTable, commitLog, clock, tokens>>
    BY <1>9, Zenon DEF RollbackStep, Rollback
  <2>2. settled' \in SUBSET Xids /\ latest' \in Xids
    BY <1>1, <2>1, Zenon DEF TypeOK, Settle, Xids
  <2>3. attempts' \in [Writers -> 0 .. (MaxRetries + 1)]
    BY <1>1, <1>9, <2>1 DEF TypeOK, RollbackStep, IdsInv
  <2> QED BY <1>1, <1>2, <2>1, <2>2, <2>3, Zenon DEF TypeOK
<1>10. ASSUME NEW w \in Writers, EarlyError(w) PROVE TypeOK'
  <2>1. (EndTx(w, "idle") \/ EndTx(w, "failed")) /\ UNCHANGED <<pgVars, clock, tokens>>
    BY <1>10, Zenon DEF EarlyError
  <2>2. attempts' \in [Writers -> 0 .. (MaxRetries + 1)]
    BY <1>1, <1>10 DEF TypeOK, EarlyError, IdsInv
  <2> QED BY <1>1, <1>2, <2>1, <2>2, Zenon DEF TypeOK, pgVars
<1>11. ASSUME ReadStep PROVE TypeOK'
  BY <1>1, <1>11, Zenon DEF TypeOK, ReadStep, ShowsSettled, WellFormed, pgVars, txVars
<1>12. ASSUME Heartbeat PROVE TypeOK'
  <2>1. CurrentSnapshot \in Snapshot
    BY CurrentSnapshotIsSettled, Zenon DEF WellFormed
  <2>2. nextXid \in Xids
    BY <1>1, <1>12 DEF TypeOK, Heartbeat, Xids
  <2>3. txTable' \in SUBSET TxRow
    BY <1>1, <1>12, <2>1, <2>2 DEF TypeOK, Heartbeat, TxRow
  <2>4. nextXid' \in 2 .. (MaxXid + 1)
    BY <1>1, <1>12 DEF TypeOK, Heartbeat
  <2>5. settled' \in SUBSET Xids /\ latest' \in Xids
    BY <1>1, <1>12, <2>2, Zenon DEF TypeOK, Heartbeat, Settle
  <2>6. UNCHANGED <<rows, clock, txVars, tokens>>
    BY <1>12, Zenon DEF Heartbeat
  <2> QED BY <1>1, <2>3, <2>4, <2>5, <2>6, Zenon DEF TypeOK, txVars
<1>13. ASSUME Tick PROVE TypeOK'
  BY <1>1, <1>13 DEF TypeOK, Tick, pgVars, txVars
<1>14. ASSUME UNCHANGED dsVars PROVE TypeOK'
  BY <1>1, <1>14, Zenon DEF TypeOK, dsVars, pgVars, txVars
<1> QED
  BY <1>3, <1>4, <1>5, <1>6, <1>7, <1>8, <1>9, <1>10, <1>11, <1>12, <1>13, <1>14, Zenon
  DEF KindOfStep, CallStep

\* Ids: settling the id of an open transaction leaves the others' unsettled.
LEMMA SettleStep ==
    ASSUME Inv, NEW w \in Open, Settle(xid[w]), nextXid' = nextXid,
           \A o \in Open' : o \in Open /\ o # w /\ xid'[o] = xid[o]
    PROVE  /\ latest' \in settled' /\ latest' < nextXid'
           /\ \A x \in settled' : x <= latest'
           /\ \A o \in Open' : xid'[o] \notin settled' /\ xid'[o] < nextXid'
           /\ \A o, q \in Open' : xid'[o] = xid'[q] => o = q
<1>1. /\ latest \in Nat /\ nextXid \in Nat /\ settled \in SUBSET Nat
      /\ \A o \in Writers : xid[o] \in Nat
  BY PgAssumption DEF Inv, TypeOK, Xids
<1>2. w \in Writers /\ \A o \in Open' : o \in Writers
  BY Zenon DEF Open
<1>3. IdsInv
  BY Zenon DEF Inv
<1>4. xid[w] < nextXid
  BY <1>3, Zenon DEF IdsInv
<1> QED BY <1>1, <1>2, <1>3, <1>4 DEF Settle, IdsInv

LEMMA IdsStep ==
    ASSUME Inv, KindOfStep
    PROVE  IdsInv'
<1> USE PgAssumption
<1>1. TypeOK /\ IdsInv
  BY Zenon DEF Inv
<1>2. ASSUME NEW w \in Writers, NEW outcome \in {"idle", "done", "failed"}, EndTx(w, outcome)
      PROVE  \A o \in Open' : o \in Open /\ o # w /\ xid'[o] = xid[o]
  BY <1>1, <1>2, Zenon DEF TypeOK, EndTx, Open
<1>3. ASSUME NEW w \in Writers, BeginTx(w) \/ TakeSnapshot(w) PROVE IdsInv'
  BY <1>1, <1>3 DEF TypeOK, IdsInv, BeginTx, TakeSnapshot, pgVars, Open
<1>4. ASSUME NEW w \in Writers, AssignXid(w) PROVE IdsInv'
  <2>1. /\ \A o \in Open' : o \in Writers /\ (o # w => o \in Open /\ xid'[o] = xid[o])
        /\ xid'[w] = nextXid /\ nextXid' = nextXid + 1
        /\ \A o \in Writers : pc'[o] # "failed" => pc[o] # "failed"
        /\ UNCHANGED <<settled, latest, attempts>>
    BY <1>1, <1>4, Zenon DEF TypeOK, AssignXid, Open
  <2>2. /\ latest \in Nat /\ nextXid \in Nat /\ settled \in SUBSET Nat
        /\ \A o \in Writers : xid[o] \in Nat
    BY <1>1 DEF TypeOK, Xids
  <2>3. \A o \in Open' : xid'[o] \notin settled' /\ xid'[o] < nextXid'
    BY <1>1, <2>1, <2>2 DEF IdsInv
  <2>4. \A o, q \in Open' : xid'[o] = xid'[q] => o = q
    BY <1>1, <2>1, <2>2 DEF IdsInv
  <2>5. /\ latest' \in settled' /\ latest' < nextXid'
        /\ \A x \in settled' : x <= latest'
    <3>1. settled' = settled /\ latest' = latest /\ latest < nextXid + 1
      BY <1>1, <2>1, <2>2 DEF IdsInv
    <3>2. latest \in settled /\ \A x \in settled : x <= latest
      BY <1>1, Zenon DEF IdsInv
    <3> QED BY <2>1, <3>1, <3>2, Zenon
  <2>6. \A o \in Writers : pc'[o] # "failed" => attempts'[o] <= MaxRetries
    BY <1>1, <2>1, Zenon DEF IdsInv
  <2> QED BY <2>3, <2>4, <2>5, <2>6, Zenon DEF IdsInv
<1>5. ASSUME NEW w \in Writers, NEW k, NEW D, NEW I, GoodWrite(w, k, D, I) PROVE IdsInv'
  BY <1>1, <1>5, SMTT(30) DEF IdsInv, GoodWrite, Write, pgVars, Open
<1>6. ASSUME NEW w \in Writers, NEW mode \in {"share", "exclusive"}, assertSchemaHash(w, mode)
      PROVE  IdsInv'
  BY <1>1, <1>6, Zenon DEF IdsInv, assertSchemaHash, pgVars, Open
<1>7. ASSUME NEW w \in Writers, CommitStep(w) PROVE IdsInv'
  <2>1. w \in Open /\ Settle(xid[w]) /\ nextXid' = nextXid /\ attempts' = attempts
        /\ (EndTx(w, "done") \/ EndTx(w, "failed"))
    BY <1>7, Zenon DEF CommitStep, CommitRows, Open
  <2>2. \A o \in Open' : o \in Open /\ o # w /\ xid'[o] = xid[o]
    BY <1>2, <2>1, Zenon
  <2>3. \A o \in Writers : pc'[o] # "failed" => attempts'[o] <= MaxRetries
    BY <1>1, <2>1, Zenon DEF TypeOK, IdsInv, EndTx, Open
  <2> QED BY <2>1, <2>2, <2>3, SettleStep, Zenon DEF IdsInv
<1>8. ASSUME NEW w \in Writers, RollbackStep(w) PROVE IdsInv'
  <2>1. w \in Open /\ Settle(xid[w]) /\ nextXid' = nextXid
        /\ (EndTx(w, "idle") \/ EndTx(w, "failed"))
    BY <1>8, Zenon DEF RollbackStep, Rollback, Open
  <2>2. \A o \in Open' : o \in Open /\ o # w /\ xid'[o] = xid[o]
    BY <1>2, <2>1, Zenon
  <2>3. \A o \in Writers : pc'[o] # "failed" => attempts'[o] <= MaxRetries
    BY <1>1, <1>8 DEF TypeOK, IdsInv, RollbackStep, Rollback, EndTx
  <2> QED BY <2>1, <2>2, <2>3, SettleStep, Zenon DEF IdsInv
<1>9. ASSUME NEW w \in Writers, EarlyError(w) PROVE IdsInv'
  <2>1. \A o \in Open' : o \in Open /\ o # w /\ xid'[o] = xid[o]
    BY <1>2, <1>9, Zenon DEF EarlyError
  <2>2. \A o \in Writers : pc'[o] # "failed" => attempts'[o] <= MaxRetries
    BY <1>1, <1>9 DEF TypeOK, IdsInv, EarlyError, EndTx
  <2> QED BY <1>1, <1>9, <2>1, <2>2, Zenon DEF IdsInv, EarlyError, pgVars
<1>10. ASSUME ReadStep \/ Tick \/ UNCHANGED dsVars PROVE IdsInv'
  BY <1>1, <1>10, Zenon DEF IdsInv, ReadStep, Tick, dsVars, pgVars, txVars, Open
<1>11. ASSUME Heartbeat PROVE IdsInv'
  <2>1. /\ latest \in Nat /\ nextXid \in Nat /\ settled \in SUBSET Nat
        /\ \A o \in Writers : xid[o] \in Nat
    BY <1>1 DEF TypeOK, Xids
  <2>2. /\ settled' = settled \cup {nextXid} /\ latest' = nextXid
        /\ nextXid' = nextXid + 1 /\ Open' = Open /\ UNCHANGED <<xid, pc, attempts>>
    BY <1>1, <1>11, <2>1, Zenon DEF IdsInv, Heartbeat, Settle, txVars, Open
  <2>3. \A o \in Open : o \in Writers
    BY Zenon DEF Open
  <2>4. /\ latest' \in settled' /\ latest' < nextXid'
        /\ \A x \in settled' : x <= latest'
    BY <1>1, <2>1, <2>2 DEF IdsInv
  <2>5. \A o \in Open' : xid'[o] \notin settled' /\ xid'[o] < nextXid'
    BY <1>1, <2>1, <2>2, <2>3 DEF IdsInv
  <2>6. \A o, q \in Open' : xid'[o] = xid'[q] => o = q
    BY <1>1, <2>2, Zenon DEF IdsInv
  <2>7. \A o \in Writers : pc'[o] # "failed" => attempts'[o] <= MaxRetries
    BY <1>1, <2>2, Zenon DEF IdsInv
  <2> QED BY <2>4, <2>5, <2>6, <2>7, Zenon DEF IdsInv
<1> QED
  BY <1>3, <1>4, <1>5, <1>6, <1>7, <1>8, <1>9, <1>10, <1>11, Zenon DEF KindOfStep, CallStep

\* Settled ids stay settled, whatever the step.
LEMMA SettledGrows ==
    ASSUME Inv, KindOfStep
    PROVE  settled \subseteq settled'
<1>1. ASSUME NEW w \in Writers, CallStep(w) PROVE settled \subseteq settled'
  BY <1>1, SMTT(30) DEF CallStep, BeginTx, TakeSnapshot, AssignXid, GoodWrite, Write,
       assertSchemaHash, CommitStep, CommitRows, RollbackStep, Rollback, Settle,
       EarlyError, pgVars
<1> QED
  BY <1>1, Zenon DEF KindOfStep, ReadStep, Heartbeat, Settle, Tick, dsVars, pgVars

\* Snapshots: what a writer, a reader or the transaction table holds shows settled
\* ids only, because a revision marks only its own, by then settled, id complete.
LEMMA ShownStep ==
    ASSUME Inv, KindOfStep
    PROVE  ShownInv'
<1> USE PgAssumption
<1> DEFINE Shows(s) == WellFormed(s) /\ Visible(s) \subseteq settled'
<1>1. TypeOK /\ IdsInv /\ ShownInv /\ settled \subseteq settled'
  BY SettledGrows, Zenon DEF Inv
<1>2. /\ \A s \in tokens : Shows(s)
      /\ \A o \in Writers : Shows(snapshot[o])
      /\ \A t \in txTable : Shows(t.snapshot) /\ t.xid \in settled'
      /\ Shows(NoSnapshot)
  BY <1>1 DEF ShownInv, ShowsSettled, NoSnapshot, WellFormed, Snapshot, Visible, txVisible
<1>3. Shows(CurrentSnapshot)
  BY <1>1, CurrentSnapshotIsSettled, Zenon DEF ShowsSettled
<1>4. SUFFICES /\ \A s \in tokens' : Shows(s)
               /\ \A o \in Writers : Shows(snapshot'[o])
               /\ \A t \in txTable' : Shows(t.snapshot) /\ t.xid \in settled'
  BY Zenon DEF ShownInv, ShowsSettled
<1>5. ASSUME NEW w \in Writers, NEW outcome \in {"idle", "done", "failed"}, EndTx(w, outcome)
      PROVE  \A o \in Writers : Shows(snapshot'[o])
  <2> HIDE DEF Shows
  <2> QED BY <1>1, <1>2, <1>5, Zenon DEF TypeOK, EndTx
<1> HIDE DEF Shows
<1>6. CASE \E w \in Writers : BeginTx(w) \/ AssignXid(w)
  BY <1>2, <1>6, Zenon DEF BeginTx, AssignXid, pgVars
<1>7. CASE \E w \in Writers : TakeSnapshot(w)
  BY <1>1, <1>2, <1>3, <1>7, SMTT(30) DEF TypeOK, TakeSnapshot, pgVars
<1>8. CASE \E w \in Writers : \E k, D, I : GoodWrite(w, k, D, I)
  BY <1>2, <1>8 DEF GoodWrite, Write, pgVars
<1>9. CASE \E w \in Writers, mode \in {"share", "exclusive"} : assertSchemaHash(w, mode)
  BY <1>2, <1>9, Zenon DEF assertSchemaHash, pgVars
<1>10. ASSUME NEW w \in Writers, CommitStep(w)
       PROVE  /\ \A s \in tokens' : Shows(s)
              /\ \A o \in Writers : Shows(snapshot'[o])
              /\ \A t \in txTable' : Shows(t.snapshot) /\ t.xid \in settled'
  <2>1. xid[w] \in Nat /\ settled' = settled \cup {xid[w]}
    BY <1>1, <1>10 DEF TypeOK, Xids, CommitStep, CommitRows, Settle
  <2>2. Shows(NewRevision(w))
    <3>1. WellFormed(snapshot[w]) /\ Visible(snapshot[w]) \subseteq settled
      BY <1>1, Zenon DEF ShownInv, ShowsSettled
    <3> QED BY <2>1, <3>1, MarkCompleteShowsSettled, Zenon DEF NewRevision, Shows
  <2>3. \A s \in tokens' : Shows(s)
    BY <1>2, <1>10, <2>2, Zenon DEF CommitStep
  <2>4. \A o \in Writers : Shows(snapshot'[o])
    BY <1>5, <1>10, Zenon DEF CommitStep
  <2>5. \A t \in txTable' : Shows(t.snapshot) /\ t.xid \in settled'
    BY <1>2, <1>10, <2>1 DEF CommitStep, CommitRows
  <2> QED BY <2>3, <2>4, <2>5, Zenon
<1>11. CASE \E w \in Writers : RollbackStep(w)
  BY <1>2, <1>5, <1>11, Zenon DEF RollbackStep, Rollback
<1>12. CASE \E w \in Writers : EarlyError(w)
  BY <1>2, <1>5, <1>12, Zenon DEF EarlyError, pgVars
<1>13. CASE ReadStep
  <2>1. PICK s : ShowsSettled(s) /\ tokens' = tokens \cup {s}
    BY <1>13, Zenon DEF ReadStep
  <2>2. Shows(s)
    BY <1>1, <2>1, Zenon DEF ShowsSettled, Shows
  <2> QED BY <1>2, <1>13, <2>1, <2>2, Zenon DEF ReadStep, pgVars, txVars
<1>14. CASE Heartbeat
  BY <1>2, <1>3, <1>14, SMTT(30) DEF Heartbeat, Settle, txVars
<1>15. CASE Tick \/ UNCHANGED dsVars
  BY <1>2, <1>15, Zenon DEF Tick, dsVars, pgVars, txVars
<1> QED
  BY <1>6, <1>7, <1>8, <1>9, <1>10, <1>11, <1>12, <1>13, <1>14, <1>15, Zenon
  DEF KindOfStep, CallStep
=============================================================================
