----------------------------- MODULE CheckEval -----------------------------
(***************************************************************************)
(* ConcurrentChecker (internal/graph/check.go): a check of several         *)
(* resources at once, by the rewrites of the schema and the relationships  *)
(* read.                                                                   *)
(*                                                                         *)
(* A result is a membership set: for each id an expression, Nil (a         *)
(* determined member) or Absent.  The subproblems of a step run at once    *)
(* and a step may return on the first answers, so what a check can return  *)
(* is the set of the results of all arrival orders, an error among them.   *)
(***************************************************************************)
EXTENDS Permissions, SequencesExt

CONSTANTS
    ChunkSize,      \* dispatchChunkSize: most ids of a dispatched check
    MaxDepth,       \* MaximumDepth of a request
    Err             \* a check that returned an error

NoMembers == NoneExcluded
HasDeterminedMember(ms) == \E i \in Subjects : ms[i] = Nil
IsEmpty(ms) == \A i \in Subjects : ms[i] = Absent

UnionWith(a, b) == [i \in Subjects |-> unionConcreteWithConcrete(a[i], b[i])]
IntersectWith(a, b) == [i \in Subjects |-> intersectConcreteWithConcrete(a[i], b[i])]
Subtract(a, b) == [i \in Subjects |-> subtractConcreteFromConcrete(a[i], b[i])]

\* addMember of each of some expressions, and caveatAnd of them.
AnyOf(es) == IF es = {} THEN Absent ELSE IF Nil \in es THEN Nil ELSE UNION es
AllOf(es) == FoldSet(And, Nil, es)

combineResultWithFoundResources(result, found) ==
    IF result = Err THEN Err ELSE UnionWith(found, result)

\* filterForFoundMemberResource
FoundSelf(t, r, ids, s) ==
    [i \in Subjects |-> IF i \in ids /\ s = [type |-> t, id |-> i, rel |-> r]
                        THEN Nil ELSE Absent]

\* Relationships as read: SkipCaveats leaves the columns of the caveat out.
Read(rs, skipCaveats) == IF skipCaveats THEN {[q EXCEPT !.caveat = Nil] : q \in rs} ELSE rs
RelsOf(t, r, ids) == {q \in rels : q.type = t /\ q.rel = r /\ q.id \in ids}
ArrowRels(t, r, ids) ==
    Read(RelsOf(t, r, ids), \A a \in Allowed(t, r) : ~a.caveat)

(***************************************************************************)
(* checkDispatchSet: the subjects of some relationships as the resources   *)
(* of the next checks, the caveated ones first.                            *)
(***************************************************************************)
dispatchChunks(rs) ==
    UNION {LET subs == {q.sub.id : q \in {p \in rs : Ref(p.sub.type, p.sub.rel) = tr}}
               hasCaveat == {q.sub.id : q \in {p \in rs :
                                Ref(p.sub.type, p.sub.rel) = tr /\ p.caveat # Nil}}
               entries == SetToSeq(hasCaveat) \o SetToSeq(subs \ hasCaveat)
               piece(k) == {entries[j] : j \in {l \in DOMAIN entries :
                                (l - 1) \div ChunkSize = k}}
           IN  {[type |-> tr.type, rel |-> tr.rel, ids |-> piece(k),
                 hasIncomingCaveats |-> piece(k) \cap hasCaveat # {}] :
                   k \in 0 .. (Len(entries) - 1) \div ChunkSize}
           : tr \in {Ref(q.sub.type, q.sub.rel) : q \in rs}}

mapFoundResources(result, chunk, rs) ==
    IF result = Err THEN Err
    ELSE [i \in Subjects |->
            AnyOf({And(q.caveat, result[q.sub.id]) : q \in {p \in rs :
                     /\ p.id = i /\ p.sub.type = chunk.type /\ p.sub.rel = chunk.rel
                     /\ result[p.sub.id] # Absent}})]

(***************************************************************************)
(* union, all and difference: what they return once the results of the     *)
(* children in pending, each one of outs, have come in some order.         *)
(***************************************************************************)
RECURSIVE unionFrom(_, _, _, _)
unionFrom(ms, pending, outs, setting) ==
    IF pending = {} THEN {ms}
    ELSE UNION {UNION {
            IF r = Err THEN {Err}
            ELSE IF HasDeterminedMember(UnionWith(ms, r)) /\ setting = "single"
            THEN {UnionWith(ms, r)}
            ELSE unionFrom(UnionWith(ms, r), pending \ {k}, outs, setting)
            : r \in outs[k]} : k \in pending}

union(outs, setting) ==
    IF Cardinality(DOMAIN outs) = 1 THEN outs[CHOOSE k \in DOMAIN outs : TRUE]
    ELSE unionFrom(NoMembers, DOMAIN outs, outs, setting)

RECURSIVE narrowFrom(_, _, _, _)
narrowFrom(ms, pending, outs, Op) ==
    IF pending = {} \/ IsEmpty(ms) THEN {ms}
    ELSE UNION {UNION {
            IF r = Err THEN {Err}
            ELSE narrowFrom(IF Op = "all" THEN IntersectWith(ms, r) ELSE Subtract(ms, r),
                            pending \ {k}, outs, Op)
            : r \in outs[k]} : k \in pending}

startFrom(first, pending, outs, Op) ==
    UNION {IF r = Err THEN {Err} ELSE narrowFrom(r, pending, outs, Op) : r \in outs[first]}

all(outs) == UNION {startFrom(k, DOMAIN outs \ {k}, outs, "all") : k \in DOMAIN outs}
difference(outs) == startFrom(1, DOMAIN outs \ {1}, outs, "difference")

(***************************************************************************)
(* Check hints: resources the caller knows the subject is a member of, by  *)
(* a relation of theirs or by an arrow.  They are not checked, and are     *)
(* added to what is found for the rest.                                    *)
(***************************************************************************)
RelationHint(t, r, i) == [type |-> t, rel |-> r, arrow |-> "", id |-> i]
ArrowHint(t, tupleset, r, i) == [type |-> t, rel |-> tupleset, arrow |-> r, id |-> i]

AsCheckHintForComputedUserset(q) ==
    {h.id : h \in {g \in q.hints : /\ g.arrow = "" /\ g.type = q.type
                                   /\ g.rel \in {q.rel, q.original}}}
AsCheckHintForArrow(q, w) ==
    {h.id : h \in {g \in q.hints : /\ g.arrow = w.rel /\ g.type = q.type
                                   /\ g.rel = w.tupleset}}

combineWithCheckHints(result, hinted) ==
    IF result = Err \/ \E i \in hinted : result[i] # Absent THEN Err
    ELSE [i \in Subjects |-> IF i \in hinted THEN Nil ELSE result[i]]

(***************************************************************************)
(* The check of a request: q has a type, a relation (and the one asked for *)
(* before an alias replaced it), the ids requested and those still to      *)
(* check, the subject, whether a single result is enough, the hints and    *)
(* the depth.                                                              *)
(***************************************************************************)
RECURSIVE DispatchCheck(_)
RECURSIVE checkUsersetRewrite(_, _)

checkSelf(q) ==
    {FoundSelf(q.type, Ellipsis, q.requested, q.subject)}

checkComputedUserset(q, t, r, ids, viaTupleset) ==
    LET found == FoundSelf(t, r, ids, q.subject)
        rest == {i \in ids : found[i] = Absent}
    IN  IF (HasDeterminedMember(found) /\ q.setting = "single") \/ rest = {} THEN {found}
        ELSE IF viaTupleset /\ ~HasRelation(t, r) THEN {NoMembers}
        ELSE {combineResultWithFoundResources(result, found) : result \in
                DispatchCheck([q EXCEPT !.type = t, !.rel = r, !.original = r,
                                        !.ids = rest, !.depth = q.depth - 1])}

\* Mutant: a caveated type of the subject counted as uncaveated.
SkipDirectCaveats_Some(q) ==
    \E a \in Allowed(q.type, q.rel) : a.type = q.subject.type /\ ~a.caveat
SkipDirectCaveats(q) ==
    LET same == {a \in Allowed(q.type, q.rel) : a.type = q.subject.type}
        total == Cardinality({a \in same : a.rel = q.subject.rel})
                 + Cardinality({a \in same : a.rel = "*"})
    IN  Cardinality({a \in same : ~a.caveat}) = total

\* The iteration over the relationships of the subject itself may end early.
directFound(q) ==
    LET hits == Read({p \in RelsOf(q.type, q.rel, q.ids) :
                        \/ p.sub = q.subject
                        \/ p.sub.type = q.subject.type /\ p.sub.id = Star},
                     SkipDirectCaveats(q))
        found(hs) == [i \in Subjects |-> AnyOf({p.caveat : p \in {h \in hs : h.id = i}})]
        sure == {p \in hits : p.caveat = Nil}
    IN  IF q.setting = "single" /\ sure # {}
        THEN {found(hs \cup {p}) : hs \in SUBSET (hits \ sure), p \in sure}
        ELSE {found(hits)}

checkDirect(q) ==
    LET nonTerminals == {a \in Allowed(q.type, q.rel) : a.rel # Ellipsis}
        further(found) == {i \in q.ids : found[i] # Nil}
        indirect(found) == Read({p \in RelsOf(q.type, q.rel, further(found)) : p.sub.rel # Ellipsis},
                                \A a \in nonTerminals : ~a.caveat)
        child(c, rs) ==
            {mapFoundResources(r, c, rs) : r \in
                DispatchCheck([q EXCEPT !.type = c.type, !.rel = c.rel, !.original = c.rel,
                                        !.setting = IF c.hasIncomingCaveats THEN "all" ELSE @,
                                        !.ids = c.ids, !.depth = q.depth - 1])}
    IN  UNION {IF q.setting = "single" /\ HasDeterminedMember(found) THEN {found}
               ELSE IF nonTerminals = {} \/ further(found) = {} THEN {found}
               ELSE LET rs == indirect(found)
                    IN  {combineResultWithFoundResources(r, found) : r \in
                            union([c \in dispatchChunks(rs) |-> child(c, rs)], q.setting)}
               : found \in directFound(q)}

checkTupleToUserset(q, w) ==
    LET hinted == AsCheckHintForArrow(q, w)
        rs == ArrowRels(q.type, w.tupleset, q.ids \ hinted)
        child(c) ==
            {mapFoundResources(r, c, rs) : r \in
                checkComputedUserset(
                    [q EXCEPT !.setting = IF c.hasIncomingCaveats THEN "all" ELSE @],
                    c.type, w.rel, c.ids, TRUE)}
    IN  {combineWithCheckHints(r, hinted) : r \in
            IF q.ids \subseteq hinted THEN {NoMembers}
            ELSE union([c \in dispatchChunks(rs) |-> child(c)], q.setting)}

checkIntersectionTupleToUserset(q, w) ==
    LET rs == ArrowRels(q.type, w.tupleset, q.ids)
        chunks == dispatchChunks(rs)
        outs == [c \in chunks |->
                    checkComputedUserset([q EXCEPT !.setting = "all"], c.type, w.rel, c.ids, TRUE)]
        answer(f, sub) == AnyOf({f[c][sub.id] : c \in {d \in chunks :
                              d.type = sub.type /\ d.rel = sub.rel /\ f[d][sub.id] # Absent}})
        \* The caveats of every resource's relationship with the subject.
        caveats(sub) == {p.caveat : p \in {h \in rs : h.sub = sub}}
        found(f, i) ==
            LET subs == {p.sub : p \in {h \in rs : h.id = i}}
            IN  IF subs = {} \/ \E sub \in subs : answer(f, sub) = Absent THEN Absent
                ELSE AllOf(UNION {{answer(f, sub)} \cup caveats(sub) : sub \in subs})
    IN  IF rs = {} THEN {NoMembers}
        ELSE {IF \E c \in chunks : f[c] = Err THEN Err
              ELSE [i \in Subjects |-> found(f, i)] :
                 f \in {g \in [chunks -> UNION {outs[c] : c \in chunks}] :
                           \A c \in chunks : g[c] \in outs[c]}}

runSetOperation(w, q) ==
    CASE w.op = "nil" -> {NoMembers}
      [] w.op = "self" -> checkSelf(q)
      [] w.op = "computed" -> checkComputedUserset(q, q.type, w.rel, q.ids, FALSE)
      [] w.op = "arrow" /\ w.fn = "any" -> checkTupleToUserset(q, w)
      [] w.op = "arrow" /\ w.fn = "all" -> checkIntersectionTupleToUserset(q, w)
      [] OTHER -> checkUsersetRewrite(w, q)

\* The children are asked for all results where they are to be narrowed.
combine(w, outs, setting) ==
    CASE w.op = "union" -> union(outs, setting)
      [] w.op = "intersection" -> IF Len(w.kids) = 1 THEN outs[1] ELSE all(outs)
      [] w.op = "exclusion" -> difference(outs)

checkUsersetRewrite(w, q) ==
    LET p == IF w.op = "union" \/ (w.op = "intersection" /\ Len(w.kids) = 1) THEN q
             ELSE [q EXCEPT !.setting = "all"]
    IN  combine(w, [k \in DOMAIN w.kids |-> runSetOperation(w.kids[k], p)], q.setting)

\* The relation, or the permission that is no alias, at the end of a chain of
\* permissions of one computed userset each.
RECURSIVE AliasedRelation(_, _)
AliasedRelation(t, r) ==
    LET w == Rewrite(t, r)
    IN  IF w.op = "union" /\ Len(w.kids) = 1 /\ w.kids[1].op = "computed"
        THEN AliasedRelation(t, w.kids[1].rel) ELSE r

Alias(q) ==
    LET aliased == AliasedRelation(q.type, q.rel)
    IN  IF aliased # q.rel /\ q.type # q.subject.type
        THEN [q EXCEPT !.rel = aliased, !.setting = "all"] ELSE q

checkInternal(q) ==
    LET found == FoundSelf(q.type, q.rel, q.ids, q.subject)
        hinted == AsCheckHintForComputedUserset(q)
        rest == {i \in q.ids : found[i] = Absent} \ hinted
        p == [q EXCEPT !.requested = q.ids, !.ids = rest,
                       !.setting = IF Cardinality(rest) = 1 THEN "single" ELSE @]
        w == Rewrite(q.type, q.rel)
    IN  IF HasDeterminedMember(found) /\ q.setting = "single" THEN {found}
        ELSE {combineWithCheckHints(combineResultWithFoundResources(r, found), hinted) :
                r \in IF rest = {} THEN {NoMembers}
                      ELSE IF w.op = "direct" THEN checkDirect(p) ELSE checkUsersetRewrite(w, p)}

DispatchCheck(q) == IF q.depth = 0 THEN {Err} ELSE checkInternal(Alias(q))

\* computeCheck, the ids in chunks one after the other.
RECURSIVE computeCheck(_, _)
computeCheck(q, ids) ==
    IF ids = {} THEN {NoMembers}
    ELSE LET chunk == CHOOSE c \in SUBSET ids :
                         Cardinality(c) = IF Cardinality(ids) < ChunkSize
                                          THEN Cardinality(ids) ELSE ChunkSize
         IN  UNION {{IF a = Err \/ b = Err THEN Err ELSE UnionWith(a, b) :
                        b \in computeCheck(q, ids \ chunk)} :
                    a \in DispatchCheck([q EXCEPT !.ids = chunk])}

ComputeBulkCheck(t, r, ids, s, hints, depth) ==
    computeCheck([type |-> t, rel |-> r, original |-> r, ids |-> ids, requested |-> ids,
                  subject |-> s, setting |-> IF Cardinality(ids) = 1 THEN "single" ELSE "all",
                  hints |-> hints, depth |-> depth], ids)
=============================================================================
