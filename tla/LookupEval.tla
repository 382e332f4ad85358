---------------------------- MODULE LookupEval -----------------------------
(***************************************************************************)
(* LookupSubjects (internal/graph/lookupsubjects.go) and Expand            *)
(* (expand.go, with the subjects developmentmembership finds in its tree): *)
(* the subjects of resources, as the sets of SubjectSets.                  *)
(*                                                                         *)
(* Each waits for all its subproblems and unions what they stream, so      *)
(* unlike a check an answer does not depend on the order of arrival.  The  *)
(* one exception is an all-arrow, which gives up a resource that no        *)
(* subject is left for: a dispatch for it that would fail is then either   *)
(* cut short, and taken for finished, or fails first (cut of a request).   *)
(***************************************************************************)
EXTENDS CheckEval

NoSubjects == [i \in Subjects |-> EmptySet]

\* Two answers combined, by resource; an error wins.
Combined(op, a, b) ==
    IF a = Err \/ b = Err THEN Err
    ELSE [i \in Subjects |-> CASE op = "union" -> UnionWithSet(a[i], b[i])
                               [] op = "intersection" -> IntersectionDifference(a[i], b[i])
                               [] op = "exclusion" -> SubtractAll(a[i], b[i])]
Joined(answers) == FoldSet(LAMBDA a, b : Combined("union", b, a), NoSubjects, answers)

\* AddFromRelationship: the subject of a relationship, for its resource.
AddFromRelationship(q) ==
    [NoSubjects EXCEPT ![q.id] = IF q.sub.id = Star THEN Wildcard(q.caveat)
                                 ELSE Concrete(q.sub.id, q.caveat)]

RECURSIVE DispatchLookupSubjects(_)
RECURSIVE lookupViaRewrite(_, _)

(***************************************************************************)
(* dispatchTo: the subjects found for the subject of each relationship, in *)
(* the relation to, are those of its resource under its caveat.            *)
(***************************************************************************)
Hop(p, rr) == [id |-> p.id, sub |-> p.sub.id, caveat |-> p.caveat, to |-> rr]

dispatchTo(q, hops) ==
    LET types == {h.to : h \in hops}
        ids(tr) == {h.sub : h \in {g \in hops : g.to = tr}}
        answers == [tr \in types |->
            DispatchLookupSubjects([q EXCEPT !.type = tr.type, !.rel = tr.rel, !.ids = ids(tr),
                                             !.depth = q.depth - 1])]
        mapped(h) == [NoSubjects EXCEPT ![h.id] = WithParent(answers[h.to][h.sub], h.caveat)]
    IN  IF \E tr \in types : answers[tr] = Err THEN Err
        ELSE Joined({mapped(h) : h \in hops})

lookupDirectSubjects(q) ==
    LET rs == ArrowRels(q.type, q.rel, q.ids)
        found == Joined({AddFromRelationship(p) : p \in {h \in rs :
                             Ref(h.sub.type, h.sub.rel) = q.subjectRelation}})
    IN  Combined("union", found,
                 dispatchTo(q, {Hop(p, Ref(p.sub.type, p.sub.rel)) :
                                   p \in {h \in rs : h.sub.rel # Ellipsis}}))

lookupViaComputed(q, r) ==
    IF HasRelation(q.type, r)
    THEN DispatchLookupSubjects([q EXCEPT !.rel = r, !.depth = q.depth - 1])
    ELSE NoSubjects

lookupViaTupleToUserset(q, w) ==
    dispatchTo(q, {Hop(p, Ref(p.sub.type, w.rel)) :
                      p \in {h \in ArrowRels(q.type, w.tupleset, q.ids) : HasRelation(h.sub.type, w.rel)}})

lookupViaIntersectionTupleToUserset(q, w) ==
    LET rs == ArrowRels(q.type, w.tupleset, q.ids)
        walked == {p \in rs : HasRelation(p.sub.type, w.rel)}
        \* One caveat, of all the relationships of all the resources.
        ttuCaveat == AllOf({p.caveat : p \in rs})
        answers == [p \in walked |->
            DispatchLookupSubjects([q EXCEPT !.type = p.sub.type, !.rel = w.rel,
                                             !.ids = {p.sub.id}, !.depth = q.depth - 1])]
        of(i) == {answers[p] : p \in {h \in walked : h.id = i}}
        sets(i) == {answers[p][p.sub.id] : p \in {h \in walked : h.id = i /\ answers[h] # Err}}
        first(i) == CHOOSE s \in sets(i) : TRUE
        met(i) == IF sets(i) = {} THEN EmptySet
                  ELSE FoldSet(LAMBDA s, acc : IntersectionDifference(acc, s),
                               first(i), sets(i) \ {first(i)})
        givenUp(i) == q.cut /\ sets(i) # {} /\ met(i) = EmptySet
    IN  IF \E i \in q.ids : Err \in of(i) /\ ~givenUp(i) THEN Err
        ELSE [i \in Subjects |-> WithParent(met(i), ttuCaveat)]

\* A child of a set operation.
lookupChild(w, q) ==
    CASE w.op = "nil" -> NoSubjects
      [] w.op = "self" -> [i \in Subjects |-> IF i \in q.ids THEN Concrete(i, Nil) ELSE EmptySet]
      [] w.op = "computed" -> lookupViaComputed(q, w.rel)
      [] w.op = "arrow" /\ w.fn = "any" -> lookupViaTupleToUserset(q, w)
      [] w.op = "arrow" /\ w.fn = "all" -> lookupViaIntersectionTupleToUserset(q, w)
      [] OTHER -> lookupViaRewrite(w, q)

\* lookupSetOperation with the reducer of the operation.
lookupViaRewrite(w, q) ==
    LET results == [k \in DOMAIN w.kids |-> lookupChild(w.kids[k], q)]
    IN  FoldLeft(LAMBDA acc, r : Combined(w.op, acc, r), results[1], Tail(results))

DispatchLookupSubjects(q) ==
    LET self == [i \in Subjects |->
                    IF i \in q.ids /\ q.subjectRelation = Ref(q.type, q.rel)
                    THEN Concrete(i, Nil) ELSE EmptySet]
        w == Rewrite(q.type, q.rel)
    IN  IF q.depth = 0 THEN Err
        ELSE Combined("union", self,
                  IF w.op = "direct" THEN lookupDirectSubjects(q) ELSE lookupViaRewrite(w, q))

LookupSubjects(t, r, ids, subjectRelation, cut) ==
    DispatchLookupSubjects([type |-> t, rel |-> r, ids |-> ids,
                            subjectRelation |-> subjectRelation, depth |-> MaxDepth, cut |-> cut])

(***************************************************************************)
(* Expand, recursively: a tree of set operations over leaves of subjects.  *)
(***************************************************************************)
RECURSIVE DispatchExpand(_, _, _, _)
RECURSIVE expandUsersetRewrite(_, _, _, _)

Leaf(subjects) == [op |-> "leaf", subjects |-> subjects, kids |-> <<>>, caveat |-> Nil]
expandSetOperation(op, kids) ==
    IF \E k \in DOMAIN kids : kids[k] = Err THEN Err
    ELSE [op |-> op, subjects |-> {}, kids |-> kids, caveat |-> Nil]
decorateWithCaveatIfNecessary(node, caveat) ==
    IF node = Err \/ caveat = Nil THEN node ELSE [node EXCEPT !.caveat = caveat]

DirectSubject(s, caveat) == [sub |-> s, caveat |-> caveat]

expandDirect(t, id, r, depth) ==
    LET rs == RelsOf(t, r, {id})
        leaf == Leaf({DirectSubject(p.sub, p.caveat) : p \in rs})
        nonTerminal == SetToSeq({p \in rs : p.sub.rel # Ellipsis})
        kids == [k \in DOMAIN nonTerminal |->
            LET p == nonTerminal[k]
            IN  decorateWithCaveatIfNecessary(
                    DispatchExpand(p.sub.type, p.sub.id, p.sub.rel, depth - 1), p.caveat)]
    IN  IF nonTerminal = <<>> THEN leaf ELSE expandSetOperation("union", Append(kids, leaf))

expandComputedUserset(t, id, r, depth) ==
    IF HasRelation(t, r) THEN DispatchExpand(t, id, r, depth - 1) ELSE Leaf({})

expandTupleToUserset(w, t, id, depth) ==
    LET rs == SetToSeq(RelsOf(t, w.tupleset, {id}))
    IN  expandSetOperation(IF w.fn = "any" THEN "union" ELSE "intersection",
            [k \in DOMAIN rs |-> decorateWithCaveatIfNecessary(
                expandComputedUserset(rs[k].sub.type, rs[k].sub.id, w.rel, depth),
                rs[k].caveat)])

expandUsersetRewrite(w, t, id, depth) ==
    CASE w.op = "nil" -> Leaf({})
      [] w.op = "self" -> Leaf({DirectSubject([type |-> t, id |-> id, rel |-> Ellipsis], Nil)})
      [] w.op = "computed" -> expandComputedUserset(t, id, w.rel, depth)
      [] w.op = "arrow" -> expandTupleToUserset(w, t, id, depth)
      [] OTHER -> expandSetOperation(w.op,
             [k \in DOMAIN w.kids |-> expandUsersetRewrite(w.kids[k], t, id, depth)])

DispatchExpand(t, id, r, depth) ==
    IF depth = 0 THEN Err
    ELSE IF Rewrite(t, r).op = "direct" THEN expandDirect(t, id, r, depth)
    ELSE expandUsersetRewrite(Rewrite(t, r), t, id, depth)

\* The subjects of one type and relation in a tree.
RECURSIVE populateFoundSubjects(_, _)
populateFoundSubjects(node, tr) ==
    LET kids == [k \in DOMAIN node.kids |-> populateFoundSubjects(node.kids[k], tr)]
        leaf == {d \in node.subjects : Ref(d.sub.type, d.sub.rel) = tr}
        one(d) == IF d.sub.id = Star THEN Wildcard(d.caveat) ELSE Concrete(d.sub.id, d.caveat)
        reduce(Op(_, _)) == IF kids = <<>> THEN EmptySet ELSE FoldLeft(Op, kids[1], Tail(kids))
        found == CASE node.op = "leaf" ->
                        FoldSet(LAMBDA d, acc : UnionWithSet(acc, one(d)), EmptySet, leaf)
                   [] node.op = "union" -> reduce(UnionWithSet)
                   [] node.op = "intersection" -> reduce(IntersectionDifference)
                   [] node.op = "exclusion" -> reduce(SubtractAll)
    IN  IF node.caveat = Nil THEN found ELSE WithParent(found, node.caveat)
=============================================================================
