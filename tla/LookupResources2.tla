-------------------------- MODULE LookupResources2 --------------------------
(***************************************************************************)
(* LookupResources (internal/graph/lookupresources2.go, cursors.go,        *)
(* lr2streams.go, resourcesubjectsmap2.go): from a subject, backwards over *)
(* the relationships, to the resources of a relation that have it, in      *)
(* pages that each resume at the cursor of the last result of the one      *)
(* before.                                                                 *)
(*                                                                         *)
(* A cursor is the sequence of the positions the calls on the way to a     *)
(* result had come to: an offset, -1 for a part that is done, the index of *)
(* an entrypoint, the place of a relationship in a query.                  *)
(*                                                                         *)
(* The entrypoints and the chunks of a query are handled at the same time  *)
(* and published in order; what they race for is the set of the subjects   *)
(* already dispatched.  So a call has a set of outcomes: each the results  *)
(* in order, and whether an error ended them.                              *)
(***************************************************************************)
EXTENDS Reachability, LookupEval

CONSTANT
    IdOrder         \* the ids, a wildcard among them, as they sort

Position(i) == CHOOSE k \in DOMAIN IdOrder : IdOrder[k] = i
Sorted(ids) == SelectSeq(IdOrder, LAMBDA i : i \in ids)

(***************************************************************************)
(* cursorInformation: the head of the incoming cursor, and the rest of it. *)
(***************************************************************************)
headSectionValue(cursor) == IF cursor = <<>> THEN 0 ELSE Head(cursor)
Rest(cursor) == IF cursor = <<>> THEN <<>> ELSE Tail(cursor)

Result(id, for, missing, cursor) == [id |-> id, for |-> for, missing |-> missing, cursor |-> cursor]
Results(items) == [items |-> items, err |-> FALSE]
Failed == [items |-> <<>>, err |-> TRUE]

\* The cursors of the results within a section, combineCursors.
Within(sections, out) ==
    [out EXCEPT !.items = [k \in DOMAIN @ |-> [@[k] EXCEPT !.cursor = sections \o @]]]

\* The results of two parts, in order.
Then(a, b) == IF a.err THEN a ELSE [items |-> a.items \o b.items, err |-> b.err]

\* Every way to take an outcome of each, parallelLimitedIndexedStream.
RECURSIVE InOrder(_)
InOrder(outs) ==
    IF outs = <<>> THEN {Results(<<>>)}
    ELSE {Then(a, b) : a \in Head(outs), b \in InOrder(Tail(outs))}

(***************************************************************************)
(* resourcesSubjectMap2: edges from resources found to the subjects they   *)
(* were found for, each with whether its caveat is missing context.        *)
(***************************************************************************)
Edge(id, sub, missing) == [id |-> id, sub |-> sub, missing |-> missing]
ResourceIds(edges) == {e.id : e \in edges}
subjectIDsToResourcesMap2(ids) == {Edge(i, i, FALSE) : i \in ids}

\* The subjects without a missing caveat, or else all of them.
mapSubjects(edges) ==
    LET sure == {e \in edges : ~e.missing}
    IN  [for |-> {e.sub : e \in IF sure # {} THEN sure ELSE edges}, missing |-> sure = {}]

asPossibleResources(edges) ==
    LET ids == Sorted(ResourceIds(edges))
    IN  [k \in DOMAIN ids |->
            LET m == mapSubjects({e \in edges : e.id = ids[k]})
            IN  Result(ids[k], m.for, m.missing, <<>>)]

\* publishResultToParentStream; a result for a subject not dispatched is a bug.
mapPossibleResource(item, edges) ==
    LET m == mapSubjects({e \in edges : e.id \in item.for})
    IN  [item EXCEPT !.for = m.for, !.missing = m.missing \/ @]
Mapped(out, edges) ==
    IF \E k \in DOMAIN out.items : ~(out.items[k].for \subseteq ResourceIds(edges)) THEN Failed
    ELSE [out EXCEPT !.items = [k \in DOMAIN @ |-> mapPossibleResource(@[k], edges)]]

(***************************************************************************)
(* The context of a request is one of Contexts, or Nil: then no caveat can *)
(* be run.  RunCaveatExpression: true, false or missing context.           *)
(***************************************************************************)
RunCaveatExpression(e, context) ==
    IF e = Nil THEN "true" ELSE IF context = Nil THEN "missing"
    ELSE IF context \in e THEN "true" ELSE "false"

\* The membership that a check of resources found has in the context.
Membership(ms, i, context) ==
    IF ms[i] = Absent THEN "false" ELSE RunCaveatExpression(ms[i], context)

\* The resources found by a direct entrypoint are members; others are by
\* ComputeBulkCheck, with a hint for each.
checkWithHints(q, ep, ids) ==
    IF ep.direct THEN {[i \in Subjects |-> Nil]}
    ELSE IF ep.kind \in {"relation", "self"} THEN {Err}
    ELSE ComputeBulkCheck(ep.target.type, ep.target.rel, ids, q.subject,
             {IF ep.kind = "arrow" THEN ArrowHint(ep.target.type, ep.tupleset, ep.computed, i)
              ELSE RelationHint(ep.target.type, ep.computed, i) : i \in ids},
             q.depth - 1)

(***************************************************************************)
(* The relationships a subject is looked for in, in the order of their     *)
(* subjects, in chunks of at most ChunkSize resources.  The cursor of a    *)
(* chunk is the place of the relationship before it.                       *)
(***************************************************************************)
BySubject(a, b) ==
    \/ Position(a.sub.id) < Position(b.sub.id)
    \/ a.sub.id = b.sub.id /\ Position(a.id) < Position(b.id)

relationEntrypointRels(q, ep) ==
    LET allowed == Allowed(ep.target.type, ep.target.rel)
        ids == (IF \E a \in allowed : Ref(a.type, a.rel) = q.sub THEN q.ids ELSE {})
               \cup (IF q.sub.rel = Ellipsis /\ \E a \in allowed : Ref(a.type, a.rel) = Ref(q.sub.type, "*")
                     THEN {Star} ELSE {})
    IN  {r \in rels : /\ Ref(r.type, r.rel) = ep.target
                      /\ Ref(r.sub.type, r.sub.rel) = q.sub /\ r.sub.id \in ids}

ttuEntrypointRels(q, ep) ==
    {r \in rels : /\ r.type = ep.target.type /\ r.rel = ep.tupleset
                  /\ r.sub.type = q.sub.type /\ r.sub.id \in q.ids}

RECURSIVE chunksFrom(_, _, _, _)
chunksFrom(q, rows, edges, start) ==
    LET k == start.next
        run == RunCaveatExpression(rows[k].caveat, q.context)
        more == edges \cup {Edge(rows[k].id, rows[k].sub.id, run = "missing")}
        chunk(es) == [edges |-> es, cursor |-> start.cursor]
    IN  IF k > Len(rows) THEN IF edges = {} THEN <<>> ELSE <<chunk(edges)>>
        ELSE IF run = "false" THEN chunksFrom(q, rows, edges, [start EXCEPT !.next = k + 1])
        ELSE IF Cardinality(ResourceIds(more)) = ChunkSize
        THEN <<chunk(more)>> \o chunksFrom(q, rows, {}, [next |-> k + 1, cursor |-> k])
        ELSE chunksFrom(q, rows, more, [start EXCEPT !.next = k + 1])

\* PossibleTraitsForSubject: where none is allowed, no caveats are read.
chunksOf(q, rr, rs, cursor) ==
    LET skipCaveats == \A a \in Allowed(rr.type, rr.rel) : a.type = q.sub.type => ~a.caveat
    IN  chunksFrom(q, SetToSortSeq(Read(rs, skipCaveats), BySubject), {},
                   [next |-> headSectionValue(cursor) + 1, cursor |-> headSectionValue(cursor)])

(***************************************************************************)
(* What there is to handle for the entrypoints from the one of the cursor  *)
(* on: resources found, where its results are (at), the cursor to resume   *)
(* from, of the first of them, and whether they are subjects to go on from *)
(* (again).                                                                *)
(***************************************************************************)
entrypointHandlers(q, ep, at, cursor) ==
    LET handler(edges, sections, resume) ==
            [ep |-> ep, edges |-> edges, at |-> sections, cursor |-> resume,
             again |-> HasOptimizedEntrypointsForSubjectToResource(ep.target, q.target)]
        chunks == IF ep.kind = "arrow"
                  THEN chunksOf(q, Ref(ep.target.type, ep.tupleset), ttuEntrypointRels(q, ep), cursor)
                  ELSE chunksOf(q, ep.target, relationEntrypointRels(q, ep), cursor)
    IN  IF ep.kind \in {"computed", "self"}
        THEN <<handler(subjectIDsToResourcesMap2(q.ids), at, cursor)>>
        ELSE [k \in DOMAIN chunks |->
                handler(chunks[k].edges, at \o <<chunks[k].cursor>>,
                        IF k = 1 THEN Rest(cursor) ELSE <<>>)]

handlers(q, eps, cursor) ==
    LET first == headSectionValue(cursor)
    IN  FlattenSeq([k \in 1 .. Len(eps) - first |->
            entrypointHandlers(q, eps[first + k], <<first + k - 1>>,
                               IF k = 1 THEN Rest(cursor) ELSE <<>>)])

(***************************************************************************)
(* filterSubjectIDsToDispatch: each subject is dispatched by one of the    *)
(* handlers that found it, by the first to come.  The chunks of an arrow   *)
(* are handled one after the other.                                        *)
(***************************************************************************)
Finds(hs, subject) ==
    {k \in DOMAIN hs : hs[k].ep.target = subject.rr /\ subject.id \in ResourceIds(hs[k].edges)}

dispatched(hs) ==
    LET live == {k \in DOMAIN hs : hs[k].again}
        found == UNION {{[rr |-> hs[k].ep.target, id |-> i] : i \in ResourceIds(hs[k].edges)} : k \in live}
        mayBeFirst(s) == {k \in Finds(hs, s) :
                            hs[k].ep.kind = "arrow" =>
                                \A j \in Finds(hs, s) : hs[j].ep = hs[k].ep => j >= k}
    IN  {by \in [found -> live] : \A s \in found : by[s] \in mayBeFirst(s)}

RECURSIVE DispatchLookupResources2(_, _)

\* The resources of a handler that are results, from its offset on.
toReport(q, h) ==
    LET ids == Sorted(ResourceIds(h.edges))
    IN  IF h.ep.target # q.target THEN {}
        ELSE {ids[k] : k \in headSectionValue(h.cursor) + 1 .. Len(ids)}

report(q, h, ms) ==
    LET offset == headSectionValue(h.cursor)
        resources == asPossibleResources(h.edges)
        has(i) == Membership(ms, i, q.context)
    IN  {Results(SelectSeq([j \in 1 .. Len(resources) - offset |->
                    [resources[offset + j] EXCEPT
                        !.cursor = <<offset + j>>,
                        !.missing = @ \/ has(resources[offset + j].id) = "missing"]],
                 LAMBDA item : has(item.id) # "false"))}

\* The subjects of a handler dispatched, those that the check leaves.
redispatch(q, h, ids, ms) ==
    LET has(i) == Membership(ms, i, q.context)
        seen == {i \in ids : has(i) # "false"}
        adjusted == {[e EXCEPT !.missing = @ \/ (e.id \in ids /\ has(e.id) = "missing")] :
                        e \in h.edges}
        sections == IF h.ep.direct THEN <<-1>> ELSE <<-1, 0>>
    IN  IF seen = {} THEN {Results(<<>>)}
        ELSE {Within(sections, Mapped(out, adjusted)) : out \in
                DispatchLookupResources2([q EXCEPT !.sub = h.ep.target, !.ids = seen,
                                                   !.depth = q.depth - 1],
                    IF h.ep.direct THEN Rest(h.cursor) ELSE Rest(Rest(h.cursor)))}

\* What is to be checked first is.
redispatchOrReport(q, h, ids) ==
    LET asked == IF h.again THEN ids ELSE toReport(q, h)
    IN  {Within(h.at, out) : out \in
            IF asked = {} THEN {Results(<<>>)}
            ELSE UNION {IF ms = Err THEN {Failed}
                        ELSE IF h.again THEN redispatch(q, h, ids, ms)
                        ELSE report(q, h, ms) : ms \in checkWithHints(q, h.ep, asked)}}

handled(q, hs) ==
    LET ids(by, k) == {s.id : s \in {t \in DOMAIN by : by[t] = k}}
    IN  UNION {InOrder([k \in DOMAIN hs |-> redispatchOrReport(q, hs[k], ids(by, k))])
               : by \in dispatched(hs)}

afterSameType(q, cursor) ==
    handled(q, handlers(q, FirstEntrypointsForSubjectToResource[q.target][q.sub], cursor))

DispatchLookupResources2(q, cursor) ==
    LET offset == headSectionValue(cursor)
        ids == Sorted(q.ids)
        same == IF q.sub = q.target /\ offset >= 0
                THEN [k \in 1 .. Len(ids) - offset |->
                        Result(ids[offset + k], {ids[offset + k]}, FALSE, <<offset + k>>)]
                ELSE <<>>
    IN  IF q.depth = 0 THEN {Failed}
        ELSE {Then(Results(same), Within(<<-1>>, out)) : out \in afterSameType(q, Rest(cursor))}
=============================================================================
