-------------------------- MODULE LookupResources3 --------------------------
(***************************************************************************)
(* LookupResources in its experimental form (lookupresources3.go over the  *)
(* iterators of internal/cursorediterator): nothing is shared between the  *)
(* branches, so a subject found by several is dispatched by each of them,  *)
(* and every call keeps to the limit of the request by itself.             *)
(***************************************************************************)
EXTENDS LookupResources2

(***************************************************************************)
(* relationshipsChunk: a relationship added again, for the same resource   *)
(* and subject id, adds what it is missing.                                *)
(***************************************************************************)
Merged(edges) ==
    {Edge(e.id, e.sub, \E f \in edges : f.id = e.id /\ f.sub = e.sub /\ f.missing) : e \in edges}

\* relationshipsChunk.mapPossibleResource
MapPossibleResource3(item, edges) ==
    LET infos == {e \in edges : e.id \in item.for}
        sure == {e \in infos : ~e.missing}
        missing == item.missing \/ sure = {}
    IN  [item EXCEPT !.for = {e.sub : e \in IF missing THEN infos ELSE sure}, !.missing = missing]

\* yieldingStream.Publish
Published3(out, edges) ==
    IF \E k \in DOMAIN out.items : ~(out.items[k].for \subseteq ResourceIds(edges)) THEN Failed
    ELSE [out EXCEPT !.items = [k \in DOMAIN @ |-> MapPossibleResource3(@[k], edges)]]

RECURSIVE DispatchLookupResources3(_, _)

dispatchIter(q, edges, rr, cursor) ==
    IF edges = {} THEN {Results(<<>>)}
    ELSE {Published3(out, edges) :
             out \in DispatchLookupResources3([q EXCEPT !.sub = rr, !.ids = ResourceIds(edges),
                                                        !.depth = q.depth - 1], cursor)}

\* The edges to resources that the check leaves, with what it was missing.
filterSubjectsByCheck(edges, ms, context) ==
    {[e EXCEPT !.missing = @ \/ Membership(ms, e.id, context) = "missing"] :
        e \in {f \in edges : Membership(ms, f.id, context) # "false"}}

checkedDispatchIter(q, ep, edges, cursor) ==
    UNION {IF ms = Err THEN {Failed}
           ELSE dispatchIter(q, filterSubjectsByCheck(edges, ms, q.context), ep.target, cursor)
           : ms \in checkWithHints(q, ep, ResourceIds(edges))}

(***************************************************************************)
(* The iterators of cursorediterator, by the outcomes of what they iterate *)
(* over, each in its section of the cursor: the branches from the index    *)
(* first on, in order; the chunks, where with more than one mapper an      *)
(* error takes the place of the results of its chunk; and a header, then   *)
(* the rest.                                                               *)
(***************************************************************************)
CursoredParallelIterators(first, outs) ==
    InOrder([k \in DOMAIN outs |-> {Within(<<first + k - 1>>, out) : out \in outs[k]}])

CursoredProducerMapperIterator(chunks, unread, outs) ==
    IF unread THEN outs[1]
    ELSE InOrder([k \in DOMAIN chunks |->
        {Within(<<chunks[k].cursor>>, out) :
            out \in outs[k] \cup (IF \E o \in outs[k] : o.err THEN {Failed} ELSE {})}])

CursoredWithIntegerHeader(header, out) == Then(Results(header), Within(<<-1>>, out))

(***************************************************************************)
(* The rest of the cursor is for the first chunk.  It is found in the      *)
(* cache by its id or queried again from where it began: the same chunk.   *)
(* What is not read from relationships is one chunk, without a section.    *)
(***************************************************************************)
relationshipsIter(q, ep, cursor) ==
    IF ep.kind = "arrow"
    THEN chunksOf(q, Ref(ep.target.type, ep.tupleset), ttuEntrypointRels(q, ep), cursor)
    ELSE chunksOf(q, ep.target, relationEntrypointRels(q, ep), cursor)

entrypointIter(q, ep, cursor) ==
    LET unread == ep.kind \in {"computed", "self"}
        chunks == IF unread THEN <<[edges |-> subjectIDsToResourcesMap2(q.ids), cursor |-> 0]>>
                  ELSE relationshipsIter(q, ep, cursor)
    IN  CursoredProducerMapperIterator(chunks, unread,
            [k \in DOMAIN chunks |->
                checkedDispatchIter(q, ep, Merged(chunks[k].edges),
                    IF k > 1 THEN <<>> ELSE IF unread THEN cursor ELSE Rest(cursor))])

\* From the entrypoint that the cursor names on.
entrypointsIter(q, eps, cursor) ==
    LET first == headSectionValue(cursor)
    IN  CursoredParallelIterators(first,
            [k \in 1 .. Len(eps) - first |->
                entrypointIter(q, eps[first + k], IF k = 1 THEN Rest(cursor) ELSE <<>>)])

\* A call stops at the limit, and at no error beyond it.
Limited(out, k) ==
    IF k > 0 /\ Len(out.items) >= k THEN Results(SubSeq(out.items, 1, k)) ELSE out

\* The subjects that are results, then what their entrypoints lead to.
DispatchLookupResources3(q, cursor) ==
    LET done == headSectionValue(cursor)
        ids == Sorted(q.ids)
        header == IF q.sub = q.target /\ done >= 0
                  THEN [k \in 1 .. Len(ids) - done |->
                          Result(ids[done + k], {ids[done + k]}, FALSE, <<done + k>>)]
                  ELSE <<>>
    IN  IF q.depth = 0 THEN {Failed}
        ELSE {Limited(CursoredWithIntegerHeader(header, out), q.limit) :
                 out \in entrypointsIter(q, FirstEntrypointsForSubjectToResource[q.target][q.sub],
                                         Rest(cursor))}
=============================================================================
