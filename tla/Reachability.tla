---------------------------- MODULE Reachability ----------------------------
(***************************************************************************)
(* The reachability graph of a schema (pkg/schema/reachabilitygraph.go):   *)
(* the entrypoints by which a subject of one kind may come to a relation   *)
(* or permission of a resource, through the first branches of              *)
(* intersections and exclusions only (reachabilityFirst).                  *)
(*                                                                         *)
(* An entrypoint is of the relation, computed, arrow or self kind; target  *)
(* is the relation it is found in, and it is direct unless the schema has  *)
(* more conditions for target (an intersection, an exclusion or an all     *)
(* arrow), so that a check of target is to follow.                         *)
(***************************************************************************)
EXTENDS Permissions, SequencesExt

\* The keys of a graph: a type with a relation, "..." or, for a wildcard, "*".
Types == {k[1] : k \in DOMAIN schema} \cup
         UNION {{a.type : a \in Allowed(k[1], k[2])} : k \in DOMAIN schema}
Relations == {Ref(k[1], k[2]) : k \in DOMAIN schema}
SubjectRelations == Relations \cup {Ref(t, Ellipsis) : t \in Types}

Entrypoint(kind, target, tupleset, computed, direct) ==
    [kind |-> kind, target |-> target, tupleset |-> tupleset, computed |-> computed,
     direct |-> direct]

addSubjectLinks(t, r, key) ==
    IF \E a \in Allowed(t, r) : Ref(a.type, a.rel) = key
    THEN <<Entrypoint("relation", Ref(t, r), "", "", TRUE)>> ELSE <<>>

computeTTUReachability(w, t, r, key, direct) ==
    IF /\ key.rel = w.rel /\ HasRelation(key.type, w.rel)
       /\ \E a \in Allowed(t, w.tupleset) : a.type = key.type
    THEN <<Entrypoint("arrow", Ref(t, r), w.tupleset, w.rel, direct)>> ELSE <<>>

(***************************************************************************)
(* The entrypoints of a rewrite under one key.  The state that an all      *)
(* arrow sets stays for the children after it.                             *)
(***************************************************************************)
RECURSIVE computeRewriteReachability(_, _, _, _, _)
computeRewriteReachability(w, t, r, key, direct) ==
    LET kids == IF w.op = "union" THEN w.kids ELSE SubSeq(w.kids, 1, 1)
        directAt(k) == /\ direct /\ w.op = "union"
                       /\ \A j \in 1 .. k : kids[j].op = "arrow" => kids[j].fn = "any"
        of(k) ==
            LET c == kids[k]
            IN  CASE c.op = "nil" -> <<>>
                  [] c.op = "computed" ->
                         IF key = Ref(t, c.rel)
                         THEN <<Entrypoint("computed", Ref(t, r), "", c.rel, directAt(k))>>
                         ELSE <<>>
                  [] c.op = "self" ->
                         IF key = Ref(t, Ellipsis)
                         THEN <<Entrypoint("self", Ref(t, r), "", "", directAt(k))>> ELSE <<>>
                  [] c.op = "arrow" -> computeTTUReachability(c, t, r, key, directAt(k))
                  [] OTHER -> computeRewriteReachability(c, t, r, key, directAt(k))
    IN  FlattenSeq([k \in DOMAIN kids |-> of(k)])

computeReachability(t, r, key) ==
    IF Rewrite(t, r).op = "direct" THEN addSubjectLinks(t, r, key)
    ELSE computeRewriteReachability(Rewrite(t, r), t, r, key, TRUE)

\* The graph of every relation: what getOrBuildGraph caches.
Graph == [rr \in Relations |->
            [key \in SubjectRelations \cup {Ref(t, "*") : t \in Types} |->
                computeReachability(rr.type, rr.rel, key)]]

(***************************************************************************)
(* The entrypoints for the subject in a graph and, depth first, in those   *)
(* of the subject relations of the graph, each looked at once.             *)
(***************************************************************************)
RECURSIVE collectEntrypoints(_, _, _)
collectEntrypoints(rr, subject, seen) ==
    LET further == SetToSeq({key \in Relations : Graph[rr][key] # <<>>})
        step(acc, key) ==
            IF key \in acc.seen THEN acc
            ELSE LET sub == collectEntrypoints(key, subject, acc.seen)
                 IN  [found |-> acc.found \o sub.found, seen |-> sub.seen]
    IN  FoldLeft(step,
                 [found |-> Graph[rr][Ref(subject.type, "*")] \o Graph[rr][subject],
                  seen |-> seen \cup {rr}],
                 further)

\* computeEntrypoints: without those that repeat an earlier one.
Unique(s) == FoldLeft(LAMBDA acc, e : IF e \in ToSet(acc) THEN acc ELSE Append(acc, e), <<>>, s)

FirstEntrypointsForSubjectToResource ==
    [rr \in Relations |-> [subject \in SubjectRelations |->
        Unique(collectEntrypoints(rr, subject, {}).found)]]

HasOptimizedEntrypointsForSubjectToResource(subject, rr) ==
    FirstEntrypointsForSubjectToResource[rr][subject] # <<>>
=============================================================================
