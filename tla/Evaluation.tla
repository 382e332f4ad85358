---------------------------- MODULE Evaluation -----------------------------
(***************************************************************************)
(* Relationships are written, then one request is answered: a check of     *)
(* some resources, a lookup of their subjects, an expansion, or the pages  *)
(* of a lookup of resources.                                               *)
(***************************************************************************)
EXTENDS LookupResources3

CONSTANTS
    Questions,      \* [type, rel, ids, subject] that may be asked
    Lookups,        \* the same, with a context, a limit and whether the
                    \* experimental form is asked, for lookups of resources
    Stranger,       \* the id of a subject that no relationship names
    NoAnswer

VARIABLE answer     \* NoAnswer, or what was asked and what was returned

evalVars == <<rels, answer>>

EvalInit == PermInit /\ answer = NoAnswer

Write(r) == answer = NoAnswer /\ WriteRelationship(r) /\ UNCHANGED answer

Answer(api, asked, result) ==
    /\ answer = NoAnswer
    /\ answer' = [api |-> api, asked |-> asked, result |-> result, unsure |-> {},
                  cursor |-> <<>>, done |-> TRUE]
    /\ UNCHANGED rels

\* The answer of a check, by resource, as a set of its one subject.
CheckBulk(q) ==
    \E r \in ComputeBulkCheck(q.type, q.rel, q.ids, q.subject, {}, MaxDepth) :
        Answer("check", q,
               IF r = Err THEN Err ELSE [i \in Subjects |-> Concrete(q.subject.id, r[i])])

Lookup(q) ==
    \E cut \in BOOLEAN :
        Answer("lookup", q,
               LookupSubjects(q.type, q.rel, q.ids, Ref(q.subject.type, q.subject.rel), cut))

ExpandPermission(q) ==
    \E i \in q.ids :
        LET tree == DispatchExpand(q.type, i, q.rel, MaxDepth)
        IN  Answer("expand", [q EXCEPT !.ids = {i}],
                   IF tree = Err THEN Err
                   ELSE [j \in Subjects |->
                           IF j = i
                           THEN populateFoundSubjects(tree, Ref(q.subject.type, q.subject.rel))
                           ELSE EmptySet])

(***************************************************************************)
(* A page of a lookup of resources: q has a context and a limit as well,   *)
(* 0 if there is none.  A client asks again, from the cursor of the last   *)
(* result, as long as the pages are full, and puts together what it gets:  *)
(* the resources said to have the permission and, unsure, those said to    *)
(* have it conditionally.                                                  *)
(***************************************************************************)
request(q) ==
    [target |-> Ref(q.type, q.rel), sub |-> Ref(q.subject.type, q.subject.rel),
     ids |-> {q.subject.id}, subject |-> q.subject, context |-> q.context, limit |-> q.limit,
     depth |-> MaxDepth]

lookupResources3(q, cursor) == DispatchLookupResources3(request(q), cursor)
lookupResources2(q, cursor) == DispatchLookupResources2(request(q), cursor)

LookupResources(q) ==
    LET first == answer = NoAnswer
        cursor == IF first THEN <<>> ELSE answer.cursor
        outs == IF q.lr3 THEN lookupResources3(q, cursor) ELSE lookupResources2(q, cursor)
        full(out) == q.limit > 0 /\ Len(out.items) >= q.limit
        page(out) == IF full(out) THEN SubSeq(out.items, 1, q.limit) ELSE out.items
        ids(out, missing) == {r.id : r \in {p \in ToSet(page(out)) : p.missing = missing}}
        had == {i \in Subjects : ~first /\ answer.result[i] # EmptySet}
        unsure == IF first THEN {} ELSE answer.unsure
        has(out) == had \cup ids(out, FALSE)
    IN  /\ IF first THEN TRUE ELSE answer.api = "resources" /\ answer.asked = q /\ ~answer.done
        /\ \E out \in outs :
              \/ /\ out.err
                 /\ answer' = [api |-> "resources", asked |-> q, result |-> Err, unsure |-> {},
                               cursor |-> <<>>, done |-> TRUE]
              \/ /\ full(out) \/ ~out.err
                 /\ answer' = [api |-> "resources", asked |-> q,
                        result |-> [i \in Subjects |-> IF i \in has(out)
                                       THEN Concrete(q.subject.id, Nil) ELSE EmptySet],
                        unsure |-> (unsure \cup ids(out, TRUE)) \ has(out),
                        cursor |-> IF full(out) THEN Last(page(out)).cursor ELSE <<>>,
                        done |-> ~full(out)]
        /\ UNCHANGED rels

EvalNext ==
    \/ \E r \in Relationships : Write(r)
    \/ \E q \in Questions : CheckBulk(q)
    \/ \E q \in Questions : Lookup(q)
    \/ \E q \in Questions : ExpandPermission(q)
    \/ \E q \in Lookups : LookupResources(q)

EvalSpec == EvalInit /\ [][EvalNext]_evalVars

(***************************************************************************)
(* Properties                                                              *)
(***************************************************************************)

\* More steps than a path over the relationships without a repetition takes.
Enough == 2 * MaxRels + 3

HasPermission(i, s, c) == Member(answer.asked.type, i, answer.asked.rel, s, c, Enough)

Subject(i) == [answer.asked.subject EXCEPT !.id = i]

\* The subjects an answer speaks of: the one asked about, or all that may be
\* found, with one that no relationship names.
Answered ==
    IF answer.api \in {"check", "resources"} THEN {answer.asked.subject.id}
    ELSE ({r.sub.id : r \in rels} \ {Star}) \cup answer.asked.ids \cup {Stranger}

\* The contexts it speaks of: the one given with the request, or else all.
AnsweredIn ==
    IF answer.api = "resources" /\ answer.asked.context # Nil THEN {answer.asked.context}
    ELSE Contexts

\* Some path from a resource is longer than n.
RECURSIVE DeepFrom(_, _, _, _)
RECURSIVE DeepThrough(_, _, _, _)
DeepFrom(t, i, r, n) ==
    n = 0 \/ (HasRelation(t, r) /\ DeepThrough(Rewrite(t, r), <<t, r>>, i, n - 1))
DeepThrough(w, tr, i, n) ==
    CASE w.op \in {"nil", "self"} -> FALSE
      [] w.op = "direct" -> \E q \in RelsOf(tr[1], tr[2], {i}) :
             q.sub.rel # Ellipsis /\ DeepFrom(q.sub.type, q.sub.id, q.sub.rel, n)
      [] w.op = "computed" -> DeepFrom(tr[1], i, w.rel, n)
      [] w.op = "arrow" -> \E q \in RelsOf(tr[1], w.tupleset, {i}) :
             DeepFrom(q.sub.type, q.sub.id, w.rel, n)
      [] OTHER -> \E k \in DOMAIN w.kids : DeepThrough(w.kids[k], tr, i, n)

\* The operands of a rewrite, and the relations that the schema leads to from
\* those of a set.
RECURSIVE Operands(_)
Operands(w) == IF "kids" \in DOMAIN w THEN UNION {Operands(w.kids[k]) : k \in DOMAIN w.kids}
               ELSE {w}

Leads(tr) ==
    DOMAIN schema \cap UNION {
        CASE w.op = "direct" -> {<<a.type, a.rel>> : a \in Allowed(tr[1], tr[2])}
          [] w.op = "computed" -> {<<tr[1], w.rel>>}
          [] w.op = "arrow" -> {<<a.type, w.rel>> : a \in Allowed(tr[1], w.tupleset)}
          [] OTHER -> {} : w \in Operands(Rewrite(tr[1], tr[2]))}

RECURSIVE LedTo(_)
LedTo(trs) == LET more == trs \cup UNION {Leads(tr) : tr \in trs}
              IN  IF more = trs THEN trs ELSE LedTo(more)

(***************************************************************************)
(* Where an answer is known to differ from what a permission means.  Of    *)
(* the relations that the one asked for leads to,                          *)
(*   - an all-arrow over relationships of several resources, some with a   *)
(*     caveat: Check and LookupSubjects and-together the caveats of all    *)
(*     these relationships and apply them to each resource;                *)
(*   - an all-arrow over a subject of a type without the relation: no      *)
(*     subject can be on that side, but LookupSubjects passes over it;     *)
(*   - self: LookupSubjects finds the resource whatever subject type and   *)
(*     relation it is asked for;                                           *)
(*   - a wildcard under a caveat, its own or one of the relationships on   *)
(*     the way to it: a union keeps what two wildcards both exclude, as if *)
(*     both were there, for LookupSubjects and Expand.                     *)
(***************************************************************************)
SharedCaveats(tr, w) ==
    LET over == {p \in rels : p.type = tr[1] /\ p.rel = w.tupleset}
    IN  /\ \E p \in over : p.caveat # Nil
        /\ \E p, o \in over : p.id # o.id

SidePassedOver(tr, w) ==
    \E p \in rels : p.type = tr[1] /\ p.rel = w.tupleset /\ ~HasRelation(p.sub.type, w.rel)

SelfOfAnother(tr) == answer.asked.subject.type # tr[1] \/ answer.asked.subject.rel # Ellipsis

CaveatedWildcard ==
    \E p, o \in rels :
        /\ p.sub.id = Star
        /\ o.caveat # Nil /\ (o = p \/ o.sub.type # answer.asked.subject.type)

KnownToDiffer ==
    \/ /\ answer.api \in {"lookup", "expand"} /\ CaveatedWildcard
    \/ \E tr \in LedTo({<<answer.asked.type, answer.asked.rel>>}) :
           \E w \in Operands(Rewrite(tr[1], tr[2])) :
               \/ /\ w.op = "arrow" /\ w.fn = "all"
                  /\ \/ answer.api # "expand" /\ SharedCaveats(tr, w)
                     \/ answer.api = "lookup" /\ SidePassedOver(tr, w)
               \/ w.op = "self" /\ answer.api = "lookup" /\ SelfOfAnother(tr)

(***************************************************************************)
(* What is answered is the truth, for each of the resources asked about    *)
(* together and in each context: by a check (ComputeBulkCheck) whatever    *)
(* the order in which the branches of unions, intersections and exclusions *)
(* answered, wherever one of them cut the others short and although others *)
(* ran out of depth; by LookupSubjects, which finds a subject, or any      *)
(* subject but some by a wildcard, just where a check of it would be true; *)
(* by the tree of Expand, as developmentmembership reads it; and by the    *)
(* pages of LookupResources put together, whichever branch dispatched a    *)
(* subject first, however the cursors cut the chunks, for each resource it *)
(* does not leave conditional.  The four cases above are excepted, each    *)
(* for the requests it concerns.  A request fails only because             *)
(* relationships go round, or deeper than MaxDepth, from a resource asked  *)
(* about.  (The paths of a lookup of resources start elsewhere.)           *)
(***************************************************************************)
AnswersAreTrue ==
    answer # NoAnswer =>
        IF answer.result = Err
        THEN answer.api # "resources" =>
                \E i \in answer.asked.ids :
                    DeepFrom(answer.asked.type, i, answer.asked.rel, MaxDepth)
        ELSE answer.done =>
                \/ \A i \in answer.asked.ids \ answer.unsure, c \in AnsweredIn, s \in Answered :
                       Has(answer.result[i], s, c) <=> HasPermission(i, Subject(s), c)
                \/ KnownToDiffer
=============================================================================
