---------------------------- MODULE Permissions ----------------------------
(***************************************************************************)
(* What a permission means: a schema, the relationships written under it,  *)
(* and the relation "this subject has this permission in this context"     *)
(* they define.  Check, LookupSubjects and Expand each compute it in their *)
(* own way, and are compared with it here.                                 *)
(*                                                                         *)
(* A schema maps a type and a relation to                                  *)
(*   rewrite  [op |-> "direct"] for a relation, and for a permission a     *)
(*            tree of union, intersection and exclusion over "computed",   *)
(*            "arrow" (fn is any or all), "self" and "nil";                *)
(*   allowed  the subjects a relation takes: a type, a relation of it,     *)
(*            "..." or "*", and whether a caveat is to come with it.       *)
(* Ids are the Subjects of SubjectSets, and a caveat of a relationship is  *)
(* an expression of it.                                                    *)
(***************************************************************************)
EXTENDS SubjectSets, Sequences, FiniteSets, FiniteSetsExt

CONSTANTS
    schema,         \* a function of types and relations
    Relationships,  \* the relationships that may be written
    MaxRels,        \* bound on the relationships of a behaviour
    Star            \* the id of a wildcard, tuple.PublicWildcard

VARIABLE rels       \* the live relationships

Ellipsis == "..."
Ref(o, r) == [type |-> o, rel |-> r]

HasRelation(t, r) == <<t, r>> \in DOMAIN schema
Rewrite(t, r) == schema[<<t, r>>].rewrite
Allowed(t, r) == schema[<<t, r>>].allowed

PermInit == rels = {}

\* One relationship for a resource, a relation and a subject.
Key(r) == <<r.type, r.id, r.rel, r.sub>>

\* ValidateOneRelationship: the subject, with or without a caveat, is allowed.
ValidRelationship(r) ==
    /\ HasRelation(r.type, r.rel)
    /\ r.sub.rel # Ellipsis => HasRelation(r.sub.type, r.sub.rel)
    /\ Rewrite(r.type, r.rel).op = "direct"
    /\ [type |-> r.sub.type, rel |-> IF r.sub.id = Star THEN "*" ELSE r.sub.rel,
        caveat |-> r.caveat # Nil] \in Allowed(r.type, r.rel)

WriteRelationship(r) ==
    /\ ValidRelationship(r)
    /\ Cardinality(rels) < MaxRels
    /\ \A q \in rels : Key(q) # Key(r)
    /\ rels' = rels \cup {r}

(***************************************************************************)
(* The reference: subject s has relation r of object t:id in context c,    *)
(* found over at most n relationships and rewrites.                        *)
(***************************************************************************)
RECURSIVE Member(_, _, _, _, _, _)
RECURSIVE MemberOf(_, _, _, _, _, _)

Member(t, id, r, s, c, n) ==
    \/ s = [type |-> t, id |-> id, rel |-> r]
    \/ /\ n > 0 /\ HasRelation(t, r)
       /\ IF Rewrite(t, r).op # "direct" THEN MemberOf(Rewrite(t, r), t, id, s, c, n - 1)
          ELSE \E q \in rels :
                  /\ q.type = t /\ q.id = id /\ q.rel = r /\ Holds(q.caveat, c)
                  /\ \/ q.sub = s
                     \/ q.sub.id = Star /\ q.sub.type = s.type
                     \/ /\ q.sub.rel # Ellipsis
                        /\ Member(q.sub.type, q.sub.id, q.sub.rel, s, c, n - 1)

MemberOf(w, t, id, s, c, n) ==
    CASE w.op = "nil" -> FALSE
      [] w.op = "self" -> s = [type |-> t, id |-> id, rel |-> Ellipsis]
      [] w.op = "computed" -> Member(t, id, w.rel, s, c, n)
      [] w.op = "union" -> \E i \in DOMAIN w.kids : MemberOf(w.kids[i], t, id, s, c, n)
      [] w.op = "intersection" -> \A i \in DOMAIN w.kids : MemberOf(w.kids[i], t, id, s, c, n)
      [] w.op = "exclusion" ->
             /\ MemberOf(w.kids[1], t, id, s, c, n)
             /\ \A i \in 2 .. Len(w.kids) : ~MemberOf(w.kids[i], t, id, s, c, n)
      [] OTHER ->
             LET over == {q \in rels : q.type = t /\ q.id = id /\ q.rel = w.tupleset}
                 through(q) == Holds(q.caveat, c) /\ Member(q.sub.type, q.sub.id, w.rel, s, c, n)
             IN  IF w.fn = "any" THEN \E q \in over : through(q)
                 ELSE over # {} /\ \A q \in over : through(q)
=============================================================================
