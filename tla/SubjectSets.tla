---------------------------- MODULE SubjectSets ----------------------------
(***************************************************************************)
(* BaseSubjectSet (internal/datasets): the subjects found so far, a        *)
(* wildcard with the subjects excluded from it, and for each the caveat    *)
(* expression under which it is there.                                     *)
(*                                                                         *)
(* An expression is the set of the contexts in which it holds, or nil:     *)
(* what And, Or and Invert do with nil is what they do in internal/caveats.*)
(***************************************************************************)
CONSTANTS
    Subjects,       \* ids of concrete subjects
    Contexts,       \* caveat contexts: each expression holds or fails in each
    Nil,            \* no caveat
    Absent          \* in place of an expression: the subject is not there

ASSUME SubjectSetsAssumption ==
    /\ Nil # Absent /\ \A e \in SUBSET Contexts : e # Nil /\ e # Absent
    /\ \A s \in Subjects : s # Absent

Exprs == (SUBSET Contexts) \cup {Nil}
Entries == Exprs \cup {Absent}

(***************************************************************************)
(* internal/caveats                                                        *)
(***************************************************************************)
And(a, b) == IF a = Nil THEN b ELSE IF b = Nil THEN a ELSE a \cap b
Or(a, b) == IF a = Nil THEN b ELSE IF b = Nil THEN a ELSE a \cup b
ShortcircuitedOr(a, b) == IF a = Nil \/ b = Nil THEN Nil ELSE Or(a, b)
Invert(a) == IF a = Nil THEN Nil ELSE Contexts \ a

(***************************************************************************)
(* A set: an entry for each concrete subject, one for the wildcard, and    *)
(* one for each subject excluded from the wildcard.                        *)
(***************************************************************************)
SubjectSet == [concrete : [Subjects -> Entries], wildcard : Entries,
               excluded : [Subjects -> Entries]]

NoneExcluded == [s \in Subjects |-> Absent]
EmptySet == [concrete |-> NoneExcluded, wildcard |-> Absent, excluded |-> NoneExcluded]
Concrete(s, e) == [EmptySet EXCEPT !.concrete = [t \in Subjects |-> IF t = s THEN e ELSE Absent]]
Wildcard(e) == [EmptySet EXCEPT !.wildcard = e]

WithWildcard(set, e, x) ==
    [set EXCEPT !.wildcard = e, !.excluded = IF e = Absent THEN NoneExcluded ELSE x]

\* Of entries, each of which may be absent.
unionConcreteWithConcrete(a, b) ==
    IF a = Absent THEN b ELSE IF b = Absent THEN a ELSE ShortcircuitedOr(a, b)
intersectConcreteWithConcrete(a, b) ==
    IF a = Absent \/ b = Absent THEN Absent ELSE And(a, b)

(***************************************************************************)
(* Add and UnionWithSet                                                    *)
(***************************************************************************)

\* The exclusion of a subject from the wildcard, when the concrete c joins.
unionWildcardWithConcrete(x, c) ==
    IF x = Absent \/ c = Absent THEN x
    ELSE IF c = Nil THEN Absent
    ELSE And(x, Invert(c))

AddConcretes(set, found) ==
    [set EXCEPT
        !.concrete = [s \in Subjects |-> unionConcreteWithConcrete(set.concrete[s], found[s])],
        !.excluded = [s \in Subjects |-> unionWildcardWithConcrete(set.excluded[s], found[s])]]

unionWildcardWithWildcard(set, e, x) ==
    IF set.wildcard = Absent THEN WithWildcard(set, e, x)
    ELSE WithWildcard(set, ShortcircuitedOr(set.wildcard, e),
             [s \in Subjects |-> intersectConcreteWithConcrete(set.excluded[s], x[s])])

AddWildcard(set, e, x) ==
    IF e = Absent THEN set
    ELSE LET w == unionWildcardWithWildcard(set, e, x)
         IN  [w EXCEPT !.excluded = [s \in Subjects |->
                  unionWildcardWithConcrete(w.excluded[s], set.concrete[s])]]

\* AsSlice lists the wildcard last.
UnionWithSet(set, other) ==
    AddWildcard(AddConcretes(set, other.concrete), other.wildcard, other.excluded)

(***************************************************************************)
(* Subtract and SubtractAll                                                *)
(***************************************************************************)
subtractConcreteFromConcrete(a, c) ==
    IF a = Absent \/ c = Absent THEN a
    ELSE IF c = Nil THEN Absent
    ELSE And(a, Invert(c))

subtractConcreteFromWildcard(x, c) ==
    IF c = Absent THEN x ELSE IF x = Absent THEN c ELSE ShortcircuitedOr(x, c)

SubtractConcretes(set, found) ==
    [set EXCEPT
        !.concrete = [s \in Subjects |-> subtractConcreteFromConcrete(set.concrete[s], found[s])],
        !.excluded = [s \in Subjects |->
            IF set.wildcard = Absent THEN Absent
            ELSE subtractConcreteFromWildcard(set.excluded[s], found[s])]]

subtractWildcardFromConcrete(a, e, x) ==
    CASE a = Absent -> Absent
      [] a # Absent /\ x = Absent -> IF e = Nil THEN Absent ELSE And(a, Invert(e))
      [] a # Absent /\ x = Nil -> a
      [] OTHER -> And(a, Or(Invert(e), x))

\* The concrete subject that a subject excluded from the wildcard to remove becomes.
ResultingConcrete(w, mine, e, x) ==
    IF x = Absent \/ mine = Nil THEN Absent
    ELSE IF mine = Absent THEN And(And(w, e), x)
    ELSE And(And(And(w, e), Invert(mine)), x)

SubtractWildcard(set, e, x) ==
    LET left == [s \in Subjects |-> subtractWildcardFromConcrete(set.concrete[s], e, x[s])]
        combined == And(set.wildcard, Invert(e))
    IN  CASE e = Absent -> set
          [] e # Absent /\ set.wildcard = Absent -> [set EXCEPT !.concrete = left]
          [] e = Nil /\ set.wildcard # Absent /\ x = NoneExcluded ->
                 WithWildcard([set EXCEPT !.concrete = left], Absent, NoneExcluded)
          [] OTHER ->
                 WithWildcard(
                     [set EXCEPT !.concrete = [s \in Subjects |->
                          LET r == ResultingConcrete(set.wildcard, set.excluded[s], e, x[s])
                          IN  IF r = Absent THEN left[s] ELSE r]],
                     IF combined = Nil THEN Absent ELSE combined, set.excluded)

SubtractAll(set, other) ==
    SubtractWildcard(SubtractConcretes(set, other.concrete), other.wildcard, other.excluded)

(***************************************************************************)
(* IntersectionDifference                                                  *)
(***************************************************************************)
intersectConcreteWithWildcard(c, e, x) ==
    CASE c = Absent \/ e = Absent -> Absent
      [] c # Absent /\ e # Absent /\ x = Absent -> And(c, e)
      [] c # Absent /\ e # Absent /\ x = Nil -> Absent
      [] OTHER -> And(c, And(e, Invert(x)))

IntersectionDifference(set, other) ==
    LET concretes == [s \in Subjects |->
            unionConcreteWithConcrete(
                unionConcreteWithConcrete(
                    intersectConcreteWithConcrete(set.concrete[s], other.concrete[s]),
                    intersectConcreteWithWildcard(set.concrete[s], other.wildcard,
                                                  other.excluded[s])),
                intersectConcreteWithWildcard(other.concrete[s], set.wildcard,
                                              set.excluded[s]))]
        both == set.wildcard # Absent /\ other.wildcard # Absent
    IN  WithWildcard([set EXCEPT !.concrete = concretes],
            IF both THEN And(set.wildcard, other.wildcard) ELSE Absent,
            [s \in Subjects |-> unionConcreteWithConcrete(set.excluded[s], other.excluded[s])])

\* WithParentCaveatExpression.
WithParent(set, parent) ==
    [set EXCEPT
        !.concrete = [s \in Subjects |->
            IF set.concrete[s] = Absent THEN Absent ELSE And(parent, set.concrete[s])],
        !.wildcard = IF set.wildcard = Absent THEN Absent ELSE And(parent, set.wildcard)]

(***************************************************************************)
(* What a set means: whether a subject is in it in a context, the subject  *)
(* being one of Subjects or, as Absent stands for here, any other.         *)
(***************************************************************************)
Holds(e, c) == e = Nil \/ (e # Absent /\ c \in e)

Has(set, s, c) ==
    \/ s \in Subjects /\ Holds(set.concrete[s], c)
    \/ /\ Holds(set.wildcard, c)
       /\ ~(s \in Subjects /\ Holds(set.excluded[s], c))
=============================================================================
