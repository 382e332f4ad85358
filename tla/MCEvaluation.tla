---------------------------- MODULE MCEvaluation ---------------------------
(***************************************************************************)
(* The evaluation of requests and the task runners it runs on, for TLC.    *)
(* A behaviour is one of                                                   *)
(*   plain, preloaded, mapper  a TaskRunner, a PreloadedTaskRunner, or a   *)
(*             producer and mapper on a TaskRunner;                        *)
(*   a scenario  relationships of one schema that matter to some of its    *)
(*             permissions, and a request about one of them.               *)
(***************************************************************************)
EXTENDS PreloadedTaskRunner, ProducerMapper, Evaluation

CONSTANTS
    Kinds,          \* those explored
    Other,          \* a second task of the caller
    d1, d2, d3, g1, g2, g3, u1, u2

VARIABLE kind

Runnings == {"plain", "preloaded", "mapper"}

mapperVars == <<prodVars, channel, mapped, failed, yieldedChan, consVars>>
allVars == <<preVars, mapperVars, evalVars, kind>>

(***************************************************************************)
(* What the task runners are given                                         *)
(***************************************************************************)

\* Every script of up to three values.
AnyScript == UNION {[1 .. k -> Yields] : k \in 0 .. 3}

ThreeChunks == 1 .. 3
FiveTasks == ThreeChunks \cup {Producer, Other}
TasksOfCaller == {Producer, Other}
FailingTasks == {Producer, 1}

\* What the first two machines schedule; the other tasks are never scheduled.
PlainTasks == {Producer, Other, 1, 2}
PreloadedTasks == {Producer, Other, 1}

NoMapper ==
    /\ script = <<>> /\ prod = "returned" /\ n = 0 /\ preceding = 0
    /\ channel = <<>> /\ mapped = {} /\ failed = {} /\ yieldedChan = {}
    /\ cons = "returned" /\ cur = 0 /\ yielded = <<>> /\ outcome = "none"

(***************************************************************************)
(* The schema                                                              *)
(***************************************************************************)
Direct(allowed) == [rewrite |-> [op |-> "direct"], allowed |-> allowed]
Perm(w) == [rewrite |-> w, allowed |-> {}]
Computed(r) == [op |-> "computed", rel |-> r]
Arrow(t, r, f) == [op |-> "arrow", tupleset |-> t, rel |-> r, fn |-> f]
SetOperation(o, kids) == [op |-> o, kids |-> kids]
None == [op |-> "nil"]
Self == [op |-> "self"]
Uncaveated(t, r) == [type |-> t, rel |-> r, caveat |-> FALSE]
Caveated(t, r) == [type |-> t, rel |-> r, caveat |-> TRUE]
Optional(t, r) == {Uncaveated(t, r), Caveated(t, r)}

MCSchema == [k \in {<<"group", "member">>, <<"group", "mates">>} \cup
                   {<<"doc", r>> : r \in {"viewer", "banned", "team", "owner", "holder", "alias",
                                          "nick", "both", "except", "any", "every", "owned",
                                          "mixed", "parent", "link", "view"}} |->
    CASE k[2] = "member" -> Direct(Optional("user", Ellipsis) \cup Optional("group", "member")
                                   \cup Optional("user", "*"))
      [] k[2] = "mates" -> Perm(SetOperation("union", <<Self, Computed("member")>>))
      [] k[2] = "viewer" -> Direct(Optional("user", Ellipsis) \cup Optional("group", "member"))
      [] k[2] = "banned" -> Direct(Optional("user", Ellipsis) \cup Optional("group", "member")
                                   \cup {Uncaveated("user", "*")})
      [] k[2] = "team" -> Direct(Optional("group", Ellipsis) \cup {Uncaveated("user", Ellipsis)})
      [] k[2] = "owner" -> Direct({Uncaveated("group", Ellipsis), Uncaveated("user", Ellipsis)})
      [] k[2] = "holder" -> Direct({Caveated("group", Ellipsis), Uncaveated("group", "member")})
      [] k[2] \in {"parent", "link"} -> Direct({Uncaveated("doc", Ellipsis)})
      [] k[2] = "view" -> Perm(SetOperation("union",
             <<Computed("viewer"), Arrow("parent", "view", "any"), Arrow("link", "view", "any")>>))
      [] k[2] = "alias" -> Perm(SetOperation("union", <<Computed("viewer")>>))
      [] k[2] = "nick" -> Perm(SetOperation("union", <<Computed("alias")>>))
      [] k[2] = "any" -> Perm(SetOperation("union",
             <<Computed("viewer"), Arrow("team", "member", "any"), None>>))
      [] k[2] = "both" -> Perm(SetOperation("intersection",
             <<Computed("viewer"), SetOperation("union", <<Computed("banned"),
                                                           Arrow("team", "member", "any")>>)>>))
      [] k[2] = "except" -> Perm(SetOperation("exclusion",
             <<Computed("viewer"), Computed("banned"), Arrow("team", "member", "any")>>))
      [] k[2] = "mixed" -> Perm(SetOperation("union",
             <<SetOperation("exclusion", <<Computed("banned"), Computed("viewer")>>),
               Arrow("team", "member", "any")>>))
      [] k[2] = "every" -> Perm(SetOperation("union", <<Arrow("team", "member", "all")>>))
      [] k[2] = "owned" -> Perm(SetOperation("union", <<Arrow("owner", "member", "all")>>))]

(***************************************************************************)
(* Relationships: of a document or a group, with each caveat of cs         *)
(***************************************************************************)
Rel(t, i, r, st, si, sr, cs) ==
    {[type |-> t, id |-> i, rel |-> r, sub |-> [type |-> st, id |-> si, rel |-> sr],
      caveat |-> c] : c \in cs}
DocUser(d, r, u, cs) == Rel("doc", d, r, "user", u, Ellipsis, cs)
DocGroup(d, r, g, cs) == Rel("doc", d, r, "group", g, Ellipsis, cs)
DocMembers(d, r, g, cs) == Rel("doc", d, r, "group", g, "member", cs)
DocDoc(d, r, e, cs) == Rel("doc", d, r, "doc", e, Ellipsis, cs)
GroupUser(g, u, cs) == Rel("group", g, "member", "user", u, Ellipsis, cs)
GroupMembers(g, h, cs) == Rel("group", g, "member", "group", h, "member", cs)

Never == {{}}
Always == {Nil}
Maybe == {Nil, {}}

Pool(s) ==
    CASE s \in Runnings -> {}
      [] s = "any" -> DocUser(d1, "viewer", u1, Maybe) \cup DocMembers(d1, "viewer", g1, Maybe)
            \cup DocMembers(d2, "viewer", g1, Always) \cup DocGroup(d1, "team", g2, Always)
            \cup DocGroup(d2, "team", g2, Always) \cup GroupUser(g1, u1, Always)
            \cup GroupUser(g2, u1, Always) \cup GroupMembers(g1, g2, Always)
            \cup GroupMembers(g2, g1, Always)
      [] s = "chunks" -> UNION {DocGroup(d1, "team", g, Maybe) : g \in {g1, g2, g3}}
            \cup DocGroup(d2, "team", g1, Maybe) \cup GroupUser(g1, u1, Always)
            \cup GroupUser(g3, u1, Maybe)
      [] s = "both" -> DocUser(d1, "viewer", u1, Maybe) \cup DocMembers(d2, "viewer", g1, Maybe)
            \cup DocUser(d1, "banned", u1, Maybe) \cup DocGroup(d1, "team", g1, Maybe)
            \cup DocGroup(d2, "team", g1, Always) \cup GroupUser(g1, u1, Maybe)
            \cup DocUser(d1, "team", u2, Always)
      [] s = "except" -> DocUser(d1, "viewer", u1, Maybe) \cup DocMembers(d2, "viewer", g1, Maybe)
            \cup DocUser(d1, "banned", u1, Maybe) \cup DocMembers(d2, "banned", g2, Always)
            \cup DocGroup(d1, "team", g1, Always) \cup GroupUser(g1, u1, Maybe)
            \cup GroupUser(g2, u1, Always)
      [] s = "owned" -> UNION {DocGroup(d, "owner", g, Always) : d \in {d1, d2}, g \in {g1, g2}}
            \cup GroupUser(g1, u1, Maybe) \cup GroupUser(g2, u1, Maybe)
            \cup GroupMembers(g2, g1, Always) \cup GroupUser(g2, Star, Always)
      [] s = "wildcards" -> GroupUser(g1, Star, Always) \cup GroupUser(g2, Star, Always)
            \cup GroupUser(g1, u1, Maybe) \cup GroupUser(g2, u2, Always)
            \cup DocMembers(d1, "viewer", g1, Always) \cup DocMembers(d1, "banned", g2, Always)
            \cup DocUser(d1, "banned", u1, Maybe) \cup DocGroup(d1, "team", g2, Always)
      [] s = "mixed" -> DocUser(d1, "banned", Star, Always) \cup DocUser(d1, "viewer", u1, Maybe)
            \cup DocGroup(d1, "team", g2, Maybe) \cup GroupUser(g2, Star, Maybe)
            \cup GroupUser(g2, u1, Maybe)
      [] s = "usersets" -> DocMembers(d1, "viewer", g1, Maybe) \cup DocMembers(d1, "viewer", g2, Maybe)
            \cup DocMembers(d1, "banned", g2, Maybe) \cup GroupMembers(g1, g2, Maybe)
            \cup DocMembers(d2, "viewer", g2, Maybe)
      [] s \in {"linked", "linked2"} -> DocUser(d1, "viewer", u1, Always) \cup DocDoc(d2, "parent", d1, Always)
            \cup DocDoc(d2, "link", d1, Always) \cup DocDoc(d3, "parent", d1, Always)
      [] s = "shared" -> DocGroup(d1, "team", g1, Maybe) \cup DocGroup(d2, "team", g1, Maybe)
            \cup DocGroup(d1, "team", g2, Maybe) \cup DocUser(d1, "team", u2, Always)
            \cup GroupUser(g1, u1, Always) \cup GroupMembers(g2, g2, Always)
            \cup GroupUser(g2, u1, Always)
      [] s = "holders" -> DocGroup(d1, "holder", g1, Never)

(***************************************************************************)
(* Questions                                                               *)
(***************************************************************************)
Ask(r, ids, subject) == [type |-> "doc", rel |-> r, ids |-> ids, subject |-> subject]
U1 == [type |-> "user", id |-> u1, rel |-> Ellipsis]
OneOrBoth == {{d1}, {d1, d2}}

Asked(s) ==
    CASE s \in Runnings \cup {"linked", "linked2"} -> {}
      [] s = "any" -> {Ask("any", ids, U1) : ids \in OneOrBoth}
      [] s = "chunks" -> {Ask("any", {d1, d2}, U1)}
      [] s \in {"both", "except", "owned"} -> {Ask(s, {d1, d2}, U1)}
      [] s = "mixed" -> {Ask(s, {d1}, U1)}
      [] s = "wildcards" -> {Ask(r, {d1}, U1) : r \in {"both", "except"}}
      [] s = "usersets" -> {Ask(r, ids, [type |-> "group", id |-> g2, rel |-> "member"]) :
                               r \in {"nick", "except"}, ids \in OneOrBoth}
                           \cup {[type |-> "group", rel |-> "mates", ids |-> {g1, g2}, subject |-> s1] :
                                  s1 \in {U1, [type |-> "group", id |-> g1, rel |-> Ellipsis]}}
      [] s = "shared" -> {Ask("every", ids, U1) : ids \in OneOrBoth}
      [] s = "holders" -> {Ask("holder", {d1}, [type |-> "group", id |-> g1, rel |-> Ellipsis])}

OfResources(q, ids, k, c, v) ==
    [type |-> q.type, rel |-> q.rel, ids |-> ids, subject |-> q.subject, context |-> c,
     limit |-> k, lr3 |-> v]

LookedUp(s) ==
    CASE s = "linked" -> {OfResources(Ask("view", {}, U1), {d1, d2, d3}, k, Nil, TRUE) : k \in {1, 2}}
      [] s = "linked2" -> {OfResources(Ask("view", {}, U1), {d1, d2, d3}, 1, Nil, FALSE)}
      [] s = "any" -> {OfResources(Ask("any", {}, U1), {d1, d2}, 1, Nil, FALSE),
                       OfResources(Ask("any", {}, U1), {d1, d2}, 1, Nil, TRUE)}
      [] s \in {"chunks", "both", "except", "owned", "wildcards"} ->
            UNION {{OfResources(q, {d1, d2}, 1, Nil, FALSE), OfResources(q, {d1, d2}, 1, Nil, TRUE)}
                   \cup {OfResources(q, {d1, d2}, 0, c, FALSE) : c \in Contexts} : q \in Asked(s)}
      [] OTHER -> {}

MCLookups == UNION {LookedUp(s) : s \in Kinds}
IdsInOrder == <<Star, d1, d2, d3, g1, g2, g3, u1, u2>>

MCRelationships == UNION {Pool(s) : s \in Kinds \ Runnings}
MCQuestions == UNION {Asked(s) : s \in Kinds \ Runnings}

(***************************************************************************)
(* The specification                                                       *)
(***************************************************************************)
MCInit ==
    /\ kind \in Kinds
    /\ EvalInit
    /\ IF kind = "mapper" THEN PMInit /\ toSpawn = 0 ELSE PreInit /\ NoMapper

Plain == kind = "plain" /\ UNCHANGED <<kind, toSpawn, mapperVars, evalVars>>
Preloaded == kind = "preloaded" /\ UNCHANGED <<kind, mapperVars, evalVars>>
Mapping == kind = "mapper" /\ UNCHANGED <<kind, toSpawn, evalVars>>
Evaluating == kind \notin Runnings /\ UNCHANGED <<kind, preVars, mapperVars>>

PlainRunner(r) == Plain /\ (RunnerStep(r) \/ spawnIfAvailable(r))
PlainSchedule == spawnIfAvailable(Caller) \/ \E t \in PlainTasks : addTask(Caller, t)
PlainCaller == Plain /\ (PlainSchedule \/ StartWait \/ WaitWakes \/ WaitReturns)

MCNext ==
    \/ \E p \in Runners \cup {Caller} : Plain /\ spawnIfAvailable(p)
    \/ \E p \in Runners \cup {Caller}, t \in PlainTasks : Plain /\ addTask(p, t)
    \/ \E r \in Runners : Plain /\ RunnerLoop(r)
    \/ \E r \in Runners : Plain /\ selectTask(r, "release")
    \/ \E r \in Runners : Plain /\ ReleaseSlot(r)
    \/ \E r \in Runners, ok \in BOOLEAN : Plain /\ TaskReturns(r, ok)
    \/ \E r \in Runners : Plain /\ TaskDone(r)
    \/ Plain /\ StartWait
    \/ Plain /\ WaitWakes
    \/ Plain /\ WaitReturns
    \/ Plain /\ ParentCancels
    \/ \E t \in PreloadedTasks : Preloaded /\ Add(t)
    \/ Preloaded /\ Start
    \/ Preloaded /\ PreSpawnIfAvailable
    \/ Preloaded /\ PreStartWait
    \/ Preloaded /\ PreWait
    \/ \E r \in Runners : Preloaded /\ PreRunnerStep(r)
    \/ Preloaded /\ ParentCancels /\ UNCHANGED toSpawn
    \/ \E r \in Runners : Mapping /\ ProducerNext(r)
    \/ \E r \in Runners : Mapping /\ ProducerCanceled(r)
    \/ \E r \in Runners : Mapping /\ ProducerSend(r)
    \/ \E r \in Runners : Mapping /\ ProducerSchedule(r)
    \/ \E r \in Runners : Mapping /\ ProducerHold(r)
    \/ \E r \in Runners : Mapping /\ ProducerEnd(r)
    \/ \E r \in Runners : Mapping /\ ProducerError(r)
    \/ \E r \in Runners : Mapping /\ Mapper(r)
    \/ \E r \in Runners : Mapping /\ Runner(r)
    \/ Mapping /\ ConsumerStart
    \/ Mapping /\ ConsumerCanceled
    \/ Mapping /\ Receive
    \/ Mapping /\ YieldMapped
    \/ Mapping /\ ContextCanceled
    \/ \E r \in Pool(kind) : Evaluating /\ Write(r)
    \/ \E q \in Asked(kind) : Evaluating /\ CheckBulk(q)
    \/ \E q \in Asked(kind) : Evaluating /\ Lookup(q)
    \/ \E q \in Asked(kind) : Evaluating /\ ExpandPermission(q)
    \/ \E q \in LookedUp(kind) : Evaluating /\ LookupResources(q)

\* The fairness of the three specifications.
MCSpec ==
    /\ MCInit /\ [][MCNext]_allVars
    /\ \A r \in Runners : /\ WF_allVars(PlainRunner(r))
                          /\ WF_allVars(Preloaded /\ PreRunnerStep(r))
                          /\ WF_allVars(Mapping /\ Work(r))
    /\ WF_allVars(PlainCaller)
    /\ WF_allVars(Preloaded /\ (PreSpawnIfAvailable \/ PreStartWait \/ PreWait))
    /\ WF_allVars(Mapping /\ Consume)
=============================================================================
