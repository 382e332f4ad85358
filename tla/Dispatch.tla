----------------------------- MODULE Dispatch -----------------------------
(***************************************************************************)
(* DispatchCheck through the dispatchers of one node, in the order of      *)
(* dispatch/combined: caching, singleflight, then the local dispatcher,    *)
(* whose checker answers a problem from the relationships it finds and the *)
(* union of the subproblems it dispatches, from the first dispatcher on.   *)
(*                                                                         *)
(* A problem is a dispatch key: relation, resource and subject at one      *)
(* revision.  A call is named by the problems on its way from the client.  *)
(***************************************************************************)
EXTENDS Naturals, Sequences, FiniteSets

CONSTANTS
    Problems,
    Graphs,         \* the data: [sub |-> subproblems of each, direct |-> answered at once]
    Requests,       \* client calls, each made once
    Asks(_),        \* of a request: what it may ask, [problem, depth, debug, bloom]
    NoCall, NoBloom

ASSUME DispatchAssumption ==
    /\ \A g \in Graphs : g.sub \in [Problems -> SUBSET Problems] /\ g.direct \subseteq Problems
    /\ \A q \in Requests : \A a \in Asks(q) :
           /\ a.problem \in Problems /\ a.depth \in Nat /\ a.debug \in BOOLEAN
           /\ a.bloom \in (SUBSET Problems) \cup {NoBloom}
    /\ \A S \in SUBSET Problems : S # NoBloom
    /\ IsFiniteSet(Problems)

VARIABLES
    graph,
    calls,          \* every call made so far, by its name
    flights,        \* checkGroup: the call that leads the flight of a key
    checkCache,     \* the cached answer of a key, or none
    gone            \* requests whose client went away

dispatchVars == <<graph, calls, flights, checkCache, gone>>

LastOf(c) == c[Len(c)]
Above(c) == {SubSeq(c, 1, k) : k \in 2 .. (Len(c) - 1)}

Response(val, need) == [val |-> val, need |-> need]
Failed(resp) == resp.val \in {"depth", "canceled"}
Pending == Response("pending", 0)

\* A call enters at the caching dispatcher; comp is the local dispatcher's work.
NewCall(depth, bloom, debug) ==
    [pc |-> "cache", depth |-> depth, bloom |-> bloom, debug |-> debug, cached |-> FALSE,
     on |-> NoCall, leads |-> FALSE, comp |-> "none", collected |-> {}, need |-> 0,
     result |-> Pending, resp |-> Pending]

\* A call that has returned stays while somebody may still look at its answer or
\* wait for its work.
Kept(cs) ==
    LET kept == {c \in DOMAIN cs :
                    \/ cs[c].pc # "done" \/ Len(c) = 2
                    \/ LET p == SubSeq(c, 1, Len(c) - 1)
                       IN  p \in DOMAIN cs /\ cs[p].comp = "run" /\ c \notin cs[p].collected
                    \/ \E d \in DOMAIN cs : cs[d].pc = "wait" /\ cs[d].on = c}
    IN  [c \in kept |-> cs[c]]

With_(c, call) == calls' = Kept([calls EXCEPT ![c] = call])

DispatchInit ==
    /\ graph \in Graphs
    /\ calls = <<>>
    /\ flights = [k \in Problems |-> NoCall]
    /\ checkCache = [k \in Problems |-> Pending]
    /\ gone = {}

DispatchCheck(q) ==
    /\ \A c \in DOMAIN calls : c[1] # q
    /\ \E a \in Asks(q) :
           LET new == <<q, a.problem>>
           IN  calls' = [c \in DOMAIN calls \cup {new} |->
                            IF c = new THEN NewCall(a.depth, a.bloom, a.debug) ELSE calls[c]]
    /\ UNCHANGED <<graph, flights, checkCache, gone>>

\* The client cancels or reaches its deadline.
ClientLeaves(q) ==
    /\ q \notin gone /\ \E c \in DOMAIN calls : c[1] = q
    /\ gone' = gone \cup {q}
    /\ UNCHANGED <<graph, calls, flights, checkCache>>

(***************************************************************************)
(* Contexts.  A call's context ends with the work that made the call; the  *)
(* work of a flight ends only when all who wait for it have gone.          *)
(***************************************************************************)
CallersOf(c) == {d \in DOMAIN calls : calls[d].pc = "wait" /\ calls[d].on = c}

Ended(p) ==
    p \in DOMAIN calls =>
        calls[p].comp = "done" \/ (calls[p].leads /\ CallersOf(p) = {})

ContextDone(c) ==
    LET detached == {m \in Above(c) \cap DOMAIN calls : calls[m].leads}
    IN  \/ c[1] \in gone /\ detached = {}
        \/ \E p \in Above(c) : Ended(p) /\ \A m \in detached : Len(m) <= Len(p)

\* Mutant: the work of a flight runs under the context of the call that leads it.
WorkCanceled_Leader(c) == ContextDone(c)

WorkCanceled(c) == IF calls[c].leads THEN CallersOf(c) = {} ELSE ContextDone(c)

(***************************************************************************)
(* The caching dispatcher                                                  *)
(***************************************************************************)

Hit(c) ==
    LET e == checkCache[LastOf(c)]
    IN  e # Pending /\ calls[c].depth >= e.need

CacheGet(c) ==
    /\ calls[c].pc = "cache"
    /\ IF Hit(c)
       THEN With_(c, [calls[c] EXCEPT !.pc = "done", !.cached = TRUE,
                                      !.resp = checkCache[LastOf(c)]])
       ELSE With_(c, [calls[c] EXCEPT !.pc = "group"])
    /\ UNCHANGED <<graph, flights, checkCache, gone>>

CacheSet(c, resp) ==
    IF Failed(resp) THEN UNCHANGED checkCache
    ELSE checkCache' = [checkCache EXCEPT ![LastOf(c)] = resp]

Evict(k) ==
    /\ checkCache[k] # Pending
    /\ checkCache' = [checkCache EXCEPT ![k] = Pending]
    /\ UNCHANGED <<graph, calls, flights, gone>>

(***************************************************************************)
(* The singleflight dispatcher                                             *)
(***************************************************************************)
Directly(c, bloom) ==
    /\ With_(c, [calls[c] EXCEPT !.pc = "wait", !.on = c, !.comp = "start", !.bloom = bloom])
    /\ UNCHANGED flights

\* RecordTraversal, of a filter without false positives: one more call dispatched
\* directly is what they cost.
PossiblyLoop(c) == LastOf(c) \in calls[c].bloom

\* Mutant: what is asked below a subproblem flies under the subproblem's key.
FlightKey_Above(c) == IF Len(c) > 3 THEN c[3] ELSE LastOf(c)

\* CheckRequestToKey
FlightKey(c) == LastOf(c)

Singleflight(c) ==
    LET k == FlightKey(c)
        seen == calls[c].bloom \cup {LastOf(c)}
    IN  /\ calls[c].pc = "group"
        /\ CASE calls[c].bloom = NoBloom -> Directly(c, {})
             [] calls[c].bloom # NoBloom /\ PossiblyLoop(c) -> Directly(c, calls[c].bloom)
             [] OTHER ->
                IF calls[c].debug THEN Directly(c, seen)
                ELSE IF flights[k] # NoCall
                THEN /\ With_(c, [calls[c] EXCEPT !.pc = "wait", !.on = flights[k],
                                                  !.bloom = seen])
                     /\ UNCHANGED flights
                ELSE /\ With_(c, [calls[c] EXCEPT !.pc = "wait", !.on = c, !.leads = TRUE,
                                                  !.comp = "start", !.bloom = seen])
                     /\ flights' = [flights EXCEPT ![k] = c]
        /\ UNCHANGED <<graph, checkCache, gone>>

\* The last to leave a flight removes it.
Leave(c) ==
    flights' = [flights EXCEPT ![FlightKey(c)] =
                   IF @ = calls[c].on /\ CallersOf(@) = {c} THEN NoCall ELSE @]

Return(c, resp) ==
    /\ With_(c, [calls[c] EXCEPT !.pc = "done", !.resp = resp])
    /\ Leave(c)
    /\ CacheSet(c, resp)
    /\ UNCHANGED <<graph, gone>>

WorkReturns(c) ==
    /\ calls[c].pc = "wait" /\ calls[calls[c].on].comp = "done"
    /\ Return(c, calls[calls[c].on].result)

\* Group.Do leaves the flight when the caller's context ends.
WaitCanceled(c) ==
    /\ calls[c].pc = "wait" /\ calls[calls[c].on].leads /\ ContextDone(c)
    /\ Return(c, Response("canceled", 0))

(***************************************************************************)
(* The local dispatcher and the checker                                    *)
(***************************************************************************)
WorkFrame == UNCHANGED <<graph, flights, checkCache, gone>>

\* addCallToResponseMetadata counts the call itself.
Done(c, val, need) ==
    [calls[c] EXCEPT !.comp = "done", !.result = Response(val, need + 1)]

\* DispatchCheck of the local dispatcher: CheckDepth, the relationships found
\* directly, and a call for each subproblem.
CheckDirect(c) ==
    LET k == LastOf(c)
        subs == {Append(c, s) : s \in graph.sub[k]}
    IN  /\ calls[c].comp = "start"
        /\ CASE calls[c].depth = 0 ->
                With_(c, [calls[c] EXCEPT !.comp = "done", !.result = Response("depth", 0)])
             [] calls[c].depth > 0 /\ k \in graph.direct -> With_(c, Done(c, "member", 0))
             [] calls[c].depth > 0 /\ k \notin graph.direct /\ subs = {} ->
                With_(c, Done(c, "notmember", 0))
             [] OTHER ->
                calls' = [d \in DOMAIN calls \cup subs |->
                             IF d \in subs
                             THEN NewCall(calls[c].depth - 1, calls[c].bloom, calls[c].debug)
                             ELSE IF d = c THEN [calls[c] EXCEPT !.comp = "run"]
                             ELSE calls[d]]
        /\ WorkFrame

\* Mutant: a subproblem that failed is taken for one without the member.
UnionStep_SkipsErrors(c, d, need, rest) ==
    IF calls[d].resp.val = "member" THEN Done(c, "member", need)
    ELSE IF rest = {} THEN Done(c, "notmember", need)
    ELSE [calls[c] EXCEPT !.collected = @ \cup {d}, !.need = need]

UnionStep(c, d, need, rest) ==
    IF Failed(calls[d].resp) \/ calls[d].resp.val = "member"
    THEN Done(c, calls[d].resp.val, need)
    ELSE IF rest = {} THEN Done(c, "notmember", need)
    ELSE [calls[c] EXCEPT !.collected = @ \cup {d}, !.need = need]

\* union takes the result of one more subproblem.
Union_(c) ==
    LET subs == {Append(c, s) : s \in graph.sub[LastOf(c)]}
    IN  /\ calls[c].comp = "run"
        /\ \E d \in subs \ calls[c].collected :
               /\ calls[d].pc = "done"
               /\ LET n == calls[d].resp.need
                      need == IF n > calls[c].need THEN n ELSE calls[c].need
                  IN  With_(c, UnionStep(c, d, need, subs \ (calls[c].collected \cup {d})))
        /\ WorkFrame

\* The datastore, or union, finds its context cancelled.
WorkEnds(c) ==
    /\ calls[c].comp \in {"start", "run"} /\ WorkCanceled(c)
    /\ With_(c, Done(c, "canceled", calls[c].need))
    /\ WorkFrame

DispatchNext ==
    \/ \E q \in Requests : DispatchCheck(q)
    \/ \E q \in Requests : ClientLeaves(q)
    \/ \E k \in Problems : Evict(k)
    \/ \E c \in DOMAIN calls : CacheGet(c)
    \/ \E c \in DOMAIN calls : Singleflight(c)
    \/ \E c \in DOMAIN calls : WorkReturns(c)
    \/ \E c \in DOMAIN calls : WaitCanceled(c)
    \/ \E c \in DOMAIN calls : CheckDirect(c)
    \/ \E c \in DOMAIN calls : Union_(c)
    \/ \E c \in DOMAIN calls : WorkEnds(c)

DispatchSpec == DispatchInit /\ [][DispatchNext]_dispatchVars

(***************************************************************************)
(* Properties                                                              *)
(***************************************************************************)

\* The problems that chains of subproblems reach from k: the least set closed under
\* subproblems that k is in.
Closed(S) == \A x \in S : graph.sub[x] \subseteq S
Reach(k) == {x \in Problems : \A S \in SUBSET Problems : Closed(S) /\ k \in S => x \in S}

IsMember(k) == Reach(k) \cap graph.direct # {}

Acyclic == \A k \in Problems : \A s \in graph.sub[k] : k \notin Reach(s)

Exact(resp, k) == resp.val \in {"member", "notmember"} => ((resp.val = "member") <=> IsMember(k))

\* An answer that is no error is the right one, whichever branches were cut short by
\* a first member, shared with another call, cancelled half-way, cached, or stopped
\* at the depth limit.
AnswersAreExact ==
    /\ \A c \in DOMAIN calls : Exact(calls[c].resp, LastOf(c))
    /\ \A k \in Problems : Exact(checkCache[k], k)

\* Only a call whose own context has ended is told so: that the call which leads a
\* flight goes away, or a union that has its answer, fails nobody who joined.
CancellationStaysLocal ==
    \A c \in DOMAIN calls :
        calls[c].pc = "done" /\ calls[c].resp.val = "canceled" => ContextDone(c)

\* What a call waits for: the work it joined, and the subproblems of that work.
WaitsFor(c) ==
    IF calls[c].pc = "wait" /\ calls[calls[c].on].comp = "run"
    THEN {d \in DOMAIN calls :
             d \in {Append(calls[c].on, s) : s \in Problems} /\ calls[d].pc = "wait"}
    ELSE {}

\* Some calls wait in a circle: each of them for another of them.
InCircle(S) == S # {} /\ \A c \in S : WaitsFor(c) \cap S # {}

\* "to prevent a recursive-call deadlock" (singleflight.go:74): no call waits for the
\* flight of a call it was made for, and where the data has no cycle calls that share
\* flights never wait for each other in a circle.
NoRecursiveCallDeadlock ==
    /\ \A c \in DOMAIN calls : calls[c].pc = "wait" => calls[c].on \notin Above(c)
    /\ Acyclic => \A S \in SUBSET {c \in DOMAIN calls : WaitsFor(c) # {}} : ~InCircle(S)

(***************************************************************************)
(* The inductive invariant from which these follow.                        *)
(***************************************************************************)
CallNames == Seq(Requests \cup Problems)
Outcomes == {"member", "notmember", "depth", "canceled"}
Responses == [val : Outcomes \cup {"pending"}, need : Nat]
CallType ==
    [pc : {"cache", "group", "wait", "done"}, depth : Nat,
     bloom : (SUBSET Problems) \cup {NoBloom}, debug : BOOLEAN, cached : BOOLEAN,
     on : CallNames \cup {NoCall}, leads : BOOLEAN, comp : {"none", "start", "run", "done"},
     collected : SUBSET CallNames, need : Nat, result : Responses, resp : Responses]

\* Calls are named by chains of subproblems, and are made by work that runs.
TreeInv ==
    /\ graph \in Graphs /\ IsFiniteSet(DOMAIN calls)
    /\ \A c \in DOMAIN calls :
           /\ c \in CallNames /\ Len(c) >= 2 /\ LastOf(c) \in Problems
           /\ Len(c) > 2 => c[Len(c) - 1] \in Problems /\ LastOf(c) \in graph.sub[c[Len(c) - 1]]
           /\ calls[c] \in CallType
           /\ calls[c].pc \in {"cache", "group"} => calls[c].comp = "none" /\ ~calls[c].leads
           /\ calls[c].comp \in {"none", "start"} => \A d \in DOMAIN calls : c \notin Above(d)

\* A flight is that of its key, and somebody waits for it.
FlightInv ==
    /\ flights \in [Problems -> CallNames \cup {NoCall}]
    /\ \A k \in Problems : flights[k] # NoCall =>
           /\ flights[k] \in DOMAIN calls /\ LastOf(flights[k]) = k
           /\ calls[flights[k]].leads /\ CallersOf(flights[k]) # {}

\* A call waits for its own work, or for a flight that none of the calls it was made
\* for leads.
WaitInv ==
    \A c \in DOMAIN calls :
        /\ calls[c].pc = "wait" =>
               /\ calls[c].on \in DOMAIN calls /\ LastOf(calls[c].on) = LastOf(c)
               /\ calls[calls[c].on].comp # "none"
               /\ calls[c].on = c \/ calls[calls[c].on].leads
               /\ calls[c].on \notin Above(c)
        /\ calls[c].bloom = NoBloom => Len(c) = 2 /\ calls[c].comp = "none"
        /\ \A m \in (Above(c) \cup {c}) \cap DOMAIN calls :
               calls[m].leads => LastOf(m) \in calls[c].bloom

\* What calls, work and the cache hold is exact, and so is what a union has collected.
AnswerInv ==
    /\ \A c \in DOMAIN calls :
           /\ Exact(calls[c].resp, LastOf(c)) /\ Exact(calls[c].result, LastOf(c))
           /\ calls[c].pc = "done" => calls[c].resp.val \in Outcomes
           /\ calls[c].comp = "done" => calls[c].result.val \in Outcomes
           /\ calls[c].comp \in {"none", "start"} => calls[c].collected = {}
           /\ calls[c].comp = "run" =>
                  /\ LastOf(c) \notin graph.direct
                  /\ \A s \in graph.sub[LastOf(c)] :
                         IF Append(c, s) \in calls[c].collected THEN ~IsMember(s)
                         ELSE Append(c, s) \in DOMAIN calls
    /\ checkCache \in [Problems -> Responses]
    /\ \A k \in Problems :
           /\ Exact(checkCache[k], k)
           /\ checkCache[k] # Pending => checkCache[k].val \in {"member", "notmember"}

\* Work is cancelled when nobody waits for it, or with the call it works for.
CancelInv ==
    \A c \in DOMAIN calls :
        /\ calls[c].pc = "done" /\ calls[c].resp.val = "canceled" => ContextDone(c)
        /\ calls[c].comp = "done" /\ calls[c].result.val = "canceled" =>
               IF calls[c].leads THEN CallersOf(c) = {} ELSE ContextDone(c)

DispatchInv == TreeInv /\ FlightInv /\ WaitInv /\ AnswerInv /\ CancelInv
=============================================================================
