--------------------------- MODULE DispatchProofs ---------------------------
(***************************************************************************)
(* The dispatchers: a request hedged by the cluster dispatcher, for every  *)
(* number of secondaries and every length of the stream; and DispatchCheck *)
(* through the caching, singleflight and local dispatchers of a node, for  *)
(* every finite set of problems, all data over them and all requests.      *)
(***************************************************************************)
EXTENDS ClusterDispatch, Dispatch, FiniteSetTheorems, WellFoundedInduction, TLAPS

(***************************************************************************)
(* The cluster dispatcher                                                  *)
(***************************************************************************)

\* The invariant holds before a dispatcher wakes up.
LEMMA ClusterInitInv ==
    ASSUME ClusterInit
    PROVE  ClusterInv
<1> USE ClusterAssumption
<1>1. running \subseteq Dispatchers
  BY Zenon DEF ClusterInit, Dispatchers
<1>2. ClusterTypeOK
  BY <1>1 DEF ClusterInit, ClusterTypeOK
<1>3. PcInv /\ ResultsInv
  <2>1. pc \in [Dispatchers -> {"asleep", "done"}] /\ \A d \in Dispatchers : pc[d] = "asleep" => d \in running
    BY Zenon DEF ClusterInit
  <2>2. winner = Nobody /\ returned = "no" /\ published = <<>> /\ received = [d \in Dispatchers |-> 0]
    BY Zenon DEF ClusterInit
  <2>3. Nobody \notin Dispatchers
    BY Zenon DEF Dispatchers
  <2> QED BY <2>1, <2>2, <2>3 DEF PcInv, ResultsInv
<1>4. EndsInv /\ ReturnInv
  BY <1>1 DEF ClusterInit, EndsInv, ReturnInv, Dispatchers
<1> QED BY <1>2, <1>3, <1>4, Zenon DEF ClusterInv

\* The time passes, the caller leaves, the delay of a dispatcher ends.
LEMMA ContextStep ==
    ASSUME ClusterInv, OverallTimeout \/ CallerLeaves \/ \E d \in Dispatchers : Wake(d)
    PROVE  ClusterInv'
<1> USE ClusterAssumption DEF ClusterInv
<1>1. CASE OverallTimeout \/ CallerLeaves
  BY <1>1, Zenon DEF OverallTimeout, CallerLeaves, Request, ClusterTypeOK, PcInv, ResultsInv, EndsInv,
              ReturnInv, StreamOutcome
<1>2. ASSUME NEW d \in Dispatchers, Wake(d) PROVE ClusterInv'
  <2>1. /\ pc[d] = "asleep" /\ pc' = [pc EXCEPT ![d] = IF HandlerDone(d) /\ ~Direct THEN "done" ELSE "call"]
        /\ UNCHANGED <<form, running, received, winner, canceled, errors, answers, published,
                       timedOut, left, returned>>
    BY <1>2, Zenon DEF Wake, Goto, Request
  <2>2. ClusterTypeOK'
    BY <2>1, Zenon DEF ClusterTypeOK
  <2>3. PcInv'
    BY <2>1, Zenon DEF ClusterTypeOK, PcInv
  <2>4. ResultsInv'
    BY <2>1, Zenon DEF ClusterTypeOK, ResultsInv
  <2>5. EndsInv'
    BY <2>1, Zenon DEF ClusterTypeOK, PcInv, EndsInv, HandlerDone, ContextEnded
  <2>6. ReturnInv'
    BY <2>1, Zenon DEF ReturnInv, StreamOutcome
  <2> QED BY <2>2, <2>3, <2>4, <2>5, <2>6, Zenon
<1> QED BY <1>1, <1>2, Zenon

\* A unary request: its dispatchers answer or fail, and the first answer is returned.
LEMMA SyncStep ==
    ASSUME ClusterInv, (\E d \in Dispatchers : SyncCall(d)) \/ SyncReturn
    PROVE  ClusterInv'
<1> USE ClusterAssumption DEF ClusterInv
<1>1. ASSUME NEW d \in Dispatchers, SyncCall(d) PROVE ClusterInv'
  BY <1>1, Zenon DEF SyncCall, Goto, Request, ClusterTypeOK, PcInv, ResultsInv, EndsInv, ReturnInv
<1>2. CASE SyncReturn
  <2>1. /\ form = "sync" /\ returned = "no"
        /\ winner' \in Dispatchers \cup {Nobody}
        /\ returned' \in {"timeout", "ok", "error"} /\ (returned' = "error" => Primary \in errors)
        /\ UNCHANGED <<form, running, pc, received, canceled, errors, answers, published, timedOut,
                       left>>
    BY <1>2, Zenon DEF SyncReturn, SyncError, Request, ClusterTypeOK
  <2> QED BY <2>1 DEF ClusterTypeOK, PcInv, ResultsInv, EndsInv, ReturnInv
<1> QED BY <1>1, <1>2, Zenon

\* A stream begins, or cannot; its handler ends with its context, or goes on.
LEMMA LoopStep ==
    ASSUME ClusterInv, NEW d \in Dispatchers,
           CreateClient(d) \/ LoopCanceled(d) \/ LoopGoesOn(d) \/ RecvError(d)
    PROVE  ClusterInv'
<1> USE ClusterAssumption DEF ClusterInv
<1>1. /\ pc[d] \in {"call", "loop", "recv"} /\ pc' \in [Dispatchers -> {"asleep", "call", "loop", "recv", "publish", "done"}]
      /\ \A e \in Dispatchers \ {d} : pc'[e] = pc[e]
      /\ UNCHANGED <<form, running, received, winner, canceled, answers, published, timedOut, left,
                     returned>>
      /\ form = "stream" /\ d \in running /\ errors \subseteq errors'
  BY Zenon DEF CreateClient, LoopCanceled, LoopGoesOn, RecvError, Goto, Request, ClusterTypeOK, PcInv
<1>2. \/ pc[d] = "call" /\ pc'[d] = "loop" /\ errors' = errors
      \/ pc[d] = "loop" /\ pc'[d] = "recv" /\ errors' = errors
      \/ pc'[d] = "done" /\ errors' = errors \cup {d}
      \/ pc[d] = "loop" /\ pc'[d] = "done" /\ errors' = errors /\ HandlerDone(d)
  BY Zenon DEF CreateClient, LoopCanceled, LoopGoesOn, RecvError, Goto, ClusterTypeOK
<1>3. ClusterTypeOK'
  BY <1>1, Zenon DEF ClusterTypeOK
<1>4. returned = "no"
  BY <1>1, Zenon DEF PcInv
<1>5. PcInv'
  BY <1>1, <1>2, <1>4, Zenon DEF PcInv
<1>6. ResultsInv'
  <2>1. \A e \in Dispatchers : pc'[e] = "publish" => pc[e] = "publish"
    BY <1>1, <1>2, Zenon
  <2>2. \A e \in Dispatchers : winner = e /\ pc'[e] \in {"loop", "recv"} => pc[e] \in {"loop", "recv"}
    BY <1>1, <1>2, Zenon DEF PcInv
  <2> QED BY <1>1, <2>1, <2>2, Zenon DEF ResultsInv
<1>7. EndsInv'
  <2>1. \A e \in running \ {d} : pc'[e] = "done" /\ e \notin errors' => pc[e] = "done" /\ e \notin errors
    BY <1>1, Zenon DEF ClusterTypeOK
  <2>2. ASSUME ~timedOut, ~left, pc'[d] = "done", d \notin errors'
        PROVE  winner # Nobody /\ winner # d
    BY <1>1, <1>2, <1>4, <2>2, Zenon DEF HandlerDone, ContextEnded, EndsInv
  <2> QED BY <1>1, <2>1, <2>2, Zenon DEF EndsInv
<1>8. ReturnInv'
  BY <1>1, <1>4, Zenon DEF ReturnInv
<1> QED BY <1>3, <1>5, <1>6, <1>7, <1>8, Zenon

\* A result, or the end of the stream, is claimed by the first to see one; the others
\* end.
LEMMA RecvStep ==
    ASSUME ClusterInv, NEW d \in Dispatchers, RecvResult(d)
    PROVE  ClusterInv'
<1> USE ClusterAssumption DEF ClusterInv
<1>1. /\ pc[d] = "recv" /\ form = "stream" /\ d \in running /\ returned = "no"
      /\ UNCHANGED <<form, running, errors, answers, published, timedOut, left, returned>>
  BY Zenon DEF RecvResult, Request, PcInv
<1>2. Nobody \notin Dispatchers /\ d # Nobody
  BY Zenon DEF Dispatchers
<1>3. CASE ~TakesOver(d)
  <2>1. /\ winner # Nobody /\ winner # d /\ UNCHANGED <<winner, canceled, received>>
        /\ pc' = [pc EXCEPT ![d] = "done"]
    BY <1>3, Zenon DEF RecvResult, TakesOver, Goto
  <2>2. ClusterTypeOK'
    BY <1>1, <2>1, Zenon DEF ClusterTypeOK
  <2>3. PcInv'
    BY <1>1, <2>1, Zenon DEF ClusterTypeOK, PcInv
  <2>4. ResultsInv'
    BY <1>1, <2>1, Zenon DEF ClusterTypeOK, ResultsInv
  <2>5. EndsInv'
    BY <1>1, <2>1, Zenon DEF ClusterTypeOK, EndsInv
  <2>6. ReturnInv'
    BY <1>1, <2>1, Zenon DEF ReturnInv
  <2> QED BY <2>2, <2>3, <2>4, <2>5, <2>6, Zenon
<1>4. CASE TakesOver(d)
  <2>1. /\ winner \in {Nobody, d} /\ winner' = d
        /\ canceled' = IF winner = Nobody THEN running \ {d} ELSE canceled
    BY <1>4, Zenon DEF RecvResult, TakesOver, Claim
  <2>2. received[d] = Len(published) /\ Len(published) \in Nat
    <3>1. Len(published) \in Nat
      BY DEF ClusterTypeOK
    <3>2. CASE winner = d
      BY <1>1, <3>1, <3>2, Zenon DEF ResultsInv
    <3>3. CASE winner = Nobody
      BY <1>2, <3>1, <3>3, Zenon DEF ResultsInv, ClusterTypeOK
    <3> QED BY <2>1, <3>2, <3>3, <3>1, Zenon
  <2>3. \A e \in Dispatchers \ {d} : received[e] = 0 /\ pc[e] # "publish"
    BY <1>2, <2>1, Zenon DEF ResultsInv
  <2>4. \/ /\ pc' = [pc EXCEPT ![d] = "publish"]
           /\ received' = [received EXCEPT ![d] = received[d] + 1] /\ received[d] < Total
        \/ /\ pc' = [pc EXCEPT ![d] = "done"] /\ received' = received
           /\ ~(received[d] < Total)
    BY <1>4, Zenon DEF RecvResult, Goto
  <2>5. ClusterTypeOK'
    <3>1. received' \in [Dispatchers -> 0 .. Total]
      BY <2>2, <2>4 DEF ClusterTypeOK
    <3>2. pc' \in [Dispatchers -> {"asleep", "call", "loop", "recv", "publish", "done"}]
      BY <2>4, Zenon DEF ClusterTypeOK
    <3> QED BY <1>1, <2>1, <3>1, <3>2, Zenon DEF ClusterTypeOK
  <2>6. PcInv'
    BY <1>1, <2>1, <2>4, Zenon DEF ClusterTypeOK, PcInv
  <2>7. ResultsInv'
    <3>1. /\ \A e \in Dispatchers \ {d} : received'[e] = 0 /\ pc'[e] # "publish"
          /\ pc'[d] \in {"publish", "done"}
          /\ pc'[d] = "publish" => received'[d] = Len(published) + 1
      BY <2>2, <2>3, <2>4, Zenon DEF ClusterTypeOK
    <3>2. published = <<>> \/ winner = d
      BY <2>1, Zenon DEF ResultsInv
    <3> QED BY <1>1, <1>2, <2>1, <3>1, <3>2 DEF ResultsInv
  <2>8. EndsInv'
    <3>1. winner' \notin canceled' /\ (winner' = Nobody => canceled' = {})
      BY <1>2, <2>1, Zenon DEF EndsInv
    <3>2. ASSUME pc'[d] = "done", ~timedOut, ~left, d \notin errors PROVE Len(published) = Total
      <4>1. received[d] <= Total
        BY DEF ClusterTypeOK
      <4> QED BY <2>2, <2>4, <3>2, <4>1 DEF ClusterTypeOK
    <3> QED BY <1>1, <1>2, <2>1, <3>1, <3>2, Zenon DEF EndsInv
  <2>9. ReturnInv'
    BY <1>1, Zenon DEF ReturnInv
  <2> QED BY <2>5, <2>6, <2>7, <2>8, <2>9
<1> QED BY <1>3, <1>4, Zenon

\* The winner publishes the result at hand, or the stream fails.
LEMMA PublishStep ==
    ASSUME ClusterInv, NEW d \in Dispatchers, Publish(d)
    PROVE  ClusterInv'
<1> USE ClusterAssumption DEF ClusterInv
<1>1. /\ pc[d] = "publish" /\ form = "stream" /\ d \in running /\ returned = "no"
      /\ winner = d /\ received[d] = Len(published) + 1
      /\ UNCHANGED <<form, running, received, winner, canceled, answers, timedOut, left, returned>>
  BY Zenon DEF Publish, Request, PcInv, ResultsInv
<1>2. Nobody \notin Dispatchers /\ d # Nobody /\ Len(published) \in Nat
  BY DEF Dispatchers, ClusterTypeOK
<1>3. ReturnInv'
  BY <1>1, Zenon DEF ReturnInv
<1>4. CASE /\ pc' = [pc EXCEPT ![d] = "loop"] /\ errors' = errors
           /\ published' = Append(published, <<d, received[d]>>)
  <2>1. Len(published') = Len(published) + 1
    BY <1>4 DEF ClusterTypeOK
  <2>2. \A i \in 1 .. Len(published') : published'[i] = <<d, i>>
    BY <1>1, <1>2, <1>4, <2>1 DEF ClusterTypeOK, ResultsInv
  <2>3. ClusterTypeOK'
    BY <1>1, <1>4 DEF ClusterTypeOK
  <2>4. PcInv'
    BY <1>1, <1>4, Zenon DEF ClusterTypeOK, PcInv
  <2>5. ResultsInv'
    BY <1>1, <1>2, <1>4, <2>1, <2>2, Zenon DEF ClusterTypeOK, ResultsInv
  <2>6. EndsInv'
    BY <1>1, <1>2, <1>4, Zenon DEF ClusterTypeOK, EndsInv
  <2> QED BY <1>3, <2>3, <2>4, <2>5, <2>6, Zenon
<1>5. CASE /\ pc' = [pc EXCEPT ![d] = "done"] /\ errors' = errors \cup {d}
           /\ published' = published
  <2>1. ClusterTypeOK'
    BY <1>1, <1>5, Zenon DEF ClusterTypeOK
  <2>2. PcInv'
    BY <1>1, <1>5, Zenon DEF ClusterTypeOK, PcInv
  <2>3. ResultsInv'
    BY <1>1, <1>2, <1>5, Zenon DEF ClusterTypeOK, ResultsInv
  <2>4. EndsInv'
    BY <1>1, <1>2, <1>5, Zenon DEF ClusterTypeOK, EndsInv
  <2> QED BY <1>3, <2>1, <2>2, <2>3, <2>4
<1> QED BY <1>4, <1>5, Zenon DEF Publish, Goto

\* The inductive invariant of a hedged request holds in every reachable state.
THEOREM ClusterInvariant == ClusterSpec => []ClusterInv
<1>1. ClusterInit => ClusterInv
  BY ClusterInitInv, Zenon
<1>2. ClusterInv /\ [ClusterNext]_clusterVars => ClusterInv'
  <2> SUFFICES ASSUME ClusterInv, [ClusterNext]_clusterVars PROVE ClusterInv'
    OBVIOUS
  <2>1. CASE StreamReturn
    BY <2>1, Zenon DEF StreamReturn, StreamOutcome, Request, ClusterInv, ClusterTypeOK, PcInv,
                ResultsInv, EndsInv, ReturnInv
  <2>2. CASE UNCHANGED clusterVars
    BY <2>2, Zenon DEF clusterVars, StreamOutcome, ClusterInv, ClusterTypeOK, PcInv, ResultsInv, EndsInv,
                ReturnInv
  <2> QED BY <2>1, <2>2, ContextStep, SyncStep, LoopStep, RecvStep, PublishStep, Zenon
          DEF ClusterNext
<1> QED BY <1>1, <1>2, PTL DEF ClusterSpec

\* The caller's stream is one dispatcher's, without a gap, and complete when it ends well
\* in time (dispatchStreamingRequest), however many dispatchers race.
THEOREM StreamIsOfOneDispatcher == ClusterSpec => []OneStreamAnswers
<1>1. ClusterInv => OneStreamAnswers
  <2> SUFFICES ASSUME ClusterInv PROVE OneStreamAnswers
    OBVIOUS
  <2>1. ASSUME form = "stream", returned = "ok", ~timedOut, ~left PROVE Len(published) = Total
    <3>1. winner # Nobody /\ winner \notin errors /\ winner \in Dispatchers
      BY <2>1, Zenon DEF ClusterInv, ClusterTypeOK, ReturnInv, StreamOutcome
    <3>2. winner \in running /\ pc[winner] = "done"
      BY <2>1, <3>1, Zenon DEF ClusterInv, PcInv
    <3> QED BY <2>1, <3>1, <3>2, Zenon DEF ClusterInv, EndsInv
  <2> QED BY <2>1, Zenon DEF ClusterInv, ResultsInv, OneStreamAnswers
<1> QED BY <1>1, ClusterInvariant, PTL

\* A hedged request fails, with time left and its caller there, only by the dispatcher
\* it depends on: the primary if it is unary, and for a stream the one that had begun
\* to answer, or each that ran (cluster.go).
THEOREM HedgedErrorsAreEarned == ClusterSpec => []ErrorsAreEarned
<1>1. ClusterInv => ErrorsAreEarned
  BY Zenon DEF ClusterInv, ClusterTypeOK, PcInv, EndsInv, ReturnInv, StreamOutcome, ErrorsAreEarned
<1> QED BY <1>1, ClusterInvariant, PTL

(***************************************************************************)
(* Names of calls                                                          *)
(***************************************************************************)

\* The call for a subproblem s of the problem of call c.
LEMMA ChildIs ==
    ASSUME NEW c \in CallNames, Len(c) >= 2, NEW s \in Problems
    PROVE  /\ Append(c, s) \in CallNames /\ Len(Append(c, s)) = Len(c) + 1
           /\ LastOf(Append(c, s)) = s /\ Append(c, s)[Len(c)] = LastOf(c)
           /\ Append(c, s)[1] = c[1] /\ SubSeq(Append(c, s), 1, Len(c)) = c
BY DEF CallNames, LastOf

\* The calls that a call was made for.
LEMMA AboveIs ==
    ASSUME NEW c \in CallNames, NEW m \in Above(c)
    PROVE  /\ m \in CallNames /\ Len(m) \in Nat /\ Len(m) >= 2 /\ Len(m) < Len(c) /\ m[1] = c[1]
           /\ Above(m) \subseteq Above(c)
<1>1. PICK k \in 2 .. (Len(c) - 1) : m = SubSeq(c, 1, k)
  BY Zenon DEF Above
<1>2. /\ m \in CallNames /\ Len(m) = k /\ \A i \in 1 .. k : m[i] = c[i]
  BY <1>1 DEF CallNames
<1>3. ASSUME NEW j \in 2 .. (k - 1) PROVE SubSeq(m, 1, j) = SubSeq(c, 1, j)
  BY <1>1, <1>2 DEF CallNames
<1>4. k \in Nat /\ \A j \in 2 .. (k - 1) : j \in 2 .. (Len(c) - 1)
  BY <1>1 DEF CallNames
<1>5. Above(m) \subseteq Above(c)
  BY <1>2, <1>3, <1>4, Zenon DEF Above
<1> QED BY <1>1, <1>2, <1>4, <1>5 DEF CallNames

\* Above a subproblem's call are its own and those above it.
LEMMA AboveChild ==
    ASSUME NEW c \in CallNames, Len(c) >= 2, NEW s \in Problems
    PROVE  Above(Append(c, s)) = Above(c) \cup {c}
<1>1. Len(Append(c, s)) = Len(c) + 1 /\ SubSeq(Append(c, s), 1, Len(c)) = c /\ Len(c) \in Nat
  BY ChildIs DEF CallNames
<1>2. ASSUME NEW k \in 2 .. (Len(c) - 1) PROVE SubSeq(Append(c, s), 1, k) = SubSeq(c, 1, k)
  BY DEF CallNames
<1>3. 2 .. (Len(Append(c, s)) - 1) = (2 .. (Len(c) - 1)) \cup {Len(c)}
  BY <1>1
<1> QED BY <1>1, <1>2, <1>3 DEF Above

\* No call is made for itself, nor for one that is made for it; and with the call of a
\* subproblem stands above a call that of its problem.
LEMMA AboveIsStrict ==
    ASSUME NEW c \in CallNames
    PROVE  /\ c \notin Above(c)
           /\ \A b \in CallNames, s \in Problems :
                  Len(b) >= 2 /\ Append(b, s) \in Above(c) => b \in Above(c)
<1>1. c \notin Above(c)
  <2>1. \A m \in Above(c) : Len(m) < Len(c)
    BY AboveIs, Zenon
  <2> QED BY <2>1 DEF CallNames
<1>2. ASSUME NEW b \in CallNames, NEW s \in Problems, Len(b) >= 2, Append(b, s) \in Above(c)
      PROVE  b \in Above(c)
  BY <1>2, AboveIs, AboveChild, Zenon
<1> QED BY <1>1, <1>2, Zenon

(***************************************************************************)
(* The reference: what is reached, and who is a member                     *)
(***************************************************************************)

\* What subproblems reach, and the problem itself.
LEMMA ReachIs ==
    ASSUME graph \in Graphs, NEW k \in Problems
    PROVE  /\ Reach(k) \subseteq Problems /\ k \in Reach(k)
           /\ \A x \in Reach(k) : graph.sub[x] \subseteq Reach(k)
           /\ \A s \in graph.sub[k] : s \in Problems /\ Reach(s) \subseteq Reach(k)
           /\ \A x \in Reach(k) : x = k \/ \E s \in graph.sub[k] : x \in Reach(s)
<1>1. graph.sub \in [Problems -> SUBSET Problems]
  BY DispatchAssumption, Zenon
<1>2. Reach(k) \subseteq Problems /\ k \in Reach(k)
  BY Zenon DEF Reach
<1>3. ASSUME NEW y \in Problems PROVE Closed(Reach(y)) /\ Reach(y) \subseteq Problems /\ y \in Reach(y)
  BY <1>1, Zenon DEF Reach, Closed
<1>4. \A s \in graph.sub[k] : s \in Problems /\ Reach(s) \subseteq Reach(k)
  BY <1>1, <1>3, Zenon DEF Reach, Closed
<1>5. ASSUME NEW x \in Reach(k), x # k PROVE \E s \in graph.sub[k] : x \in Reach(s)
  <2> DEFINE S == {k} \cup UNION {Reach(s) : s \in graph.sub[k]}
  <2>1. S \in SUBSET Problems
    BY <1>1, <1>3, Zenon
  <2>2. Closed(S)
    <3>1. ASSUME NEW y \in S PROVE graph.sub[y] \subseteq S
      <4>1. CASE y = k
        BY <1>1, <1>3, <4>1, Zenon
      <4>2. ASSUME NEW s \in graph.sub[k], y \in Reach(s) PROVE graph.sub[y] \subseteq S
        BY <1>1, <1>3, <4>2, Zenon DEF Closed
      <4> QED BY <4>1, <4>2, Zenon
    <3> QED BY <3>1, Zenon DEF Closed
  <2>3. x \in S
    BY <2>1, <2>2, Zenon DEF Reach
  <2> QED BY <1>5, <2>3, Zenon
<1> QED BY <1>2, <1>3, <1>4, <1>5, Zenon DEF Closed

\* Who is a member is decided by the relationships found directly and the subproblems.
LEMMA MemberIs ==
    ASSUME graph \in Graphs, NEW k \in Problems
    PROVE  IsMember(k) <=> k \in graph.direct \/ \E s \in graph.sub[k] : IsMember(s)
BY ReachIs DEF IsMember

(***************************************************************************)
(* What a step of one call may do to the others                            *)
(***************************************************************************)

\* Call d once call c has become new.
After(c, new, d) == IF d = c THEN new ELSE calls[d]

\* Which calls a step keeps.
LEMMA KeptIs ==
    ASSUME NEW c \in DOMAIN calls, NEW new, With_(c, new)
    PROVE  /\ DOMAIN calls' \subseteq DOMAIN calls
           /\ \A d \in DOMAIN calls' : calls'[d] = After(c, new, d)
           /\ \A d \in DOMAIN calls :
                  After(c, new, d).pc # "done" \/ Len(d) = 2 => d \in DOMAIN calls'
           /\ \A d, e \in DOMAIN calls :
                  After(c, new, e).pc = "wait" /\ After(c, new, e).on = d => d \in DOMAIN calls'
           /\ \A d, p \in DOMAIN calls :
                  /\ p = SubSeq(d, 1, Len(d) - 1)
                  /\ After(c, new, p).comp = "run" /\ d \notin After(c, new, p).collected
                  => d \in DOMAIN calls'
<1> DEFINE cs == [calls EXCEPT ![c] = new]
<1>1. calls' = Kept(cs)
  BY Zenon DEF With_
<1>2. DOMAIN cs = DOMAIN calls /\ \A d \in DOMAIN calls : cs[d] = After(c, new, d)
  BY Zenon DEF After
<1> HIDE DEF cs
<1> DEFINE K == {x \in DOMAIN cs :
                    \/ cs[x].pc # "done" \/ Len(x) = 2
                    \/ LET p == SubSeq(x, 1, Len(x) - 1)
                       IN  p \in DOMAIN cs /\ cs[p].comp = "run" /\ x \notin cs[p].collected
                    \/ \E d \in DOMAIN cs : cs[d].pc = "wait" /\ cs[d].on = x}
<1>3. calls' = [x \in K |-> cs[x]]
  BY <1>1, Zenon DEF Kept
<1>4. DOMAIN calls' = K /\ \A x \in K : calls'[x] = cs[x]
  BY <1>3, Zenon
<1>5. \A d \in DOMAIN calls : After(c, new, d).pc # "done" \/ Len(d) = 2 => d \in K
  BY <1>2, Zenon
<1>6. \A d, e \in DOMAIN calls :
         After(c, new, e).pc = "wait" /\ After(c, new, e).on = d => d \in K
  BY <1>2, Zenon
<1>7. ASSUME NEW d \in DOMAIN calls, NEW p \in DOMAIN calls, p = SubSeq(d, 1, Len(d) - 1),
             After(c, new, p).comp = "run", d \notin After(c, new, p).collected
      PROVE  d \in K
  BY <1>2, <1>7, Zenon
<1>8. K \subseteq DOMAIN calls
  BY <1>2, Zenon
<1> HIDE DEF K
<1> QED BY <1>2, <1>4, <1>5, <1>6, <1>7, <1>8, Zenon

\* Work and leadership go forward only.
Progress(c, new) ==
    /\ new.pc \in {"cache", "group"} => new.comp = "none" /\ ~new.leads
    /\ new.comp = "none" => calls[c].comp = "none"
    /\ new.comp = "start" => calls[c].comp \in {"none", "start"}
    /\ calls[c].comp = "done" => new.comp = "done"
    /\ calls[c].leads => new.leads
    /\ new.leads => calls[c].leads \/ calls[c].comp = "none"

LEMMA TreeStep ==
    ASSUME TreeInv, NEW c \in DOMAIN calls, NEW new \in CallType, With_(c, new), Progress(c, new),
           graph' = graph
    PROVE  TreeInv'
<1>1. DOMAIN calls' \subseteq DOMAIN calls /\ \A d \in DOMAIN calls' : calls'[d] = After(c, new, d)
  BY KeptIs, Zenon
<1>2. IsFiniteSet(DOMAIN calls')
  BY <1>1, FS_Subset, Zenon DEF TreeInv
<1>3. ASSUME NEW d \in DOMAIN calls'
      PROVE  /\ calls'[d] \in CallType
             /\ calls'[d].pc \in {"cache", "group"} => calls'[d].comp = "none" /\ ~calls'[d].leads
             /\ calls'[d].comp \in {"none", "start"} => calls[d].comp \in {"none", "start"}
  <2>1. CASE d = c
    BY <1>1, <2>1 DEF After, Progress, TreeInv
  <2>2. CASE d # c
    BY <1>1, <2>2, Zenon DEF After, TreeInv
  <2> QED BY <2>1, <2>2, Zenon
<1> QED BY <1>1, <1>2, <1>3, Zenon DEF TreeInv

\* What a step may make a call wait for, and what its filter keeps.
Waits(c, new) ==
    /\ new.pc = "wait" =>
           \/ calls[c].pc = "wait" /\ new.on = calls[c].on
           \/ new.on = c /\ new.comp # "none" /\ calls[c].comp = "none"
           \/ /\ new.on \in DOMAIN calls \ {c} /\ LastOf(new.on) = LastOf(c)
              /\ calls[new.on].comp # "none" /\ calls[new.on].leads /\ new.on \notin Above(c)
              /\ CallersOf(new.on) # {}
    /\ new.bloom = NoBloom => calls[c].bloom = NoBloom /\ new.comp = "none"
    /\ calls[c].bloom # NoBloom => calls[c].bloom \subseteq new.bloom
    /\ new.leads => LastOf(c) \in new.bloom

LEMMA WaitStep ==
    ASSUME TreeInv, WaitInv, NEW c \in DOMAIN calls, NEW new \in CallType, With_(c, new),
           Progress(c, new), Waits(c, new)
    PROVE  WaitInv'
<1>1. /\ DOMAIN calls' \subseteq DOMAIN calls
      /\ \A d \in DOMAIN calls' : calls'[d] = After(c, new, d)
      /\ \A d, e \in DOMAIN calls :
             After(c, new, e).pc = "wait" /\ After(c, new, e).on = d => d \in DOMAIN calls'
  BY KeptIs, Zenon
<1>2. \A d \in DOMAIN calls : d \in CallNames
  BY Zenon DEF TreeInv
<1>3. \A d \in DOMAIN calls' : calls[d].leads => calls'[d].leads
  BY <1>1, Zenon DEF After, Progress
<1>4. \A d \in DOMAIN calls' : calls[d].comp # "none" => calls'[d].comp # "none"
  BY <1>1, Zenon DEF After, Progress
<1>5. ASSUME NEW d \in DOMAIN calls', calls'[d].pc = "wait"
      PROVE  /\ calls'[d].on \in DOMAIN calls' /\ LastOf(calls'[d].on) = LastOf(d)
             /\ calls'[calls'[d].on].comp # "none"
             /\ calls'[d].on = d \/ calls'[calls'[d].on].leads
             /\ calls'[d].on \notin Above(d)
  <2>1. PICK o : o = calls'[d].on
    BY Zenon
  <2>2. calls'[d] = After(c, new, d) /\ d \in DOMAIN calls
    BY <1>1, Zenon
  <2>3. \/ /\ o \in DOMAIN calls /\ LastOf(o) = LastOf(d) /\ calls[o].comp # "none"
           /\ o = d \/ calls[o].leads
           /\ o \notin Above(d)
        \/ o = c /\ d = c /\ new.comp # "none"
    <3>1. CASE d = c
      BY <1>5, <2>1, <2>2, <3>1, Zenon DEF After, Waits, WaitInv
    <3>2. CASE d # c
      BY <1>5, <2>1, <2>2, <3>2, Zenon DEF After, WaitInv
    <3> QED BY <3>1, <3>2, Zenon
  <2>4. o \in DOMAIN calls'
    BY <1>1, <1>5, <2>1, <2>2, <2>3, Zenon
  <2>5. CASE o = c /\ d = c /\ new.comp # "none"
    <3>1. calls'[o] = new
      BY <1>1, <2>4, <2>5, Zenon DEF After
    <3> QED BY <1>2, <2>1, <2>2, <2>4, <2>5, <3>1, AboveIsStrict, Zenon
  <2>6. CASE /\ o \in DOMAIN calls /\ LastOf(o) = LastOf(d) /\ calls[o].comp # "none"
             /\ o = d \/ calls[o].leads
             /\ o \notin Above(d)
    BY <1>3, <1>4, <2>1, <2>4, <2>6, Zenon
  <2> QED BY <2>3, <2>5, <2>6, Zenon
<1>6. ASSUME NEW d \in DOMAIN calls', calls'[d].bloom = NoBloom
      PROVE  Len(d) = 2 /\ calls'[d].comp = "none"
  <2>1. CASE d = c
    BY <1>1, <1>6, <2>1, Zenon DEF After, Waits, WaitInv
  <2>2. CASE d # c
    BY <1>1, <1>6, <2>2, Zenon DEF After, WaitInv
  <2> QED BY <2>1, <2>2, Zenon
<1>7. ASSUME NEW d \in DOMAIN calls', NEW m \in (Above(d) \cup {d}) \cap DOMAIN calls',
             calls'[m].leads
      PROVE  LastOf(m) \in calls'[d].bloom
  <2>1. d \in DOMAIN calls /\ m \in DOMAIN calls /\ calls'[d] = After(c, new, d) /\ calls'[m] = After(c, new, m)
    BY <1>1, <1>7, Zenon
  <2>2. CASE d = c /\ m = c
    BY <1>7, <2>1, <2>2, Zenon DEF After, Waits
  <2>3. CASE ~(d = c /\ m = c)
    <3>1. calls[m].leads
      <4>1. CASE m = c
        <5>1. m \in Above(d)
          BY <2>3, <4>1, Zenon
        <5>2. calls[c].comp # "none"
          BY <2>1, <4>1, <5>1, Zenon DEF TreeInv
        <5> QED BY <1>7, <2>1, <4>1, <5>2, Zenon DEF After, Progress
      <4>2. CASE m # c
        BY <1>7, <2>1, <4>2, Zenon DEF After
      <4> QED BY <4>1, <4>2, Zenon
    <3>2. LastOf(m) \in calls[d].bloom
      BY <1>7, <2>1, <3>1, Zenon DEF WaitInv
    <3>3. CASE d # c
      BY <2>1, <3>2, <3>3, Zenon DEF After
    <3>4. CASE d = c
      <4>1. m \in Above(c)
        BY <2>3, <3>4, Zenon
      <4>2. calls[c].bloom # NoBloom
        <5>1. Len(m) \in Nat /\ Len(m) >= 2 /\ Len(m) < Len(c) /\ Len(c) \in Nat
          BY <1>2, <4>1, AboveIs DEF CallNames
        <5>2. \A a, b \in Nat : a >= 2 /\ a < b => b # 2
          OBVIOUS
        <5>3. Len(c) # 2
          BY <5>1, <5>2, Zenon
        <5> QED BY <5>3, Zenon DEF WaitInv
      <4> QED BY <2>1, <3>2, <3>4, <4>2, Zenon DEF After, Waits
    <3> QED BY <3>3, <3>4, Zenon
  <2> QED BY <2>2, <2>3, Zenon
<1> QED BY <1>5, <1>6, <1>7, Zenon DEF WaitInv

\* What a step may make of an answer.
Answers(c, new) ==
    /\ Exact(new.resp, LastOf(c)) /\ Exact(new.result, LastOf(c))
    /\ new.pc = "done" => new.resp.val \in Outcomes
    /\ new.comp = "done" => new.result.val \in Outcomes
    /\ new.comp \in {"none", "start"} => new.collected = {}
    /\ new.comp = "run" =>
           /\ calls[c].comp = "run"
           /\ calls[c].collected \subseteq new.collected
           /\ \A s \in graph.sub[LastOf(c)] : Append(c, s) \in new.collected => ~IsMember(s)

\* Who is a member depends on the data alone.
LEMMA MembersStay ==
    ASSUME graph' = graph
    PROVE  \A k : (IsMember(k)' <=> IsMember(k)) /\ \A resp : Exact(resp, k)' <=> Exact(resp, k)
BY Zenon DEF IsMember, Reach, Closed, Exact

LEMMA AnswerStep ==
    ASSUME TreeInv, AnswerInv, NEW c \in DOMAIN calls, NEW new \in CallType, With_(c, new),
           Answers(c, new), graph' = graph,
           checkCache' \in [Problems -> Responses],
           \A k \in Problems : checkCache'[k] = checkCache[k] \/
               /\ Exact(checkCache'[k], k)
               /\ checkCache'[k] # Pending => checkCache'[k].val \in {"member", "notmember"}
    PROVE  AnswerInv'
<1>1. /\ DOMAIN calls' \subseteq DOMAIN calls
      /\ \A d \in DOMAIN calls' : calls'[d] = After(c, new, d)
      /\ \A d, p \in DOMAIN calls :
             /\ p = SubSeq(d, 1, Len(d) - 1)
             /\ After(c, new, p).comp = "run" /\ d \notin After(c, new, p).collected
             => d \in DOMAIN calls'
  BY KeptIs, Zenon
<1>2. \A k : (IsMember(k)' <=> IsMember(k)) /\ \A resp : Exact(resp, k)' <=> Exact(resp, k)
  BY MembersStay, Zenon
<1>3. graph.sub \in [Problems -> SUBSET Problems]
  BY DispatchAssumption, Zenon DEF TreeInv
<1>4. ASSUME NEW d \in DOMAIN calls'
      PROVE  /\ Exact(calls'[d].resp, LastOf(d)) /\ Exact(calls'[d].result, LastOf(d))
             /\ calls'[d].pc = "done" => calls'[d].resp.val \in Outcomes
             /\ calls'[d].comp = "done" => calls'[d].result.val \in Outcomes
             /\ calls'[d].comp \in {"none", "start"} => calls'[d].collected = {}
  <2>1. CASE d = c
    BY <1>1, <2>1, Zenon DEF After, Answers
  <2>2. CASE d # c
    BY <1>1, <2>2, Zenon DEF After, AnswerInv
  <2> QED BY <2>1, <2>2, Zenon
<1>5. ASSUME NEW d \in DOMAIN calls', calls'[d].comp = "run"
      PROVE  /\ LastOf(d) \notin graph.direct
             /\ \A s \in graph.sub[LastOf(d)] :
                    IF Append(d, s) \in calls'[d].collected THEN ~IsMember(s)
                    ELSE Append(d, s) \in DOMAIN calls'
  <2>1. d \in DOMAIN calls /\ calls'[d] = After(c, new, d) /\ calls[d].comp = "run"
    <3>1. CASE d = c
      BY <1>1, <1>5, <3>1, Zenon DEF After, Answers
    <3>2. CASE d # c
      BY <1>1, <1>5, <3>2, Zenon DEF After
    <3> QED BY <3>1, <3>2, Zenon
  <2>2. d \in CallNames /\ Len(d) >= 2 /\ LastOf(d) \in Problems
    BY <2>1, Zenon DEF TreeInv
  <2>3. ASSUME NEW s \in graph.sub[LastOf(d)], Append(d, s) \notin calls'[d].collected
        PROVE  Append(d, s) \in DOMAIN calls'
    <3>1. Append(d, s) \notin calls[d].collected
      <4>1. CASE d = c
        <5>1. calls'[d] = new /\ new.comp = "run"
          BY <1>5, <2>1, <4>1, Zenon DEF After
        <5>2. calls[c].collected \subseteq new.collected
          BY <5>1, Zenon DEF Answers
        <5> QED BY <2>3, <4>1, <5>1, <5>2, Zenon
      <4>2. CASE d # c
        BY <2>1, <2>3, <4>2, Zenon DEF After
      <4> QED BY <4>1, <4>2, Zenon
    <3>2. Append(d, s) \in DOMAIN calls
      BY <2>1, <3>1, Zenon DEF AnswerInv
    <3>3. s \in Problems
      BY <1>3, <2>2, Zenon
    <3>4. d = SubSeq(Append(d, s), 1, Len(Append(d, s)) - 1)
      <4>1. Len(Append(d, s)) - 1 = Len(d)
        BY <2>2, <3>3, ChildIs DEF CallNames
      <4> QED BY <2>2, <3>3, <4>1, ChildIs, Zenon
    <3> QED BY <1>1, <1>5, <2>1, <2>3, <3>2, <3>4, Zenon
  <2>4. ASSUME NEW s \in graph.sub[LastOf(d)], Append(d, s) \in calls'[d].collected
        PROVE  ~IsMember(s)
    <3>1. CASE d = c
      BY <1>5, <2>1, <2>4, <3>1, Zenon DEF After, Answers
    <3>2. CASE d # c
      BY <2>1, <2>4, <3>2, Zenon DEF After, AnswerInv
    <3> QED BY <3>1, <3>2, Zenon
  <2> QED BY <2>1, <2>3, <2>4, Zenon DEF AnswerInv
<1>6. \A k \in Problems :
         /\ Exact(checkCache'[k], k)
         /\ checkCache'[k] # Pending => checkCache'[k].val \in {"member", "notmember"}
  BY Zenon DEF AnswerInv
<1> QED BY <1>2, <1>4, <1>5, <1>6, Zenon DEF AnswerInv

\* A context that has ended stays so: leadership, work and waiting go forward only, and
\* no call comes to stand above another.
Evolves ==
    /\ gone \subseteq gone'
    /\ \A m \in DOMAIN calls' \ DOMAIN calls : \A d \in DOMAIN calls : m \notin Above(d)
    /\ \A m \in DOMAIN calls \cap DOMAIN calls' :
           /\ calls[m].comp = "done" => calls'[m].comp = "done"
           /\ calls[m].leads => calls'[m].leads
           /\ calls'[m].leads => calls[m].leads \/ calls[m].comp = "none"
    /\ \A d \in DOMAIN calls', p \in DOMAIN calls :
           calls'[d].pc = "wait" /\ calls'[d].on = p => CallersOf(p) # {} \/ calls[p].comp = "none"

LEMMA ContextStays ==
    ASSUME TreeInv, Evolves, NEW c \in DOMAIN calls, ContextDone(c)
    PROVE  ContextDone(c)'
<1> DEFINE Det == {m \in Above(c) \cap DOMAIN calls : calls[m].leads}
           DetNext == {m \in Above(c) \cap DOMAIN calls' : calls'[m].leads}
<1>1. \A m \in Above(c) : m \in DOMAIN calls' => m \in DOMAIN calls
  BY Zenon DEF Evolves
<1>2. \A m \in Above(c) \cap DOMAIN calls : calls[m].comp \notin {"none", "start"}
  BY Zenon DEF TreeInv
<1>3. DetNext \subseteq Det
  BY <1>1, <1>2, Zenon DEF Evolves
<1>4. ASSUME NEW p \in Above(c), Ended(p) PROVE Ended(p)'
  <2>1. SUFFICES ASSUME p \in DOMAIN calls'
                 PROVE  calls'[p].comp = "done" \/ (calls'[p].leads /\ CallersOf(p)' = {})
    BY <2>1, Zenon DEF Ended
  <2>2. p \in DOMAIN calls
    BY <1>1, <2>1, Zenon
  <2>3. CASE calls[p].comp = "done"
    BY <2>1, <2>2, <2>3, Zenon DEF Evolves
  <2>4. CASE calls[p].leads /\ CallersOf(p) = {}
    <3>1. calls'[p].leads
      BY <2>1, <2>2, <2>4, Zenon DEF Evolves
    <3>2. \A d \in DOMAIN calls' : ~(calls'[d].pc = "wait" /\ calls'[d].on = p)
      BY <1>2, <2>2, <2>4, Zenon DEF Evolves
    <3> QED BY <3>1, <3>2, Zenon DEF CallersOf
  <2> QED BY <1>4, <2>2, <2>3, <2>4, Zenon DEF Ended
<1>5. CASE c[1] \in gone /\ Det = {}
  BY <1>3, <1>5, Zenon DEF Evolves, ContextDone
<1>6. ASSUME NEW p \in Above(c), Ended(p), \A m \in Det : Len(m) <= Len(p)
      PROVE  ContextDone(c)'
  BY <1>3, <1>4, <1>6, Zenon DEF ContextDone
<1> QED BY <1>5, <1>6, Zenon DEF ContextDone

\* A step of one call evolves.
LEMMA StepEvolves ==
    ASSUME TreeInv, WaitInv, NEW c \in DOMAIN calls, NEW new \in CallType, With_(c, new),
           Progress(c, new), Waits(c, new), gone' = gone
    PROVE  Evolves
<1>1. /\ DOMAIN calls' \subseteq DOMAIN calls
      /\ \A d \in DOMAIN calls' : calls'[d] = After(c, new, d)
  BY KeptIs, Zenon
<1>2. ASSUME NEW m \in DOMAIN calls'
      PROVE  /\ calls[m].comp = "done" => calls'[m].comp = "done"
             /\ calls[m].leads => calls'[m].leads
             /\ calls'[m].leads => calls[m].leads \/ calls[m].comp = "none"
  BY <1>1, <1>2, Zenon DEF After, Progress
<1>3. ASSUME NEW d \in DOMAIN calls', NEW p \in DOMAIN calls,
             calls'[d].pc = "wait", calls'[d].on = p
      PROVE  CallersOf(p) # {} \/ calls[p].comp = "none"
  <2>1. CASE d \in CallersOf(p)
    BY <2>1, Zenon
  <2>2. CASE d \notin CallersOf(p)
    <3>1. d = c
      BY <1>1, <1>3, <2>2, Zenon DEF After, CallersOf
    <3>2. calls'[d] = new
      BY <1>1, <3>1, Zenon DEF After
    <3> QED BY <1>3, <2>2, <3>1, <3>2, Zenon DEF Waits, CallersOf
  <2> QED BY <2>1, <2>2, Zenon
<1> QED BY <1>1, <1>2, <1>3, Zenon DEF Evolves

\* What a step may cancel.
Cancels(c, new) ==
    /\ new.pc = "done" /\ new.resp.val = "canceled" => ContextDone(c)
    /\ new.comp = "done" /\ new.result.val = "canceled" =>
           /\ calls[c].comp # "none"
           /\ IF calls[c].leads THEN CallersOf(c) = {} ELSE ContextDone(c)

\* Nobody comes to wait for work that nobody waits for.
LEMMA NobodyComes ==
    ASSUME Evolves, NEW p \in DOMAIN calls, CallersOf(p) = {}, calls[p].comp # "none"
    PROVE  CallersOf(p)' = {}
BY Zenon DEF Evolves, CallersOf

LEMMA CancelStep ==
    ASSUME TreeInv, WaitInv, CancelInv, NEW c \in DOMAIN calls, NEW new \in CallType,
           With_(c, new), Progress(c, new), Waits(c, new), Cancels(c, new), gone' = gone
    PROVE  CancelInv'
<1>1. /\ DOMAIN calls' \subseteq DOMAIN calls
      /\ \A d \in DOMAIN calls' : calls'[d] = After(c, new, d)
  BY KeptIs, Zenon
<1>2. Evolves
  BY StepEvolves, Zenon
<1>3. ASSUME NEW d \in DOMAIN calls', calls'[d].pc = "done", calls'[d].resp.val = "canceled"
      PROVE  ContextDone(d)'
  <2>1. ContextDone(d)
    <3>1. CASE d = c
      BY <1>1, <1>3, <3>1, Zenon DEF After, Cancels
    <3>2. CASE d # c
      BY <1>1, <1>3, <3>2, Zenon DEF After, CancelInv
    <3> QED BY <3>1, <3>2, Zenon
  <2> QED BY <1>1, <1>2, <2>1, ContextStays, Zenon
<1>4. ASSUME NEW d \in DOMAIN calls', calls'[d].comp = "done", calls'[d].result.val = "canceled"
      PROVE  IF calls'[d].leads THEN CallersOf(d)' = {} ELSE ContextDone(d)'
  <2>1. /\ IF calls[d].leads THEN CallersOf(d) = {} ELSE ContextDone(d)
        /\ calls[d].comp # "none" /\ (calls'[d].leads <=> calls[d].leads)
    <3>1. CASE d = c
      <4>1. calls'[d] = new
        BY <1>1, <3>1, Zenon DEF After
      <4> QED BY <1>4, <3>1, <4>1, Zenon DEF Cancels, Progress
    <3>2. CASE d # c
      <4>1. calls'[d] = calls[d]
        BY <1>1, <3>2, Zenon DEF After
      <4>2. calls[d].comp # "none"
        BY <1>4, <4>1
      <4> QED BY <1>1, <1>4, <4>1, <4>2, Zenon DEF CancelInv
    <3> QED BY <3>1, <3>2, Zenon
  <2>2. CASE calls[d].leads
    BY <1>1, <1>2, <2>1, <2>2, NobodyComes, Zenon
  <2>3. CASE ~calls[d].leads
    BY <1>1, <1>2, <2>1, <2>3, ContextStays, Zenon
  <2> QED BY <2>2, <2>3, Zenon
<1> QED BY <1>3, <1>4, Zenon DEF CancelInv

\* A flight stays that of its key while somebody waits for it.
LEMMA FlightKept ==
    ASSUME FlightInv, NEW c \in DOMAIN calls, NEW new \in CallType, With_(c, new), Progress(c, new),
           NEW k \in Problems, flights[k] # NoCall, NEW d \in CallersOf(flights[k]),
           d = c => new.pc = "wait" /\ new.on = calls[c].on
    PROVE  /\ flights[k] \in DOMAIN calls' /\ LastOf(flights[k]) = k
           /\ calls'[flights[k]].leads
           /\ \E e \in DOMAIN calls' : calls'[e].pc = "wait" /\ calls'[e].on = flights[k]
<1>1. /\ DOMAIN calls' \subseteq DOMAIN calls
      /\ \A e \in DOMAIN calls' : calls'[e] = After(c, new, e)
      /\ \A e \in DOMAIN calls :
             After(c, new, e).pc # "done" \/ Len(e) = 2 => e \in DOMAIN calls'
      /\ \A m, e \in DOMAIN calls :
             After(c, new, e).pc = "wait" /\ After(c, new, e).on = m => m \in DOMAIN calls'
  BY KeptIs, Zenon
<1>2. PICK f : f = flights[k]
  BY Zenon
<1>3. f \in DOMAIN calls /\ LastOf(f) = k /\ calls[f].leads
  BY <1>2, Zenon DEF FlightInv
<1>4. d \in DOMAIN calls /\ calls[d].pc = "wait" /\ calls[d].on = f
  BY <1>2, Zenon DEF CallersOf
<1>5. After(c, new, d).pc = "wait" /\ After(c, new, d).on = f
  BY <1>4, Zenon DEF After
<1>6. "wait" # "done"
  OBVIOUS
<1>7. d \in DOMAIN calls' /\ f \in DOMAIN calls'
  BY <1>1, <1>3, <1>4, <1>5, <1>6, Zenon
<1>8. calls'[f].leads
  BY <1>1, <1>3, <1>7, Zenon DEF After, Progress
<1>9. calls'[d].pc = "wait" /\ calls'[d].on = f
  BY <1>1, <1>5, <1>7, Zenon
<1> QED BY <1>2, <1>3, <1>7, <1>8, <1>9, Zenon

LEMMA FlightStep ==
    ASSUME FlightInv, NEW c \in DOMAIN calls, NEW new \in CallType,
           With_(c, new), Progress(c, new), flights' = flights,
           calls[c].pc = "wait" => new.pc = "wait" /\ new.on = calls[c].on
    PROVE  FlightInv'
<1>1. ASSUME NEW k \in Problems, flights[k] # NoCall
      PROVE  /\ flights[k] \in DOMAIN calls' /\ LastOf(flights[k]) = k
             /\ calls'[flights[k]].leads
             /\ \E e \in DOMAIN calls' : calls'[e].pc = "wait" /\ calls'[e].on = flights[k]
  <2>1. PICK d \in CallersOf(flights[k]) : TRUE
    BY <1>1, Zenon DEF FlightInv
  <2>2. d = c => new.pc = "wait" /\ new.on = calls[c].on
    BY <2>1, Zenon DEF CallersOf
  <2> QED BY <1>1, <2>1, <2>2, FlightKept
<1> QED BY <1>1, Zenon DEF FlightInv, CallersOf

\* A step of one call that leaves the flights alone.
LEMMA CallStep ==
    ASSUME DispatchInv, NEW c \in DOMAIN calls, NEW new \in CallType, With_(c, new),
           Progress(c, new), Waits(c, new), Answers(c, new), Cancels(c, new),
           UNCHANGED <<graph, flights, checkCache, gone>>,
           calls[c].pc = "wait" => new.pc = "wait" /\ new.on = calls[c].on
    PROVE  DispatchInv'
<1>1. TreeInv /\ FlightInv /\ WaitInv /\ AnswerInv /\ CancelInv
  BY Zenon DEF DispatchInv
<1>2. TreeInv' /\ WaitInv' /\ CancelInv' /\ FlightInv'
  BY <1>1, TreeStep, WaitStep, CancelStep, FlightStep, Zenon
<1>3. AnswerInv'
  <2>1. checkCache' \in [Problems -> Responses] /\ checkCache' = checkCache
    BY <1>1, Zenon DEF AnswerInv
  <2> QED BY <1>1, <2>1, AnswerStep, Zenon
<1> QED BY <1>2, <1>3, Zenon DEF DispatchInv

\* The caching dispatcher: a hit is an exact answer.
LEMMA CacheGetStep ==
    ASSUME DispatchInv, NEW c \in DOMAIN calls, CacheGet(c)
    PROVE  DispatchInv'
<1>1. TreeInv /\ WaitInv /\ AnswerInv
  BY Zenon DEF DispatchInv
<1>2. /\ calls[c] \in CallType /\ calls[c].pc = "cache" /\ calls[c].comp = "none"
      /\ ~calls[c].leads /\ LastOf(c) \in Problems /\ c \in CallNames
  BY <1>1, Zenon DEF CacheGet, TreeInv
<1>3. UNCHANGED <<graph, flights, checkCache, gone>>
  BY Zenon DEF CacheGet
<1>4. calls[c].bloom = NoBloom => calls[c].comp = "none"
  BY <1>2, Zenon
<1>5. Exact(calls[c].result, LastOf(c)) /\ calls[c].collected = {}
  BY <1>1, <1>2, Zenon DEF AnswerInv
<1>6. CASE Hit(c)
  <2>1. PICK e : e = checkCache[LastOf(c)]
    BY Zenon
  <2>2. e \in Responses /\ Exact(e, LastOf(c)) /\ e.val \in {"member", "notmember"}
    BY <1>1, <1>2, <1>6, <2>1, Zenon DEF AnswerInv, Hit
  <2>3. PICK new : new = [calls[c] EXCEPT !.pc = "done", !.cached = TRUE, !.resp = e]
    BY Zenon
  <2>4. /\ new \in CallType /\ new.pc = "done" /\ new.comp = "none" /\ new.leads = calls[c].leads
        /\ new.bloom = calls[c].bloom /\ new.resp = e /\ new.result = calls[c].result
        /\ new.collected = calls[c].collected
    BY <1>2, <2>2, <2>3, Zenon DEF CallType
  <2>5. With_(c, new)
    BY <1>6, <2>1, <2>3, Zenon DEF CacheGet
  <2>6. Progress(c, new) /\ Waits(c, new)
    BY <1>2, <2>4, Zenon DEF Progress, Waits
  <2>7. Answers(c, new) /\ Cancels(c, new)
    BY <1>5, <2>2, <2>4, Zenon DEF Answers, Cancels, Outcomes
  <2> QED BY <1>2, <1>3, <2>4, <2>5, <2>6, <2>7, CallStep
<1>7. CASE ~Hit(c)
  <2>1. PICK new : new = [calls[c] EXCEPT !.pc = "group"]
    BY Zenon
  <2>2. /\ new \in CallType /\ new.pc = "group" /\ new.comp = "none" /\ new.leads = calls[c].leads
        /\ new.bloom = calls[c].bloom /\ new.resp = calls[c].resp /\ new.result = calls[c].result
        /\ new.collected = calls[c].collected
    BY <1>2, <2>1, Zenon DEF CallType
  <2>3. With_(c, new)
    BY <1>7, <2>1, Zenon DEF CacheGet
  <2>4. Progress(c, new) /\ Waits(c, new)
    BY <1>2, <2>2, Zenon DEF Progress, Waits
  <2>5. Exact(calls[c].resp, LastOf(c))
    BY <1>1, Zenon DEF AnswerInv
  <2>6. Answers(c, new) /\ Cancels(c, new)
    BY <1>5, <2>2, <2>5 DEF Answers, Cancels
  <2> QED BY <1>2, <1>3, <2>2, <2>3, <2>4, <2>6, CallStep, Zenon
<1> QED BY <1>6, <1>7, Zenon

\* The work of a call ends, with an exact answer or cancelled.
LEMMA DoneStep ==
    ASSUME DispatchInv, NEW c \in DOMAIN calls, calls[c].comp \in {"start", "run"},
           NEW r \in Responses, r.val \in Outcomes, Exact(r, LastOf(c)),
           r.val = "canceled" => IF calls[c].leads THEN CallersOf(c) = {} ELSE ContextDone(c),
           With_(c, [calls[c] EXCEPT !.comp = "done", !.result = r]),
           UNCHANGED <<graph, flights, checkCache, gone>>
    PROVE  DispatchInv'
<1>1. TreeInv /\ WaitInv /\ AnswerInv /\ CancelInv
  BY Zenon DEF DispatchInv
<1>2. PICK new : new = [calls[c] EXCEPT !.comp = "done", !.result = r]
  BY Zenon
<1>3. calls[c] \in CallType /\ calls[c].pc \notin {"cache", "group"}
  BY <1>1, Zenon DEF TreeInv
<1>4. /\ new \in CallType /\ new.pc = calls[c].pc /\ new.comp = "done" /\ new.leads = calls[c].leads
      /\ new.bloom = calls[c].bloom /\ new.resp = calls[c].resp /\ new.result = r
      /\ new.on = calls[c].on
  BY <1>2, <1>3, Zenon DEF CallType
<1>5. Progress(c, new)
  BY <1>3, <1>4 DEF Progress
<1>6. Waits(c, new)
  <2>1. calls[c].bloom # NoBloom /\ (calls[c].leads => LastOf(c) \in calls[c].bloom)
    BY <1>1, Zenon DEF WaitInv
  <2> QED BY <1>4, <2>1, Zenon DEF Waits
<1>7. Answers(c, new)
  <2>1. Exact(calls[c].resp, LastOf(c)) /\ (calls[c].pc = "done" => calls[c].resp.val \in Outcomes)
    BY <1>1, Zenon DEF AnswerInv
  <2>2. "done" # "run" /\ "done" \notin {"none", "start"}
    OBVIOUS
  <2> QED BY <1>4, <2>1, <2>2, Zenon DEF Answers
<1>8. Cancels(c, new)
  <2>1. calls[c].comp # "none"
    OBVIOUS
  <2> QED BY <1>1, <1>4, <2>1, Zenon DEF Cancels, CancelInv
<1> QED BY <1>2, <1>4, <1>5, <1>6, <1>7, <1>8, CallStep, Zenon

LEMMA WorkEndsStep ==
    ASSUME DispatchInv, NEW c \in DOMAIN calls, WorkEnds(c)
    PROVE  DispatchInv'
<1>1. PICK r : r = Response("canceled", calls[c].need + 1)
  BY Zenon
<1>2. calls[c].need \in Nat
  BY Zenon DEF DispatchInv, TreeInv, CallType
<1>3. r \in Responses /\ r.val = "canceled"
  BY <1>1, <1>2 DEF Response, Responses, Outcomes
<1>4. Exact(r, LastOf(c)) /\ r.val \in Outcomes
  BY <1>3, Zenon DEF Exact, Outcomes
<1>5. /\ calls[c].comp \in {"start", "run"}
      /\ IF calls[c].leads THEN CallersOf(c) = {} ELSE ContextDone(c)
      /\ With_(c, [calls[c] EXCEPT !.comp = "done", !.result = r])
      /\ UNCHANGED <<graph, flights, checkCache, gone>>
  BY <1>1, Zenon DEF WorkEnds, WorkCanceled, Done, WorkFrame
<1> QED BY <1>3, <1>4, <1>5, DoneStep, Zenon

\* The context of a subproblem's call ends before the work that made it only when that
\* work is to end.
LEMMA ContextOfChild ==
    ASSUME TreeInv, NEW c \in DOMAIN calls, calls[c].comp # "done", NEW s \in Problems,
           ContextDone(Append(c, s))
    PROVE  IF calls[c].leads THEN CallersOf(c) = {} ELSE ContextDone(c)
<1>1. c \in CallNames /\ Len(c) >= 2 /\ Len(c) \in Nat
  BY DEF TreeInv, CallNames
<1>2. PICK d : d = Append(c, s)
  BY Zenon
<1>3. d[1] = c[1] /\ Above(d) = Above(c) \cup {c}
  BY <1>1, <1>2, ChildIs, AboveChild, Zenon
<1>4. \A m \in Above(c) : Len(m) \in Nat /\ Len(m) < Len(c)
  BY <1>1, AboveIs, Zenon
<1>5. PICK Det : Det = {m \in Above(d) \cap DOMAIN calls : calls[m].leads}
  BY Zenon
<1>6. \/ d[1] \in gone /\ Det = {}
      \/ \E p \in Above(d) : Ended(p) /\ \A m \in Det : Len(m) <= Len(p)
  BY <1>2, <1>5, Zenon DEF ContextDone
<1>7. CASE calls[c].leads
  <2>1. c \in Det
    BY <1>3, <1>5, <1>7, Zenon
  <2>2. PICK p \in Above(d) : Ended(p) /\ Len(c) <= Len(p)
    BY <1>6, <2>1, Zenon
  <2>3. \A a, b \in Nat : a < b => ~(b <= a)
    OBVIOUS
  <2>4. p = c
    BY <1>1, <1>3, <1>4, <2>2, <2>3, Zenon
  <2> QED BY <1>7, <2>2, <2>4, Zenon DEF Ended
<1>8. CASE ~calls[c].leads
  <2>1. Det = {m \in Above(c) \cap DOMAIN calls : calls[m].leads}
    BY <1>3, <1>5, <1>8, Zenon
  <2>2. ~Ended(c)
    BY <1>8, Zenon DEF Ended
  <2> QED BY <1>3, <1>6, <1>8, <2>1, <2>2, Zenon DEF ContextDone
<1> QED BY <1>7, <1>8, Zenon

\* One more subproblem of a union.
LEMMA UnionStepInv ==
    ASSUME DispatchInv, NEW c \in DOMAIN calls, Union_(c)
    PROVE  DispatchInv'
<1>1. TreeInv /\ WaitInv /\ AnswerInv /\ CancelInv
  BY Zenon DEF DispatchInv
<1>2. PICK subs : subs = {Append(c, s) : s \in graph.sub[LastOf(c)]}
  BY Zenon
<1>3. /\ c \in CallNames /\ Len(c) >= 2 /\ LastOf(c) \in Problems /\ graph \in Graphs
      /\ calls[c] \in CallType
  BY <1>1, Zenon DEF TreeInv
<1>4. graph.sub[LastOf(c)] \subseteq Problems
  BY <1>3, ReachIs, Zenon
<1>5. /\ calls[c].comp = "run" /\ UNCHANGED <<graph, flights, checkCache, gone>>
      /\ \E d \in subs \ calls[c].collected :
               /\ calls[d].pc = "done"
               /\ LET n == calls[d].resp.need
                      need == IF n > calls[c].need THEN n ELSE calls[c].need
                  IN  With_(c, UnionStep(c, d, need, subs \ (calls[c].collected \cup {d})))
  BY <1>2, Zenon DEF Union_, WorkFrame
<1>a. PICK d \in subs \ calls[c].collected :
               /\ calls[d].pc = "done"
               /\ LET n == calls[d].resp.need
                      need == IF n > calls[c].need THEN n ELSE calls[c].need
                  IN  With_(c, UnionStep(c, d, need, subs \ (calls[c].collected \cup {d})))
  BY <1>5, Zenon
<1>6. PICK need :
               /\ calls[d].pc = "done" /\ d \in subs \ calls[c].collected
               /\ need = IF calls[d].resp.need > calls[c].need THEN calls[d].resp.need
                         ELSE calls[c].need
               /\ With_(c, UnionStep(c, d, need, subs \ (calls[c].collected \cup {d})))
  BY <1>a, Zenon
<1>7. PICK s \in graph.sub[LastOf(c)] : d = Append(c, s)
  BY <1>2, <1>6, Zenon
<1>8. /\ LastOf(c) \notin graph.direct
      /\ \A t \in graph.sub[LastOf(c)] :
             IF Append(c, t) \in calls[c].collected THEN ~IsMember(t)
             ELSE Append(c, t) \in DOMAIN calls
  BY <1>1, <1>5, Zenon DEF AnswerInv
<1>9. /\ d \in DOMAIN calls /\ LastOf(d) = s
      /\ \A t \in graph.sub[LastOf(c)] : Append(c, t) = d => t = s
  <2>1. \A t \in graph.sub[LastOf(c)] : LastOf(Append(c, t)) = t
    BY <1>3, <1>4, ChildIs, Zenon
  <2> QED BY <1>6, <1>7, <1>8, <2>1, Zenon
<1>10. calls[d] \in CallType
  BY <1>1, <1>9, Zenon DEF TreeInv
<1>11. need \in Nat
  BY <1>3, <1>6, <1>10 DEF CallType, Responses
<1>12. PICK v : v = calls[d].resp.val
  BY Zenon
<1>13. v \in Outcomes /\ (v \in {"member", "notmember"} => ((v = "member") <=> IsMember(s)))
  BY <1>1, <1>6, <1>9, <1>12, Zenon DEF AnswerInv, Exact
<1>14. v = "canceled" => IF calls[c].leads THEN CallersOf(c) = {} ELSE ContextDone(c)
  <2>1. calls[c].comp # "done"
    BY <1>5, Zenon
  <2>2. v = "canceled" => ContextDone(Append(c, s))
    BY <1>1, <1>6, <1>7, <1>9, <1>12, Zenon DEF CancelInv
  <2> QED BY <1>1, <1>4, <1>7, <2>1, <2>2, ContextOfChild, Zenon
<1>15. \A w \in Outcomes : Response(w, need + 1) \in Responses /\ Response(w, need + 1).val = w
  BY <1>11 DEF Response, Responses
<1>16. calls[c].comp \in {"start", "run"}
  BY <1>5
<1>17. IsMember(LastOf(c)) <=> \E t \in graph.sub[LastOf(c)] : IsMember(t)
  BY <1>3, <1>8, MemberIs, Zenon
<1>18. CASE v \in {"depth", "canceled"} \/ v = "member"
  <2>1. With_(c, [calls[c] EXCEPT !.comp = "done", !.result = Response(v, need + 1)])
    BY <1>6, <1>12, <1>18, Zenon DEF UnionStep, Done, Failed
  <2>2. Exact(Response(v, need + 1), LastOf(c))
    <3>1. v \in {"member", "notmember"} => v = "member"
      BY <1>18
    <3> QED BY <1>7, <1>13, <1>15, <1>17, <3>1, Zenon DEF Exact
  <2> QED BY <1>5, <1>13, <1>14, <1>15, <1>16, <2>1, <2>2, DoneStep, Zenon
<1>19. CASE v = "notmember" /\ subs \ (calls[c].collected \cup {d}) = {}
  <2>1. v # "depth" /\ v # "canceled" /\ v # "member"
    BY <1>19
  <2>2. With_(c, [calls[c] EXCEPT !.comp = "done", !.result = Response("notmember", need + 1)])
    BY <1>6, <1>12, <1>19, <2>1, Zenon DEF UnionStep, Done, Failed
  <2>3. ~IsMember(s)
    BY <1>13, <1>19, <2>1, Zenon
  <2>4. ~IsMember(LastOf(c))
    BY <1>2, <1>7, <1>8, <1>9, <1>17, <1>19, <2>3, Zenon
  <2>5. "notmember" \in Outcomes /\ "notmember" # "member" /\ "notmember" # "canceled"
    BY DEF Outcomes
  <2>6. Exact(Response("notmember", need + 1), LastOf(c))
    BY <1>15, <2>4, <2>5, Zenon DEF Exact
  <2> QED BY <1>5, <1>15, <1>16, <2>2, <2>5, <2>6, DoneStep, Zenon
<1>20. CASE v = "notmember" /\ subs \ (calls[c].collected \cup {d}) # {}
  <2>1. v # "depth" /\ v # "canceled" /\ v # "member"
    BY <1>20
  <2>2. PICK new : new = [calls[c] EXCEPT !.collected = @ \cup {d}, !.need = need]
    BY Zenon
  <2>3. With_(c, new)
    BY <1>6, <1>12, <1>20, <2>1, <2>2, Zenon DEF UnionStep, Failed
  <2>4. d \in CallNames
    BY <1>1, <1>9, Zenon DEF TreeInv
  <2>5. /\ new \in CallType /\ new.pc = calls[c].pc /\ new.comp = "run"
        /\ new.leads = calls[c].leads /\ new.bloom = calls[c].bloom
        /\ new.resp = calls[c].resp /\ new.result = calls[c].result /\ new.on = calls[c].on
        /\ new.collected = calls[c].collected \cup {d}
    BY <1>3, <1>5, <1>11, <2>2, <2>4, Zenon DEF CallType
  <2>6. ~IsMember(s)
    BY <1>13, <1>20, <2>1, Zenon
  <2>7. Progress(c, new)
    BY <1>1, <1>5, <2>5 DEF Progress, TreeInv
  <2>8. calls[c].bloom # NoBloom /\ (calls[c].leads => LastOf(c) \in calls[c].bloom)
    BY <1>1, <1>16, Zenon DEF WaitInv
  <2>9. Waits(c, new)
    BY <2>5, <2>8, Zenon DEF Waits
  <2>10. Answers(c, new)
    <3>1. \A t \in graph.sub[LastOf(c)] : Append(c, t) \in new.collected => ~IsMember(t)
      BY <1>8, <1>9, <2>5, <2>6, Zenon
    <3>2. /\ Exact(calls[c].resp, LastOf(c)) /\ Exact(calls[c].result, LastOf(c))
          /\ calls[c].pc = "done" => calls[c].resp.val \in Outcomes
      BY <1>1, Zenon DEF AnswerInv
    <3>3. /\ new.comp # "done" /\ new.comp \notin {"none", "start"}
          /\ calls[c].collected \subseteq new.collected
      BY <2>5, Zenon
    <3> QED BY <1>5, <2>5, <3>1, <3>2, <3>3, Zenon DEF Answers
  <2>11. Cancels(c, new)
    <3>1. new.comp # "done"
      BY <2>5
    <3> QED BY <1>1, <2>5, <3>1, Zenon DEF Cancels, CancelInv
  <2> QED BY <1>5, <2>3, <2>5, <2>7, <2>9, <2>10, <2>11, CallStep, Zenon
<1> QED
  <2>1. v \in {"depth", "canceled"} \/ v = "member" \/ v = "notmember"
    BY <1>13 DEF Outcomes
  <2> QED BY <1>18, <1>19, <1>20, <2>1, Zenon

\* A caller returns with an exact answer, or cancelled, and leaves the flight.
LEMMA ReturnStep ==
    ASSUME DispatchInv, NEW c \in DOMAIN calls, calls[c].pc = "wait", NEW r \in Responses,
           r.val \in Outcomes, Exact(r, LastOf(c)), r.val = "canceled" => ContextDone(c),
           Return(c, r)
    PROVE  DispatchInv'
<1>1. TreeInv /\ FlightInv /\ WaitInv /\ AnswerInv /\ CancelInv
  BY Zenon DEF DispatchInv
<1>2. PICK new : new = [calls[c] EXCEPT !.pc = "done", !.resp = r]
  BY Zenon
<1>3. calls[c] \in CallType /\ LastOf(c) \in Problems
  BY <1>1, Zenon DEF TreeInv
<1>4. /\ new \in CallType /\ new.pc = "done" /\ new.comp = calls[c].comp
      /\ new.leads = calls[c].leads /\ new.bloom = calls[c].bloom /\ new.resp = r
      /\ new.result = calls[c].result /\ new.collected = calls[c].collected
  BY <1>2, <1>3, Zenon DEF CallType
<1>5. With_(c, new) /\ Leave(c) /\ CacheSet(c, r) /\ graph' = graph /\ gone' = gone
  BY <1>2, Zenon DEF Return
<1>6. Progress(c, new)
  BY <1>4, Zenon DEF Progress
<1>7. Waits(c, new)
  <2>1. /\ calls[c].bloom = NoBloom => calls[c].comp = "none"
        /\ calls[c].leads => LastOf(c) \in calls[c].bloom
    BY <1>1, Zenon DEF WaitInv
  <2>2. new.pc # "wait"
    BY <1>4, Zenon
  <2> QED BY <1>4, <2>1, <2>2, Zenon DEF Waits
<1>8. Answers(c, new)
  BY <1>1, <1>4, Zenon DEF Answers, AnswerInv
<1>9. Cancels(c, new)
  <2>1. "done" # "none"
    OBVIOUS
  <2> QED BY <1>1, <1>4, <2>1, Zenon DEF Cancels, CancelInv
<1>10. TreeInv' /\ WaitInv' /\ CancelInv'
  BY <1>1, <1>4, <1>5, <1>6, <1>7, <1>9, TreeStep, WaitStep, CancelStep, Zenon
<1>11. AnswerInv'
  <2>1. checkCache \in [Problems -> Responses]
    BY <1>1, Zenon DEF AnswerInv
  <2>2. checkCache' \in [Problems -> Responses]
    BY <1>3, <1>5, <2>1, Zenon DEF CacheSet
  <2>3. ASSUME NEW k \in Problems
        PROVE  checkCache'[k] = checkCache[k] \/
                   /\ Exact(checkCache'[k], k)
                   /\ checkCache'[k] # Pending => checkCache'[k].val \in {"member", "notmember"}
    <3>1. CASE Failed(r) \/ k # LastOf(c)
      BY <1>3, <1>5, <2>1, <3>1 DEF CacheSet
    <3>2. CASE ~Failed(r) /\ k = LastOf(c)
      <4>1. checkCache'[k] = r
        BY <1>3, <1>5, <2>1, <3>2, Zenon DEF CacheSet
      <4>2. r.val \in {"member", "notmember"}
        BY <3>2, Zenon DEF Failed, Outcomes
      <4> QED BY <3>2, <4>1, <4>2, Zenon
    <3> QED BY <3>1, <3>2, Zenon
  <2> QED BY <1>1, <1>4, <1>5, <1>8, <2>2, <2>3, AnswerStep, Zenon
<1>12. FlightInv'
  <2>1. flights \in [Problems -> CallNames \cup {NoCall}]
    BY <1>1, Zenon DEF FlightInv
  <2>2. flights' \in [Problems -> CallNames \cup {NoCall}]
    BY <1>3, <1>5, <2>1, Zenon DEF Leave, FlightKey
  <2>3. ASSUME NEW k \in Problems, flights'[k] # NoCall
        PROVE  /\ flights'[k] \in DOMAIN calls' /\ LastOf(flights'[k]) = k
               /\ calls'[flights'[k]].leads
               /\ \E e \in DOMAIN calls' : calls'[e].pc = "wait" /\ calls'[e].on = flights'[k]
    <3>1. flights'[k] = flights[k] /\ flights[k] # NoCall
      BY <1>3, <1>5, <2>1, <2>3, Zenon DEF Leave, FlightKey
    <3>2. CallersOf(flights[k]) # {} /\ LastOf(flights[k]) = k
      BY <1>1, <3>1, Zenon DEF FlightInv
    <3>3. CallersOf(flights[k]) # {c}
      <4>1. CASE k # LastOf(c)
        BY <1>1, <3>2, <4>1, Zenon DEF WaitInv, CallersOf
      <4>2. CASE k = LastOf(c) /\ CallersOf(flights[k]) = {c}
        <5>1. flights[k] = calls[c].on
          BY <4>2, Zenon DEF CallersOf
        <5>2. flights'[k] = NoCall
          BY <1>3, <1>5, <2>1, <4>2, <5>1, Zenon DEF Leave, FlightKey
        <5> QED BY <2>3, <5>2, Zenon
      <4> QED BY <4>1, <4>2, Zenon
    <3>4. PICK d \in CallersOf(flights[k]) : d # c
      BY <3>2, <3>3, Zenon
    <3> QED BY <1>1, <1>4, <1>5, <1>6, <3>1, <3>4, FlightKept
  <2> QED BY <2>2, <2>3, Zenon DEF FlightInv, CallersOf
<1> QED BY <1>10, <1>11, <1>12, Zenon DEF DispatchInv

LEMMA WorkReturnsStep ==
    ASSUME DispatchInv, NEW c \in DOMAIN calls, WorkReturns(c)
    PROVE  DispatchInv'
<1>1. TreeInv /\ WaitInv /\ AnswerInv /\ CancelInv
  BY Zenon DEF DispatchInv
<1>2. PICK f : f = calls[c].on
  BY Zenon
<1>3. calls[c].pc = "wait" /\ calls[f].comp = "done" /\ Return(c, calls[f].result)
  BY <1>2, Zenon DEF WorkReturns
<1>4. /\ f \in DOMAIN calls /\ LastOf(f) = LastOf(c) /\ (f = c \/ calls[f].leads)
  BY <1>1, <1>2, <1>3, Zenon DEF WaitInv
<1>5. /\ calls[f].result.val \in Outcomes /\ Exact(calls[f].result, LastOf(c))
  BY <1>1, <1>3, <1>4, Zenon DEF AnswerInv
<1>6. calls[f].result \in Responses
  BY <1>1, <1>4 DEF TreeInv, CallType
<1>7. calls[f].result.val = "canceled" => ContextDone(c)
  <2>1. c \in CallersOf(f)
    BY <1>2, <1>3, Zenon DEF CallersOf
  <2> QED BY <1>1, <1>3, <1>4, <2>1, Zenon DEF CancelInv
<1> QED BY <1>3, <1>5, <1>6, <1>7, ReturnStep, Zenon

LEMMA WaitCanceledStep ==
    ASSUME DispatchInv, NEW c \in DOMAIN calls, WaitCanceled(c)
    PROVE  DispatchInv'
<1>1. PICK r : r = Response("canceled", 0)
  BY Zenon
<1>2. r \in Responses /\ r.val \in Outcomes /\ Exact(r, LastOf(c))
  BY <1>1 DEF Response, Responses, Outcomes, Exact
<1>3. calls[c].pc = "wait" /\ ContextDone(c) /\ Return(c, r)
  BY <1>1, Zenon DEF WaitCanceled
<1> QED BY <1>2, <1>3, ReturnStep, Zenon

\* A call that its own work is to answer, or the flight of its key.
LEMMA WaitingStep ==
    ASSUME DispatchInv, NEW c \in DOMAIN calls, calls[c].pc = "group",
           NEW on \in CallNames, NEW leads \in BOOLEAN, NEW comp \in {"none", "start"},
           NEW bloom \in SUBSET Problems,
           With_(c, [calls[c] EXCEPT !.pc = "wait", !.on = on, !.leads = leads, !.comp = comp,
                                     !.bloom = bloom]),
           \/ on = c /\ comp = "start"
           \/ on = flights[LastOf(c)] /\ on # NoCall /\ comp = "none" /\ ~leads
              /\ LastOf(c) \notin calls[c].bloom,
           calls[c].bloom # NoBloom => calls[c].bloom \subseteq bloom,
           leads => LastOf(c) \in bloom,
           IF leads THEN flights' = [flights EXCEPT ![LastOf(c)] = c] ELSE flights' = flights,
           UNCHANGED <<graph, checkCache, gone>>
    PROVE  DispatchInv'
<1>1. TreeInv /\ FlightInv /\ WaitInv /\ AnswerInv /\ CancelInv
  BY Zenon DEF DispatchInv
<1>2. /\ calls[c] \in CallType /\ calls[c].comp = "none" /\ ~calls[c].leads
      /\ LastOf(c) \in Problems /\ c \in CallNames
  BY <1>1, Zenon DEF TreeInv
<1>3. PICK new : new = [calls[c] EXCEPT !.pc = "wait", !.on = on, !.leads = leads, !.comp = comp,
                                        !.bloom = bloom]
  BY Zenon
<1>4. /\ new \in CallType /\ new.pc = "wait" /\ new.on = on /\ new.leads = leads
      /\ new.comp = comp /\ new.bloom = bloom /\ new.resp = calls[c].resp
      /\ new.result = calls[c].result /\ new.collected = calls[c].collected
  BY <1>2, <1>3, Zenon DEF CallType
<1>5. With_(c, new)
  BY <1>3, Zenon
<1>6. Progress(c, new)
  BY <1>2, <1>4 DEF Progress
<1>7. Waits(c, new)
  <2>1. bloom # NoBloom
    BY DispatchAssumption, Zenon
  <2>2. CASE on = c /\ comp = "start"
    <3>1. comp # "none"
      BY <2>2
    <3> QED BY <1>2, <1>4, <2>1, <2>2, <3>1, Zenon DEF Waits
  <2>3. CASE /\ on = flights[LastOf(c)] /\ on # NoCall /\ comp = "none" /\ ~leads
             /\ LastOf(c) \notin calls[c].bloom
    <3>1. on \in DOMAIN calls /\ LastOf(on) = LastOf(c) /\ calls[on].leads /\ CallersOf(on) # {}
      BY <1>1, <1>2, <2>3, Zenon DEF FlightInv
    <3>2. on # c
      BY <1>2, <3>1, Zenon
    <3>3. calls[on].comp # "none"
      BY <1>1, <3>1, Zenon DEF WaitInv, CallersOf
    <3>4. on \notin Above(c)
      BY <1>1, <2>3, <3>1, Zenon DEF WaitInv
    <3> QED BY <1>2, <1>4, <2>1, <2>3, <3>1, <3>2, <3>3, <3>4, Zenon DEF Waits
  <2> QED BY <2>2, <2>3, Zenon
<1>8. Answers(c, new)
  BY <1>1, <1>2, <1>4, Zenon DEF Answers, AnswerInv
<1>9. Cancels(c, new)
  BY <1>4 DEF Cancels
<1>10. TreeInv' /\ WaitInv' /\ CancelInv'
  BY <1>1, <1>4, <1>5, <1>6, <1>7, <1>9, TreeStep, WaitStep, CancelStep, Zenon
<1>11. AnswerInv'
  <2>1. checkCache' \in [Problems -> Responses] /\ checkCache' = checkCache
    BY <1>1, Zenon DEF AnswerInv
  <2> QED BY <1>1, <1>4, <1>5, <1>8, <2>1, AnswerStep, Zenon
<1>12. FlightInv'
  <2>1. calls[c].pc # "wait"
    OBVIOUS
  <2>2. CASE ~leads
    BY <1>1, <1>4, <1>5, <1>6, <2>1, <2>2, FlightStep, Zenon
  <2>3. CASE leads
    <3>1. flights \in [Problems -> CallNames \cup {NoCall}]
      BY <1>1, Zenon DEF FlightInv
    <3>2. flights' \in [Problems -> CallNames \cup {NoCall}]
      BY <1>2, <2>3, <3>1
    <3>3. ASSUME NEW k \in Problems, flights'[k] # NoCall
          PROVE  /\ flights'[k] \in DOMAIN calls' /\ LastOf(flights'[k]) = k
                 /\ calls'[flights'[k]].leads
                 /\ \E e \in DOMAIN calls' : calls'[e].pc = "wait" /\ calls'[e].on = flights'[k]
      <4>1. CASE k = LastOf(c)
        <5>1. flights'[k] = c /\ on = c
          BY <1>2, <2>3, <3>1, <4>1, Zenon
        <5>2. c \in DOMAIN calls' /\ calls'[c] = new
          <6>1. After(c, new, c) = new /\ "wait" # "done"
            BY Zenon DEF After
          <6> QED BY <1>4, <1>5, <6>1, KeptIs, Zenon
        <5> QED BY <1>4, <2>3, <4>1, <5>1, <5>2, Zenon
      <4>2. CASE k # LastOf(c)
        <5>1. flights'[k] = flights[k]
          BY <2>3, <3>1, <4>2, Zenon
        <5>2. PICK d \in CallersOf(flights[k]) : TRUE
          BY <1>1, <3>3, <5>1, Zenon DEF FlightInv
        <5>3. d # c
          BY <2>1, <5>2, Zenon DEF CallersOf
        <5> QED BY <1>1, <1>4, <1>5, <1>6, <3>3, <5>1, <5>2, <5>3, FlightKept
      <4> QED BY <4>1, <4>2, Zenon
    <3> QED BY <3>2, <3>3, Zenon DEF FlightInv, CallersOf
  <2> QED BY <2>2, <2>3, Zenon
<1> QED BY <1>10, <1>11, <1>12, Zenon DEF DispatchInv

\* The singleflight dispatcher: alone, with the flight of its key, or at the head of a
\* new one.
LEMMA SingleflightStep ==
    ASSUME DispatchInv, NEW c \in DOMAIN calls, Singleflight(c)
    PROVE  DispatchInv'
<1>1. TreeInv /\ FlightInv
  BY Zenon DEF DispatchInv
<1>2. /\ calls[c] \in CallType /\ calls[c].comp = "none" /\ calls[c].leads = FALSE
      /\ LastOf(c) \in Problems /\ c \in CallNames /\ calls[c].pc = "group"
  <2>1. calls[c] \in CallType /\ calls[c].pc = "group" /\ LastOf(c) \in Problems /\ c \in CallNames
    BY <1>1, Zenon DEF TreeInv, Singleflight
  <2> QED BY <1>1, <2>1, Zenon DEF TreeInv, CallType
<1>3. PICK k : k = LastOf(c)
  BY Zenon
<1>4. PICK b : b = calls[c].bloom
  BY Zenon
<1>5. b # NoBloom => b \in SUBSET Problems /\ b \cup {k} \in SUBSET Problems
  <2>1. calls[c].bloom \in (SUBSET Problems) \cup {NoBloom}
    BY <1>2 DEF CallType
  <2>2. \A S \in SUBSET Problems : S \cup {k} \in SUBSET Problems
    BY <1>2, <1>3, SMT
  <2>3. b # NoBloom => b \in SUBSET Problems
    BY <1>4, <2>1, SMT
  <2> QED BY <2>2, <2>3, Zenon
<1>6. UNCHANGED <<graph, checkCache, gone>>
  BY Zenon DEF Singleflight
<1>7. ASSUME NEW bloom \in SUBSET Problems, Directly(c, bloom), b # NoBloom => b \subseteq bloom
      PROVE  DispatchInv'
  <2>1. [calls[c] EXCEPT !.pc = "wait", !.on = c, !.comp = "start", !.bloom = bloom]
        = [calls[c] EXCEPT !.pc = "wait", !.on = c, !.leads = FALSE, !.comp = "start",
                           !.bloom = bloom]
    BY <1>2, Zenon DEF CallType
  <2>2. /\ With_(c, [calls[c] EXCEPT !.pc = "wait", !.on = c, !.leads = FALSE, !.comp = "start",
                                     !.bloom = bloom])
        /\ flights' = flights
    BY <1>7, <2>1, Zenon DEF Directly
  <2> QED BY <1>2, <1>4, <1>6, <1>7, <2>2, WaitingStep, Zenon
<1>8. CASE b = NoBloom
  <2>1. Directly(c, {})
    BY <1>4, <1>8, Zenon DEF Singleflight
  <2> QED BY <1>7, <1>8, <2>1, Zenon
<1>9. CASE b # NoBloom /\ k \in b
  <2>1. Directly(c, b)
    BY <1>3, <1>4, <1>9, Zenon DEF Singleflight, PossiblyLoop
  <2> QED BY <1>5, <1>7, <1>9, <2>1, Zenon
<1>10. CASE b # NoBloom /\ k \notin b
  <2>1. IF calls[c].debug THEN Directly(c, b \cup {k})
        ELSE IF flights[k] # NoCall
        THEN /\ With_(c, [calls[c] EXCEPT !.pc = "wait", !.on = flights[k], !.bloom = b \cup {k}])
             /\ UNCHANGED flights
        ELSE /\ With_(c, [calls[c] EXCEPT !.pc = "wait", !.on = c, !.leads = TRUE,
                                          !.comp = "start", !.bloom = b \cup {k}])
             /\ flights' = [flights EXCEPT ![k] = c]
    BY <1>3, <1>4, <1>10, Zenon DEF Singleflight, PossiblyLoop, FlightKey
  <2>2. CASE calls[c].debug
    BY <1>5, <1>7, <1>10, <2>1, <2>2, Zenon
  <2>3. CASE ~calls[c].debug /\ flights[k] # NoCall
    <3>1. PICK f : f = flights[k]
      BY Zenon
    <3>2. f \in CallNames
      BY <1>1, <1>2, <1>3, <2>3, <3>1 DEF FlightInv
    <3>3. [calls[c] EXCEPT !.pc = "wait", !.on = f, !.bloom = b \cup {k}]
          = [calls[c] EXCEPT !.pc = "wait", !.on = f, !.leads = FALSE, !.comp = "none",
                             !.bloom = b \cup {k}]
      BY <1>2, Zenon DEF CallType
    <3>4. /\ With_(c, [calls[c] EXCEPT !.pc = "wait", !.on = f, !.leads = FALSE, !.comp = "none",
                                       !.bloom = b \cup {k}])
          /\ flights' = flights
      BY <2>1, <2>3, <3>1, <3>3, Zenon
    <3> QED BY <1>2, <1>3, <1>4, <1>5, <1>6, <1>10, <2>3, <3>1, <3>2, <3>4, WaitingStep, Zenon
  <2>4. CASE ~calls[c].debug /\ flights[k] = NoCall
    <3>1. /\ With_(c, [calls[c] EXCEPT !.pc = "wait", !.on = c, !.leads = TRUE,
                                       !.comp = "start", !.bloom = b \cup {k}])
          /\ flights' = [flights EXCEPT ![k] = c]
      BY <2>1, <2>4, Zenon
    <3> QED BY <1>2, <1>3, <1>4, <1>5, <1>6, <1>10, <3>1, WaitingStep, Zenon
  <2> QED BY <2>2, <2>3, <2>4, Zenon
<1> QED BY <1>8, <1>9, <1>10, Zenon

\* New calls N, all of them f: who they are, what stands above and below them, and the
\* work that makes them.
Fresh(f) ==
    /\ f \in CallType /\ f.pc = "cache" /\ f.comp = "none" /\ ~f.leads /\ f.collected = {}
    /\ f.resp = Pending /\ f.result = Pending
Enter(N, f) ==
    /\ IsFiniteSet(N) /\ N \cap DOMAIN calls = {} /\ DOMAIN calls' = DOMAIN calls \cup N
    /\ \A d \in N : calls'[d] = f
Named(N, f) ==
    \A d \in N :
        /\ d \in CallNames /\ Len(d) >= 2 /\ LastOf(d) \in Problems
        /\ Len(d) > 2 => d[Len(d) - 1] \in Problems /\ LastOf(d) \in graph.sub[d[Len(d) - 1]]
        /\ f.bloom = NoBloom => Len(d) = 2
Lowest(N) == \A d \in N : \A e \in DOMAIN calls' : d \notin Above(e)
MadeFor(N, f) ==
    \A d \in N : \A m \in DOMAIN calls : m \in Above(d) =>
        /\ calls'[m].comp \notin {"none", "start"}
        /\ calls[m].leads => LastOf(m) \in f.bloom
Runs(N, d) ==
    /\ calls[d].comp = "start" /\ LastOf(d) \notin graph.direct
    /\ \A s \in graph.sub[LastOf(d)] : Append(d, s) \in N
MadeBy(N) ==
    \A d \in DOMAIN calls :
        calls'[d] # calls[d] => Runs(N, d) /\ calls'[d] = [calls[d] EXCEPT !.comp = "run"]
Creates(N, f) == Fresh(f) /\ Enter(N, f) /\ Named(N, f) /\ Lowest(N) /\ MadeFor(N, f) /\ MadeBy(N)

\* The calls there were stay, but for work that starts to run.
Same(d) ==
    /\ calls'[d] \in CallType /\ calls'[d].pc = calls[d].pc
    /\ calls'[d].bloom = calls[d].bloom /\ calls'[d].leads = calls[d].leads
    /\ calls'[d].on = calls[d].on /\ calls'[d].resp = calls[d].resp
    /\ calls'[d].result = calls[d].result /\ calls'[d].collected = calls[d].collected

LEMMA CreateKeeps ==
    ASSUME TreeInv, NEW N, MadeBy(N), NEW d \in DOMAIN calls
    PROVE  /\ Same(d)
           /\ calls'[d].comp = calls[d].comp \/ (Runs(N, d) /\ calls'[d].comp = "run")
<1>1. calls[d] \in CallType
  BY Zenon DEF TreeInv
<1>2. CASE calls'[d] = calls[d]
  BY <1>1, <1>2, Zenon DEF Same
<1>3. CASE calls'[d] # calls[d]
  <2>1. Runs(N, d) /\ calls'[d] = [calls[d] EXCEPT !.comp = "run"]
    BY <1>3, Zenon DEF MadeBy
  <2>2. Same(d) /\ calls'[d].comp = "run"
    BY <1>1, <2>1 DEF CallType, Same
  <2> QED BY <2>1, <2>2, Zenon
<1> QED BY <1>2, <1>3, Zenon

\* What they were doing stays too.
LEMMA CreateProgress ==
    ASSUME TreeInv, NEW N, MadeBy(N), NEW d \in DOMAIN calls
    PROVE  /\ calls[d].comp # "none" => calls'[d].comp # "none"
           /\ calls'[d].comp # "run" => calls'[d].comp = calls[d].comp
           /\ calls[d].comp \notin {"none", "start"} => calls'[d].comp = calls[d].comp
           /\ calls[d].comp = "none" => calls'[d].comp = "none"
<1>1. calls'[d].comp = calls[d].comp \/ (calls[d].comp = "start" /\ calls'[d].comp = "run")
  BY CreateKeeps, Zenon DEF Runs
<1> QED BY <1>1, Zenon

LEMMA CreateTree ==
    ASSUME TreeInv, NEW N, NEW f, Creates(N, f), graph' = graph
    PROVE  TreeInv'
<1>1. Fresh(f) /\ Enter(N, f) /\ Named(N, f) /\ Lowest(N) /\ MadeFor(N, f) /\ MadeBy(N)
  BY Zenon DEF Creates
<1>2. DOMAIN calls' = DOMAIN calls \cup N
  BY <1>1, Zenon DEF Enter
<1>3. graph' \in Graphs /\ IsFiniteSet(DOMAIN calls')
  <2>1. IsFiniteSet(DOMAIN calls) /\ IsFiniteSet(N) /\ graph \in Graphs
    BY <1>1, Zenon DEF TreeInv, Enter
  <2> QED BY <1>2, <2>1, FS_Union, Zenon
<1>4. ASSUME NEW d \in DOMAIN calls'
      PROVE  /\ d \in CallNames /\ Len(d) >= 2 /\ LastOf(d) \in Problems
             /\ Len(d) > 2 => d[Len(d) - 1] \in Problems /\ LastOf(d) \in graph.sub[d[Len(d) - 1]]
  BY <1>1, <1>2, Zenon DEF TreeInv, Named
<1>5. ASSUME NEW d \in DOMAIN calls'
      PROVE  /\ calls'[d] \in CallType
             /\ calls'[d].pc \in {"cache", "group"} => calls'[d].comp = "none" /\ ~calls'[d].leads
  <2>1. CASE d \in N
    <3>1. calls'[d] = f
      BY <1>1, <2>1, Zenon DEF Enter
    <3> QED BY <1>1, <3>1, Zenon DEF Fresh
  <2>2. CASE d \in DOMAIN calls
    <3>1. Same(d)
      BY <1>1, <2>2, CreateKeeps, Zenon
    <3>2. calls[d].comp = "none" => calls'[d].comp = "none"
      BY <1>1, <2>2, CreateProgress, Zenon
    <3> QED BY <2>2, <3>1, <3>2, Zenon DEF Same, TreeInv
  <2> QED BY <1>2, <2>1, <2>2, Zenon
<1>6. ASSUME NEW d \in DOMAIN calls', calls'[d].comp \in {"none", "start"}, NEW e \in DOMAIN calls'
      PROVE  d \notin Above(e)
  <2>1. CASE d \in N
    BY <1>1, <1>6, <2>1, Zenon DEF Lowest
  <2>2. CASE d \in DOMAIN calls /\ e \in N
    BY <1>1, <1>6, <2>2, Zenon DEF MadeFor
  <2>3. CASE d \in DOMAIN calls /\ e \in DOMAIN calls
    <3>1. calls'[d].comp # "run"
      BY <1>6
    <3>2. calls'[d].comp = calls[d].comp
      BY <1>1, <2>3, <3>1, CreateProgress, Zenon
    <3> QED BY <1>6, <2>3, <3>2, Zenon DEF TreeInv
  <2> QED BY <1>2, <2>1, <2>2, <2>3, Zenon
<1> QED BY <1>3, <1>4, <1>5, <1>6, Zenon DEF TreeInv

LEMMA CreateFlight ==
    ASSUME TreeInv, FlightInv, NEW N, NEW f, Creates(N, f), flights' = flights
    PROVE  FlightInv'
<1>1. Enter(N, f) /\ MadeBy(N)
  BY Zenon DEF Creates
<1>2. ASSUME NEW k \in Problems, flights[k] # NoCall
      PROVE  /\ flights[k] \in DOMAIN calls' /\ LastOf(flights[k]) = k
             /\ calls'[flights[k]].leads
             /\ \E e \in DOMAIN calls' : calls'[e].pc = "wait" /\ calls'[e].on = flights[k]
  <2>1. PICK g : g = flights[k]
    BY Zenon
  <2>2. g \in DOMAIN calls /\ LastOf(g) = k /\ calls[g].leads
    BY <1>2, <2>1, Zenon DEF FlightInv
  <2>3. PICK e \in DOMAIN calls : calls[e].pc = "wait" /\ calls[e].on = g
    BY <1>2, <2>1, Zenon DEF FlightInv, CallersOf
  <2>4. Same(g) /\ Same(e)
    BY <1>1, <2>2, <2>3, CreateKeeps, Zenon
  <2>5. g \in DOMAIN calls' /\ e \in DOMAIN calls'
    BY <1>1, <2>2, <2>3, Zenon DEF Enter
  <2> QED BY <2>1, <2>2, <2>3, <2>4, <2>5, Zenon DEF Same
<1> QED BY <1>2, Zenon DEF FlightInv, CallersOf

LEMMA CreateWait ==
    ASSUME TreeInv, WaitInv, NEW N, NEW f, Creates(N, f)
    PROVE  WaitInv'
<1>1. Fresh(f) /\ Enter(N, f) /\ Named(N, f) /\ Lowest(N) /\ MadeFor(N, f) /\ MadeBy(N)
  BY Zenon DEF Creates
<1>2. DOMAIN calls' = DOMAIN calls \cup N
  BY <1>1, Zenon DEF Enter
<1>3. \A d \in DOMAIN calls : Same(d)
  BY <1>1, CreateKeeps, Zenon
<1>4. ASSUME NEW d \in N
      PROVE  /\ calls'[d].pc # "wait"
             /\ calls'[d].bloom = NoBloom => Len(d) = 2 /\ calls'[d].comp = "none"
             /\ \A m \in (Above(d) \cup {d}) \cap DOMAIN calls' :
                    calls'[m].leads => LastOf(m) \in calls'[d].bloom
  <2>1. calls'[d] = f
    BY <1>1, <1>4, Zenon DEF Enter
  <2>2. f.pc # "wait" /\ ~f.leads /\ f.comp = "none" /\ (f.bloom = NoBloom => Len(d) = 2)
    BY <1>1, <1>4 DEF Fresh, Named
  <2>3. ASSUME NEW m \in Above(d) \cap DOMAIN calls', calls'[m].leads
        PROVE  LastOf(m) \in f.bloom
    <3>1. CASE m \in N
      <4>1. calls'[m] = f
        BY <1>1, <3>1, Zenon DEF Enter
      <4> QED BY <2>2, <2>3, <4>1, Zenon
    <3>2. CASE m \in DOMAIN calls
      <4>1. calls[m].leads
        BY <1>3, <2>3, <3>2, Zenon DEF Same
      <4> QED BY <1>1, <1>4, <2>3, <3>2, <4>1, Zenon DEF MadeFor
    <3> QED BY <1>2, <2>3, <3>1, <3>2, Zenon
  <2> QED BY <2>1, <2>2, <2>3, Zenon
<1>5. ASSUME NEW d \in DOMAIN calls, calls'[d].pc = "wait"
      PROVE  /\ calls'[d].on \in DOMAIN calls' /\ LastOf(calls'[d].on) = LastOf(d)
             /\ calls'[calls'[d].on].comp # "none"
             /\ calls'[d].on = d \/ calls'[calls'[d].on].leads
             /\ calls'[d].on \notin Above(d)
  <2>1. PICK o : o = calls[d].on
    BY Zenon
  <2>2. calls[d].pc = "wait" /\ calls'[d].on = o
    BY <1>3, <1>5, <2>1, Zenon DEF Same
  <2>3. /\ o \in DOMAIN calls /\ LastOf(o) = LastOf(d) /\ calls[o].comp # "none"
        /\ (o = d \/ calls[o].leads) /\ o \notin Above(d)
    BY <1>5, <2>1, <2>2, Zenon DEF WaitInv
  <2>4. calls'[o].comp # "none" /\ (calls[o].leads => calls'[o].leads)
    BY <1>1, <1>3, <2>3, CreateProgress, Zenon DEF Same
  <2> QED BY <1>2, <2>2, <2>3, <2>4, Zenon
<1>6. ASSUME NEW d \in DOMAIN calls, calls'[d].bloom = NoBloom
      PROVE  Len(d) = 2 /\ calls'[d].comp = "none"
  <2>1. calls[d].bloom = NoBloom
    BY <1>3, <1>6, Zenon DEF Same
  <2>2. Len(d) = 2 /\ calls[d].comp = "none"
    BY <1>6, <2>1, Zenon DEF WaitInv
  <2> QED BY <1>1, <1>6, <2>2, CreateProgress, Zenon
<1>7. ASSUME NEW d \in DOMAIN calls, NEW m \in (Above(d) \cup {d}) \cap DOMAIN calls',
             calls'[m].leads
      PROVE  LastOf(m) \in calls'[d].bloom
  <2>1. m \in DOMAIN calls
    BY <1>1, <1>2, <1>7, Zenon DEF Lowest
  <2>2. calls[m].leads /\ calls'[d].bloom = calls[d].bloom
    BY <1>3, <1>7, <2>1, Zenon DEF Same
  <2> QED BY <1>7, <2>1, <2>2, Zenon DEF WaitInv
<1> QED BY <1>2, <1>4, <1>5, <1>6, <1>7, Zenon DEF WaitInv

LEMMA CreateAnswer ==
    ASSUME TreeInv, AnswerInv, NEW N, NEW f, Creates(N, f), graph' = graph,
           checkCache' = checkCache
    PROVE  AnswerInv'
<1>1. Fresh(f) /\ Enter(N, f) /\ MadeBy(N)
  BY Zenon DEF Creates
<1>2. DOMAIN calls' = DOMAIN calls \cup N
  BY <1>1, Zenon DEF Enter
<1>3. \A k : (IsMember(k)' <=> IsMember(k)) /\ \A resp : Exact(resp, k)' <=> Exact(resp, k)
  BY MembersStay, Zenon
<1>4. ASSUME NEW d \in DOMAIN calls'
      PROVE  /\ Exact(calls'[d].resp, LastOf(d)) /\ Exact(calls'[d].result, LastOf(d))
             /\ calls'[d].pc = "done" => calls'[d].resp.val \in Outcomes
             /\ calls'[d].comp = "done" => calls'[d].result.val \in Outcomes
             /\ calls'[d].comp \in {"none", "start"} => calls'[d].collected = {}
  <2>1. CASE d \in N
    <3>1. calls'[d] = f
      BY <1>1, <2>1, Zenon DEF Enter
    <3>2. Exact(Pending, LastOf(d))
      BY Zenon DEF Exact, Pending, Response
    <3>3. f.pc # "done" /\ f.comp # "done"
      BY <1>1 DEF Fresh
    <3> QED BY <1>1, <3>1, <3>2, <3>3, Zenon DEF Fresh
  <2>2. CASE d \in DOMAIN calls
    <3>1. Same(d)
      BY <1>1, <2>2, CreateKeeps, Zenon
    <3>2. calls'[d].comp \in {"none", "start", "done"} => calls'[d].comp = calls[d].comp
      <4>1. calls'[d].comp # "run" => calls'[d].comp = calls[d].comp
        BY <1>1, <2>2, CreateProgress, Zenon
      <4> QED BY <4>1
    <3>3. /\ Exact(calls[d].resp, LastOf(d)) /\ Exact(calls[d].result, LastOf(d))
          /\ calls[d].pc = "done" => calls[d].resp.val \in Outcomes
          /\ calls[d].comp = "done" => calls[d].result.val \in Outcomes
          /\ calls[d].comp \in {"none", "start"} => calls[d].collected = {}
      BY <2>2, Zenon DEF AnswerInv
    <3> QED BY <3>1, <3>2, <3>3, Zenon DEF Same
  <2> QED BY <1>2, <2>1, <2>2, Zenon
<1>5. ASSUME NEW d \in DOMAIN calls', calls'[d].comp = "run"
      PROVE  /\ LastOf(d) \notin graph.direct
             /\ \A s \in graph.sub[LastOf(d)] :
                    IF Append(d, s) \in calls'[d].collected THEN ~IsMember(s)
                    ELSE Append(d, s) \in DOMAIN calls'
  <2>1. d \in DOMAIN calls
    <3>1. f.comp # "run"
      BY <1>1 DEF Fresh
    <3> QED BY <1>1, <1>2, <1>5, <3>1, Zenon DEF Enter
  <2>2. Same(d) /\ (calls'[d].comp = calls[d].comp \/ Runs(N, d))
    BY <1>1, <2>1, CreateKeeps, Zenon
  <2>3. CASE calls[d].comp = "run"
    <3>1. /\ LastOf(d) \notin graph.direct
          /\ \A s \in graph.sub[LastOf(d)] :
                 IF Append(d, s) \in calls[d].collected THEN ~IsMember(s)
                 ELSE Append(d, s) \in DOMAIN calls
      BY <2>1, <2>3, Zenon DEF AnswerInv
    <3> QED BY <1>2, <2>2, <3>1, Zenon DEF Same
  <2>4. CASE calls[d].comp # "run"
    <3>1. /\ calls[d].comp = "start" /\ LastOf(d) \notin graph.direct
          /\ \A s \in graph.sub[LastOf(d)] : Append(d, s) \in N
      BY <1>5, <2>2, <2>4, Zenon DEF Runs
    <3>2. calls[d].collected = {}
      BY <2>1, <3>1, Zenon DEF AnswerInv
    <3> QED BY <1>2, <2>2, <3>1, <3>2, Zenon DEF Same
  <2> QED BY <2>3, <2>4, Zenon
<1> QED BY <1>3, <1>4, <1>5, Zenon DEF AnswerInv

LEMMA CreateCancel ==
    ASSUME TreeInv, CancelInv, NEW N, NEW f, Creates(N, f), gone' = gone
    PROVE  CancelInv'
<1>1. Fresh(f) /\ Enter(N, f) /\ Lowest(N) /\ MadeBy(N)
  BY Zenon DEF Creates
<1>2. DOMAIN calls' = DOMAIN calls \cup N /\ \A d \in N : calls'[d] = f
  BY <1>1, Zenon DEF Enter
<1>3. \A d \in DOMAIN calls : Same(d)
  BY <1>1, CreateKeeps, Zenon
<1>4. f.pc # "wait" /\ f.pc # "done" /\ f.comp # "done"
  BY <1>1, Zenon DEF Fresh
<1>5. ASSUME NEW d \in DOMAIN calls
      PROVE  calls'[d].comp = "done" <=> calls[d].comp = "done"
  <2>1. /\ calls'[d].comp # "run" => calls'[d].comp = calls[d].comp
        /\ calls[d].comp \notin {"none", "start"} => calls'[d].comp = calls[d].comp
    BY <1>1, CreateProgress, Zenon
  <2> QED BY <2>1
<1>6. Evolves
  <2>1. \A m \in DOMAIN calls' \ DOMAIN calls : \A d \in DOMAIN calls : m \notin Above(d)
    BY <1>1, <1>2, Zenon DEF Lowest
  <2>2. \A m \in DOMAIN calls : calls'[m].leads = calls[m].leads
    BY <1>3, Zenon DEF Same
  <2>3. ASSUME NEW d \in DOMAIN calls', NEW p \in DOMAIN calls,
               calls'[d].pc = "wait", calls'[d].on = p
        PROVE  CallersOf(p) # {}
    <3>1. d \in DOMAIN calls
      BY <1>2, <1>4, <2>3, Zenon
    <3>2. calls[d].pc = "wait" /\ calls[d].on = p
      BY <1>3, <2>3, <3>1, Zenon DEF Same
    <3> QED BY <3>1, <3>2, Zenon DEF CallersOf
  <2> QED BY <1>5, <2>1, <2>2, <2>3, Zenon DEF Evolves
<1>7. ASSUME NEW d \in DOMAIN calls', calls'[d].pc = "done", calls'[d].resp.val = "canceled"
      PROVE  ContextDone(d)'
  <2>1. d \in DOMAIN calls
    BY <1>2, <1>4, <1>7, Zenon
  <2>2. calls[d].pc = "done" /\ calls[d].resp.val = "canceled"
    BY <1>3, <1>7, <2>1, Zenon DEF Same
  <2>3. ContextDone(d)
    BY <2>1, <2>2, Zenon DEF CancelInv
  <2> QED BY <1>6, <2>1, <2>3, ContextStays, Zenon
<1>8. ASSUME NEW d \in DOMAIN calls', calls'[d].comp = "done", calls'[d].result.val = "canceled"
      PROVE  IF calls'[d].leads THEN CallersOf(d)' = {} ELSE ContextDone(d)'
  <2>1. d \in DOMAIN calls
    BY <1>2, <1>4, <1>8, Zenon
  <2>2. calls[d].comp = "done" /\ calls[d].result.val = "canceled" /\ calls'[d].leads = calls[d].leads
    BY <1>3, <1>5, <1>8, <2>1, Zenon DEF Same
  <2>3. calls[d].comp # "none"
    BY <2>2
  <2>4. IF calls[d].leads THEN CallersOf(d) = {} ELSE ContextDone(d)
    BY <2>1, <2>2, Zenon DEF CancelInv
  <2>5. CASE calls[d].leads
    BY <1>6, <2>1, <2>2, <2>3, <2>4, <2>5, NobodyComes, Zenon
  <2>6. CASE ~calls[d].leads
    BY <1>6, <2>1, <2>2, <2>4, <2>6, ContextStays, Zenon
  <2> QED BY <2>5, <2>6, Zenon
<1> QED BY <1>7, <1>8, Zenon DEF CancelInv

LEMMA CreateStep ==
    ASSUME DispatchInv, NEW N, NEW f, Creates(N, f), UNCHANGED <<graph, flights, checkCache, gone>>
    PROVE  DispatchInv'
<1>1. TreeInv /\ FlightInv /\ WaitInv /\ AnswerInv /\ CancelInv
  BY Zenon DEF DispatchInv
<1> QED BY <1>1, CreateTree, CreateFlight, CreateWait, CreateAnswer, CreateCancel, Zenon
        DEF DispatchInv

\* A client asks.
LEMMA DispatchCheckStep ==
    ASSUME DispatchInv, NEW q \in Requests, DispatchCheck(q)
    PROVE  DispatchInv'
<1>1. PICK a \in Asks(q) :
          calls' = [c \in DOMAIN calls \cup {<<q, a.problem>>} |->
                        IF c = <<q, a.problem>> THEN NewCall(a.depth, a.bloom, a.debug) ELSE calls[c]]
  BY Zenon DEF DispatchCheck
<1>2. PICK new : new = <<q, a.problem>>
  BY Zenon
<1>3. PICK f : f = NewCall(a.depth, a.bloom, a.debug)
  BY Zenon
<1>4. /\ a.problem \in Problems /\ a.depth \in Nat /\ a.debug \in BOOLEAN
      /\ a.bloom \in (SUBSET Problems) \cup {NoBloom}
  BY DispatchAssumption, Zenon
<1>5. /\ new \in CallNames /\ Len(new) = 2 /\ LastOf(new) = a.problem /\ new[1] = q
  BY <1>2, <1>4 DEF CallNames, LastOf
<1>6. \A c \in DOMAIN calls : c[1] # q
  BY Zenon DEF DispatchCheck
<1>7. new \notin DOMAIN calls
  BY <1>5, <1>6, Zenon
<1>8. Fresh(f)
  BY <1>3, <1>4 DEF Fresh, NewCall, CallType, Pending, Response, Responses
<1>9. Enter({new}, f)
  <2>1. calls' = [c \in DOMAIN calls \cup {new} |-> IF c = new THEN f ELSE calls[c]]
    BY <1>1, <1>2, <1>3, Zenon
  <2>2. IsFiniteSet({new})
    BY FS_Singleton, Zenon
  <2> QED BY <1>7, <2>1, <2>2, Zenon DEF Enter
<1>10. \A c \in DOMAIN calls : calls'[c] = calls[c]
  BY <1>1, <1>2, <1>7, Zenon
<1>11. Named({new}, f)
  <2>1. Len(new) >= 2 /\ ~(Len(new) > 2)
    BY <1>5
  <2> QED BY <1>4, <1>5, <2>1, Zenon DEF Named
<1>12. \A c \in DOMAIN calls : c \in CallNames
  BY Zenon DEF DispatchInv, TreeInv
<1>13. Lowest({new})
  <2>1. \A c \in DOMAIN calls : new \notin Above(c)
    <3>1. \A c \in DOMAIN calls : \A m \in Above(c) : m[1] = c[1]
      BY <1>12, AboveIs, Zenon
    <3> QED BY <1>5, <1>6, <3>1, Zenon
  <2>2. new \notin Above(new)
    BY <1>5, AboveIsStrict, Zenon
  <2> QED BY <1>9, <2>1, <2>2, Zenon DEF Lowest, Enter
<1>14. MadeFor({new}, f)
  <2>1. \A m \in Above(new) : m[1] = q
    BY <1>5, AboveIs, Zenon
  <2> QED BY <1>6, <2>1, Zenon DEF MadeFor
<1>15. MadeBy({new})
  BY <1>10, Zenon DEF MadeBy
<1>16. UNCHANGED <<graph, flights, checkCache, gone>>
  BY Zenon DEF DispatchCheck
<1> QED BY <1>8, <1>9, <1>11, <1>13, <1>14, <1>15, <1>16, CreateStep, Zenon DEF Creates

\* The calls of the subproblems of one are finitely many.
LEMMA SubcallsFinite ==
    ASSUME NEW S, IsFiniteSet(S), NEW c
    PROVE  IsFiniteSet({Append(c, s) : s \in S})
<1>1. PICK T : T = {Append(c, s) : s \in S}
  BY Zenon
<1>2. PICK h : h = [s \in S |-> Append(c, s)]
  BY Zenon
<1>3. h \in [S -> T] /\ \A t \in T : \E s \in S : h[s] = t
  BY <1>1, <1>2
<1>4. h \in Surjection(S, T)
  BY <1>3, Zenon DEF Surjection
<1> QED BY <1>1, <1>4, FS_Surjection, Zenon

\* The checker dispatches the subproblems of a problem.
Subproblems(c, subs, f) ==
    /\ calls[c].comp = "start" /\ calls[c].depth > 0 /\ LastOf(c) \notin graph.direct
    /\ subs = {Append(c, s) : s \in graph.sub[LastOf(c)]}
    /\ f = NewCall(calls[c].depth - 1, calls[c].bloom, calls[c].debug)
    /\ calls' = [d \in DOMAIN calls \cup subs |->
                    IF d \in subs THEN f
                    ELSE IF d = c THEN [calls[c] EXCEPT !.comp = "run"] ELSE calls[d]]

LEMMA SubproblemsStep ==
    ASSUME DispatchInv, NEW c \in DOMAIN calls, NEW subs, NEW f, Subproblems(c, subs, f),
           UNCHANGED <<graph, flights, checkCache, gone>>
    PROVE  DispatchInv'
<1> /\ calls[c].comp = "start" /\ calls[c].depth > 0 /\ LastOf(c) \notin graph.direct
    /\ subs = {Append(c, s) : s \in graph.sub[LastOf(c)]}
    /\ f = NewCall(calls[c].depth - 1, calls[c].bloom, calls[c].debug)
    /\ calls' = [d \in DOMAIN calls \cup subs |->
                    IF d \in subs THEN f
                    ELSE IF d = c THEN [calls[c] EXCEPT !.comp = "run"] ELSE calls[d]]
  BY Zenon DEF Subproblems
<1>1. TreeInv /\ WaitInv
  BY Zenon DEF DispatchInv
<1>2. /\ c \in CallNames /\ Len(c) >= 2 /\ LastOf(c) \in Problems /\ graph \in Graphs
      /\ calls[c] \in CallType
  BY <1>1, Zenon DEF TreeInv
<1>3. graph.sub[LastOf(c)] \subseteq Problems
  BY <1>2, ReachIs, Zenon
<1>4. \A e \in DOMAIN calls : c \notin Above(e) /\ e \in CallNames
  BY <1>1, Zenon DEF TreeInv
<1>5. ASSUME NEW d \in subs
      PROVE  /\ d \in CallNames /\ Len(d) = Len(c) + 1 /\ LastOf(d) \in graph.sub[LastOf(c)]
             /\ d[Len(c)] = LastOf(c) /\ Above(d) = Above(c) \cup {c}
  <2>1. PICK s \in graph.sub[LastOf(c)] : d = Append(c, s)
    BY <1>5, Zenon
  <2>2. s \in Problems
    BY <1>3, <2>1, Zenon
  <2> QED BY <1>2, <2>1, <2>2, ChildIs, AboveChild, Zenon
<1>6. c \notin subs /\ subs \cap DOMAIN calls = {}
  <2>1. c \notin Above(c)
    BY <1>2, AboveIsStrict, Zenon
  <2> QED BY <1>4, <1>5, <2>1, Zenon
<1>7. Fresh(f)
  <2>1. /\ calls[c].depth - 1 \in Nat /\ calls[c].debug \in BOOLEAN
        /\ calls[c].bloom \in (SUBSET Problems) \cup {NoBloom}
    BY <1>2 DEF CallType
  <2> QED BY <2>1, Zenon DEF Fresh, NewCall, CallType, Pending, Response, Responses
<1>8. Enter(subs, f)
  <2>1. IsFiniteSet(graph.sub[LastOf(c)])
    BY <1>3, DispatchAssumption, FS_Subset, Zenon
  <2>2. IsFiniteSet(subs)
    BY <2>1, SubcallsFinite, Zenon
  <2>3. DOMAIN calls' = DOMAIN calls \cup subs
    BY Zenon
  <2>4. \A d \in subs : calls'[d] = f
    BY Zenon
  <2> QED BY <1>6, <2>2, <2>3, <2>4, Zenon DEF Enter
<1>9. f.bloom = calls[c].bloom /\ calls[c].bloom # NoBloom
  <2>1. calls[c].comp # "none"
    OBVIOUS
  <2>2. f.bloom = calls[c].bloom
    BY DEF NewCall
  <2> QED BY <1>1, <2>1, <2>2, Zenon DEF WaitInv
<1>10. Named(subs, f)
  <2>1. ASSUME NEW d \in subs
        PROVE  /\ d \in CallNames /\ Len(d) >= 2 /\ LastOf(d) \in Problems
               /\ d[Len(d) - 1] \in Problems /\ LastOf(d) \in graph.sub[d[Len(d) - 1]]
    <3>1. Len(d) >= 2 /\ Len(d) - 1 = Len(c)
      BY <1>2, <1>5, <2>1 DEF CallNames
    <3> QED BY <1>2, <1>3, <1>5, <2>1, <3>1, Zenon
  <2> QED BY <1>9, <2>1, Zenon DEF Named
<1>11. Lowest(subs)
  <2>1. ASSUME NEW d \in subs, NEW e \in DOMAIN calls PROVE d \notin Above(e)
    <3>1. d \in Above(e) => c \in Above(e)
      <4>1. PICK s \in graph.sub[LastOf(c)] : d = Append(c, s)
        BY <2>1, Zenon
      <4> QED BY <1>2, <1>3, <1>4, <2>1, <4>1, AboveIsStrict, Zenon
    <3> QED BY <1>4, <2>1, <3>1, Zenon
  <2>2. ASSUME NEW d \in subs, NEW e \in subs PROVE d \notin Above(e)
    <3>1. Len(d) = Len(e) /\ Len(d) \in Nat /\ e \in CallNames
      BY <1>5, <2>2 DEF CallNames
    <3>2. d \in Above(e) => Len(d) < Len(e)
      BY <3>1, AboveIs, Zenon
    <3> QED BY <3>1, <3>2
  <2> QED BY <1>8, <2>1, <2>2, Zenon DEF Lowest, Enter
<1>12. ASSUME NEW d \in DOMAIN calls
       PROVE  calls'[d] = IF d = c THEN [calls[c] EXCEPT !.comp = "run"] ELSE calls[d]
  <2>1. d \notin subs
    BY <1>6, <1>12, Zenon
  <2> QED BY <1>12, <2>1, Zenon
<1>13. MadeFor(subs, f)
  <2>1. ASSUME NEW d \in subs, NEW m \in DOMAIN calls, m \in Above(d)
        PROVE  calls'[m].comp \notin {"none", "start"} /\ (calls[m].leads => LastOf(m) \in f.bloom)
    <3>1. m \in Above(c) \cup {c}
      BY <1>5, <2>1, Zenon
    <3>2. calls[m].leads => LastOf(m) \in f.bloom
      BY <1>1, <1>9, <2>1, <3>1, Zenon DEF WaitInv
    <3>3. CASE m = c
      <4>1. calls'[c] = [calls[c] EXCEPT !.comp = "run"]
        BY <1>12, Zenon
      <4>2. calls'[c].comp = "run"
        BY <1>2, <4>1 DEF CallType
      <4> QED BY <3>2, <3>3, <4>2, Zenon
    <3>4. CASE m # c
      <4>1. calls'[m] = calls[m] /\ m \in Above(c)
        BY <1>12, <2>1, <3>1, <3>4, Zenon
      <4>2. calls[m].comp \notin {"none", "start"}
        BY <1>1, <2>1, <4>1, Zenon DEF TreeInv
      <4> QED BY <3>2, <4>1, <4>2, Zenon
    <3> QED BY <3>3, <3>4, Zenon
  <2> QED BY <2>1, Zenon DEF MadeFor
<1>14. MadeBy(subs)
  <2>1. Runs(subs, c)
    BY Zenon DEF Runs
  <2> QED BY <1>12, <2>1, Zenon DEF MadeBy
<1> QED BY <1>7, <1>8, <1>10, <1>11, <1>13, <1>14, CreateStep, Zenon DEF Creates

\* The local dispatcher: the depth limit, what the checker finds at once, and the
\* subproblems.
LEMMA CheckDirectStep ==
    ASSUME DispatchInv, NEW c \in DOMAIN calls, CheckDirect(c)
    PROVE  DispatchInv'
<1>1. TreeInv
  BY Zenon DEF DispatchInv
<1>2. /\ c \in CallNames /\ Len(c) >= 2 /\ LastOf(c) \in Problems /\ graph \in Graphs
      /\ calls[c] \in CallType
  BY <1>1, Zenon DEF TreeInv
<1>3. PICK subs : subs = {Append(c, s) : s \in graph.sub[LastOf(c)]}
  BY Zenon
<1>4. calls[c].comp = "start" /\ UNCHANGED <<graph, flights, checkCache, gone>>
  BY Zenon DEF CheckDirect, WorkFrame
<1>5. calls[c].comp \in {"start", "run"}
  BY <1>4, Zenon
<1>6. calls[c].depth \in Nat
  BY <1>2, Zenon DEF CallType
<1>7. calls[c].depth = 0 \/ calls[c].depth > 0
  BY <1>6
<1>8. ASSUME NEW v \in {"depth", "member", "notmember"}, NEW n \in Nat,
             v \in {"member", "notmember"} => ((v = "member") <=> IsMember(LastOf(c))),
             With_(c, [calls[c] EXCEPT !.comp = "done", !.result = Response(v, n)])
      PROVE  DispatchInv'
  <2>1. PICK r : r = Response(v, n)
    BY Zenon
  <2>2. r \in Responses /\ r.val = v /\ r.val \in Outcomes /\ r.val # "canceled"
    BY <1>8, <2>1 DEF Response, Responses, Outcomes
  <2>3. Exact(r, LastOf(c))
    BY <1>8, <2>2, Zenon DEF Exact
  <2> QED BY <1>4, <1>5, <1>8, <2>1, <2>2, <2>3, DoneStep, Zenon
<1>9. 0 + 1 \in Nat /\ 0 \in Nat
  OBVIOUS
<1>10. CASE calls[c].depth = 0
  <2>1. With_(c, [calls[c] EXCEPT !.comp = "done", !.result = Response("depth", 0)])
    <3>1. ~(calls[c].depth > 0)
      BY <1>10
    <3> QED BY <1>10, <3>1, Zenon DEF CheckDirect
  <2>2. "depth" \in {"depth", "member", "notmember"} /\ "depth" \notin {"member", "notmember"}
    OBVIOUS
  <2> QED BY <1>8, <1>9, <2>1, <2>2, Zenon
<1>11. CASE calls[c].depth > 0 /\ LastOf(c) \in graph.direct
  <2>1. ~(calls[c].depth = 0)
    BY <1>6, <1>11
  <2>2. With_(c, [calls[c] EXCEPT !.comp = "done", !.result = Response("member", 0 + 1)])
    BY <1>11, <2>1, Zenon DEF CheckDirect, Done
  <2>3. IsMember(LastOf(c))
    BY <1>2, <1>11, MemberIs, Zenon
  <2>4. "member" \in {"depth", "member", "notmember"}
    OBVIOUS
  <2> QED BY <1>8, <1>9, <2>2, <2>3, <2>4, Zenon
<1>12. CASE calls[c].depth > 0 /\ LastOf(c) \notin graph.direct /\ subs = {}
  <2>1. ~(calls[c].depth = 0)
    BY <1>6, <1>12
  <2>2. With_(c, [calls[c] EXCEPT !.comp = "done", !.result = Response("notmember", 0 + 1)])
    BY <1>3, <1>12, <2>1, Zenon DEF CheckDirect, Done
  <2>3. ~IsMember(LastOf(c))
    BY <1>2, <1>3, <1>12, MemberIs, Zenon
  <2>4. "notmember" \in {"depth", "member", "notmember"} /\ "notmember" # "member"
    OBVIOUS
  <2> QED BY <1>8, <1>9, <2>2, <2>3, <2>4, Zenon
<1>13. CASE calls[c].depth > 0 /\ LastOf(c) \notin graph.direct /\ subs # {}
  <2>1. ~(calls[c].depth = 0)
    BY <1>6, <1>13
  <2>2. PICK f : f = NewCall(calls[c].depth - 1, calls[c].bloom, calls[c].debug)
    BY Zenon
  <2>3. calls' = [d \in DOMAIN calls \cup subs |->
                     IF d \in subs THEN f
                     ELSE IF d = c THEN [calls[c] EXCEPT !.comp = "run"] ELSE calls[d]]
    BY <1>3, <1>13, <2>1, <2>2, Zenon DEF CheckDirect
  <2>4. Subproblems(c, subs, f)
    BY <1>3, <1>4, <1>13, <2>2, <2>3, Zenon DEF Subproblems
  <2> QED BY <1>4, <2>4, SubproblemsStep, Zenon
<1> QED BY <1>7, <1>10, <1>11, <1>12, <1>13, Zenon

\* A client goes away: contexts end, and none that has ended begins again.
LEMMA ClientLeavesStep ==
    ASSUME DispatchInv, NEW q \in Requests, ClientLeaves(q)
    PROVE  DispatchInv'
<1>1. TreeInv /\ FlightInv /\ WaitInv /\ AnswerInv /\ CancelInv
  BY Zenon DEF DispatchInv
<1>2. gone \subseteq gone' /\ UNCHANGED <<graph, calls, flights, checkCache>>
  BY Zenon DEF ClientLeaves
<1>3. TreeInv' /\ WaitInv'
  BY <1>1, <1>2, Zenon DEF TreeInv, WaitInv
<1>4. \A c : CallersOf(c)' = CallersOf(c)
  BY <1>2, Zenon DEF CallersOf
<1>5. FlightInv'
  BY <1>1, <1>2, <1>4, Zenon DEF FlightInv
<1>6. AnswerInv'
  BY <1>1, <1>2, MembersStay, Zenon DEF AnswerInv
<1>7. Evolves
  BY <1>2, Zenon DEF Evolves, CallersOf
<1>8. \A c \in DOMAIN calls : ContextDone(c) => ContextDone(c)'
  BY <1>1, <1>7, ContextStays, Zenon
<1>9. CancelInv'
  BY <1>1, <1>2, <1>4, <1>8, Zenon DEF CancelInv
<1> QED BY <1>3, <1>5, <1>6, <1>9, Zenon DEF DispatchInv

\* What the calls, the flights and the clients are decides all but what the cache holds.
LEMMA CacheOnly ==
    ASSUME DispatchInv, UNCHANGED <<graph, calls, flights, gone>>,
           checkCache' \in [Problems -> Responses],
           \A k \in Problems : checkCache'[k] \in {checkCache[k], Pending}
    PROVE  DispatchInv'
<1>1. TreeInv /\ FlightInv /\ WaitInv /\ AnswerInv /\ CancelInv
  BY Zenon DEF DispatchInv
<1>2. \A c : CallersOf(c)' = CallersOf(c)
  BY Zenon DEF CallersOf
<1>3. TreeInv' /\ WaitInv' /\ FlightInv'
  BY <1>1, <1>2, Zenon DEF TreeInv, WaitInv, FlightInv
<1>4. \A c : ContextDone(c)' <=> ContextDone(c)
  BY <1>2, Zenon DEF ContextDone, Ended
<1>5. CancelInv'
  BY <1>1, <1>2, <1>4, Zenon DEF CancelInv
<1>6. \A k : (IsMember(k)' <=> IsMember(k)) /\ \A resp : Exact(resp, k)' <=> Exact(resp, k)
  BY MembersStay, Zenon
<1>7. ASSUME NEW k \in Problems
      PROVE  /\ Exact(checkCache'[k], k)
             /\ checkCache'[k] # Pending => checkCache'[k].val \in {"member", "notmember"}
  <2>1. Exact(Pending, k)
    BY DEF Exact, Pending, Response
  <2>2. /\ Exact(checkCache[k], k)
        /\ checkCache[k] # Pending => checkCache[k].val \in {"member", "notmember"}
    BY <1>1, <1>7, Zenon DEF AnswerInv
  <2> QED BY <1>7, <2>1, <2>2, Zenon
<1>8. AnswerInv'
  BY <1>1, <1>6, <1>7, Zenon DEF AnswerInv
<1> QED BY <1>3, <1>5, <1>8, Zenon DEF DispatchInv

LEMMA EvictStep ==
    ASSUME DispatchInv, NEW k \in Problems, Evict(k)
    PROVE  DispatchInv'
<1>1. checkCache \in [Problems -> Responses]
  BY Zenon DEF DispatchInv, AnswerInv
<1>2. Pending \in Responses
  BY Zenon DEF Pending, Response, Responses
<1>3. checkCache' = [checkCache EXCEPT ![k] = Pending] /\ UNCHANGED <<graph, calls, flights, gone>>
  BY Zenon DEF Evict
<1>4. checkCache' \in [Problems -> Responses]
  BY <1>1, <1>2, <1>3, Zenon
<1>5. \A j \in Problems : checkCache'[j] \in {checkCache[j], Pending}
  BY <1>1, <1>3
<1> QED BY <1>3, <1>4, <1>5, CacheOnly, Zenon

\* Nothing has been asked yet.
LEMMA DispatchInitInv ==
    ASSUME DispatchInit
    PROVE  DispatchInv
<1>1. /\ graph \in Graphs /\ DOMAIN calls = {} /\ flights = [k \in Problems |-> NoCall]
      /\ checkCache = [k \in Problems |-> Pending]
  BY DEF DispatchInit
<1>2. TreeInv /\ WaitInv /\ CancelInv
  BY <1>1, FS_EmptySet, Zenon DEF TreeInv, WaitInv, CancelInv
<1>3. FlightInv
  BY <1>1, Zenon DEF FlightInv
<1>4. AnswerInv
  <2>1. Pending \in Responses /\ \A k : Exact(Pending, k)
    BY DEF Pending, Response, Responses, Exact
  <2> QED BY <1>1, <2>1, Zenon DEF AnswerInv
<1> QED BY <1>2, <1>3, <1>4, Zenon DEF DispatchInv

\* Every step of the dispatchers keeps the invariant.
LEMMA DispatchStep ==
    ASSUME DispatchInv, [DispatchNext]_dispatchVars
    PROVE  DispatchInv'
<1>1. CASE UNCHANGED dispatchVars
  <2>1. UNCHANGED <<graph, calls, flights, gone, checkCache>>
    BY <1>1, Zenon DEF dispatchVars
  <2>2. checkCache \in [Problems -> Responses]
    BY Zenon DEF DispatchInv, AnswerInv
  <2> QED BY <2>1, <2>2, CacheOnly, Zenon
<1>2. CASE \E q \in Requests : DispatchCheck(q)
  BY <1>2, DispatchCheckStep, Zenon
<1>3. CASE \E q \in Requests : ClientLeaves(q)
  BY <1>3, ClientLeavesStep, Zenon
<1>4. CASE \E k \in Problems : Evict(k)
  BY <1>4, EvictStep, Zenon
<1>5. CASE \E c \in DOMAIN calls : CacheGet(c)
  BY <1>5, CacheGetStep, Zenon
<1>6. CASE \E c \in DOMAIN calls : Singleflight(c)
  BY <1>6, SingleflightStep, Zenon
<1>7. CASE \E c \in DOMAIN calls : WorkReturns(c)
  BY <1>7, WorkReturnsStep, Zenon
<1>8. CASE \E c \in DOMAIN calls : WaitCanceled(c)
  BY <1>8, WaitCanceledStep, Zenon
<1>9. CASE \E c \in DOMAIN calls : CheckDirect(c)
  BY <1>9, CheckDirectStep, Zenon
<1>10. CASE \E c \in DOMAIN calls : Union_(c)
  BY <1>10, UnionStepInv, Zenon
<1>11. CASE \E c \in DOMAIN calls : WorkEnds(c)
  BY <1>11, WorkEndsStep, Zenon
<1> QED BY <1>1, <1>2, <1>3, <1>4, <1>5, <1>6, <1>7, <1>8, <1>9, <1>10, <1>11, Zenon
        DEF DispatchNext

\* Whatever data, requests and depths, in every state that the caching, singleflight and
\* local dispatchers reach, calls, flights and contexts fit together.
THEOREM DispatchInvariant == DispatchSpec => []DispatchInv
BY DispatchInitInv, DispatchStep, PTL DEF DispatchSpec

\* Every answer that is no error, of a call or of the check cache, says whether the
\* subject is a member (DispatchCheck of caching, singleflight and graph, union).
THEOREM DispatchAnswersAreExact == DispatchSpec => []AnswersAreExact
<1>1. DispatchInv => AnswersAreExact
  BY Zenon DEF DispatchInv, AnswerInv, AnswersAreExact
<1> QED BY <1>1, DispatchInvariant, PTL

\* Only a call whose own context has ended is answered with a cancellation
\* (singleflight.go, and the contexts of union).
THEOREM CancellationIsLocal == DispatchSpec => []CancellationStaysLocal
<1>1. DispatchInv => CancellationStaysLocal
  BY Zenon DEF DispatchInv, CancelInv, CancellationStaysLocal
<1> QED BY <1>1, DispatchInvariant, PTL

\* A non-empty set of naturals has a least element.
LEMMA LeastNatural ==
    ASSUME NEW S \in SUBSET Nat, S # {}
    PROVE  \E m \in S : \A x \in S : ~(x < m)
<1> DEFINE R == {p \in Nat \X Nat : p[1] < p[2]}
<1>1. IsWellFoundedOn(R, Nat)
  BY NatLessThanWellFounded, Zenon DEF OpToRel
<1>2. PICK m \in S : \A x \in S : ~(<<x, m>> \in R)
  <2> HIDE DEF R
  <2> QED BY <1>1, WFMin, Zenon
<1> QED BY <1>2, Zenon

\* Where the data has no cycle, no problems have each a subproblem among them.
LEMMA NoDataCircle ==
    ASSUME graph \in Graphs, Acyclic, NEW K \in SUBSET Problems, K # {},
           \A k \in K : \E s \in graph.sub[k] : s \in K
    PROVE  FALSE
<1>1. \A k \in Problems : IsFiniteSet(Reach(k)) /\ Cardinality(Reach(k)) \in Nat
  BY ReachIs, DispatchAssumption, FS_Subset, FS_CardinalityType, Zenon
<1>2. PICK C : C = {Cardinality(Reach(k)) : k \in K}
  BY Zenon
<1>3. C \in SUBSET Nat /\ C # {}
  BY <1>1, <1>2, Zenon
<1>4. PICK m \in C : \A x \in C : ~(x < m)
  BY <1>3, LeastNatural, Zenon
<1>5. PICK k \in K : m = Cardinality(Reach(k))
  BY <1>2, <1>4, Zenon
<1>6. PICK s \in graph.sub[k] : s \in K
  BY <1>5, Zenon
<1>7. Reach(s) \in SUBSET Reach(k) /\ k \in Reach(k) /\ k \notin Reach(s)
  <2>1. k \in Problems
    BY <1>5
  <2>2. k \in Reach(k) /\ Reach(s) \subseteq Reach(k)
    BY <1>6, <2>1, ReachIs, Zenon
  <2> QED BY <1>6, <2>1, <2>2, Zenon DEF Acyclic
<1>8. /\ Cardinality(Reach(s)) <= Cardinality(Reach(k))
      /\ Cardinality(Reach(s)) # Cardinality(Reach(k))
  BY <1>1, <1>5, <1>7, FS_Subset, Zenon
<1>9. ~(Cardinality(Reach(s)) < Cardinality(Reach(k)))
  BY <1>2, <1>4, <1>5, <1>6, Zenon
<1>10. Cardinality(Reach(s)) \in Nat /\ Cardinality(Reach(k)) \in Nat
  BY <1>1, <1>5, <1>6
<1> QED BY <1>8, <1>9, <1>10

\* A call waits only for calls of subproblems of its own problem.
LEMMA WaitsForSubproblems ==
    ASSUME TreeInv, WaitInv, NEW c \in DOMAIN calls, NEW d \in WaitsFor(c)
    PROVE  LastOf(d) \in graph.sub[LastOf(c)]
<1>1. PICK o : o = calls[c].on
  BY Zenon
<1>2. calls[c].pc = "wait"
  BY Zenon DEF WaitsFor
<1>3. o \in DOMAIN calls /\ LastOf(o) = LastOf(c)
  BY <1>1, <1>2, Zenon DEF WaitInv
<1>4. d \in DOMAIN calls /\ \E s \in Problems : d = Append(o, s)
  BY <1>1, Zenon DEF WaitsFor
<1>5. PICK s \in Problems : d = Append(o, s)
  BY <1>4, Zenon
<1>6. o \in CallNames /\ Len(o) >= 2 /\ Len(o) \in Nat
  BY <1>3 DEF TreeInv, CallNames
<1>7. Len(d) = Len(o) + 1 /\ d[Len(o)] = LastOf(o)
  BY <1>5, <1>6, ChildIs, Zenon
<1>8. Len(d) > 2 /\ Len(d) - 1 = Len(o)
  BY <1>6, <1>7
<1>9. LastOf(d) \in graph.sub[d[Len(d) - 1]]
  BY <1>4, <1>8, Zenon DEF TreeInv
<1> QED BY <1>3, <1>7, <1>8, <1>9, Zenon

\* No call waits for the flight of a call it was made for, and without a cycle in the
\* data no calls wait for each other in a circle (the bloom filter of singleflight.go).
THEOREM CallsDoNotDeadlock == DispatchSpec => []NoRecursiveCallDeadlock
<1>1. ASSUME DispatchInv, Acyclic, NEW S \in SUBSET DOMAIN calls, InCircle(S)
      PROVE  FALSE
  <2>1. TreeInv /\ WaitInv /\ graph \in Graphs
    BY <1>1, Zenon DEF DispatchInv, TreeInv
  <2>2. PICK K : K = {LastOf(c) : c \in S}
    BY Zenon
  <2>3. K \in SUBSET Problems /\ K # {}
    BY <1>1, <2>1, <2>2, Zenon DEF TreeInv, InCircle
  <2>4. ASSUME NEW k \in K PROVE \E s \in graph.sub[k] : s \in K
    <3>1. PICK c \in S : k = LastOf(c)
      BY <2>2, <2>4, Zenon
    <3>2. PICK d \in S : d \in WaitsFor(c)
      BY <1>1, <3>1, Zenon DEF InCircle
    <3>3. LastOf(d) \in graph.sub[LastOf(c)]
      BY <1>1, <2>1, <3>1, <3>2, WaitsForSubproblems, Zenon
    <3> QED BY <2>2, <3>1, <3>2, <3>3, Zenon
  <2> QED BY <1>1, <2>1, <2>3, <2>4, NoDataCircle, Zenon
<1>2. DispatchInv => NoRecursiveCallDeadlock
  <2>1. ASSUME DispatchInv PROVE \A c \in DOMAIN calls :
                                     calls[c].pc = "wait" => calls[c].on \notin Above(c)
    BY <2>1, Zenon DEF DispatchInv, WaitInv
  <2> QED BY <1>1, <2>1, Zenon DEF NoRecursiveCallDeadlock
<1> QED BY <1>2, DispatchInvariant, PTL
=============================================================================
