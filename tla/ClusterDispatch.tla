-------------------------- MODULE ClusterDispatch --------------------------
(***************************************************************************)
(* One request the cluster dispatcher hedges between the primary cluster   *)
(* and its secondary dispatchers: dispatchSyncRequest for a unary request, *)
(* dispatchStreamingRequest for a stream.  The dispatchers run in parallel,*)
(* the primary after a delay, and the first that has something to say      *)
(* answers.  Each dispatcher would stream Total results.                   *)
(***************************************************************************)
EXTENDS Naturals, Sequences

CONSTANTS
    Secondaries,    \* the secondary dispatchers the dispatch expression may name
    Primary,
    Total,          \* length of the complete stream
    Nobody          \* noDispatcherResults

ASSUME ClusterAssumption ==
    Total \in Nat /\ Primary \notin Secondaries /\ Nobody \notin Secondaries \cup {Primary}

VARIABLES
    form,           \* "sync" or "stream"
    running,        \* the dispatchers that take part
    pc,             \* of each dispatcher
    received,       \* results each stream client has received
    winner,         \* returnedResultsDispatcherName
    canceled,       \* dispatchers whose own context the winner cancelled
    errors,         \* dispatchers with an entry of errorsByDispatcherName
    answers,        \* sync: the dispatchers whose result is on a channel
    published,      \* what went to the caller's stream, in order
    timedOut,       \* dispatchOverallTimeout has passed
    left,           \* the caller's own context has ended
    returned        \* "no", "ok", "error" or "timeout"

clusterVars == <<form, running, pc, received, winner, canceled, errors, answers,
                 published, timedOut, left, returned>>

Dispatchers == Secondaries \cup {Primary}
Request == <<form, running>>

\* An unlocked cursor runs the primary with the secondaries the expression names; a
\* cursor locked to a secondary runs that one alone, and to an unknown one nobody; else
\* the primary runs alone.
ClusterInit ==
    /\ form \in {"sync", "stream"}
    /\ running \in {{Primary} \cup s : s \in SUBSET Secondaries}
                       \cup (IF form = "stream" THEN {{}} \cup {{s} : s \in Secondaries} ELSE {})
    /\ pc = [d \in Dispatchers |-> IF d \in running THEN "asleep" ELSE "done"]
    /\ received = [d \in Dispatchers |-> 0]
    /\ winner = Nobody /\ canceled = {} /\ errors = {} /\ answers = {}
    /\ published = <<>> /\ timedOut = FALSE /\ left = FALSE /\ returned = "no"

ContextEnded == timedOut \/ left \/ returned # "no"
HandlerDone(d) == ContextEnded \/ d \in canceled

\* The primary alone is invoked directly, without a hedge.
Direct == running = {Primary}

Goto(d, label) == pc' = [pc EXCEPT ![d] = label]

OverallTimeout ==
    /\ ~timedOut /\ returned = "no" /\ timedOut' = TRUE
    /\ UNCHANGED <<Request, pc, received, winner, canceled, errors, answers, published,
                   left, returned>>

CallerLeaves ==
    /\ ~left /\ returned = "no" /\ left' = TRUE
    /\ UNCHANGED <<Request, pc, received, winner, canceled, errors, answers, published,
                   timedOut, returned>>

\* The hedging delay of the primary ends, by time or because a secondary failed; a
\* secondary starts at once.  A context that has ended is noticed first.
Wake(d) ==
    /\ pc[d] = "asleep"
    /\ Goto(d, IF HandlerDone(d) /\ ~Direct THEN "done" ELSE "call")
    /\ UNCHANGED <<Request, received, winner, canceled, errors, answers, published,
                   timedOut, left, returned>>

(***************************************************************************)
(* dispatchSyncRequest                                                     *)
(***************************************************************************)

\* The dispatcher answers or fails; the failure of a secondary is dropped.
SyncCall(d) ==
    /\ form = "sync" /\ pc[d] = "call"
    /\ \E ok \in BOOLEAN :
           /\ answers' = IF ok THEN answers \cup {d} ELSE answers
           /\ errors' = IF ok THEN errors ELSE errors \cup {d}
    /\ Goto(d, "done")
    /\ UNCHANGED <<Request, received, winner, canceled, published, timedOut, left, returned>>

SyncError == Primary \in errors

\* The select at the end: the first of the timeout, the primary and the secondaries.
SyncReturn ==
    /\ form = "sync" /\ returned = "no"
    /\ \/ ~Direct /\ (timedOut \/ left) /\ returned' = "timeout" /\ UNCHANGED winner
       \/ \E d \in answers : returned' = "ok" /\ winner' = d
       \/ SyncError /\ returned' = "error" /\ UNCHANGED winner
    /\ UNCHANGED <<Request, pc, received, canceled, errors, answers, published,
                   timedOut, left>>

(***************************************************************************)
(* dispatchStreamingRequest                                                *)
(***************************************************************************)
CreateClient(d) ==
    /\ form = "stream" /\ pc[d] = "call"
    /\ \/ Goto(d, "loop") /\ UNCHANGED errors
       \/ Goto(d, "done") /\ errors' = errors \cup {d}
    /\ UNCHANGED <<Request, received, winner, canceled, answers, published, timedOut, left,
                   returned>>

\* Mutant: a dispatcher that is not the first goes on.
TakesOver_Always(d) == TRUE

TakesOver(d) == winner = Nobody \/ winner = d

Claim(d) ==
    /\ winner' = d
    /\ canceled' = IF winner = Nobody THEN running \ {d} ELSE canceled

\* The head of the results loop: a context that has ended ends the handler, with its
\* error in publishClient, which serves the primary alone.
LoopCanceled(d) ==
    /\ pc[d] = "loop" /\ HandlerDone(d) /\ Goto(d, "done")
    /\ errors' = IF Direct THEN errors \cup {d} ELSE errors
    /\ UNCHANGED <<Request, received, winner, canceled, answers, published, timedOut, left,
                   returned>>

LoopGoesOn(d) ==
    /\ pc[d] = "loop" /\ ~HandlerDone(d) /\ Goto(d, "recv")
    /\ UNCHANGED <<Request, received, winner, canceled, errors, answers, published,
                   timedOut, left, returned>>

\* A result, or the end of the stream, from the remote; the first to see one claims
\* the right to answer and cancels the others.
RecvResult(d) ==
    /\ pc[d] = "recv"
    /\ IF TakesOver(d)
       THEN /\ Claim(d)
            /\ IF received[d] < Total
               THEN /\ Goto(d, "publish")
                    /\ received' = [received EXCEPT ![d] = @ + 1]
               ELSE Goto(d, "done") /\ UNCHANGED received
       ELSE Goto(d, "done") /\ UNCHANGED <<winner, canceled, received>>
    /\ UNCHANGED <<Request, errors, answers, published, timedOut, left, returned>>

\* The remote fails, or the context ends while the handler waits for it.
RecvError(d) ==
    /\ pc[d] = "recv"
    /\ Goto(d, "done") /\ errors' = errors \cup {d}
    /\ UNCHANGED <<Request, received, winner, canceled, answers, published, timedOut, left,
                   returned>>

Publish(d) ==
    /\ pc[d] = "publish"
    /\ \/ /\ Goto(d, "loop") /\ UNCHANGED errors
          /\ published' = Append(published, <<d, received[d]>>)
       \/ /\ Goto(d, "done") /\ errors' = errors \cup {d}
          /\ UNCHANGED published
    /\ UNCHANGED <<Request, received, winner, canceled, answers, timedOut, left, returned>>

\* Mutant: an error of any dispatcher fails the request.
StreamOutcome_AnyError ==
    IF winner # Nobody /\ errors = {} THEN "ok" ELSE "error"

StreamOutcome == IF winner # Nobody /\ winner \notin errors THEN "ok" ELSE "error"

\* After wg.Wait.
StreamReturn ==
    /\ form = "stream" /\ returned = "no" /\ \A d \in running : pc[d] = "done"
    /\ returned' = StreamOutcome
    /\ UNCHANGED <<Request, pc, received, winner, canceled, errors, answers, published,
                   timedOut, left>>

ClusterNext ==
    \/ OverallTimeout
    \/ CallerLeaves
    \/ \E d \in Dispatchers : Wake(d)
    \/ \E d \in Dispatchers : SyncCall(d)
    \/ SyncReturn
    \/ \E d \in Dispatchers : CreateClient(d)
    \/ \E d \in Dispatchers : LoopCanceled(d)
    \/ \E d \in Dispatchers : LoopGoesOn(d)
    \/ \E d \in Dispatchers : RecvResult(d)
    \/ \E d \in Dispatchers : RecvError(d)
    \/ \E d \in Dispatchers : Publish(d)
    \/ StreamReturn

ClusterSpec == ClusterInit /\ [][ClusterNext]_clusterVars

(***************************************************************************)
(* Properties                                                              *)
(***************************************************************************)

\* The caller's stream is the stream of one dispatcher, from its first result on and
\* without a gap, however the dispatchers race for the first result, fail and are
\* cancelled; and if it ends well while there is time it is complete.
OneStreamAnswers ==
    /\ \A i \in 1 .. Len(published) : published[i] = <<winner, i>>
    /\ form = "stream" /\ returned = "ok" /\ ~timedOut /\ ~left => Len(published) = Total

\* Nobody fails a hedged request but the dispatcher it depends on.  An error with the
\* time not over and the caller still there is, for a unary request, the primary's own:
\* no failure of a secondary is ever returned, but the primary's is as soon as it is
\* seen, whatever the secondaries would still answer.  For a stream it is the error of
\* the dispatcher that had begun to answer, or each one that ran had failed.
ErrorsAreEarned ==
    returned = "error" /\ ~timedOut /\ ~left =>
        IF form = "sync" THEN Primary \in errors
        ELSE winner \in errors \/ (winner = Nobody /\ running \subseteq errors)

(***************************************************************************)
(* The inductive invariant from which both follow.                         *)
(***************************************************************************)
ClusterTypeOK ==
    /\ form \in {"sync", "stream"} /\ running \subseteq Dispatchers
    /\ pc \in [Dispatchers -> {"asleep", "call", "loop", "recv", "publish", "done"}]
    /\ received \in [Dispatchers -> 0 .. Total]
    /\ winner \in Dispatchers \cup {Nobody} /\ answers \subseteq Dispatchers
    /\ published \in Seq(Dispatchers \X Nat)
    /\ returned \in {"no", "ok", "error", "timeout"}

\* Only dispatchers that take part run, those of a stream in the results loop.
PcInv ==
    \A d \in Dispatchers :
        /\ pc[d] # "done" => d \in running
        /\ pc[d] \in {"loop", "recv", "publish"} => form = "stream"
        /\ form = "stream" /\ winner = d => d \in running /\ pc[d] \notin {"asleep", "call"}
        /\ form = "stream" /\ returned # "no" => pc[d] = "done"

\* The winner alone has results, and has published them but for the one at hand.
ResultsInv ==
    /\ \A d \in Dispatchers : received[d] # 0 => winner = d /\ form = "stream"
    /\ \A d \in Dispatchers : pc[d] = "publish" => winner = d /\ received[d] = Len(published) + 1
    /\ \A d \in Dispatchers : winner = d /\ pc[d] \in {"loop", "recv"} => received[d] = Len(published)
    /\ published = <<>> \/ (winner # Nobody /\ form = "stream")
    /\ \A i \in 1 .. Len(published) : published[i] = <<winner, i>>

\* The winner is not cancelled; one that ends in time and without an error has
\* published its stream, and while there is no winner only errors end a dispatcher.
EndsInv ==
    /\ winner \notin canceled /\ (winner = Nobody \/ form = "sync" => canceled = {})
    /\ form = "stream" /\ ~timedOut /\ ~left =>
          \A d \in running : pc[d] = "done" /\ d \notin errors =>
              /\ winner # Nobody
              /\ winner = d => Len(published) = Total

ReturnInv ==
    /\ returned = "error" /\ form = "sync" => Primary \in errors
    /\ form = "stream" => returned \in {"no", StreamOutcome}

ClusterInv == ClusterTypeOK /\ PcInv /\ ResultsInv /\ EndsInv /\ ReturnInv
=============================================================================
