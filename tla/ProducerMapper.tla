--------------------------- MODULE ProducerMapper ---------------------------
(***************************************************************************)
(* CursoredProducerMapperIterator of internal/cursorediterator/blocks.go,  *)
(* for a concurrency above one: a producer task puts chunks on an ordered  *)
(* channel and schedules a mapper task for each on the same TaskRunner;    *)
(* the consumer yields the mapped chunks in the producer's order.          *)
(*                                                                         *)
(* A chunk is its number; items and cursors are left out.  The context of  *)
(* the iterator and of the TaskRunner are one: a task returns an error     *)
(* only when the iterator's context is done.                               *)
(***************************************************************************)
EXTENDS TaskRunner

CONSTANTS
    Producer,       \* the producer's task
    Chunks,         \* numbers of chunks, 1 .. n
    Scripts,        \* what the producer may yield: sequences of Yields
    Buffer          \* producerChunksBufferSize

Yields == {"chunk", "hold", "error"}

ASSUME ProducerMapperAssumption ==
    /\ Chunks \subseteq (Nat \ {0}) \cap (Tasks \ ByCaller)
    /\ Producer \in ByCaller \cap Failing /\ Buffer \in Nat \ {0}
    /\ \A s \in Scripts : s \in Seq(Yields) /\ 1 .. Len(s) \subseteq Chunks

VARIABLES
    script,             \* what the producer has left to yield
    prod, n, preceding, \* where producerFunc is, chunks so far, the preceding one
    channel,            \* orderedProducerChunks
    mapped, failed,     \* chunks with a result on mappedResultChan, and with an error
    yieldedChan,        \* chunks with a value on wereMappingsYieldedChan
    cons, cur,          \* where the consumer is, and its chunk
    yielded, outcome    \* chunks given to the caller, and how the iteration ended

prodVars == <<script, prod, n, preceding>>
consVars == <<cons, cur, yielded, outcome>>
pmVars == <<vars, prodVars, channel, mapped, failed, yieldedChan, consVars>>

PMInit ==
    /\ Init
    /\ script \in Scripts /\ prod = "next" /\ n = 0 /\ preceding = 0
    /\ channel = <<>> /\ mapped = {} /\ failed = {} /\ yieldedChan = {}
    /\ cons = "start" /\ cur = 0 /\ yielded = <<>> /\ outcome = "none"

(***************************************************************************)
(* producerFunc, run by runner r                                           *)
(***************************************************************************)
Producing(r, at) ==
    /\ pc[r] = "run" /\ task[r] = Producer /\ r \notin spawning
    /\ prod = at

\* The next value of the producer's iterator.  A hold without a chunk before it
\* is an error.
ProducerNext(r) ==
    /\ Producing(r, "next")
    /\ IF script = <<>>
       THEN prod' = "end" /\ UNCHANGED <<script, n, preceding>>
       ELSE /\ script' = Tail(script)
            /\ CASE Head(script) = "chunk" -> /\ prod' = "send"
                                              /\ n' = n + 1 /\ preceding' = n + 1
                 [] Head(script) = "hold" ->
                       /\ prod' = IF preceding = 0 THEN "error" ELSE "hold"
                       /\ UNCHANGED <<n, preceding>>
                 [] OTHER -> prod' = "error" /\ UNCHANGED <<n, preceding>>
    /\ UNCHANGED <<vars, channel, mapped, failed, yieldedChan, consVars>>

\* Mutant: the send of a chunk does not look at the context.
ProducerCanceled_NotInSend(r) ==
    /\ \E at \in {"hold", "end"} : Producing(r, at)
    /\ canceled
    /\ prod' = "returned"
    /\ TaskReturns(r, FALSE)
    /\ UNCHANGED <<script, n, preceding, channel, mapped, failed, yieldedChan, consVars>>

\* Leaving producerFunc with ctx.Err().
ProducerCanceled(r) ==
    /\ \E at \in {"send", "hold", "end"} : Producing(r, at)
    /\ canceled
    /\ prod' = "returned"
    /\ TaskReturns(r, FALSE)
    /\ UNCHANGED <<script, n, preceding, channel, mapped, failed, yieldedChan, consVars>>

\* A send on orderedProducerChunks.
Put(kind, chunk) ==
    /\ Len(channel) < Buffer
    /\ channel' = Append(channel, [kind |-> kind, chunk |-> chunk])

ProducerSend(r) ==
    /\ Producing(r, "send")
    /\ Put("chunk", n)
    /\ prod' = "schedule"
    /\ UNCHANGED <<vars, script, n, preceding, mapped, failed, yieldedChan, consVars>>

ProducerSchedule(r) ==
    /\ Producing(r, "schedule")
    /\ addTask(r, n)
    /\ prod' = "next"
    /\ UNCHANGED <<script, n, preceding, channel, mapped, failed, yieldedChan, consVars>>

ProducerHold(r) ==
    /\ Producing(r, "hold")
    /\ preceding \in yieldedChan
    /\ yieldedChan' = yieldedChan \ {preceding}
    /\ preceding' = 0 /\ prod' = "next"
    /\ UNCHANGED <<vars, script, n, channel, mapped, failed, consVars>>

\* Mutant: the end of the chunks is not signalled.
ProducerEnd_NoSignal(r) ==
    /\ Producing(r, "end")
    /\ prod' = "returned"
    /\ TaskReturns(r, TRUE)
    /\ UNCHANGED <<script, n, preceding, channel, mapped, failed, yieldedChan, consVars>>

ProducerEnd(r) ==
    /\ Producing(r, "end")
    /\ Put("completed", 0)
    /\ prod' = "returned"
    /\ TaskReturns(r, TRUE)
    /\ UNCHANGED <<script, n, preceding, mapped, failed, yieldedChan, consVars>>

\* The error is sent without a look at the context.
ProducerError(r) ==
    /\ Producing(r, "error")
    /\ Put("error", 0)
    /\ prod' = "returned"
    /\ TaskReturns(r, TRUE)
    /\ UNCHANGED <<script, n, preceding, mapped, failed, yieldedChan, consVars>>

\* mapperTaskFunc: the result, or the error, goes to the chunk's own channel.
Mapper(r) ==
    /\ pc[r] = "run" /\ task[r] \in Chunks
    /\ mapped' = mapped \cup {task[r]}
    /\ failed' \in {failed, failed \cup {task[r]}}
    /\ TaskReturns(r, TRUE)
    /\ UNCHANGED <<prodVars, channel, yieldedChan, consVars>>

(***************************************************************************)
(* The iterator's function                                                 *)
(***************************************************************************)
ConsumerStart ==
    /\ cons = "start"
    /\ \/ addTask(Caller, Producer) /\ cons' = cons
       \/ spawnIfAvailable(Caller) /\ cons' = "receive"
    /\ UNCHANGED <<prodVars, channel, mapped, failed, yieldedChan, cur, yielded, outcome>>

\* The function returns; its deferred cancel ends the context.
Stop(how) ==
    /\ cons' = "returned" /\ outcome' = how
    /\ canceled' = TRUE
    /\ UNCHANGED <<tasks, wg, err, sem, runnerVars, spawning, unscheduled, finished,
                   caller, result, prodVars, mapped, failed, yieldedChan, cur, yielded>>

ConsumerCanceled ==
    /\ cons \in {"receive", "map"} /\ canceled
    /\ Stop("canceled") /\ UNCHANGED channel

\* Mutant: the latest chunk first.
Receive_Latest ==
    /\ cons = "receive" /\ channel # <<>>
    /\ LET last == channel[Len(channel)]
       IN  /\ channel' = SubSeq(channel, 1, Len(channel) - 1)
           /\ IF last.kind = "chunk"
              THEN /\ cur' = last.chunk /\ cons' = "map"
                   /\ UNCHANGED <<vars, prodVars, mapped, failed, yieldedChan,
                                  yielded, outcome>>
              ELSE Stop(last.kind)

Receive ==
    /\ cons = "receive" /\ channel # <<>>
    /\ channel' = Tail(channel)
    /\ IF Head(channel).kind = "chunk"
       THEN /\ cur' = Head(channel).chunk /\ cons' = "map"
            /\ UNCHANGED <<vars, prodVars, mapped, failed, yieldedChan, yielded, outcome>>
       ELSE Stop(Head(channel).kind)

\* The mapped chunk is yielded; its caller may want no more.
YieldMapped ==
    /\ cons = "map" /\ cur \in mapped
    /\ UNCHANGED channel
    /\ \/ cur \in failed /\ Stop("error")
       \/ cur \notin failed /\ Stop("enough")
       \/ /\ cur \notin failed
          /\ yielded' = Append(yielded, cur)
          /\ yieldedChan' = yieldedChan \cup {cur}
          /\ cons' = "receive"
          /\ UNCHANGED <<vars, prodVars, mapped, failed, cur, outcome>>

\* Steps of the TaskRunner itself.
Runner(r) ==
    /\ \/ RunnerLoop(r) \/ selectTask(r, "release") \/ ReleaseSlot(r) \/ TaskDone(r)
       \/ spawnIfAvailable(r)
    /\ UNCHANGED <<prodVars, channel, mapped, failed, yieldedChan, consVars>>

Work(r) ==
    \/ ProducerNext(r) \/ ProducerCanceled(r) \/ ProducerSend(r) \/ ProducerSchedule(r)
    \/ ProducerHold(r) \/ ProducerEnd(r) \/ ProducerError(r) \/ Mapper(r) \/ Runner(r)

Consume == ConsumerStart \/ ConsumerCanceled \/ Receive \/ YieldMapped

ContextCanceled ==
    /\ ParentCancels
    /\ UNCHANGED <<prodVars, channel, mapped, failed, yieldedChan, consVars>>

AllGone ==
    /\ cons = "returned" /\ \A r \in Runners : pc[r] = "off"
    /\ UNCHANGED pmVars

PMNext ==
    \/ \E r \in Runners : Work(r)
    \/ Consume \/ ContextCanceled \/ AllGone

\* The goroutines run, and the caller keeps asking for the next item.
PMSpec ==
    /\ PMInit /\ [][PMNext]_pmVars
    /\ \A r \in Runners : WF_pmVars(Work(r))
    /\ WF_pmVars(Consume)

(***************************************************************************)
(* Properties                                                              *)
(***************************************************************************)

\* Type invariant of the producer, the channels and the consumer.
PMTypeOK ==
    /\ TypeOK
    /\ prod \in {"next", "send", "schedule", "hold", "end", "error", "returned"}
    /\ n \in Chunks \cup {0} /\ preceding \in Chunks \cup {0}
    /\ channel \in Seq([kind : {"chunk", "completed", "error"}, chunk : Chunks \cup {0}])
    /\ Len(channel) <= Buffer
    /\ mapped \in SUBSET Chunks /\ failed \in SUBSET mapped
    /\ yieldedChan \in SUBSET mapped
    /\ cons \in {"start", "receive", "map", "returned"} /\ cur \in Chunks \cup {0}
    /\ yielded \in Seq(Chunks)
    /\ outcome \in {"none", "completed", "error", "canceled", "enough"}

\* Chunks are yielded in the order the producer made them, none twice and none
\* left out, however the mapper tasks are interleaved; and an iteration that ends
\* by itself has yielded every chunk.
YieldsInOrder ==
    /\ yielded = [i \in 1 .. Len(yielded) |-> i]
    /\ outcome = "completed" => Len(yielded) = n /\ script = <<>>

\* Starved: a mapper task is queued and nobody is left to take it but the runner of
\* the producer, which waits for a place on the channel or for the hold.
ProducerWaits ==
    \/ prod \in {"send", "end", "error"} /\ Len(channel) = Buffer
    \/ prod = "hold" /\ preceding \notin yieldedChan
Starved ==
    /\ tasks # <<>> /\ ProducerWaits
    /\ \A r \in Runners : pc[r] = "off" \/ Producing(r, prod)

\* The iteration ends for a caller that keeps asking: with the chunks, with an
\* error, or with the context, however often the producer finds the channel full
\* and wherever it holds.  The one way not to end is to stay starved, by a task that
\* was scheduled after the last idle runner had looked at the queue and before it
\* gave back its slot.
IterationEnds == []<>~Starved => ((cons = "start") ~> (cons = "returned"))

\* No goroutine is left behind by an iteration that has ended, although the producer
\* may have been waiting for its consumer: all but the send of its error look at the
\* context as well.
GoroutinesEnd ==
    (cons = "returned") ~>
        \A r \in Runners : pc[r] = "off" \/ (Producing(r, "error") /\ Len(channel) = Buffer)

(***************************************************************************)
(* The inductive invariant from which YieldsInOrder follows.               *)
(***************************************************************************)

\* Chunks put on the channel, and chunks taken from it.
SentChunks == IF prod = "send" THEN n - 1 ELSE n
TakenChunks == Len(yielded) + IF cons = "map" THEN 1 ELSE 0

\* The channel holds what was sent and not yet taken, in its order; only the last
\* thing the producer sends is no chunk, and after it the producer makes no more.
ChannelInv ==
    /\ \A i \in 1 .. Len(channel) :
           IF channel[i].kind = "chunk" THEN channel[i].chunk = TakenChunks + i
           ELSE /\ i = Len(channel) /\ prod = "returned"
                /\ channel[i].kind = "completed" => TakenChunks + i = n + 1 /\ script = <<>>
    /\ prod # "returned" => TakenChunks + Len(channel) = SentChunks

\* What was yielded and is at hand is in order; an iteration completes with the end of
\* the chunks, when the producer has returned.
OrderInv ==
    /\ n \in Nat /\ script \in Seq(Yields)
    /\ prod = "end" => script = <<>>
    /\ channel \in Seq([kind : {"chunk", "completed", "error"}, chunk : Nat])
    /\ yielded \in Seq(Nat) /\ YieldsInOrder
    /\ cons = "map" => cur = Len(yielded) + 1
    /\ cons # "returned" => outcome = "none" /\ ChannelInv
    /\ outcome = "completed" => prod = "returned"
=============================================================================
