----------------------------- MODULE TaskRunner -----------------------------
(***************************************************************************)
(* internal/taskrunner/taskrunner.go: tasks run by at most Limit           *)
(* goroutines, scheduled by the caller and by the tasks themselves.        *)
(*                                                                         *)
(* One step is what happens under the lock, or one channel operation.      *)
(* What a task computes is left out: it schedules further tasks and        *)
(* returns, with an error or without.                                      *)
(***************************************************************************)
EXTENDS Naturals, Sequences, FiniteSets

CONSTANTS
    Tasks,          \* the tasks ever scheduled
    ByCaller,       \* those the caller may schedule; the others are scheduled by tasks
    Caller,         \* the goroutine that schedules and then waits
    NoTask,
    Runners,        \* ids of runner goroutines; an id is used again
    Limit,          \* concurrencyLimit
    Failing,        \* tasks that may return an error
    Cancellable     \* whether the parent's context may be cancelled

ASSUME TaskRunnerAssumption ==
    /\ ByCaller \subseteq Tasks /\ Failing \subseteq Tasks
    /\ Limit \in Nat \ {0} /\ IsFiniteSet(Runners)
    /\ Caller \notin Runners /\ NoTask \notin Tasks /\ Cancellable \in BOOLEAN

VARIABLES
    tasks, wg, err,     \* of the TaskRunner; err is "nil", "task" or "canceled"
    canceled,           \* its context is done
    sem,                \* how many slots of the channel are taken
    pc, task,           \* of each runner goroutine, and the task it runs
    spawning,           \* goroutines between addTask and spawnIfAvailable
    unscheduled,        \* tasks not yet scheduled
    finished,           \* tasks that returned without an error
    caller, result      \* where the caller is, and what Wait returned

runnerVars == <<pc, task>>
vars == <<tasks, wg, err, canceled, sem, runnerVars, spawning, unscheduled,
          finished, caller, result>>

Init ==
    /\ tasks = <<>> /\ wg = 0 /\ err = "nil" /\ canceled = FALSE /\ sem = 0
    /\ pc = [r \in Runners |-> "off"]
    /\ task = [r \in Runners |-> NoTask]
    /\ spawning = {} /\ unscheduled = Tasks /\ finished = {}
    /\ caller = "scheduling" /\ result = "none"

(***************************************************************************)
(* Schedule: addTask, then spawnIfAvailable.                               *)
(***************************************************************************)
MaySchedule(p, t) ==
    /\ t \in unscheduled /\ p \notin spawning
    /\ IF p = Caller THEN caller = "scheduling" /\ t \in ByCaller
                     ELSE pc[p] = "run" /\ t \notin ByCaller

addTask(p, t) ==
    /\ MaySchedule(p, t)
    /\ unscheduled' = unscheduled \ {t}
    /\ IF err # "nil"
       THEN UNCHANGED <<tasks, wg, spawning>>
       ELSE /\ wg' = wg + 1
            /\ tasks' = Append(tasks, t)
            /\ spawning' = spawning \cup {p}
    /\ UNCHANGED <<err, canceled, sem, runnerVars, finished, caller, result>>

\* go tr.runner(), when the channel has room.
StartRunner ==
    /\ sem < Limit
    /\ sem' = sem + 1
    /\ \E r \in Runners : /\ pc[r] = "off"
                          /\ pc' = [pc EXCEPT ![r] = "loop"]

\* The select takes its default only when the channel is full and the context is
\* not done.
spawnIfAvailable(p) ==
    /\ p \in spawning
    /\ spawning' = spawning \ {p}
    /\ \/ StartRunner
       \/ (sem = Limit \/ canceled) /\ UNCHANGED <<sem, pc>>
    /\ UNCHANGED <<tasks, wg, err, canceled, task, unscheduled, finished, caller,
                   result>>

(***************************************************************************)
(* runner                                                                  *)
(***************************************************************************)
\* Mutant: the tasks that are dropped are not counted down.
emptyForCancel_NoDone ==
    /\ err' = IF err = "nil" THEN "canceled" ELSE err
    /\ tasks' = <<>> /\ UNCHANGED wg

\* Mutant: the cancellation is not recorded.
emptyForCancel_NoError ==
    /\ tasks' = <<>> /\ wg' = wg - Len(tasks) /\ UNCHANGED err

emptyForCancel ==
    /\ err' = IF err = "nil" THEN "canceled" ELSE err
    /\ tasks' = <<>>
    /\ wg' = wg - Len(tasks)

\* The select at the top of the loop ...
RunnerLoop(r) ==
    /\ pc[r] = "loop"
    /\ IF canceled
       THEN emptyForCancel /\ pc' = [pc EXCEPT ![r] = "off"]
       ELSE pc' = [pc EXCEPT ![r] = "select"] /\ UNCHANGED <<tasks, wg, err>>
    /\ UNCHANGED <<canceled, sem, task, spawning, unscheduled, finished, caller, result>>

\* ... selectTask ...
selectTask(r, ifNone) ==
    /\ pc[r] = "select"
    /\ IF tasks = <<>>
       THEN /\ pc' = [pc EXCEPT ![r] = ifNone]
            /\ UNCHANGED <<tasks, task>>
       ELSE /\ pc' = [pc EXCEPT ![r] = "run"]
            /\ task' = [task EXCEPT ![r] = Head(tasks)]
            /\ tasks' = Tail(tasks)
    /\ UNCHANGED <<wg, err, canceled, sem, spawning, unscheduled, finished, caller,
                   result>>

\* ... <-tr.sem, when there was none ...
ReleaseSlot(r) ==
    /\ pc[r] = "release"
    /\ sem' = sem - 1
    /\ pc' = [pc EXCEPT ![r] = "off"]
    /\ UNCHANGED <<tasks, wg, err, canceled, task, spawning, unscheduled, finished,
                   caller, result>>

storeErrorAndCancel ==
    /\ err' = IF err = "nil" THEN "task" ELSE err
    /\ canceled' = TRUE

\* ... the task returns; what it was to schedule, it has scheduled or gives up ...
TaskReturns(r, ok) ==
    /\ pc[r] = "run" /\ r \notin spawning
    /\ ok \/ task[r] \in Failing
    /\ pc' = [pc EXCEPT ![r] = "ran"]
    /\ IF ok
       THEN finished' = finished \cup {task[r]} /\ UNCHANGED <<err, canceled>>
       ELSE storeErrorAndCancel /\ UNCHANGED finished
    /\ UNCHANGED <<tasks, wg, sem, task, spawning, unscheduled, caller, result>>

\* ... and tr.wg.Done().
TaskDone(r) ==
    /\ pc[r] = "ran"
    /\ wg' = wg - 1
    /\ pc' = [pc EXCEPT ![r] = "loop"]
    /\ task' = [task EXCEPT ![r] = NoTask]
    /\ UNCHANGED <<tasks, err, canceled, sem, spawning, unscheduled, finished,
                   caller, result>>

(***************************************************************************)
(* The caller: Wait, after its last Schedule; the parent's context.        *)
(***************************************************************************)
StartWait ==
    /\ caller = "scheduling" /\ Caller \notin spawning
    /\ caller' = "waiting"
    /\ UNCHANGED <<tasks, wg, err, canceled, sem, runnerVars, spawning, unscheduled,
                   finished, result>>

\* wg.Wait returns ...
WaitWakes ==
    /\ caller = "waiting" /\ wg = 0
    /\ caller' = "woken"
    /\ UNCHANGED <<tasks, wg, err, canceled, sem, runnerVars, spawning, unscheduled,
                   finished, result>>

\* ... and the error is read.
WaitReturns ==
    /\ caller = "woken"
    /\ caller' = "returned" /\ result' = err
    /\ UNCHANGED <<tasks, wg, err, canceled, sem, runnerVars, spawning, unscheduled,
                   finished>>

ParentCancels ==
    /\ Cancellable /\ ~canceled
    /\ canceled' = TRUE
    /\ UNCHANGED <<tasks, wg, err, sem, runnerVars, spawning, unscheduled, finished,
                   caller, result>>

RunnerStep(r) ==
    \/ RunnerLoop(r) \/ selectTask(r, "release") \/ ReleaseSlot(r)
    \/ \E ok \in BOOLEAN : TaskReturns(r, ok)
    \/ TaskDone(r)

Schedule(p) == spawnIfAvailable(p) \/ \E t \in Tasks : addTask(p, t)

\* The caller has its answer and every goroutine is gone.
AllReturned ==
    /\ caller = "returned" /\ \A r \in Runners : pc[r] = "off"
    /\ UNCHANGED vars

Next ==
    \/ \E p \in Runners \cup {Caller} : Schedule(p)
    \/ \E r \in Runners : RunnerStep(r)
    \/ StartWait \/ WaitWakes \/ WaitReturns \/ ParentCancels \/ AllReturned

\* Goroutines are scheduled fairly, tasks end, and the caller schedules what it
\* likes and waits; nothing makes the parent cancel.
Fairness ==
    /\ \A r \in Runners : WF_vars(RunnerStep(r) \/ spawnIfAvailable(r))
    /\ WF_vars(Schedule(Caller) \/ StartWait \/ WaitWakes \/ WaitReturns)

Spec == Init /\ [][Next]_vars /\ Fairness

(***************************************************************************)
(* Properties                                                              *)
(***************************************************************************)

\* Type invariant of the runner, its goroutines and its caller.
TypeOK ==
    /\ tasks \in Seq(Tasks) /\ wg \in Nat
    /\ err \in {"nil", "task", "canceled"} /\ canceled \in BOOLEAN
    /\ sem \in 0 .. Limit
    /\ pc \in [Runners -> {"off", "loop", "select", "release", "run", "ran"}]
    /\ task \in [Runners -> Tasks \cup {NoTask}]
    /\ spawning \in SUBSET (Runners \cup {Caller})
    /\ unscheduled \in SUBSET Tasks /\ finished \in SUBSET Tasks
    /\ caller \in {"scheduling", "starting", "waiting", "woken", "returned"}
    /\ result \in {"none", "nil", "task", "canceled"}

\* When Wait returns without an error, every task that was accepted has run to its
\* end: none is queued, running, dropped or failed, although tasks schedule more
\* tasks while Wait is waiting.
NilMeansAllRan ==
    result = "nil" =>
        /\ tasks = <<>> /\ \A r \in Runners : pc[r] \notin {"run", "ran"}
        /\ Tasks \ unscheduled = finished

Alive == {r \in Runners : pc[r] # "off"}

\* "The TaskRunner will schedule no more goroutines that the specified
\* concurrencyLimit" (taskrunner.go:34): every live goroutine holds a slot.
LimitIsKept ==
    Cardinality(Alive) <= sem /\ sem <= Limit

\* "Wait waits for all tasks to be completed, or a task to raise an error, or the
\* parent context to have been canceled" (taskrunner.go:156): it returns.
WaitEndsEventually == (caller = "waiting") ~> (caller = "returned")

\* The same for the callers of today: they schedule one task and leave the others
\* to tasks, whose own runner looks at the queue again.  A task may fail, but the
\* parent does not cancel (a context that is done without an error yet).
WaitEndsForOneTask ==
    [](/\ Cardinality(ByCaller \ unscheduled) <= 1
       /\ canceled => err # "nil") => WaitEndsEventually

(***************************************************************************)
(* The inductive invariant from which the safety properties follow.        *)
(***************************************************************************)
Busy == {r \in Runners : pc[r] \in {"run", "ran"}}
Queued == {tasks[i] : i \in 1 .. Len(tasks)}
Accepted == Tasks \ unscheduled

\* The WaitGroup counts the tasks that are queued or running, and until an error is
\* stored an accepted task is queued, running or finished; once the WaitGroup has
\* been seen at zero it stays there.
Inv ==
    /\ TypeOK
    /\ wg = Len(tasks) + Cardinality(Busy)
    /\ \A r \in Busy : task[r] \in Accepted
    /\ Queued \subseteq Accepted /\ finished \subseteq Accepted
    /\ err = "nil" => Accepted \subseteq finished \cup Queued \cup {task[r] : r \in Busy}
    /\ err = "nil" => \A r \in Busy : pc[r] = "ran" => task[r] \in finished
    /\ caller \in {"woken", "returned"} => wg = 0
    /\ result # "none" => caller = "returned"
    /\ NilMeansAllRan /\ LimitIsKept
=============================================================================
