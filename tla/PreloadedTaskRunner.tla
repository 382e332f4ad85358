------------------------ MODULE PreloadedTaskRunner ------------------------
(***************************************************************************)
(* internal/taskrunner/preloadedtaskrunner.go: every task is added before  *)
(* the first one runs.  The runner's steps are those of TaskRunner, except *)
(* that a runner that finds no task keeps its slot and that a spawn under  *)
(* a cancelled context empties the queue itself.                           *)
(***************************************************************************)
EXTENDS TaskRunner

VARIABLE toSpawn        \* iterations Start has left

preVars == <<vars, toSpawn>>

PreInit == Init /\ toSpawn = 0

\* Add is called by the caller only.
Add(t) ==
    /\ caller = "scheduling" /\ t \in unscheduled
    /\ unscheduled' = unscheduled \ {t}
    /\ tasks' = Append(tasks, t)
    /\ wg' = wg + 1
    /\ UNCHANGED <<err, canceled, sem, runnerVars, spawning, finished, caller, result,
                   toSpawn>>

\* Start, with the number of tasks at that moment.
Start ==
    /\ caller = "scheduling"
    /\ caller' = "starting" /\ toSpawn' = Len(tasks)
    /\ UNCHANGED <<tasks, wg, err, canceled, sem, runnerVars, spawning, unscheduled,
                   finished, result>>

\* Mutant: as in TaskRunner, a cancelled context is left to the runners.
PreSpawnIfAvailable_LeavesTasks ==
    /\ caller = "starting" /\ toSpawn > 0
    /\ toSpawn' = toSpawn - 1
    /\ \/ StartRunner
       \/ (sem = Limit \/ canceled) /\ UNCHANGED <<sem, pc>>
    /\ UNCHANGED <<tasks, wg, err, canceled, task, spawning, unscheduled, finished,
                   caller, result>>

PreSpawnIfAvailable ==
    /\ caller = "starting" /\ toSpawn > 0
    /\ toSpawn' = toSpawn - 1
    /\ \/ StartRunner /\ UNCHANGED <<tasks, wg, err>>
       \/ canceled /\ emptyForCancel /\ UNCHANGED <<sem, pc>>
       \/ sem = Limit /\ ~canceled /\ UNCHANGED <<tasks, wg, err, sem, pc>>
    /\ UNCHANGED <<canceled, task, spawning, unscheduled, finished, caller, result>>

PreStartWait ==
    /\ caller = "starting" /\ toSpawn = 0
    /\ caller' = "waiting"
    /\ UNCHANGED <<tasks, wg, err, canceled, sem, runnerVars, spawning, unscheduled,
                   finished, result, toSpawn>>

PreRunnerStep(r) ==
    /\ \/ RunnerLoop(r) \/ selectTask(r, "off")
       \/ \E ok \in BOOLEAN : TaskReturns(r, ok)
       \/ TaskDone(r)
    /\ UNCHANGED toSpawn

PreWait == (WaitWakes \/ WaitReturns) /\ UNCHANGED toSpawn

PreNext ==
    \/ \E t \in Tasks : Add(t)
    \/ Start \/ PreSpawnIfAvailable \/ PreStartWait \/ PreWait
    \/ \E r \in Runners : PreRunnerStep(r)
    \/ (ParentCancels \/ AllReturned) /\ UNCHANGED toSpawn

\* As in TaskRunner; nothing obliges the caller to add every task.
PreSpec ==
    /\ PreInit /\ [][PreNext]_preVars
    /\ \A r \in Runners : WF_preVars(PreRunnerStep(r))
    /\ WF_preVars(PreSpawnIfAvailable \/ PreStartWait \/ PreWait)

\* Type invariant; the WaitGroup panics below zero.
PreTypeOK ==
    /\ TypeOK /\ toSpawn \in Nat
    /\ toSpawn > 0 => caller = "starting"

\* StartAndWait returns whatever fails and whenever the context is cancelled.
StartAndWaitEnds == (caller = "starting") ~> (caller = "returned")
=============================================================================
