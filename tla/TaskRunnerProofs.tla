-------------------------- MODULE TaskRunnerProofs --------------------------
(***************************************************************************)
(* Wait of TaskRunner and StartAndWait of PreloadedTaskRunner return nil   *)
(* only after every accepted task has run, for every number of tasks,      *)
(* runners and slots; and CursoredProducerMapperIterator yields its chunks *)
(* in order and completely, for every producer, buffer and number of       *)
(* mappers.                                                                *)
(***************************************************************************)
EXTENDS PreloadedTaskRunner, ProducerMapper, FiniteSetTheorems, TLAPS

\* The elements of a queue after Append, and after its head is taken.
LEMMA QueueElements ==
    ASSUME NEW q \in Seq(Tasks), NEW t \in Tasks
    PROVE  /\ Append(q, t) \in Seq(Tasks) /\ Len(Append(q, t)) = Len(q) + 1
           /\ {Append(q, t)[i] : i \in 1 .. Len(Append(q, t))}
                  = {q[i] : i \in 1 .. Len(q)} \cup {t}
           /\ Len(q) \in Nat
           /\ q # <<>> => /\ Head(q) \in Tasks /\ Tail(q) \in Seq(Tasks)
                          /\ Len(Tail(q)) = Len(q) - 1 /\ Len(q) >= 1
                          /\ {q[i] : i \in 1 .. Len(q)}
                                 = {Tail(q)[i] : i \in 1 .. Len(Tail(q))} \cup {Head(q)}
<1>1. Append(q, t) \in Seq(Tasks) /\ Len(Append(q, t)) = Len(q) + 1 /\ Len(q) \in Nat
  OBVIOUS
<1>2. {Append(q, t)[i] : i \in 1 .. Len(Append(q, t))}
          = {q[i] : i \in 1 .. Len(q)} \cup {t}
  <2>1. \A i \in 1 .. Len(q) : Append(q, t)[i] = q[i]
    OBVIOUS
  <2>2. Append(q, t)[Len(q) + 1] = t
    OBVIOUS
  <2>3. 1 .. Len(Append(q, t)) = (1 .. Len(q)) \cup {Len(q) + 1}
    BY <1>1
  <2> QED BY <2>1, <2>2, <2>3
<1>3. ASSUME q # <<>>
      PROVE  /\ Head(q) \in Tasks /\ Tail(q) \in Seq(Tasks)
             /\ Len(Tail(q)) = Len(q) - 1 /\ Len(q) >= 1
             /\ {q[i] : i \in 1 .. Len(q)}
                    = {Tail(q)[i] : i \in 1 .. Len(Tail(q))} \cup {Head(q)}
  <2>1. /\ Head(q) \in Tasks /\ Tail(q) \in Seq(Tasks)
        /\ Len(Tail(q)) = Len(q) - 1 /\ Len(q) >= 1 /\ Head(q) = q[1]
    BY <1>3
  <2>2. \A i \in 1 .. Len(Tail(q)) : Tail(q)[i] = q[i + 1]
    BY <1>3
  <2>3. ASSUME NEW i \in 1 .. Len(q)
        PROVE  q[i] \in {Tail(q)[j] : j \in 1 .. Len(Tail(q))} \cup {Head(q)}
    <3>1. CASE i = 1
      BY <2>1, <3>1
    <3>2. CASE i # 1
      <4>1. i - 1 \in 1 .. Len(Tail(q)) /\ (i - 1) + 1 = i
        BY <2>1, <3>2
      <4>2. q[i] = Tail(q)[i - 1]
        BY <2>2, <4>1
      <4> QED BY <4>1, <4>2
    <3> QED BY <3>1, <3>2
  <2>4. ASSUME NEW j \in 1 .. Len(Tail(q))
        PROVE  Tail(q)[j] \in {q[i] : i \in 1 .. Len(q)}
    <3>1. j + 1 \in 1 .. Len(q) /\ Tail(q)[j] = q[j + 1]
      BY <2>1, <2>2
    <3> QED BY <3>1
  <2>5. Head(q) \in {q[i] : i \in 1 .. Len(q)}
    <3>1. 1 \in 1 .. Len(q)
      BY <2>1
    <3> QED BY <2>1, <3>1
  <2> QED BY <2>1, <2>3, <2>4, <2>5
<1> QED BY <1>1, <1>2, <1>3

\* A runner that starts or ends a task changes the number of busy ones by one.
LEMMA BusyCount ==
    ASSUME NEW r \in Runners, NEW v,
           pc \in [Runners -> {"off", "loop", "select", "release", "run", "ran"}],
           pc' = [pc EXCEPT ![r] = v]
    PROVE  /\ Cardinality(Busy) \in Nat
           /\ (r \in Busy) = (v \in {"run", "ran"}) => Busy' = Busy
           /\ r \notin Busy /\ v \in {"run", "ran"}
                 => Busy' = Busy \cup {r} /\ Cardinality(Busy') = Cardinality(Busy) + 1
           /\ r \in Busy /\ v \notin {"run", "ran"}
                 => Busy' = Busy \ {r} /\ Cardinality(Busy') = Cardinality(Busy) - 1
<1>1. IsFiniteSet(Busy)
  BY TaskRunnerAssumption, FS_Subset DEF Busy
<1>2. Cardinality(Busy) \in Nat
  BY <1>1, FS_CardinalityType
<1>3. (r \in Busy) = (v \in {"run", "ran"}) => Busy' = Busy
  BY DEF Busy
<1>4. r \notin Busy /\ v \in {"run", "ran"} => Busy' = Busy \cup {r}
  BY DEF Busy
<1>5. r \in Busy /\ v \notin {"run", "ran"} => Busy' = Busy \ {r}
  BY DEF Busy
<1>6. r \notin Busy => Cardinality(Busy \cup {r}) = Cardinality(Busy) + 1
  BY <1>1, FS_AddElement
<1>7. r \in Busy => Cardinality(Busy \ {r}) = Cardinality(Busy) - 1
  BY <1>1, FS_RemoveElement, Zenon
<1> QED BY <1>2, <1>3, <1>4, <1>5, <1>6, <1>7, Zenon

\* With the WaitGroup at zero nothing is queued and nothing runs.
LEMMA ZeroMeansIdle ==
    ASSUME Inv, wg = 0
    PROVE  tasks = <<>> /\ Busy = {} /\ Queued = {}
<1>1. IsFiniteSet(Busy) /\ Cardinality(Busy) \in Nat
  BY TaskRunnerAssumption, FS_Subset, FS_CardinalityType DEF Busy
<1>2. tasks \in Seq(Tasks) /\ Len(tasks) \in Nat
  BY DEF Inv, TypeOK
<1>3. Len(tasks) = 0 /\ Cardinality(Busy) = 0
  BY <1>1, <1>2 DEF Inv
<1>4. Busy = {}
  BY <1>1, <1>3, FS_EmptySet
<1>5. tasks = <<>>
  BY <1>2, <1>3
<1> QED BY <1>3, <1>4, <1>5 DEF Queued

\* A goroutine that starts takes a slot; one that ends may keep it.
LEMMA LimitStep ==
    ASSUME Inv, Next
    PROVE  LimitIsKept' /\ \A r \in Runners : pc[r] = "release" => sem >= 1
<1>1. IsFiniteSet(Alive) /\ Cardinality(Alive) \in Nat
  BY TaskRunnerAssumption, FS_Subset, FS_CardinalityType DEF Alive
<1>2. pc \in [Runners -> {"off", "loop", "select", "release", "run", "ran"}]
  BY DEF Inv, TypeOK
<1>3. sem \in Nat /\ sem <= Limit /\ Cardinality(Alive) <= sem
  BY TaskRunnerAssumption DEF Inv, TypeOK, LimitIsKept
<1>4. ASSUME Alive' = Alive, sem' = sem PROVE LimitIsKept'
  BY <1>3, <1>4 DEF LimitIsKept
<1>5. ASSUME NEW r \in Runners, NEW v, v # "off", pc[r] # "off",
             pc' = [pc EXCEPT ![r] = v] \/ pc' = pc, sem' = sem
      PROVE  LimitIsKept'
  <2>1. Alive' = Alive
    BY <1>2, <1>5 DEF Alive
  <2> QED BY <1>4, <1>5, <2>1
<1>6. ASSUME NEW r \in Runners, pc[r] # "off"
      PROVE  /\ IsFiniteSet(Alive \ {r}) /\ Cardinality(Alive \ {r}) = Cardinality(Alive) - 1
             /\ Cardinality(Alive) >= 1
             /\ pc' = [pc EXCEPT ![r] = "off"] => Alive' = Alive \ {r}
  <2>1. r \in Alive
    BY <1>6 DEF Alive
  <2>2. IsFiniteSet(Alive \ {r}) /\ Cardinality(Alive \ {r}) = Cardinality(Alive) - 1
    BY <1>1, <2>1, FS_RemoveElement
  <2>3. Cardinality(Alive \ {r}) \in Nat
    BY <2>2, FS_CardinalityType
  <2>4. Cardinality(Alive) >= 1
    BY <1>1, <2>2, <2>3
  <2>5. pc' = [pc EXCEPT ![r] = "off"] => Alive' = Alive \ {r}
    BY <1>2 DEF Alive
  <2> QED BY <2>2, <2>4, <2>5
<1>7. \A r \in Runners : pc[r] = "release" => sem >= 1
  <2> SUFFICES ASSUME NEW r \in Runners, pc[r] = "release" PROVE sem >= 1
    OBVIOUS
  <2>1. Cardinality(Alive) >= 1
    BY <1>6, Zenon
  <2> QED BY <1>1, <1>3, <2>1
<1>8. ASSUME NEW p, spawnIfAvailable(p) PROVE LimitIsKept'
  <2>1. CASE StartRunner
    <3>1. PICK r \in Runners : pc[r] = "off" /\ pc' = [pc EXCEPT ![r] = "loop"]
      BY <2>1, Zenon DEF StartRunner
    <3>2. Alive' = Alive \cup {r} /\ r \notin Alive
      BY <1>2, <3>1 DEF Alive
    <3>3. Cardinality(Alive') = Cardinality(Alive) + 1
      BY <1>1, <3>2, FS_AddElement
    <3>4. sem' = sem + 1 /\ sem < Limit
      BY <2>1 DEF StartRunner
    <3> QED BY <1>1, <1>3, <3>3, <3>4, TaskRunnerAssumption DEF LimitIsKept
  <2>2. CASE UNCHANGED <<sem, pc>>
    BY <1>4, <2>2 DEF Alive
  <2> QED BY <1>8, <2>1, <2>2 DEF spawnIfAvailable
<1>9. ASSUME NEW r \in Runners, RunnerStep(r) PROVE LimitIsKept'
  <2>1. CASE RunnerLoop(r) /\ canceled
    <3>1. pc' = [pc EXCEPT ![r] = "off"] /\ pc[r] # "off" /\ sem' = sem
      BY <2>1 DEF RunnerLoop
    <3>2. Cardinality(Alive') = Cardinality(Alive) - 1
      BY <1>6, <3>1, Zenon
    <3> QED BY <1>1, <1>3, <3>1, <3>2, TaskRunnerAssumption DEF LimitIsKept
  <2>2. CASE ReleaseSlot(r)
    <3>1. pc' = [pc EXCEPT ![r] = "off"] /\ pc[r] # "off" /\ sem' = sem - 1
      BY <2>2 DEF ReleaseSlot
    <3>2. Cardinality(Alive') = Cardinality(Alive) - 1
      BY <1>6, <3>1, Zenon
    <3> QED BY <1>1, <1>3, <3>1, <3>2, TaskRunnerAssumption DEF LimitIsKept
  <2>3. CASE RunnerLoop(r) /\ ~canceled
    BY <1>5, <2>3 DEF RunnerLoop
  <2>4. CASE selectTask(r, "release")
    BY <1>5, <2>4, Zenon DEF selectTask
  <2>5. CASE TaskDone(r) \/ \E ok \in BOOLEAN : TaskReturns(r, ok)
    BY <1>5, <2>5 DEF TaskDone, TaskReturns
  <2> QED BY <1>9, <2>1, <2>2, <2>3, <2>4, <2>5 DEF RunnerStep
<1>10. CASE StartWait \/ WaitWakes \/ WaitReturns \/ ParentCancels \/ AllReturned
            \/ \E p \in Runners \cup {Caller}, t \in Tasks : addTask(p, t)
  <2>1. pc' = pc /\ sem' = sem
    BY <1>10 DEF StartWait, WaitWakes, WaitReturns, ParentCancels, AllReturned, addTask,
                 vars, runnerVars
  <2>2. Alive' = Alive
    BY <2>1 DEF Alive
  <2> QED BY <1>4, <1>7, <2>1, <2>2
<1> QED BY <1>7, <1>8, <1>9, <1>10 DEF Next, Schedule

\* Every step preserves Inv.
LEMMA InvStep ==
    ASSUME Inv, Next
    PROVE  Inv'
<1> USE TaskRunnerAssumption
<1>0. LimitIsKept' /\ \A r \in Runners : pc[r] = "release" => sem >= 1
  BY LimitStep
<1>1. TypeOK /\ wg = Len(tasks) + Cardinality(Busy) /\ Len(tasks) \in Nat
  BY DEF Inv, TypeOK
<1>2. wg = 0 => tasks = <<>> /\ Busy = {} /\ Queued = {}
  BY ZeroMeansIdle
<1>3. Cardinality(Busy) \in Nat
  BY FS_Subset, FS_CardinalityType DEF Busy
\* Steps of the caller, of the parent and of the spawning: no task moves.
<1>4. ASSUME UNCHANGED <<tasks, wg, unscheduled, finished, Busy>>, TypeOK',
             \A r \in Busy : task'[r] = task[r] /\ pc'[r] = pc[r],
             err' = "nil" => err = "nil",
             caller' \in {"woken", "returned"} => wg = 0,
             result' # "none" => caller' = "returned",
             result' = "nil" => result = "nil" \/ (err = "nil" /\ wg = 0)
      PROVE  Inv'
  <2>1. Queued' = Queued /\ Accepted' = Accepted
    BY <1>4 DEF Queued, Accepted
  <2>2. \A r \in Runners : pc'[r] \in {"run", "ran"} <=> r \in Busy
    BY <1>4 DEF Busy
  <2>3. NilMeansAllRan'
    <3>1. CASE result = "nil"
      BY <1>4, <2>1, <2>2, <3>1 DEF Inv, NilMeansAllRan, Busy
    <3>2. CASE err = "nil" /\ wg = 0
      BY <1>2, <1>4, <2>1, <2>2, <3>2 DEF Inv, NilMeansAllRan, Accepted
    <3> QED BY <1>4, <3>1, <3>2 DEF NilMeansAllRan
  <2>4. {task'[r] : r \in Busy'} = {task[r] : r \in Busy}
    BY <1>4
  <2>5. err' = "nil" => \A r \in Busy' : pc'[r] = "ran" => task'[r] \in finished'
    BY <1>4 DEF Inv
  <2> QED BY <1>0, <1>1, <1>4, <2>1, <2>3, <2>4, <2>5 DEF Inv
<1>5. ASSUME NEW p \in Runners \cup {Caller}, spawnIfAvailable(p) PROVE Inv'
  <2>1. pc' = pc \/ \E r \in Runners : pc[r] = "off" /\ pc' = [pc EXCEPT ![r] = "loop"]
    BY <1>5 DEF spawnIfAvailable, StartRunner
  <2>2. Busy' = Busy
    BY <1>1, <2>1 DEF TypeOK, Busy
  <2>3. TypeOK'
    BY <1>1, <1>5, <2>1 DEF TypeOK, spawnIfAvailable, StartRunner
  <2>4. \A r \in Busy : pc'[r] = pc[r]
    BY <1>1, <2>1 DEF TypeOK, Busy
  <2> QED BY <1>4, <1>5, <2>2, <2>3, <2>4 DEF spawnIfAvailable, Inv
<1>6. CASE StartWait \/ WaitWakes \/ WaitReturns \/ ParentCancels \/ UNCHANGED vars
  <2>1. Busy' = Busy
    BY <1>6 DEF StartWait, WaitWakes, WaitReturns, ParentCancels, vars, runnerVars, Busy
  <2>2. TypeOK'
    BY <1>1, <1>6, ZenonT(30) DEF StartWait, WaitWakes, WaitReturns, ParentCancels, vars, runnerVars,
                      TypeOK
  <2> QED
    BY <1>4, <1>6, <2>1, <2>2
       DEF StartWait, WaitWakes, WaitReturns, ParentCancels, vars, runnerVars, Inv
<1>7. ASSUME NEW p \in Runners \cup {Caller}, NEW t \in Tasks, addTask(p, t) PROVE Inv'
  <2>1. TypeOK'
    <3>1. Append(tasks, t) \in Seq(Tasks) /\ wg + 1 \in Nat
      BY <1>1, QueueElements DEF TypeOK
    <3> QED BY <1>1, <1>7, <3>1, Zenon DEF TypeOK, addTask, runnerVars
  <2>2. Busy' = Busy /\ task' = task /\ pc' = pc /\ t \in unscheduled /\ Accepted' = Accepted \cup {t}
    BY <1>7 DEF addTask, MaySchedule, runnerVars, Busy, Accepted
  <2>3. caller = "scheduling" \/ p \in Busy
    BY <1>7 DEF addTask, MaySchedule, Busy
  <2>4. caller' = caller /\ caller \notin {"woken", "returned"} /\ result' = "none"
    BY <1>2, <1>7, <2>3 DEF Inv, addTask, TypeOK
  <2>5. NilMeansAllRan'
    BY <2>4 DEF NilMeansAllRan
  <2>6. CASE err # "nil"
    <3>1. UNCHANGED <<tasks, wg, err, finished>> /\ Queued' = Queued
      BY <1>7, <2>6 DEF addTask, Queued
    <3> QED BY <1>0, <1>1, <2>1, <2>2, <2>4, <2>5, <2>6, <3>1 DEF Inv
  <2>7. CASE err = "nil"
    <3>1. /\ tasks' = Append(tasks, t) /\ wg' = wg + 1 /\ UNCHANGED <<err, finished>>
      BY <1>7, <2>7 DEF addTask
    <3>2. Queued' = Queued \cup {t} /\ Len(tasks') = Len(tasks) + 1
      BY <1>1, <3>1, QueueElements DEF Queued, TypeOK
    <3>3. wg' = Len(tasks') + Cardinality(Busy')
      BY <1>1, <1>3, <2>2, <3>1, <3>2
    <3>4. {task'[r] : r \in Busy'} = {task[r] : r \in Busy}
      BY <2>2
    <3> QED BY <1>0, <2>1, <2>2, <2>4, <2>5, <2>7, <3>1, <3>2, <3>3, <3>4 DEF Inv
  <2> QED BY <2>6, <2>7
<1>8. ASSUME NEW r \in Runners, RunnerLoop(r) PROVE Inv'
  <2>1. Busy' = Busy
    BY <1>1, <1>8 DEF TypeOK, RunnerLoop, Busy
  <2>2. CASE ~canceled
    <3>1. TypeOK'
      BY <1>1, <1>8, <2>2 DEF TypeOK, RunnerLoop
    <3>2. \A o \in Busy : pc'[o] = pc[o]
      BY <1>1, <1>8 DEF TypeOK, RunnerLoop, Busy
    <3> QED BY <1>4, <1>8, <2>1, <2>2, <3>1, <3>2 DEF RunnerLoop, Inv
  <2>3. CASE canceled
    <3>1. /\ tasks' = <<>> /\ wg' = wg - Len(tasks) /\ err' # "nil"
          /\ UNCHANGED <<task, unscheduled, finished, caller, result>>
      BY <1>8, <2>3 DEF RunnerLoop, emptyForCancel
    <3>2. wg' = Len(tasks') + Cardinality(Busy') /\ wg' \in Nat
      BY <1>1, <1>3, <2>1, <3>1
    <3>3. TypeOK'
      BY <1>1, <1>8, <2>3, <3>1, <3>2 DEF TypeOK, RunnerLoop, emptyForCancel
    <3>4. Queued' = {} /\ Accepted' = Accepted
      BY <3>1 DEF Queued, Accepted
    <3>5. caller' \in {"woken", "returned"} => wg' = 0
      BY <1>1, <1>2, <3>1 DEF Inv
    <3>6. NilMeansAllRan'
      BY <2>1, <3>1, <3>4 DEF Inv, NilMeansAllRan, Busy
    <3> QED BY <1>0, <2>1, <3>1, <3>2, <3>3, <3>4, <3>5, <3>6 DEF Inv
  <2> QED BY <2>2, <2>3
<1>9. ASSUME NEW r \in Runners, selectTask(r, "release") PROVE Inv'
  <2>1. CASE tasks = <<>>
    <3>1. Busy' = Busy
      BY <1>1, <1>9, <2>1 DEF TypeOK, selectTask, Busy
    <3>2. TypeOK'
      BY <1>1, <1>9, <2>1 DEF TypeOK, selectTask
    <3>3. \A o \in Busy : pc'[o] = pc[o]
      BY <1>1, <1>9 DEF TypeOK, selectTask, Busy
    <3> QED BY <1>4, <1>9, <2>1, <3>1, <3>2, <3>3 DEF selectTask, Inv
  <2>2. CASE tasks # <<>>
    <3>1. /\ pc[r] = "select" /\ pc' = [pc EXCEPT ![r] = "run"]
          /\ task' = [task EXCEPT ![r] = Head(tasks)] /\ tasks' = Tail(tasks)
          /\ UNCHANGED <<wg, err, unscheduled, finished, caller, result>>
      BY <1>9, <2>2 DEF selectTask
    <3>2. /\ Len(tasks') = Len(tasks) - 1 /\ Len(tasks) >= 1
          /\ Queued = Queued' \cup {Head(tasks)}
          /\ Head(tasks) \in Tasks /\ tasks' \in Seq(Tasks)
      <4>1. tasks \in Seq(Tasks)
        BY <1>1 DEF TypeOK
      <4>2. Head(tasks) \in Tasks
        BY <2>2, <4>1
      <4>3. /\ Tail(tasks) \in Seq(Tasks) /\ Len(Tail(tasks)) = Len(tasks) - 1
            /\ Len(tasks) >= 1
            /\ {tasks[i] : i \in 1 .. Len(tasks)}
                   = {Tail(tasks)[i] : i \in 1 .. Len(Tail(tasks))} \cup {Head(tasks)}
        BY <2>2, <4>1, <4>2, QueueElements
      <4> QED BY <3>1, <4>2, <4>3, Zenon DEF Queued
    <3>3. r \notin Busy /\ Busy' = Busy \cup {r} /\ Cardinality(Busy') = Cardinality(Busy) + 1
      <4>1. r \notin Busy
        BY <3>1 DEF Busy
      <4> QED BY <1>1, <3>1, <4>1, BusyCount, Zenon DEF TypeOK
    <3>4. wg' = Len(tasks') + Cardinality(Busy') /\ wg # 0
      BY <1>1, <1>3, <3>1, <3>2, <3>3
    <3>5. TypeOK'
      BY <1>1, <1>9, <2>2, <3>1, <3>2 DEF TypeOK, selectTask
    <3>6. task'[r] = Head(tasks) /\ \A o \in Busy : task'[o] = task[o]
      BY <1>1, <3>1, <3>3 DEF TypeOK
    <3>7. Accepted' = Accepted /\ NilMeansAllRan'
      BY <3>1, <3>4 DEF Inv, Accepted, NilMeansAllRan
    <3>8. {task'[o] : o \in Busy'} = {task[o] : o \in Busy} \cup {Head(tasks)}
      BY <3>3, <3>6
    <3>9. \A o \in Busy' : task'[o] \in Accepted'
      BY <3>2, <3>3, <3>6, <3>7 DEF Inv
    <3>10. err' = "nil" => \A o \in Busy' : pc'[o] = "ran" => task'[o] \in finished'
      BY <1>1, <3>1, <3>3, <3>6 DEF Inv, TypeOK
    <3> QED BY <1>0, <3>1, <3>2, <3>4, <3>5, <3>7, <3>8, <3>9, <3>10, Zenon DEF Inv
  <2> QED BY <2>1, <2>2
<1>10. ASSUME NEW r \in Runners, ReleaseSlot(r) PROVE Inv'
  <2>1. Busy' = Busy
    BY <1>1, <1>10 DEF TypeOK, ReleaseSlot, Busy
  <2>2. sem # 0
    BY <1>0, <1>10 DEF ReleaseSlot
  <2>3. TypeOK'
    BY <1>1, <1>10, <2>2 DEF TypeOK, ReleaseSlot
  <2>4. \A o \in Busy : pc'[o] = pc[o]
    BY <1>1, <1>10 DEF TypeOK, ReleaseSlot, Busy
  <2> QED BY <1>4, <1>10, <2>1, <2>3, <2>4 DEF ReleaseSlot, Inv
<1>11. ASSUME NEW r \in Runners, NEW ok \in BOOLEAN, TaskReturns(r, ok) PROVE Inv'
  <2>1. pc[r] = "run" /\ pc' = [pc EXCEPT ![r] = "ran"] /\ r \in Busy
    BY <1>11 DEF TaskReturns, Busy
  <2>2. Busy' = Busy
    BY <1>1, <2>1, BusyCount, Zenon DEF TypeOK
  <2>3. /\ UNCHANGED <<tasks, wg, task, unscheduled, caller, result>>
        /\ finished' = finished \/ finished' = finished \cup {task[r]}
        /\ err' = "nil" => err = "nil"
    BY <1>11 DEF TaskReturns, storeErrorAndCancel
  <2>4. task[r] \in Accepted /\ Accepted' = Accepted /\ Queued' = Queued /\ Accepted \subseteq Tasks
    BY <2>1, <2>3 DEF Inv, Accepted, Queued
  <2>5. TypeOK'
    BY <1>1, <1>11, <2>3, <2>4, ZenonT(30) DEF TypeOK, TaskReturns, storeErrorAndCancel
  <2>6. wg # 0 /\ NilMeansAllRan'
    BY <1>2, <2>1, <2>3 DEF Inv, NilMeansAllRan
  <2>7. {task'[o] : o \in Busy'} = {task[o] : o \in Busy}
    BY <2>2, <2>3
  <2>8. err' = "nil" => \A o \in Busy' : pc'[o] = "ran" => task'[o] \in finished'
    <3>1. err' = "nil" => finished' = finished \cup {task[r]}
      BY <1>11 DEF TaskReturns, storeErrorAndCancel
    <3>2. \A o \in Busy \ {r} : pc'[o] = pc[o]
      BY <1>1, <2>1 DEF TypeOK, Busy
    <3> QED BY <2>2, <2>3, <3>1, <3>2 DEF Inv
  <2> QED BY <1>0, <1>1, <2>2, <2>3, <2>4, <2>5, <2>6, <2>7, <2>8 DEF Inv
<1>12. ASSUME NEW r \in Runners, TaskDone(r) PROVE Inv'
  <2>1. /\ pc[r] = "ran" /\ pc' = [pc EXCEPT ![r] = "loop"] /\ r \in Busy
        /\ wg' = wg - 1 /\ task' = [task EXCEPT ![r] = NoTask]
        /\ UNCHANGED <<tasks, err, unscheduled, finished, caller, result>>
    BY <1>12 DEF TaskDone, Busy
  <2>2. Busy' = Busy \ {r} /\ Cardinality(Busy') = Cardinality(Busy) - 1
    <3>1. "loop" \notin {"run", "ran"}
      OBVIOUS
    <3> QED BY <1>1, <2>1, <3>1, BusyCount, Zenon DEF TypeOK
  <2>3. wg' = Len(tasks') + Cardinality(Busy') /\ wg # 0 /\ wg' \in Nat
    <3>1. wg # 0 /\ wg \in Nat
      BY <1>1, <1>2, <2>1 DEF TypeOK
    <3> QED BY <1>1, <1>3, <2>1, <2>2, <3>1
  <2>4. TypeOK'
    BY <1>1, <1>12, <2>1, <2>3 DEF TypeOK, TaskDone
  <2>5. Queued' = Queued /\ Accepted' = Accepted /\ NilMeansAllRan'
    BY <2>1, <2>3 DEF Inv, Queued, Accepted, NilMeansAllRan
  <2>6. \A o \in Busy' : task'[o] = task[o] /\ pc'[o] = pc[o]
    BY <1>1, <2>1, <2>2 DEF TypeOK, Busy
  <2>7. err = "nil" => task[r] \in finished
    BY <2>1 DEF Inv
  <2>8. {task[o] : o \in Busy} \subseteq {task'[o] : o \in Busy'} \cup {task[r]}
    BY <2>2, <2>6
  <2>9. err' = "nil" => Accepted' \subseteq finished' \cup Queued' \cup {task'[o] : o \in Busy'}
    BY <2>1, <2>5, <2>7, <2>8 DEF Inv
  <2> QED BY <1>0, <2>1, <2>2, <2>3, <2>4, <2>5, <2>6, <2>9 DEF Inv
<1> QED
  BY <1>5, <1>6, <1>7, <1>8, <1>9, <1>10, <1>11, <1>12
     DEF Next, Schedule, RunnerStep, AllReturned

\* The runner begins with nothing queued and nothing running.
LEMMA InitInv ==
    ASSUME Init
    PROVE  Inv
<1>1. Busy = {} /\ Alive = {} /\ Queued = {} /\ Accepted = {}
  BY DEF Init, Busy, Alive, Queued, Accepted
<1>2. Cardinality({}) = 0
  BY FS_EmptySet
<1>3. TypeOK
  <2>1. <<>> \in Seq(Tasks) /\ 0 \in Nat /\ 0 \in 0 .. Limit
    BY TaskRunnerAssumption
  <2>2. /\ [r \in Runners |-> "off"]
               \in [Runners -> {"off", "loop", "select", "release", "run", "ran"}]
        /\ [r \in Runners |-> NoTask] \in [Runners -> Tasks \cup {NoTask}]
    OBVIOUS
  <2> QED BY <2>1, <2>2, Zenon DEF Init, TypeOK
<1> QED
  BY <1>1, <1>2, <1>3, TaskRunnerAssumption DEF Init, Inv, NilMeansAllRan, LimitIsKept

\* A step that leaves the runner alone.
LEMMA StutterKeepsInv ==
    ASSUME Inv, UNCHANGED vars
    PROVE  Inv'
  BY DEF vars, runnerVars, Inv, TypeOK, Busy, Alive, Queued, Accepted, NilMeansAllRan, LimitIsKept

\* The runner's bookkeeping is consistent in every state.
THEOREM RunnerInvariant == Spec => []Inv
<1>1. Init => Inv
  BY InitInv
<1>2. Inv /\ [Next]_vars => Inv'
  BY InvStep, StutterKeepsInv
<1> QED BY <1>1, <1>2, PTL DEF Spec

\* Wait of TaskRunner returns nil only when every accepted task ran to its end.
THEOREM WaitIsComplete == Spec => []NilMeansAllRan
<1>1. Inv => NilMeansAllRan
  BY DEF Inv
<1> QED BY <1>1, RunnerInvariant, PTL

\* The goroutines of a TaskRunner never outnumber its concurrency limit.
THEOREM LimitHolds == Spec => []LimitIsKept
<1>1. Inv => LimitIsKept
  BY DEF Inv
<1> QED BY <1>1, RunnerInvariant, PTL
(***************************************************************************)
(* PreloadedTaskRunner, whose other steps are those of TaskRunner          *)
(***************************************************************************)

\* No task moves, and the goroutines keep within the limit.
LEMMA NoTaskMoves ==
    ASSUME Inv, UNCHANGED <<tasks, wg, err, task, unscheduled, finished, result>>,
           TypeOK', Busy' = Busy, \A r \in Busy : pc'[r] = pc[r], LimitIsKept',
           caller' = caller \/ (caller' \in {"starting", "waiting"} /\ result = "none")
    PROVE  Inv'
<1>1. Queued' = Queued /\ Accepted' = Accepted /\ {task'[r] : r \in Busy'} = {task[r] : r \in Busy}
  BY DEF Queued, Accepted
<1>2. \A r \in Runners : pc'[r] \in {"run", "ran"} <=> pc[r] \in {"run", "ran"}
  BY DEF Busy
<1>3. NilMeansAllRan'
  BY <1>2 DEF Inv, NilMeansAllRan
<1>4. \A r \in Busy' : pc'[r] = "ran" => pc[r] = "ran"
  OBVIOUS
<1> QED BY <1>1, <1>3, <1>4 DEF Inv

\* The queue is emptied for a cancelled context, with the error stored.
LEMMA EmptiedForCancel ==
    ASSUME Inv, emptyForCancel, UNCHANGED <<pc, sem, canceled, task, spawning, unscheduled,
                                            finished, caller, result>>
    PROVE  Inv'
<1>1. /\ tasks' = <<>> /\ wg' = wg - Len(tasks) /\ err' # "nil" /\ Len(tasks) \in Nat
      /\ TypeOK /\ wg = Len(tasks) + Cardinality(Busy)
  BY DEF emptyForCancel, Inv, TypeOK
<1>2. Cardinality(Busy) \in Nat
  BY TaskRunnerAssumption, FS_Subset, FS_CardinalityType DEF Busy
<1>3. Busy' = Busy /\ Alive' = Alive /\ Queued' = {} /\ Accepted' = Accepted
  BY <1>1 DEF Busy, Alive, Queued, Accepted
<1>4. wg' = Len(tasks') + Cardinality(Busy') /\ wg' \in Nat
  BY <1>1, <1>2, <1>3
<1>5. TypeOK'
  BY <1>1, <1>4 DEF TypeOK, emptyForCancel
<1>6. caller' \in {"woken", "returned"} => wg' = 0
  BY <1>1, <1>2, <1>3, <1>4, ZeroMeansIdle, FS_EmptySet DEF Inv
<1>7. NilMeansAllRan'
  BY <1>1, <1>3 DEF Inv, NilMeansAllRan, Accepted
<1>8. LimitIsKept'
  BY <1>3 DEF Inv, LimitIsKept
<1> QED BY <1>1, <1>3, <1>4, <1>5, <1>6, <1>7, <1>8 DEF Inv

\* Every step of the preloaded runner preserves Inv.
LEMMA PreInvStep ==
    ASSUME Inv, PreNext
    PROVE  Inv'
<1> USE TaskRunnerAssumption
<1>1. TypeOK /\ wg = Len(tasks) + Cardinality(Busy) /\ Len(tasks) \in Nat
  BY DEF Inv, TypeOK
<1>2. pc \in [Runners -> {"off", "loop", "select", "release", "run", "ran"}]
  BY <1>1 DEF TypeOK
<1>3. /\ IsFiniteSet(Alive) /\ Cardinality(Alive) \in Nat /\ Cardinality(Busy) \in Nat
      /\ sem \in Nat /\ sem <= Limit /\ Cardinality(Alive) <= sem
  BY <1>1, FS_Subset, FS_CardinalityType DEF Alive, Busy, Inv, TypeOK, LimitIsKept
<1>4. ASSUME NEW t \in Tasks, Add(t) PROVE Inv'
  <2>1. /\ tasks' = Append(tasks, t) /\ wg' = wg + 1 /\ unscheduled' = unscheduled \ {t}
        /\ caller = "scheduling" /\ t \in unscheduled
        /\ UNCHANGED <<err, canceled, sem, pc, task, spawning, finished, caller, result>>
    BY <1>4 DEF Add, runnerVars
  <2>2. /\ Queued' = Queued \cup {t} /\ Len(tasks') = Len(tasks) + 1 /\ tasks' \in Seq(Tasks)
    BY <1>1, <2>1, QueueElements DEF Queued, TypeOK
  <2>3. Busy' = Busy /\ Alive' = Alive /\ Accepted' = Accepted \cup {t}
    BY <2>1 DEF Busy, Alive, Accepted
  <2>4. TypeOK'
    BY <1>1, <2>1, <2>2 DEF TypeOK
  <2>5. wg' = Len(tasks') + Cardinality(Busy')
    BY <1>1, <1>3, <2>1, <2>2, <2>3
  <2>6. result' = "none"
    BY <2>1 DEF Inv
  <2>7. NilMeansAllRan' /\ LimitIsKept'
    BY <2>1, <2>3, <2>6 DEF Inv, NilMeansAllRan, LimitIsKept
  <2>8. {task'[r] : r \in Busy'} = {task[r] : r \in Busy}
    BY <2>1, <2>3
  <2> QED BY <2>1, <2>2, <2>3, <2>4, <2>5, <2>6, <2>7, <2>8 DEF Inv
<1>5. CASE Start \/ PreStartWait
  <2>1. /\ caller \in {"scheduling", "starting"} /\ caller' \in {"starting", "waiting"}
        /\ UNCHANGED <<tasks, wg, err, canceled, sem, pc, task, spawning, unscheduled, finished,
                       result>>
    BY <1>5 DEF Start, PreStartWait, runnerVars
  <2>2. Busy' = Busy /\ Alive' = Alive
    BY <2>1 DEF Busy, Alive
  <2>3. TypeOK'
    BY <1>1, <2>1 DEF TypeOK
  <2>4. LimitIsKept' /\ result = "none"
    BY <2>1, <2>2 DEF Inv, LimitIsKept
  <2> QED BY <2>1, <2>2, <2>3, <2>4, NoTaskMoves
<1>6. CASE PreSpawnIfAvailable
  <2>1. UNCHANGED <<canceled, task, spawning, unscheduled, finished, caller, result>>
    BY <1>6 DEF PreSpawnIfAvailable
  <2>2. CASE StartRunner /\ UNCHANGED <<tasks, wg, err>>
    <3>1. PICK r \in Runners : pc[r] = "off" /\ pc' = [pc EXCEPT ![r] = "loop"]
      BY <2>2, Zenon DEF StartRunner
    <3>2. Alive' = Alive \cup {r} /\ r \notin Alive /\ Busy' = Busy
      BY <1>2, <3>1 DEF Alive, Busy
    <3>3. Cardinality(Alive') = Cardinality(Alive) + 1
      BY <1>3, <3>2, FS_AddElement
    <3>4. sem' = sem + 1 /\ sem < Limit
      BY <2>2 DEF StartRunner
    <3>5. LimitIsKept' /\ sem' \in 0 .. Limit
      BY <1>3, <3>3, <3>4 DEF LimitIsKept
    <3>6. TypeOK'
      BY <1>1, <2>1, <2>2, <3>1, <3>5 DEF TypeOK
    <3>7. \A o \in Busy : pc'[o] = pc[o]
      BY <1>2, <3>1 DEF Busy
    <3> QED BY <2>1, <2>2, <3>2, <3>5, <3>6, <3>7, NoTaskMoves
  <2>3. CASE emptyForCancel /\ UNCHANGED <<sem, pc>>
    BY <2>1, <2>3, EmptiedForCancel
  <2>4. CASE UNCHANGED <<tasks, wg, err, sem, pc>>
    <3>1. Busy' = Busy /\ Alive' = Alive
      BY <2>4 DEF Busy, Alive
    <3>2. TypeOK' /\ LimitIsKept'
      BY <1>1, <2>1, <2>4, <3>1 DEF TypeOK, Inv, LimitIsKept
    <3> QED BY <2>1, <2>4, <3>1, <3>2, NoTaskMoves
  <2> QED BY <1>6, <2>2, <2>3, <2>4 DEF PreSpawnIfAvailable
<1>7. ASSUME NEW r \in Runners, selectTask(r, "off") PROVE Inv'
  <2>1. CASE tasks # <<>>
    <3>1. selectTask(r, "release")
      BY <1>7, <2>1 DEF selectTask
    <3>2. Next
      BY <3>1 DEF Next, RunnerStep
    <3> QED BY <3>2, InvStep
  <2>2. CASE tasks = <<>>
    <3>1. /\ pc[r] = "select" /\ pc' = [pc EXCEPT ![r] = "off"]
          /\ UNCHANGED <<tasks, wg, err, canceled, sem, task, spawning, unscheduled, finished,
                         caller, result>>
      BY <1>7, <2>2 DEF selectTask
    <3>2. Alive' = Alive \ {r} /\ r \in Alive /\ Busy' = Busy
      BY <1>2, <3>1 DEF Alive, Busy
    <3>3. Cardinality(Alive') = Cardinality(Alive) - 1
      BY <1>3, <3>2, FS_RemoveElement
    <3>4. LimitIsKept'
      BY <1>3, <3>1, <3>3 DEF LimitIsKept
    <3>5. TypeOK'
      BY <1>1, <3>1 DEF TypeOK
    <3>6. \A o \in Busy : pc'[o] = pc[o]
      BY <1>2, <3>1 DEF Busy
    <3> QED BY <3>1, <3>2, <3>4, <3>5, <3>6, NoTaskMoves
  <2> QED BY <2>1, <2>2
<1>8. ASSUME NEW r \in Runners, RunnerLoop(r) \/ TaskDone(r) \/ \E ok \in BOOLEAN : TaskReturns(r, ok)
      PROVE  Inv'
  <2>1. Next
    BY <1>8 DEF Next, RunnerStep
  <2> QED BY <2>1, InvStep
<1>9. CASE WaitWakes \/ WaitReturns \/ ParentCancels \/ AllReturned
  <2>1. Next
    BY <1>9 DEF Next
  <2> QED BY <2>1, InvStep
<1> QED
  BY <1>4, <1>5, <1>6, <1>7, <1>8, <1>9 DEF PreNext, PreWait, PreRunnerStep

\* StartAndWait of PreloadedTaskRunner returns nil only when every task added ran to its
\* end, although a runner that finds no task keeps its slot.
THEOREM StartAndWaitIsComplete == PreSpec => []NilMeansAllRan
<1>1. PreInit => Inv
  BY InitInv DEF PreInit
<1>2. Inv /\ [PreNext]_preVars => Inv'
  <2>1. CASE UNCHANGED preVars
    BY <2>1, StutterKeepsInv DEF preVars
  <2> QED BY <2>1, PreInvStep
<1>3. Inv => NilMeansAllRan
  BY DEF Inv
<1> QED BY <1>1, <1>2, <1>3, PTL DEF PreSpec

(***************************************************************************)
(* CursoredProducerMapperIterator                                          *)
(***************************************************************************)

\* A sequence after Append, and after its head is taken.
LEMMA ChannelElements ==
    ASSUME NEW S, NEW q \in Seq(S), NEW e \in S
    PROVE  /\ Append(q, e) \in Seq(S) /\ Len(Append(q, e)) = Len(q) + 1 /\ Len(q) \in Nat
           /\ \A i \in 1 .. Len(q) : Append(q, e)[i] = q[i]
           /\ Append(q, e)[Len(q) + 1] = e
           /\ q # <<>> => /\ Head(q) = q[1] /\ Len(q) >= 1
                          /\ Tail(q) \in Seq(S) /\ Len(Tail(q)) = Len(q) - 1
                          /\ \A i \in 1 .. Len(Tail(q)) : Tail(q)[i] = q[i + 1]
  OBVIOUS

\* The chunks yielded so far and the next one.
LEMMA NextInOrder ==
    ASSUME NEW q \in Seq(Nat), q = [i \in 1 .. Len(q) |-> i]
    PROVE  /\ Append(q, Len(q) + 1) \in Seq(Nat)
           /\ Append(q, Len(q) + 1) = [i \in 1 .. Len(Append(q, Len(q) + 1)) |-> i]
<1>1. Len(q) \in Nat /\ Len(q) + 1 \in Nat
  OBVIOUS
<1>2. PICK a : a = Append(q, Len(q) + 1)
  OBVIOUS
<1>3. /\ a \in Seq(Nat) /\ Len(a) = Len(q) + 1 /\ a[Len(q) + 1] = Len(q) + 1
      /\ \A i \in 1 .. Len(q) : a[i] = q[i]
  BY <1>1, <1>2
<1>4. ASSUME NEW i \in 1 .. Len(a) PROVE a[i] = i
  <2>1. CASE i = Len(q) + 1
    BY <1>3, <2>1
  <2>2. CASE i \in 1 .. Len(q)
    BY <1>3, <2>2
  <2> QED BY <1>1, <1>3, <2>1, <2>2
<1>5. a = [i \in 1 .. Len(a) |-> i]
  BY <1>3, <1>4
<1> QED BY <1>2, <1>3, <1>5, Zenon

\* A step that leaves the channel, the producer's place and the consumer alone.
LEMMA OrderKept ==
    ASSUME OrderInv, UNCHANGED <<prodVars, channel, consVars>>
    PROVE  OrderInv'
  BY DEF OrderInv, ChannelInv, SentChunks, TakenChunks, YieldsInOrder, prodVars, consVars

\* Every step of the producer preserves OrderInv.
LEMMA ProducerKeepsOrder ==
    ASSUME OrderInv, NEW r \in Runners,
           \/ ProducerNext(r) \/ ProducerCanceled(r) \/ ProducerSend(r) \/ ProducerSchedule(r)
           \/ ProducerHold(r) \/ ProducerEnd(r) \/ ProducerError(r)
    PROVE  OrderInv'
<1>1. /\ n \in Nat /\ script \in Seq(Yields) /\ yielded \in Seq(Nat)
      /\ channel \in Seq([kind : {"chunk", "completed", "error"}, chunk : Nat])
      /\ Len(yielded) \in Nat /\ Len(channel) \in Nat /\ YieldsInOrder /\ prod # "returned"
  <2>1. prod # "returned"
    BY DEF ProducerNext, ProducerCanceled, ProducerSend, ProducerSchedule, ProducerHold,
           ProducerEnd, ProducerError, Producing
  <2> QED BY <2>1 DEF OrderInv
<1>2. UNCHANGED consVars /\ outcome # "completed"
  BY <1>1 DEF OrderInv, ProducerNext, ProducerCanceled, ProducerSend, ProducerSchedule,
              ProducerHold, ProducerEnd, ProducerError, consVars
<1>3. YieldsInOrder' /\ TakenChunks' = TakenChunks /\ TakenChunks \in Nat
  <2>1. yielded' = yielded /\ cons' = cons /\ outcome' # "completed"
    BY <1>2 DEF consVars
  <2>2. TakenChunks' = TakenChunks
    BY <2>1 DEF TakenChunks
  <2>3. TakenChunks \in Nat
    BY <1>1 DEF TakenChunks
  <2>4. YieldsInOrder'
    BY <1>1, <2>1, Zenon DEF YieldsInOrder
  <2> QED BY <2>2, <2>3, <2>4
<1>4. ASSUME UNCHANGED channel, n' \in Nat, script' \in Seq(Yields),
             prod' = "end" => script' = <<>>,
             prod' # "returned" => SentChunks' = SentChunks
      PROVE  OrderInv'
  <2>1. ASSUME ChannelInv PROVE ChannelInv'
    <3>1. ASSUME NEW i \in 1 .. Len(channel) PROVE channel[i].kind = "chunk"
      BY <1>1, <2>1 DEF ChannelInv
    <3> QED BY <1>1, <1>3, <1>4, <2>1, <3>1 DEF ChannelInv
  <2> QED BY <1>1, <1>2, <1>3, <1>4, <2>1 DEF OrderInv, consVars
<1>5. CASE ProducerNext(r)
  <2>1. CASE script = <<>>
    <3>1. /\ UNCHANGED <<channel, script, n>> /\ prod' = "end" /\ SentChunks' = SentChunks
      BY <1>5, <2>1 DEF ProducerNext, Producing, SentChunks
    <3> QED BY <1>1, <1>4, <2>1, <3>1
  <2>2. CASE script # <<>> /\ Head(script) = "chunk"
    <3>1. /\ UNCHANGED channel /\ prod' = "send" /\ n' = n + 1 /\ script' = Tail(script)
          /\ prod = "next"
      BY <1>5, <2>2 DEF ProducerNext, Producing
    <3>2. SentChunks' = SentChunks
      BY <1>1, <3>1 DEF SentChunks
    <3>3. script' \in Seq(Yields) /\ n' \in Nat
      BY <1>1, <2>2, <3>1
    <3> QED BY <1>4, <3>1, <3>2, <3>3
  <2>3. CASE script # <<>> /\ Head(script) # "chunk"
    <3>1. /\ UNCHANGED <<channel, n>> /\ prod' \in {"hold", "error"} /\ script' = Tail(script)
          /\ prod = "next"
      BY <1>5, <2>3 DEF ProducerNext, Producing
    <3>2. SentChunks' = SentChunks /\ script' \in Seq(Yields)
      BY <1>1, <2>3, <3>1 DEF SentChunks
    <3> QED BY <1>1, <1>4, <3>1, <3>2
  <2> QED BY <2>1, <2>2, <2>3
<1>6. CASE ProducerCanceled(r)
  <2>1. UNCHANGED <<channel, script, n>> /\ prod' = "returned"
    BY <1>6 DEF ProducerCanceled
  <2> QED BY <1>1, <1>4, <2>1
<1>7. CASE ProducerSchedule(r) \/ ProducerHold(r)
  <2>1. UNCHANGED <<channel, script, n>> /\ prod' = "next" /\ prod # "send"
    BY <1>7 DEF ProducerSchedule, ProducerHold, Producing
  <2> QED BY <1>1, <1>4, <2>1 DEF SentChunks
<1>8. ASSUME NEW k \in {"chunk", "completed", "error"}, NEW x \in Nat, Put(k, x),
             UNCHANGED <<n, script>>, prod' # "end",
             IF k = "chunk" THEN prod = "send" /\ x = n /\ prod' \notin {"send", "returned"}
             ELSE prod' = "returned" /\ prod # "send",
             k = "completed" => script = <<>>
      PROVE  OrderInv'
  <2>1. PICK e : e = [kind |-> k, chunk |-> x]
    OBVIOUS
  <2>2. e \in [kind : {"chunk", "completed", "error"}, chunk : Nat] /\ e.kind = k /\ e.chunk = x
    BY <2>1
  <2>3. /\ channel' \in Seq([kind : {"chunk", "completed", "error"}, chunk : Nat])
        /\ Len(channel') = Len(channel) + 1 /\ channel'[Len(channel) + 1] = e
        /\ \A i \in 1 .. Len(channel) : channel'[i] = channel[i]
    <3>1. channel' = Append(channel, e)
      BY <1>8, <2>1 DEF Put
    <3> QED BY <1>1, <2>2, <3>1, ChannelElements
  <2>4. ASSUME ChannelInv PROVE ChannelInv'
    <3>1. TakenChunks + Len(channel) = SentChunks
      BY <1>1, <2>4 DEF ChannelInv
    <3>2. ASSUME NEW i \in 1 .. Len(channel) PROVE channel'[i].kind = "chunk"
                                                   /\ channel'[i].chunk = TakenChunks + i
      BY <1>1, <2>3, <2>4 DEF ChannelInv
    <3>3. CASE k = "chunk"
      <4>1. TakenChunks + (Len(channel) + 1) = n /\ SentChunks' = n
        BY <1>1, <1>3, <1>8, <3>1, <3>3 DEF SentChunks
      <4>2. ASSUME NEW i \in 1 .. Len(channel')
            PROVE  channel'[i].kind = "chunk" /\ channel'[i].chunk = TakenChunks + i
        <5>1. i \in 1 .. Len(channel) \/ i = Len(channel) + 1
          BY <1>1, <2>3
        <5> QED BY <1>8, <2>2, <2>3, <3>2, <3>3, <4>1, <5>1
      <4> QED BY <1>3, <2>3, <4>1, <4>2 DEF ChannelInv
    <3>4. CASE k # "chunk"
      <4>1. TakenChunks + (Len(channel) + 1) = n + 1
        <5>1. SentChunks = n
          BY <1>8, <3>4 DEF SentChunks
        <5> QED BY <1>1, <1>3, <3>1, <5>1
      <4>2. ASSUME NEW i \in 1 .. Len(channel')
            PROVE  IF channel'[i].kind = "chunk" THEN channel'[i].chunk = TakenChunks + i
                   ELSE i = Len(channel') /\ channel'[i].kind = k
        <5>1. i \in 1 .. Len(channel) \/ i = Len(channel) + 1
          BY <1>1, <2>3
        <5> QED BY <1>8, <2>2, <2>3, <3>2, <3>4, <5>1
      <4> QED BY <1>3, <1>8, <2>3, <3>4, <4>1, <4>2 DEF ChannelInv
    <3> QED BY <3>3, <3>4
  <2> QED BY <1>1, <1>2, <1>3, <1>8, <2>3, <2>4 DEF OrderInv, consVars
<1>9. CASE ProducerSend(r)
  BY <1>1, <1>8, <1>9 DEF ProducerSend, Producing
<1>10. CASE ProducerEnd(r)
  <2>1. script = <<>>
    BY <1>10 DEF ProducerEnd, Producing, OrderInv
  <2> QED BY <1>8, <1>10, <2>1 DEF ProducerEnd, Producing
<1>11. CASE ProducerError(r)
  BY <1>8, <1>11 DEF ProducerError, Producing
<1> QED BY <1>5, <1>6, <1>7, <1>9, <1>10, <1>11
\* Every step of the consumer preserves OrderInv.
LEMMA ConsumerKeepsOrder ==
    ASSUME OrderInv, Consume
    PROVE  OrderInv'
<1>1. /\ n \in Nat /\ script \in Seq(Yields) /\ yielded \in Seq(Nat)
      /\ channel \in Seq([kind : {"chunk", "completed", "error"}, chunk : Nat])
      /\ Len(yielded) \in Nat /\ Len(channel) \in Nat /\ YieldsInOrder
      /\ prod = "end" => script = <<>>
  BY DEF OrderInv
<1>2. cons # "returned" /\ outcome = "none" /\ ChannelInv
  BY DEF OrderInv, Consume, ConsumerStart, ConsumerCanceled, Receive, YieldMapped
<1>3. UNCHANGED prodVars
  BY DEF Consume, ConsumerStart, ConsumerCanceled, Receive, YieldMapped, Stop
<1>4. UNCHANGED <<n, script, prod>>
  BY <1>3 DEF prodVars
<1>5. ASSUME NEW how, Stop(how),
             channel' \in Seq([kind : {"chunk", "completed", "error"}, chunk : Nat]),
             how = "completed" => prod = "returned" /\ Len(yielded) = n /\ script = <<>>
      PROVE  OrderInv'
  BY <1>1, <1>4, <1>5 DEF Stop, OrderInv, YieldsInOrder
<1>6. CASE ConsumerStart
  <2>1. cons' \notin {"returned", "map"} /\ cons # "map" /\ UNCHANGED <<channel, yielded, outcome>>
    BY <1>6 DEF ConsumerStart
  <2>2. TakenChunks' = TakenChunks /\ SentChunks' = SentChunks
    BY <1>4, <2>1 DEF TakenChunks, SentChunks
  <2>3. ChannelInv'
    BY <1>2, <1>4, <2>1, <2>2 DEF ChannelInv
  <2> QED BY <1>1, <1>2, <1>4, <2>1, <2>3 DEF OrderInv, YieldsInOrder
<1>7. CASE ConsumerCanceled
  BY <1>1, <1>5, <1>7 DEF ConsumerCanceled
<1>8. CASE Receive
  <2>1. cons = "receive" /\ channel # <<>> /\ channel' = Tail(channel)
    BY <1>8 DEF Receive
  <2>2. /\ Head(channel) = channel[1] /\ Len(channel) >= 1
        /\ channel' \in Seq([kind : {"chunk", "completed", "error"}, chunk : Nat])
        /\ Len(channel') = Len(channel) - 1
        /\ \A i \in 1 .. Len(channel') : channel'[i] = channel[i + 1]
    BY <1>1, <2>1
  <2>3. TakenChunks = Len(yielded) /\ 1 \in 1 .. Len(channel)
    BY <1>1, <2>1, <2>2 DEF TakenChunks
  <2>4. CASE Head(channel).kind = "chunk"
    <3>1. /\ cur' = channel[1].chunk /\ cons' = "map" /\ UNCHANGED <<yielded, outcome>>
      BY <1>8, <2>2, <2>4 DEF Receive
    <3>2. cur' = Len(yielded') + 1
      BY <1>2, <2>2, <2>3, <2>4, <3>1 DEF ChannelInv
    <3>3. TakenChunks' = TakenChunks + 1
      BY <1>1, <2>3, <3>1 DEF TakenChunks
    <3>4. ASSUME NEW i \in 1 .. Len(channel')
          PROVE  IF channel'[i].kind = "chunk" THEN channel'[i].chunk = TakenChunks' + i
                 ELSE /\ i = Len(channel') /\ prod' = "returned"
                      /\ channel'[i].kind = "completed" =>
                             TakenChunks' + i = n' + 1 /\ script' = <<>>
      <4>1. i + 1 \in 1 .. Len(channel) /\ channel'[i] = channel[i + 1]
        BY <1>1, <2>2
      <4>2. IF channel[i + 1].kind = "chunk" THEN channel[i + 1].chunk = TakenChunks + (i + 1)
            ELSE /\ i + 1 = Len(channel) /\ prod = "returned"
                 /\ channel[i + 1].kind = "completed" =>
                        TakenChunks + (i + 1) = n + 1 /\ script = <<>>
        BY <1>2, <4>1 DEF ChannelInv
      <4>3. TakenChunks + (i + 1) = TakenChunks' + i /\ (i + 1 = Len(channel) => i = Len(channel'))
        BY <1>1, <2>2, <2>3, <3>3
      <4> QED BY <1>4, <4>1, <4>2, <4>3, Zenon
    <3>5. prod' # "returned" => TakenChunks' + Len(channel') = SentChunks'
      <4>1. prod # "returned" => TakenChunks + Len(channel) = SentChunks
        BY <1>2 DEF ChannelInv
      <4>2. SentChunks' = SentChunks
        BY <1>4 DEF SentChunks
      <4> QED BY <1>1, <1>4, <2>2, <2>3, <3>3, <4>1, <4>2
    <3>6. ChannelInv'
      BY <3>4, <3>5 DEF ChannelInv
    <3> QED BY <1>1, <1>2, <1>4, <2>2, <3>1, <3>2, <3>6 DEF OrderInv, YieldsInOrder
  <2>5. CASE Head(channel).kind # "chunk"
    <3>1. Stop(Head(channel).kind)
      BY <1>8, <2>5 DEF Receive
    <3>2. /\ prod = "returned"
          /\ channel[1].kind = "completed" => TakenChunks + 1 = n + 1 /\ script = <<>>
      BY <1>2, <2>2, <2>3, <2>5 DEF ChannelInv
    <3>3. channel[1].kind = "completed" => Len(yielded) = n
      BY <1>1, <2>3, <3>2
    <3> QED BY <1>5, <2>2, <3>1, <3>2, <3>3
  <2> QED BY <2>4, <2>5
<1>9. CASE YieldMapped
  <2>1. UNCHANGED channel /\ cons = "map" /\ cur = Len(yielded) + 1
    BY <1>9 DEF YieldMapped, OrderInv
  <2>2. CASE Stop("error") \/ Stop("enough")
    BY <1>1, <1>5, <2>1, <2>2
  <2>3. CASE yielded' = Append(yielded, cur) /\ cons' = "receive" /\ outcome' = outcome
    <3>1. /\ yielded' \in Seq(Nat) /\ yielded' = [i \in 1 .. Len(yielded') |-> i]
          /\ Len(yielded') = Len(yielded) + 1
      <4>1. yielded = [i \in 1 .. Len(yielded) |-> i]
        BY <1>1 DEF YieldsInOrder
      <4>2. yielded' = Append(yielded, Len(yielded) + 1)
        BY <2>1, <2>3
      <4>3. Len(yielded') = Len(yielded) + 1
        BY <1>1, <4>2
      <4> QED BY <1>1, <4>1, <4>2, <4>3, NextInOrder
    <3>2. TakenChunks' = TakenChunks /\ SentChunks' = SentChunks
      BY <1>1, <1>4, <2>1, <2>3, <3>1 DEF TakenChunks, SentChunks
    <3>3. ChannelInv'
      BY <1>2, <1>4, <2>1, <3>2 DEF ChannelInv
    <3>4. YieldsInOrder'
      BY <1>2, <2>3, <3>1 DEF YieldsInOrder
    <3> QED BY <1>1, <1>2, <1>4, <2>1, <2>3, <3>1, <3>3, <3>4 DEF OrderInv
  <2> QED BY <1>9, <2>2, <2>3 DEF YieldMapped
<1> QED BY <1>6, <1>7, <1>8, <1>9 DEF Consume

\* The chunks sent, on the channel, at hand and yielded are the same chunks in the same
\* order, whichever goroutines run the producer and the mappers and whoever ends first.
THEOREM OrderInvariant == PMSpec => []OrderInv
<1>1. PMInit => OrderInv
  <2> SUFFICES ASSUME PMInit PROVE OrderInv
    OBVIOUS
  <2>1. /\ script \in Seq(Yields) /\ prod = "next" /\ n = 0 /\ channel = <<>>
        /\ cons = "start" /\ yielded = <<>> /\ outcome = "none"
    BY ProducerMapperAssumption DEF PMInit
  <2>2. ChannelInv
    BY <2>1 DEF ChannelInv, TakenChunks, SentChunks
  <2> QED BY <2>1, <2>2 DEF OrderInv, YieldsInOrder
<1>2. OrderInv /\ [PMNext]_pmVars => OrderInv'
  <2> SUFFICES ASSUME OrderInv, [PMNext]_pmVars PROVE OrderInv'
    OBVIOUS
  <2>1. CASE Consume
    BY <2>1, ConsumerKeepsOrder
  <2>2. ASSUME NEW r \in Runners, Work(r) PROVE OrderInv'
    <3>1. CASE Mapper(r) \/ Runner(r)
      BY <3>1, OrderKept DEF Mapper, Runner
    <3> QED BY <2>2, <3>1, ProducerKeepsOrder DEF Work
  <2>3. CASE ContextCanceled \/ AllGone \/ UNCHANGED pmVars
    BY <2>3, OrderKept DEF ContextCanceled, AllGone, pmVars
  <2> QED BY <2>1, <2>2, <2>3 DEF PMNext
<1> QED BY <1>1, <1>2, PTL DEF PMSpec

\* CursoredProducerMapperIterator yields the producer's chunks in order, without a gap
\* and none twice, and all of them when it ends by itself.
THEOREM ChunksAreInOrder == PMSpec => []YieldsInOrder
<1>1. OrderInv => YieldsInOrder
  BY DEF OrderInv
<1> QED BY <1>1, OrderInvariant, PTL
=============================================================================
