-------------------------- MODULE SimEngineProofs --------------------------
(***************************************************************************)
(* The safety of SimEngine for every workload, platform and agent: time    *)
(* never runs backwards through the heap, no core is busy longer than the  *)
(* episode lasts, no task runs on two cores, and the engine implements     *)
(* TaskSharing.                                                            *)
(***************************************************************************)
EXTENDS SimEngineTypes, SimEngineProps

-----------------------------------------------------------------------------
(* What a step does to the heap.                                           *)

(* The event of a started task is not an arrival and lies in the future. *)
LEMMA RunEventFuture ==
  ASSUME NEW t \in Tasks, NEW c \in Cores, NEW now \in Nat, NEW work \in Nat
  PROVE  /\ RunEvent(t, c, now, work).type # TASK_ARRIVAL
         /\ RunEvent(t, c, now, work).ts \in Nat
         /\ now <= RunEvent(t, c, now, work).ts
<1> DEFINE d == AdjustedDuration(work, c)
<1>1. d \in Nat
  BY AdjustedDurationType
<1>2. Quantum \in Nat
  BY PlatformAssumption
<1> HIDE DEF d
<1>3. /\ now + d \in Nat /\ now <= now + d
      /\ now + Quantum \in Nat /\ now <= now + Quantum
  BY <1>1, <1>2
<1>4. CASE d <= Quantum
  <2>1. RunEvent(t, c, now, work) = NewEvent(now + d, TASK_COMPLETION, t, c)
    BY <1>4 DEF RunEvent, d
  <2> QED
    BY <1>3, <2>1 DEF NewEvent, TASK_COMPLETION, TASK_ARRIVAL
<1>5. CASE ~ (d <= Quantum)
  <2>1. RunEvent(t, c, now, work) = NewEvent(now + Quantum, QUANTUM_EXPIRED, NoTask, c)
    BY <1>5 DEF RunEvent, d
  <2> QED
    BY <1>3, <2>1 DEF NewEvent, QUANTUM_EXPIRED, TASK_ARRIVAL
<1> QED
  BY <1>4, <1>5

(* The events of a heap that only loses e, or also gets an event that is   *)
(* not an arrival and not before the time now. *)
OnlyAdds(e, now) ==
  \A f \in event_queue' :
    \/ f \in event_queue \ {e}
    \/ f.type # TASK_ARRIVAL /\ f.ts \in Nat /\ now <= f.ts

LEMMA PushOnlyAdds ==
  ASSUME NEW e, NEW ev, NEW now, Push(e, ev),
         ev.type # TASK_ARRIVAL, ev.ts \in Nat, now <= ev.ts
  PROVE  OnlyAdds(e, now)
BY DEF Push, OnlyAdds

LEMMA StartNextOnlyAdds ==
  ASSUME TypeOK, NEW e, NEW c \in Cores, NEW st, NEW asg, NEW switched,
         NEW now \in Nat, NEW clock \in Nat, clock_ns' = clock, now <= clock,
         NEW left \in [Tasks -> Nat], remaining_work_ns' = left,
         StartNextFromQueue(e, c, st, asg, switched)
  PROVE  OnlyAdds(e, now)
<1>1. CASE IdleCore(e, c, st, asg, switched)
  BY <1>1 DEF IdleCore, PushNothing, OnlyAdds
<1>2. ASSUME NEW i \in DOMAIN run_queue[c], StartQueued(e, c, st, asg, switched, i)
      PROVE  OnlyAdds(e, now)
  <2> DEFINE t == run_queue[c][i]
             ev == RunEvent(t, c, clock, left[t])
  <2>1. t \in Tasks
    BY LenProperties, ElementOfSeq DEF TypeOK, CoresOK
  <2>2. ev.type # TASK_ARRIVAL /\ ev.ts \in Nat /\ clock <= ev.ts
    BY <2>1, RunEventFuture
  <2>3. Push(e, ev)
    BY <1>2 DEF StartQueued
  <2> HIDE DEF ev
  <2>4. now <= ev.ts
    BY <2>2
  <2> QED
    BY <2>2, <2>3, <2>4, PushOnlyAdds
<1> QED
  BY <1>1, <1>2 DEF StartNextFromQueue

LEMMA PushAgainOnlyAdds ==
  ASSUME NEW e, e.ts \in Nat, e.type \in {DEADLINE_CHECK, MIGRATION_CHECK},
         NEW interval \in Nat, PushAgain(e, interval)
  PROVE  OnlyAdds(e, e.ts)
<1> DEFINE ev == NewEvent(e.ts + interval, e.type, NoTask, NoCore)
<1>1. CASE Push(e, ev)
  <2>1. ev.type # TASK_ARRIVAL
    BY DEF NewEvent, TASK_ARRIVAL, DEADLINE_CHECK, MIGRATION_CHECK
  <2>2. ev.ts \in Nat /\ e.ts <= ev.ts
    BY DEF NewEvent
  <2> QED
    BY <1>1, <2>1, <2>2, PushOnlyAdds
<1>2. CASE PushNothing(e)
  BY <1>2 DEF PushNothing, OnlyAdds
<1> QED
  BY <1>1, <1>2 DEF PushAgain

(* The event e is handled in this step. *)
Handled(e) ==
  \/ HandleTaskArrival(e)
  \/ HandleTaskCompletion(e)
  \/ DropStaleCompletion(e)
  \/ DropIdleQuantum(e)
  \/ FreeCoreOfDeadTask(e)
  \/ FinishInQuantum(e)
  \/ PreemptAtQuantum(e)
  \/ HandleDeadlineCheck(e)
  \/ \E from, to \in Migratable : MigrateTask(e, from, to)
  \/ SkipMigration(e)

LEMMA ProcessEventHandles ==
  ASSUME ProcessEvent
  PROVE  \E e \in event_queue : Handled(e)
BY DEF ProcessEvent, Handled

(* Every handler pops the next event, leaves the clock at that event's     *)
(* time or later, and schedules nothing before it. *)
PopsInOrder(e) ==
  /\ IsNextEvent(e)
  /\ event_ts' = e.ts
  /\ UpdateCoreBusyTime(e)
  /\ e.ts <= clock_ns'
  /\ OnlyAdds(e, e.ts)

LEMMA HandledPopsInOrder ==
  ASSUME TypeOK, NEW e \in event_queue, Handled(e)
  PROVE  PopsInOrder(e)
<1>1. e \in Event /\ e.ts \in Nat
  BY DEF TypeOK, LoopOK, Event, ArrivalEvent, CompletionEvent, QuantumEvent, PeriodicEvent
<1>2. ASSUME NEW type, PopEvent(e, type), clock_ns' = e.ts, OnlyAdds(e, e.ts)
      PROVE  PopsInOrder(e)
  BY <1>1, <1>2 DEF PopEvent, PopsInOrder
<1>3. ASSUME PushNothing(e) PROVE OnlyAdds(e, e.ts)
  BY <1>3 DEF PushNothing, OnlyAdds
<1>4. CASE HandleTaskArrival(e)
  BY <1>2, <1>3, <1>4 DEF HandleTaskArrival
<1>5. CASE HandleTaskCompletion(e)
  <2> DEFINE ended == [state EXCEPT ![e.task] = "TERMINATED"]
  <2>1. /\ PopEvent(e, TASK_COMPLETION) /\ clock_ns' = e.ts
        /\ remaining_work_ns' = remaining_work_ns
    BY <1>5 DEF HandleTaskCompletion
  <2>2. e.core \in Cores
    BY <1>1, <2>1, EventFields DEF PopEvent
  <2>3. remaining_work_ns \in [Tasks -> Nat] /\ e.ts <= e.ts
    BY <1>1 DEF TypeOK, TasksOK
  <2>4. ASSUME StartNextFromQueue(e, e.core, ended, assigned_cpu, 0)
        PROVE  OnlyAdds(e, e.ts)
    BY <1>1, <2>1, <2>2, <2>3, <2>4, StartNextOnlyAdds
  <2>5. OnlyAdds(e, e.ts)
    BY <1>3, <1>5, <2>4 DEF HandleTaskCompletion
  <2> QED
    BY <1>2, <2>1, <2>5
<1>6. CASE DropStaleCompletion(e)
  BY <1>2, <1>3, <1>6 DEF DropStaleCompletion
<1>7. CASE DropIdleQuantum(e)
  BY <1>2, <1>3, <1>7 DEF DropIdleQuantum
<1>8. CASE FreeCoreOfDeadTask(e)
  BY <1>2, <1>3, <1>8 DEF FreeCoreOfDeadTask
<1>9. CASE FinishInQuantum(e)
  <2> DEFINE ev == NewEvent(e.ts, TASK_COMPLETION, current_task[e.core], e.core)
  <2>1. ev.type # TASK_ARRIVAL /\ ev.ts \in Nat /\ e.ts <= ev.ts
    BY <1>1 DEF NewEvent, TASK_COMPLETION, TASK_ARRIVAL
  <2>2. Push(e, ev)
    BY <1>9 DEF FinishInQuantum
  <2>3. OnlyAdds(e, e.ts)
    BY <2>1, <2>2, PushOnlyAdds
  <2> QED
    BY <1>2, <1>9, <2>3 DEF FinishInQuantum
<1>10. CASE PreemptAtQuantum(e)
  <2> DEFINE t == current_task[e.core]
  <2>1. /\ PopEvent(e, QUANTUM_EXPIRED) /\ t # NoTask
        /\ remaining_work_ns[t] > Quantum
        /\ remaining_work_ns' = [remaining_work_ns EXCEPT ![t] = @ - Quantum]
        /\ StartNextFromQueue(e, e.core, [state EXCEPT ![t] = "READY"],
                              [assigned_cpu EXCEPT ![t] = NoCore], 1)
    BY <1>10 DEF PreemptAtQuantum
  <2>2. e.core \in Cores
    BY <1>1, <2>1, EventFields DEF PopEvent
  <2>3. t \in Tasks
    BY <2>1, <2>2 DEF TypeOK, CoresOK
  <2>4. PICK cost \in CsMin .. CsMax : clock_ns' = e.ts + cost
    BY <1>10 DEF PreemptAtQuantum
  <2>5. cost \in Nat
    BY PlatformAssumption
  <2>6. e.ts + cost \in Nat /\ e.ts <= e.ts + cost
    BY <1>1, <2>5
  <2>7. [remaining_work_ns EXCEPT ![t] = @ - Quantum] \in [Tasks -> Nat]
    <3>1. remaining_work_ns \in [Tasks -> Nat] /\ Quantum \in Nat
      BY PlatformAssumption DEF TypeOK, TasksOK
    <3>2. remaining_work_ns[t] - Quantum \in Nat
      BY <2>1, <2>3, <3>1
    <3> QED
      BY <3>1, <3>2
  <2>8. OnlyAdds(e, e.ts)
    BY <1>1, <2>1, <2>2, <2>4, <2>6, <2>7, StartNextOnlyAdds
  <2> QED
    BY <2>1, <2>4, <2>6, <2>8 DEF PopEvent, PopsInOrder
<1>11. CASE HandleDeadlineCheck(e)
  <2>1. /\ PopEvent(e, DEADLINE_CHECK) /\ clock_ns' = e.ts
        /\ PushAgain(e, DeadlineCheckInterval)
    BY <1>11 DEF HandleDeadlineCheck
  <2>2. DeadlineCheckInterval \in Nat /\ e.type \in {DEADLINE_CHECK, MIGRATION_CHECK}
    BY <2>1, TimingAssumption DEF PopEvent
  <2>3. OnlyAdds(e, e.ts)
    BY <1>1, <2>1, <2>2, PushAgainOnlyAdds
  <2> QED
    BY <1>2, <2>1, <2>3
<1>12. ASSUME \/ \E from, to \in Migratable : MigrateTask(e, from, to)
              \/ SkipMigration(e)
       PROVE  PopsInOrder(e)
  <2>1. /\ PopEvent(e, MIGRATION_CHECK) /\ clock_ns' = e.ts
        /\ PushAgain(e, MigrationCheckInterval)
    BY <1>12 DEF MigrateTask, SkipMigration
  <2>2. MigrationCheckInterval \in Nat /\ e.type \in {DEADLINE_CHECK, MIGRATION_CHECK}
    BY <2>1, TimingAssumption DEF PopEvent
  <2>3. OnlyAdds(e, e.ts)
    BY <1>1, <2>1, <2>2, PushAgainOnlyAdds
  <2> QED
    BY <1>2, <2>1, <2>3
<1> QED
  BY <1>4, <1>5, <1>6, <1>7, <1>8, <1>9, <1>10, <1>11, <1>12 DEF Handled

(* A decision leaves the times alone and schedules nothing in the past.    *)
SchedulesAhead ==
  /\ UNCHANGED <<event_ts, clock_ns, core_busy_ns>>
  /\ \A f \in event_queue' :
       \/ f \in event_queue
       \/ f.type # TASK_ARRIVAL /\ f.ts \in Nat /\ clock_ns <= f.ts

LEMMA DecisionSchedulesAhead ==
  ASSUME TypeOK, NEW t \in Tasks, NEW a, ApplyAction(t, a)
  PROVE  SchedulesAhead
<1>1. clock_ns \in Nat /\ remaining_work_ns[t] \in Nat
  BY DEF TypeOK, LoopOK, TasksOK
<1>2. ASSUME NEW c \in Cores, Decision(t, a), PushRunEvent(t, c)
      PROVE  SchedulesAhead
  BY <1>1, <1>2, RunEventFuture DEF Decision, PushRunEvent, SchedulesAhead
<1>3. ASSUME Decision(t, a), UNCHANGED event_queue
      PROVE  SchedulesAhead
  BY <1>3 DEF Decision, SchedulesAhead
<1>4. CASE AssignToGpu(t, a)
  <2>1. assigned_cpu[t] # NoCore => assigned_cpu[t] \in Cores
    BY DEF TypeOK, TasksOK
  <2> QED
    BY <1>2, <1>3, <1>4, <2>1 DEF AssignToGpu
<1>5. CASE \E c \in Cores : PreemptCurrent(t, a, c) \/ StartOnIdleCore(t, a, c)
  BY <1>2, <1>5 DEF PreemptCurrent, StartOnIdleCore
<1>6. CASE \E c \in Cores : EnqueueOnBusyCore(t, a, c)
  BY <1>3, <1>6 DEF EnqueueOnBusyCore
<1> QED
  BY <1>4, <1>5, <1>6 DEF ApplyAction

-----------------------------------------------------------------------------
(* Time.                                                                   *)

(* The clock is never behind the event popped last, no pending event is,   *)
(* and no core was busy for longer than the time of that event. *)
TimeInv == NothingInThePast /\ BusyWithinElapsed

LEMMA TimeInit == Init => TimeInv
<1> SUFFICES ASSUME Init PROVE TimeInv
  OBVIOUS
<1>1. \A f \in event_queue : f.ts \in Nat
  BY InitType DEF TypeOK, LoopOK, Event, ArrivalEvent, CompletionEvent, QuantumEvent,
                  PeriodicEvent
<1> QED
  BY <1>1 DEF Init, TimeInv, NothingInThePast, BusyWithinElapsed

LEMMA TimeOfEvent ==
  ASSUME TypeOK, TimeInv, NEW e \in event_queue, PopsInOrder(e)
  PROVE  TimeInv'
<1>1. \A f \in event_queue : f.ts \in Nat
  BY DEF TypeOK, LoopOK, Event, ArrivalEvent, CompletionEvent, QuantumEvent, PeriodicEvent
<1>2. event_ts \in Nat /\ clock_ns \in Nat
  BY DEF TypeOK, LoopOK
<1>3. event_ts <= clock_ns /\ event_ts <= e.ts
  BY DEF TimeInv, NothingInThePast
<1>4. \A f \in event_queue \ {e} : e.ts <= f.ts
  BY <1>1 DEF PopsInOrder, IsNextEvent, Before
<1>5. NothingInThePast'
  BY <1>4 DEF PopsInOrder, OnlyAdds, NothingInThePast
<1>6. BusyWithinElapsed'
  <2> SUFFICES ASSUME NEW c \in Cores PROVE core_busy_ns'[c] <= e.ts
    BY DEF PopsInOrder, BusyWithinElapsed
  <2>1. core_busy_ns[c] \in Nat /\ core_busy_ns[c] <= event_ts
    BY DEF TypeOK, AccountsOK, TimeInv, BusyWithinElapsed
  <2>2. \/ core_busy_ns'[c] = core_busy_ns[c]
        \/ core_busy_ns'[c] = core_busy_ns[c] + (e.ts - clock_ns)
    BY DEF PopsInOrder, UpdateCoreBusyTime
  <2>3. core_busy_ns[c] <= e.ts /\ core_busy_ns[c] + (e.ts - clock_ns) <= e.ts
    BY <1>1, <1>2, <1>3, <2>1
  <2> QED
    BY <2>2, <2>3
<1> QED
  BY <1>5, <1>6 DEF TimeInv

LEMMA TimeOfDecision ==
  ASSUME TypeOK, TimeInv, SchedulesAhead
  PROVE  TimeInv'
<1>1. event_ts \in Nat /\ clock_ns \in Nat /\ event_ts <= clock_ns
  BY DEF TypeOK, LoopOK, TimeInv, NothingInThePast
<1>2. \A f \in event_queue' : event_ts <= f.ts
  BY <1>1 DEF SchedulesAhead, TimeInv, NothingInThePast
<1> QED
  BY <1>1, <1>2 DEF SchedulesAhead, TimeInv, NothingInThePast, BusyWithinElapsed

LEMMA TimeStep ==
  ASSUME TypeOK, TimeInv, [Next]_vars
  PROVE  TimeInv'
<1>1. CASE ProcessEvent
  BY <1>1, ProcessEventHandles, HandledPopsInOrder, TimeOfEvent
<1>2. ASSUME NEW t \in Tasks, NEW a \in Actions, ApplyAction(t, a) PROVE TimeInv'
  BY <1>2, DecisionSchedulesAhead, TimeOfDecision
<1>3. CASE EndEpisode
  BY <1>3 DEF EndEpisode, LoopEnds, TimeInv, NothingInThePast, BusyWithinElapsed
<1>4. CASE UNCHANGED vars
  BY <1>4 DEF vars, loopVars, TimeInv, NothingInThePast, BusyWithinElapsed
<1> QED
  BY <1>1, <1>2, <1>3, <1>4 DEF Next, Decide

(* Timestamps leave the heap in order, although context switches move the  *)
(* clock past pending events (push_event, pop_event). *)
THEOREM TimeInOrder == Spec => []NothingInThePast
<1>1. TypeOK /\ TimeInv /\ [Next]_vars => TimeInv'
  BY TimeStep
<1>2. TimeInv => NothingInThePast
  BY DEF TimeInv
<1> QED
  BY <1>1, <1>2, TimeInit, TypeCorrect, PTL DEF Spec

(* No core is busy longer than the episode has lasted                      *)
(* (_update_core_busy_time). *)
THEOREM BusyTimeCorrect == Spec => []BusyWithinElapsed
<1>1. TypeOK /\ TimeInv /\ [Next]_vars => TimeInv'
  BY TimeStep
<1>2. TimeInv => BusyWithinElapsed
  BY DEF TimeInv
<1> QED
  BY <1>1, <1>2, TimeInit, TypeCorrect, PTL DEF Spec

-----------------------------------------------------------------------------
(* The moves: what a step may do to the states of the tasks and to the     *)
(* current tasks of the cores.  Every step is one of them, and each of     *)
(* them keeps Mutex and is a step of TaskSharing.                          *)

Stays == UNCHANGED <<state, current_task>>

Arrives(t) ==
  /\ state[t] = "NONE"
  /\ state' = [state EXCEPT ![t] = "READY"]
  /\ UNCHANGED current_task

Starts(t, c) ==
  /\ state[t] = "READY"
  /\ current_task[c] = NoTask
  /\ state' = [state EXCEPT ![t] = "RUNNING"]
  /\ current_task' = [current_task EXCEPT ![c] = t]

(* The GPU queue is the one trace of a task that runs on no core. *)
Offloads(t) ==
  /\ state[t] = "READY"
  /\ state' = [state EXCEPT ![t] = "RUNNING"]
  /\ UNCHANGED current_task
  /\ gpu_queue' # gpu_queue

(* t ends by an event of a core that runs something else. *)
EndsElsewhere(t) ==
  /\ state[t] = "RUNNING"
  /\ state' = [state EXCEPT ![t] = "TERMINATED"]
  /\ UNCHANGED current_task

Ends(t, c) ==
  /\ state[t] = "RUNNING"
  /\ current_task[c] = t
  /\ state' = [state EXCEPT ![t] = "TERMINATED"]
  /\ current_task' = [current_task EXCEPT ![c] = NoTask]

EndsFor(t, u, c) ==
  /\ state[t] = "RUNNING"
  /\ current_task[c] = t
  /\ state[u] = "READY"
  /\ state' = [state EXCEPT ![t] = "TERMINATED", ![u] = "RUNNING"]
  /\ current_task' = [current_task EXCEPT ![c] = u]

(* The core forgets a task that ended elsewhere. *)
Forgets(c) ==
  /\ current_task[c] # NoTask
  /\ state[current_task[c]] # "RUNNING"
  /\ UNCHANGED state
  /\ current_task' = [current_task EXCEPT ![c] = NoTask]

Yields(t, c) ==
  /\ state[t] = "RUNNING"
  /\ current_task[c] = t
  /\ state' = [state EXCEPT ![t] = "READY"]
  /\ current_task' = [current_task EXCEPT ![c] = NoTask]

(* The task that takes over may be t itself, by an entry left in the queue. *)
YieldsFor(t, u, c) ==
  /\ state[t] = "RUNNING"
  /\ current_task[c] = t
  /\ u = t \/ state[u] = "READY"
  /\ state' = [[state EXCEPT ![t] = "READY"] EXCEPT ![u] = "RUNNING"]
  /\ current_task' = [current_task EXCEPT ![c] = u]

(* The moves of a step that handles no arrival. *)
Moves ==
  \/ Stays
  \/ \E t \in Tasks : Offloads(t) \/ EndsElsewhere(t)
  \/ \E t \in Tasks, c \in Cores : Starts(t, c) \/ Ends(t, c) \/ Yields(t, c)
  \/ \E t, u \in Tasks, c \in Cores : EndsFor(t, u, c) \/ YieldsFor(t, u, c)
  \/ \E c \in Cores : Forgets(c)

(* The two outcomes of _start_next_from_queue on core c, from the task     *)
(* states st: the core is left without a task, or u is started.            *)
LeavesIdle(c, st) ==
  /\ state' = st
  /\ current_task' = [current_task EXCEPT ![c] = NoTask]
Launches(u, c, st) ==
  /\ st[u] = "READY"
  /\ state' = [st EXCEPT ![u] = "RUNNING"]
  /\ current_task' = [current_task EXCEPT ![c] = u]

LEMMA StartNextOutcome ==
  ASSUME TypeOK, NEW e, NEW c \in Cores, NEW st, NEW asg, NEW switched,
         StartNextFromQueue(e, c, st, asg, switched)
  PROVE  LeavesIdle(c, st) \/ \E u \in Tasks : Launches(u, c, st)
<1>1. CASE IdleCore(e, c, st, asg, switched)
  BY <1>1 DEF IdleCore, LeavesIdle
<1>2. ASSUME NEW i \in DOMAIN run_queue[c], StartQueued(e, c, st, asg, switched, i)
      PROVE  \E u \in Tasks : Launches(u, c, st)
  <2>1. run_queue[c][i] \in Tasks
    BY LenProperties, ElementOfSeq DEF TypeOK, CoresOK
  <2>2. Launches(run_queue[c][i], c, st)
    BY <1>2 DEF StartQueued, IsFirstReady, Launches
  <2> QED
    BY <2>1, <2>2
<1> QED
  BY <1>1, <1>2 DEF StartNextFromQueue

LEMMA HandledMoves ==
  ASSUME TypeOK, NEW e \in event_queue, Handled(e)
  PROVE  \/ e.type = TASK_ARRIVAL /\ HandleTaskArrival(e)
         \/ e.type # TASK_ARRIVAL /\ Moves
<1>1. e \in Event
  BY DEF TypeOK, LoopOK
<1>2. state \in [Tasks -> TaskState] /\ current_task \in [Cores -> Tasks \cup {NoTask}]
  BY DEF TypeOK, TasksOK, CoresOK
<1>3. /\ TASK_COMPLETION # TASK_ARRIVAL /\ QUANTUM_EXPIRED # TASK_ARRIVAL
      /\ DEADLINE_CHECK # TASK_ARRIVAL /\ MIGRATION_CHECK # TASK_ARRIVAL
  BY DEF TASK_ARRIVAL, TASK_COMPLETION, QUANTUM_EXPIRED, DEADLINE_CHECK, MIGRATION_CHECK
<1>4. CASE HandleTaskArrival(e)
  BY <1>4 DEF HandleTaskArrival, PopEvent
<1>5. CASE HandleTaskCompletion(e)
  <2> DEFINE t == e.task
             ended == [state EXCEPT ![t] = "TERMINATED"]
  <2>1. e.type = TASK_COMPLETION /\ state[t] = "RUNNING"
    BY <1>5 DEF HandleTaskCompletion, PopEvent, MayComplete
  <2>2. t \in Tasks /\ e.core \in Cores
    BY <1>1, <2>1, EventFields
  <2>3. CASE current_task[e.core] = t /\ StartNextFromQueue(e, e.core, ended, assigned_cpu, 0)
    <3>1. CASE LeavesIdle(e.core, ended)
      <4>1. Ends(t, e.core)
        BY <2>1, <2>3, <3>1 DEF LeavesIdle, Ends
      <4> QED
        BY <1>3, <2>1, <2>2, <4>1 DEF Moves
    <3>2. ASSUME NEW u \in Tasks, Launches(u, e.core, ended) PROVE Moves
      <4>1. u # t /\ state[u] = "READY"
        BY <1>2, <2>2, <3>2 DEF Launches
      <4>2. EndsFor(t, u, e.core)
        BY <1>2, <2>1, <2>3, <3>2, <4>1 DEF Launches, EndsFor
      <4> QED
        BY <2>2, <4>2 DEF Moves
    <3> QED
      BY <1>3, <2>1, <2>2, <2>3, <3>1, <3>2, StartNextOutcome
  <2>4. CASE state' = ended /\ UNCHANGED coreVars
    <3>1. EndsElsewhere(t)
      BY <2>1, <2>4 DEF EndsElsewhere, coreVars
    <3> QED
      BY <1>3, <2>1, <2>2, <3>1 DEF Moves
  <2> QED
    BY <1>5, <2>3, <2>4 DEF HandleTaskCompletion
<1>6. CASE DropStaleCompletion(e) \/ DropIdleQuantum(e)
  BY <1>3, <1>6 DEF DropStaleCompletion, DropIdleQuantum, PopEvent, taskVars, coreVars,
                    Moves, Stays
<1>7. CASE FreeCoreOfDeadTask(e)
  <2>1. e.type = QUANTUM_EXPIRED /\ Forgets(e.core)
    BY <1>7 DEF FreeCoreOfDeadTask, PopEvent, Forgets, taskVars
  <2>2. e.core \in Cores
    BY <1>1, <2>1, EventFields
  <2> QED
    BY <1>3, <2>1, <2>2 DEF Moves
<1>8. CASE FinishInQuantum(e)
  BY <1>3, <1>8 DEF FinishInQuantum, PopEvent, coreVars, Moves, Stays
<1>9. CASE PreemptAtQuantum(e)
  <2> DEFINE t == current_task[e.core]
             st == [state EXCEPT ![t] = "READY"]
             asg == [assigned_cpu EXCEPT ![t] = NoCore]
  <2>1. /\ e.type = QUANTUM_EXPIRED /\ state[t] = "RUNNING" /\ t # NoTask
        /\ StartNextFromQueue(e, e.core, st, asg, 1)
    BY <1>9 DEF PreemptAtQuantum, PopEvent
  <2>2. e.core \in Cores
    BY <1>1, <2>1, EventFields
  <2>3. t \in Tasks
    BY <1>2, <2>1, <2>2
  <2>4. CASE LeavesIdle(e.core, st)
    <3>1. Yields(t, e.core)
      BY <2>1, <2>4 DEF LeavesIdle, Yields
    <3> QED
      BY <1>3, <2>1, <2>2, <2>3, <3>1 DEF Moves
  <2>5. ASSUME NEW u \in Tasks, Launches(u, e.core, st) PROVE Moves
    <3>1. u = t \/ state[u] = "READY"
      BY <1>2, <2>5 DEF Launches
    <3>2. YieldsFor(t, u, e.core)
      BY <2>1, <2>5, <3>1 DEF Launches, YieldsFor
    <3> QED
      BY <2>2, <2>3, <3>2 DEF Moves
  <2> QED
    BY <1>3, <2>1, <2>2, <2>4, <2>5, StartNextOutcome
<1>10. CASE HandleDeadlineCheck(e)
  BY <1>3, <1>10 DEF HandleDeadlineCheck, PopEvent, coreVars, Moves, Stays
<1>11. CASE \E from, to \in Migratable : MigrateTask(e, from, to)
  BY <1>3, <1>11 DEF MigrateTask, PopEvent, Moves, Stays
<1>12. CASE SkipMigration(e)
  BY <1>3, <1>12 DEF SkipMigration, PopEvent, taskVars, coreVars, Moves, Stays
<1> QED
  BY <1>4, <1>5, <1>6, <1>7, <1>8, <1>9, <1>10, <1>11, <1>12 DEF Handled

LEMMA DecisionMoves ==
  ASSUME TypeOK, NEW t \in Tasks, NEW a, IsPicked(t), ApplyAction(t, a)
  PROVE  Moves
<1>1. state \in [Tasks -> TaskState] /\ current_task \in [Cores -> Tasks \cup {NoTask}]
  BY DEF TypeOK, TasksOK, CoresOK
<1>2. state[t] = "READY"
  BY DEF IsPicked
<1>3. CASE AssignToGpu(t, a)
  <2>1. gpu_queue \in Seq(Tasks) /\ gpu_queue' = Append(gpu_queue, t)
    BY <1>3 DEF TypeOK, AccountsOK, AssignToGpu
  <2>2. gpu_queue' # gpu_queue
    BY <2>1, AppendProperties
  <2> QED
    BY <1>2, <1>3, <2>2 DEF AssignToGpu, Moves, Offloads
<1>4. ASSUME NEW c \in Cores, PreemptCurrent(t, a, c) PROVE Moves
  <2> DEFINE u == current_task[c]
  <2>1. /\ u # NoTask /\ state[u] = "RUNNING"
        /\ state' = [state EXCEPT ![u] = "READY", ![t] = "RUNNING"]
        /\ current_task' = [current_task EXCEPT ![c] = t]
    BY <1>4 DEF PreemptCurrent, Preempts
  <2>2. u \in Tasks
    BY <1>1, <2>1
  <2>3. YieldsFor(u, t, c)
    BY <1>2, <2>1 DEF YieldsFor
  <2> QED
    BY <2>2, <2>3 DEF Moves
<1>5. ASSUME NEW c \in Cores, StartOnIdleCore(t, a, c) PROVE Moves
  BY <1>2, <1>5 DEF StartOnIdleCore, Moves, Starts
<1>6. ASSUME NEW c \in Cores, EnqueueOnBusyCore(t, a, c) PROVE Moves
  BY <1>6 DEF EnqueueOnBusyCore, Moves, Stays
<1> QED
  BY <1>3, <1>4, <1>5, <1>6 DEF ApplyAction

-----------------------------------------------------------------------------
(* Mutual exclusion.                                                       *)

(* The pending arrivals are of different tasks, which have not arrived.    *)
ArrivesOnce ==
  /\ \A e \in event_queue : e.type = TASK_ARRIVAL => state[e.task] = "NONE"
  /\ \A e, f \in event_queue :
       e.type = TASK_ARRIVAL /\ f.type = TASK_ARRIVAL /\ e.task = f.task => e = f

SharingInv == Mutex /\ ArrivesOnce

LEMMA FreshShares == Fresh => SharingInv
<1> SUFFICES ASSUME Fresh PROVE SharingInv
  OBVIOUS
<1>1. Mutex
  BY DEF Fresh, Mutex, OneCorePerTask, CurrentIsStarted
<1>2. PICK at \in [Tasks -> ArrivalTimes] : event_queue = PeriodicEvents \cup Arrivals(at)
  BY DEF Fresh
<1>3. \A e \in PeriodicEvents : e.type # TASK_ARRIVAL
  BY DEF PeriodicEvents, TASK_ARRIVAL, DEADLINE_CHECK, MIGRATION_CHECK
<1>4. \A e \in Arrivals(at) : e.task \in Tasks
  BY DEF Arrivals
<1>5. \A e, f \in Arrivals(at) : e.task = f.task => e = f
  BY DEF Arrivals
<1>6. ArrivesOnce
  BY <1>2, <1>3, <1>4, <1>5 DEF Fresh, ArrivesOnce
<1> QED
  BY <1>1, <1>6 DEF SharingInv

(* The same of the state after a restart. *)
LEMMA FreshNext == Fresh' /\ RewardsOK' => TypeOK' /\ SharingInv'
<1>1. Fresh /\ RewardsOK => TypeOK /\ SharingInv
  BY FreshType, FreshShares
<1> QED
  BY <1>1, PTL

LEMMA SharingInit == Init => SharingInv
BY InitFresh, FreshShares

(* A task without a core starts, or takes the place of one that leaves. *)
LEMMA MovesMutex ==
  ASSUME TypeOK, Mutex, Moves
  PROVE  Mutex'
<1>1. state \in [Tasks -> TaskState] /\ current_task \in [Cores -> Tasks \cup {NoTask}]
  BY DEF TypeOK, TasksOK, CoresOK
<1>2. NoTask \notin Tasks
  BY SizeAssumption DEF NoTask, Tasks
<1>3. CASE Stays
  BY <1>3 DEF Stays, Mutex, OneCorePerTask, CurrentIsStarted
<1>4. ASSUME NEW t \in Tasks, Offloads(t) \/ EndsElsewhere(t) PROVE Mutex'
  BY <1>1, <1>4 DEF Offloads, EndsElsewhere, Mutex, OneCorePerTask, CurrentIsStarted
<1>5. ASSUME NEW t \in Tasks, NEW c \in Cores, Starts(t, c) PROVE Mutex'
  <2>1. \A d \in Cores : current_task[d] # t
    BY <1>2, <1>5 DEF Starts, Mutex, CurrentIsStarted
  <2>2. OneCorePerTask'
    BY <1>1, <1>5, <2>1 DEF Starts, Mutex, OneCorePerTask
  <2>3. CurrentIsStarted'
    BY <1>1, <1>5 DEF Starts, Mutex, CurrentIsStarted
  <2> QED
    BY <2>2, <2>3 DEF Mutex
<1>6. ASSUME NEW t \in Tasks, NEW c \in Cores, Ends(t, c) \/ Yields(t, c) PROVE Mutex'
  <2>1. OneCorePerTask'
    BY <1>1, <1>6 DEF Ends, Yields, Mutex, OneCorePerTask
  <2>2. CurrentIsStarted'
    BY <1>1, <1>2, <1>6 DEF Ends, Yields, Mutex, OneCorePerTask, CurrentIsStarted
  <2> QED
    BY <2>1, <2>2 DEF Mutex
<1>7. ASSUME NEW t \in Tasks, NEW u \in Tasks, NEW c \in Cores,
             EndsFor(t, u, c) \/ YieldsFor(t, u, c)
      PROVE  Mutex'
  <2>1. \A d \in Cores : current_task[d] = u => u = t /\ d = c
    BY <1>2, <1>7 DEF EndsFor, YieldsFor, Mutex, OneCorePerTask, CurrentIsStarted
  <2>2. OneCorePerTask'
    BY <1>1, <1>7, <2>1 DEF EndsFor, YieldsFor, Mutex, OneCorePerTask
  <2>3. \A d \in Cores : current_task[d] = t => d = c
    BY <1>2, <1>7 DEF EndsFor, YieldsFor, Mutex, OneCorePerTask
  <2>4. CurrentIsStarted'
    <3>1. CASE EndsFor(t, u, c)
      BY <1>1, <2>3, <3>1 DEF EndsFor, Mutex, CurrentIsStarted
    <3>2. CASE YieldsFor(t, u, c)
      BY <1>1, <2>3, <3>2 DEF YieldsFor, Mutex, CurrentIsStarted
    <3> QED
      BY <1>7, <3>1, <3>2
  <2> QED
    BY <2>2, <2>4 DEF Mutex
<1>8. ASSUME NEW c \in Cores, Forgets(c) PROVE Mutex'
  BY <1>1, <1>8 DEF Forgets, Mutex, OneCorePerTask, CurrentIsStarted
<1> QED
  BY <1>3, <1>4, <1>5, <1>6, <1>7, <1>8 DEF Moves

LEMMA ArrivalIsMove ==
  ASSUME TypeOK, ArrivesOnce, NEW e \in event_queue, HandleTaskArrival(e)
  PROVE  e.task \in Tasks /\ Arrives(e.task)
<1>1. e.type = TASK_ARRIVAL
  BY DEF HandleTaskArrival, PopEvent
<1>2. e.task \in Tasks
  BY <1>1, EventFields DEF TypeOK, LoopOK
<1> QED
  BY <1>1, <1>2 DEF HandleTaskArrival, ArrivesOnce, Arrives, coreVars

LEMMA ArrivesMutex ==
  ASSUME TypeOK, Mutex, NEW t \in Tasks, Arrives(t)
  PROVE  Mutex'
<1>1. state \in [Tasks -> TaskState] /\ current_task \in [Cores -> Tasks \cup {NoTask}]
  BY DEF TypeOK, TasksOK, CoresOK
<1>2. \A d \in Cores : current_task[d] # NoTask => current_task[d] # t
  BY DEF Arrives, Mutex, CurrentIsStarted
<1> QED
  BY <1>1, <1>2 DEF Arrives, Mutex, OneCorePerTask, CurrentIsStarted

(* No other move touches a task that has not arrived. *)
LEMMA MovesKeepNone ==
  ASSUME TypeOK, Mutex, Moves, NEW t \in Tasks, state[t] = "NONE"
  PROVE  state'[t] = "NONE"
<1>1. state \in [Tasks -> TaskState]
  BY DEF TypeOK, TasksOK
<1> QED
  BY <1>1 DEF Moves, Stays, Offloads, EndsElsewhere, Starts, Ends, Yields, EndsFor,
              YieldsFor, Forgets

LEMMA EventMoves ==
  ASSUME TypeOK, SharingInv, NEW e \in event_queue, Handled(e)
  PROVE  Moves \/ \E t \in Tasks : Arrives(t)
BY HandledMoves, ArrivalIsMove DEF SharingInv

LEMMA SharingOfEvent ==
  ASSUME TypeOK, SharingInv, NEW e \in event_queue, Handled(e)
  PROVE  SharingInv'
<1>1. \A f \in event_queue : f.type = TASK_ARRIVAL => f.task \in Tasks
  BY EventFields DEF TypeOK, LoopOK
<1>2. state \in [Tasks -> TaskState]
  BY DEF TypeOK, TasksOK
<1>3. \A f \in event_queue' : f.type = TASK_ARRIVAL => f \in event_queue \ {e}
  BY HandledPopsInOrder DEF PopsInOrder, OnlyAdds
<1>4. ASSUME NEW f \in event_queue \ {e}, f.type = TASK_ARRIVAL
      PROVE  state'[f.task] = "NONE"
  <2>1. state[f.task] = "NONE" /\ f.task \in Tasks
    BY <1>1, <1>4 DEF SharingInv, ArrivesOnce
  <2>2. CASE e.type = TASK_ARRIVAL /\ HandleTaskArrival(e)
    <3>1. f.task # e.task
      BY <1>4, <2>2 DEF SharingInv, ArrivesOnce
    <3>2. state' = [state EXCEPT ![e.task] = "READY"]
      BY <2>2 DEF HandleTaskArrival
    <3> QED
      BY <1>2, <2>1, <3>1, <3>2
  <2>3. CASE Moves
    BY <2>1, <2>3, MovesKeepNone DEF SharingInv
  <2> QED
    BY <2>2, <2>3, HandledMoves
<1>5. ASSUME NEW f \in event_queue', NEW g \in event_queue',
             f.type = TASK_ARRIVAL, g.type = TASK_ARRIVAL, f.task = g.task
      PROVE  f = g
  BY <1>3, <1>5 DEF SharingInv, ArrivesOnce
<1>6. ArrivesOnce'
  BY <1>3, <1>4, <1>5 DEF ArrivesOnce
<1>7. Mutex'
  BY EventMoves, MovesMutex, ArrivesMutex DEF SharingInv
<1> QED
  BY <1>6, <1>7 DEF SharingInv

LEMMA SharingOfDecision ==
  ASSUME TypeOK, SharingInv, NEW t \in Tasks, NEW a, IsPicked(t), ApplyAction(t, a)
  PROVE  SharingInv'
<1>1. \A f \in event_queue : f.type = TASK_ARRIVAL => f.task \in Tasks
  BY EventFields DEF TypeOK, LoopOK
<1>2. \A f \in event_queue' : f.type = TASK_ARRIVAL => f \in event_queue
  BY DecisionSchedulesAhead DEF SchedulesAhead
<1>3. Moves
  BY DecisionMoves
<1>4. \A f \in event_queue : f.type = TASK_ARRIVAL => state'[f.task] = "NONE"
  BY <1>1, <1>3, MovesKeepNone DEF SharingInv, ArrivesOnce
<1>5. ArrivesOnce'
  BY <1>2, <1>4 DEF SharingInv, ArrivesOnce
<1>6. Mutex'
  BY <1>3, MovesMutex DEF SharingInv
<1> QED
  BY <1>5, <1>6 DEF SharingInv

(* A step that leaves the tasks and cores alone and adds no event. *)
LEMMA SharingKept ==
  ASSUME SharingInv, UNCHANGED <<state, current_task>>, event_queue' \subseteq event_queue
  PROVE  SharingInv'
BY DEF SharingInv, Mutex, OneCorePerTask, CurrentIsStarted, ArrivesOnce

(* Every step arrives a task or is one of the moves. *)
LEMMA NextMoves ==
  ASSUME TypeOK, SharingInv, [Next]_vars
  PROVE  Moves \/ \E t \in Tasks : Arrives(t)
<1>1. CASE EndEpisode
  BY <1>1 DEF EndEpisode, LoopEnds, taskVars, coreVars, Moves, Stays
<1>2. CASE UNCHANGED vars
  BY <1>2 DEF vars, taskVars, coreVars, Moves, Stays
<1> QED
  BY <1>1, <1>2, EventMoves, ProcessEventHandles, DecisionMoves DEF Next, Decide

LEMMA SharingStep ==
  ASSUME TypeOK, SharingInv, [Next]_vars
  PROVE  SharingInv'
<1>1. CASE EndEpisode
  BY <1>1, SharingKept DEF EndEpisode, LoopEnds, taskVars, coreVars
<1>2. CASE UNCHANGED vars
  BY <1>2, SharingKept DEF vars, loopVars, taskVars, coreVars
<1> QED
  BY <1>1, <1>2, SharingOfEvent, ProcessEventHandles, SharingOfDecision DEF Next, Decide

LEMMA SharingInvariant == Spec => []SharingInv
<1>1. TypeOK /\ SharingInv /\ [Next]_vars => SharingInv'
  BY SharingStep
<1> QED
  BY <1>1, SharingInit, TypeCorrect, PTL DEF Spec

(* Mutual exclusion: whatever the agent decides and whichever stale events *)
(* and queue entries there are, no task is current on two cores, and a     *)
(* core's current task has been started (_start_next_from_queue,           *)
(* apply_action). *)
THEOREM MutexCorrect == Spec => []Mutex
<1>1. SharingInv => Mutex
  BY DEF SharingInv
<1> QED
  BY <1>1, SharingInvariant, PTL

-----------------------------------------------------------------------------
(* Refinement of TaskSharing.                                              *)

(* A move that changes what runs on core c only. *)
LEMMA RunningOnChange ==
  ASSUME NEW c \in Cores, NEW x, RunningOn'[c] = x,
         \A d \in Cores \ {c} : RunningOn'[d] = RunningOn[d]
  PROVE  RunningOn' = [RunningOn EXCEPT ![c] = x]
<1>1. /\ RunningOn = [d \in Cores |-> RunningOn[d]]
      /\ RunningOn' = [d \in Cores |-> RunningOn'[d]]
  BY DEF RunningOn
<1> QED
  BY <1>1

LEMMA RunningOnSame ==
  ASSUME \A d \in Cores : RunningOn'[d] = RunningOn[d]
  PROVE  RunningOn' = RunningOn
BY DEF RunningOn

LEMMA MovesRefine ==
  ASSUME TypeOK, Mutex, Moves \/ \E t \in Tasks : Arrives(t)
  PROVE  [Sharing!Next]_(Sharing!vars)
<1>1. state \in [Tasks -> TaskState] /\ current_task \in [Cores -> Tasks \cup {NoTask}]
  BY DEF TypeOK, TasksOK, CoresOK
<1>2. NoTask \notin Tasks
  BY SizeAssumption DEF NoTask, Tasks
<1>3. \A c, d \in Cores : current_task[c] # NoTask /\ current_task[c] = current_task[d] => c = d
  BY DEF Mutex, OneCorePerTask
<1>4. \A c \in Cores :
        current_task[c] # NoTask => state[current_task[c]] \in {"RUNNING", "TERMINATED"}
  BY DEF Mutex, CurrentIsStarted
<1>5. CASE Stays
  <2>1. RunningOn' = RunningOn
    BY <1>5 DEF Stays, RunningOn
  <2> QED
    BY <1>5, <2>1 DEF Stays, Sharing!vars
<1>6. ASSUME NEW t \in Tasks, Arrives(t) PROVE [Sharing!Next]_(Sharing!vars)
  <2>1. \A d \in Cores : RunningOn'[d] = RunningOn[d]
    BY <1>1, <1>4, <1>6 DEF Arrives, RunningOn
  <2>2. Sharing!Arrive(t)
    BY <1>6, <2>1, RunningOnSame DEF Arrives, Sharing!Arrive
  <2> QED
    BY <2>2 DEF Sharing!Next
<1>7. ASSUME NEW t \in Tasks, Offloads(t) PROVE [Sharing!Next]_(Sharing!vars)
  <2>1. \A d \in Cores : RunningOn'[d] = RunningOn[d]
    BY <1>1, <1>4, <1>7 DEF Offloads, RunningOn
  <2>2. Sharing!Offload(t)
    BY <1>7, <2>1, RunningOnSame DEF Offloads, Sharing!Offload
  <2> QED
    BY <2>2 DEF Sharing!Next
<1>8. ASSUME NEW t \in Tasks,
             EndsElsewhere(t) \/ \E c \in Cores : Ends(t, c)
      PROVE  [Sharing!Next]_(Sharing!vars)
  <2>1. \A d \in Cores : RunningOn'[d] = IF RunningOn[d] = t THEN NoTask ELSE RunningOn[d]
    BY <1>1, <1>2, <1>3, <1>8 DEF EndsElsewhere, Ends, RunningOn
  <2>2. RunningOn' = [d \in Cores |-> IF RunningOn[d] = t THEN NoTask ELSE RunningOn[d]]
    BY <2>1 DEF RunningOn
  <2>3. Sharing!Finish(t)
    BY <1>8, <2>2 DEF EndsElsewhere, Ends, Sharing!Finish, Sharing!NoTask, NoTask
  <2> QED
    BY <2>3 DEF Sharing!Next
<1>9. ASSUME NEW t \in Tasks, NEW c \in Cores, Starts(t, c)
      PROVE  [Sharing!Next]_(Sharing!vars)
  <2>1. RunningOn'[c] = t /\ RunningOn[c] = NoTask
    BY <1>1, <1>2, <1>9 DEF Starts, RunningOn
  <2>2. \A d \in Cores \ {c} : RunningOn'[d] = RunningOn[d]
    BY <1>1, <1>4, <1>9 DEF Starts, RunningOn
  <2>3. Sharing!Start(t, c)
    BY <1>9, <2>1, <2>2, RunningOnChange DEF Starts, Sharing!Start, Sharing!NoTask, NoTask
  <2> QED
    BY <2>3 DEF Sharing!Next
<1>10. ASSUME NEW t \in Tasks, NEW c \in Cores, Yields(t, c)
       PROVE  [Sharing!Next]_(Sharing!vars)
  <2>1. RunningOn'[c] = NoTask /\ RunningOn[c] = t
    BY <1>1, <1>2, <1>10 DEF Yields, RunningOn
  <2>2. \A d \in Cores \ {c} : RunningOn'[d] = RunningOn[d]
    BY <1>1, <1>2, <1>3, <1>10 DEF Yields, RunningOn
  <2>3. Sharing!Yield(t, c)
    BY <1>10, <2>1, <2>2, RunningOnChange DEF Yields, Sharing!Yield, Sharing!NoTask, NoTask
  <2> QED
    BY <2>3 DEF Sharing!Next
<1>11. ASSUME NEW t \in Tasks, NEW u \in Tasks, NEW c \in Cores,
              EndsFor(t, u, c) \/ YieldsFor(t, u, c)
       PROVE  [Sharing!Next]_(Sharing!vars)
  <2>1. RunningOn'[c] = u /\ RunningOn[c] = t
    BY <1>1, <1>2, <1>11 DEF EndsFor, YieldsFor, RunningOn
  <2>2. \A d \in Cores \ {c} : RunningOn'[d] = RunningOn[d]
    <3>1. \A d \in Cores \ {c} : current_task[d] # t /\ current_task[d] # u
      BY <1>2, <1>3, <1>4, <1>11 DEF EndsFor, YieldsFor
    <3> QED
      BY <1>1, <1>11, <3>1 DEF EndsFor, YieldsFor, RunningOn
  <2>3. RunningOn' = [RunningOn EXCEPT ![c] = u]
    BY <2>1, <2>2, RunningOnChange
  <2>4. CASE u = t /\ YieldsFor(t, u, c)
    <3>1. state' = state
      BY <1>1, <2>4 DEF YieldsFor
    <3>2. RunningOn' = RunningOn
      BY <2>1, <2>2, <2>4, RunningOnSame
    <3> QED
      BY <3>1, <3>2 DEF Sharing!vars
  <2>5. CASE state[u] = "READY"
    <3>1. u # t
      BY <1>11, <2>5 DEF EndsFor, YieldsFor
    <3>2. \E fate \in {"READY", "TERMINATED"} : Sharing!TakeOver(t, u, c, fate)
      <4>1. CASE EndsFor(t, u, c)
        BY <2>1, <2>3, <4>1 DEF EndsFor, Sharing!TakeOver
      <4>2. CASE YieldsFor(t, u, c)
        <5>1. state' = [state EXCEPT ![t] = "READY", ![u] = "RUNNING"]
          BY <4>2 DEF YieldsFor
        <5> QED
          BY <2>1, <2>3, <2>5, <5>1 DEF Sharing!TakeOver
      <4> QED
        BY <1>11, <4>1, <4>2
    <3> QED
      BY <3>2 DEF Sharing!Next
  <2> QED
    BY <1>11, <2>4, <2>5 DEF EndsFor, YieldsFor
<1>12. ASSUME NEW c \in Cores, Forgets(c) PROVE [Sharing!Next]_(Sharing!vars)
  <2>1. \A d \in Cores : RunningOn'[d] = RunningOn[d]
    BY <1>1, <1>12 DEF Forgets, RunningOn
  <2> QED
    BY <1>12, <2>1, RunningOnSame DEF Forgets, Sharing!vars
<1> QED
  BY <1>5, <1>6, <1>7, <1>8, <1>9, <1>10, <1>11, <1>12 DEF Moves

LEMMA InitRefines == Init => Sharing!Init
BY DEF Init, Sharing!Init, RunningOn, Sharing!NoTask, NoTask

(* The engine implements TaskSharing: each task arrives once, starts only  *)
(* from READY on a core nobody runs on, and finishes once, whatever the    *)
(* agent decides and whichever stale events fire (engine.py, actions.py). *)
THEOREM EngineShares == Spec => SharesCores
<1>1. TypeOK /\ SharingInv /\ [Next]_vars => [Sharing!Next]_(Sharing!vars)
  BY NextMoves, MovesRefine DEF SharingInv
<1> QED
  BY <1>1, InitRefines, TypeCorrect, SharingInvariant, PTL DEF Spec, SharesCores, Sharing!Spec
=============================================================================
