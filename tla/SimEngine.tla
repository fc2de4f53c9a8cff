----------------------------- MODULE SimEngine -----------------------------
(***************************************************************************)
(* The discrete-event engine of slm_sim/engine.py, with apply_action of    *)
(* slm_sim/actions.py, driven as SimulatorEngine.run_episode drives it:    *)
(* pop the earliest event, set the clock, run its handler, and, when the   *)
(* handler asks for it and some task is READY, let the agent decide where  *)
(* the best READY task goes.                                               *)
(*                                                                         *)
(* One action per event handler and per early return of it, and one action *)
(* per outcome of apply_action.  The agent is any function from states to  *)
(* actions, so its decision is a choice from the set Actions; a policy is  *)
(* modelled by restricting that set.  Time is an integer number of ticks.  *)
(***************************************************************************)
EXTENDS SimModels, FiniteSets

CONSTANTS
  NTasks,                   \* tasks the workload seeds, ids 1 .. NTasks
  NCores,                   \* cores of the platform, ids 0 .. NCores - 1
  Priority,                 \* task -> kernel priority
  RelDeadline,              \* task -> deadline relative to its arrival, 0 = none
  Work,                     \* task -> inference_duration_ns
  CanUseGpu,                \* the tasks that may run on the GPU
  ModelSize,                \* task -> MB taken from the weight pool
  WorkingSet,               \* task -> MB taken from the workspace pool
  GpuAvailable,             \* gpu.available of the platform
  Freq,                     \* core -> max_freq_mhz
  RefFreq,                  \* frequency of the reference core (1500)
  Isolated,                 \* cores whose isolated flag is set
  Quantum,                  \* default_quantum_ns
  CsMin, CsMax,             \* bounds of the random context-switch cost
  DeadlineCheckInterval,    \* DEADLINE_CHECK_INTERVAL_NS
  MigrationCheckInterval,   \* MIGRATION_CHECK_INTERVAL_NS
  NearDeadline,             \* 10 ms: below it a task becomes CRITICAL
  SoonDeadline,             \* 50 ms: below it a task becomes at least HIGH
  CloseDeadline,            \* 100 ms: below it a task gains one
  EpisodeDuration,          \* episode_duration_ns
  ArrivalTimes,             \* the times the workload may seed arrivals at
  Actions                   \* the decisions the agent may take

Tasks == 1 .. NTasks
Cores == 0 .. NCores - 1

ASSUME SizeAssumption ==
  /\ NTasks \in Nat \ {0}
  /\ NCores \in Nat \ {0}
ASSUME TaskAssumption ==
  /\ Priority \in [Tasks -> Levels]
  /\ RelDeadline \in [Tasks -> Nat]
  /\ Work \in [Tasks -> Nat]
  /\ CanUseGpu \subseteq Tasks
  /\ ModelSize \in [Tasks -> Nat]
  /\ WorkingSet \in [Tasks -> Nat]
ASSUME PlatformAssumption ==
  /\ GpuAvailable \in BOOLEAN
  /\ RefFreq \in Nat \ {0}
  /\ Freq \in [Cores -> Nat \ {0}]
  /\ Isolated \subseteq Cores
  /\ Quantum \in Nat \ {0}
  /\ CsMin \in Nat /\ CsMax \in Nat /\ CsMin <= CsMax
ASSUME TimingAssumption ==
  /\ DeadlineCheckInterval \in Nat \ {0}
  /\ MigrationCheckInterval \in Nat \ {0}
  /\ NearDeadline \in Nat /\ SoonDeadline \in Nat /\ CloseDeadline \in Nat
  /\ NearDeadline <= SoonDeadline /\ SoonDeadline <= CloseDeadline
  /\ EpisodeDuration \in Nat
  /\ ArrivalTimes \subseteq Nat
ASSUME ActionAssumption == Actions \subseteq SchedulingAction(NCores)

VARIABLES
  pc,                  \* "event": popping; "decide": the agent is asked; "done"
  clock_ns,            \* engine.clock_ns
  event_ts,            \* timestamp of the event popped last (event.timestamp_ns)
  event_queue,         \* the heap: a set of events
  event_sequence,      \* engine.event_sequence, the next push order
  state,               \* task -> TaskState
  effective_priority,  \* task -> effective_priority
  assigned_cpu,        \* task -> core or NoCore
  remaining_work_ns,   \* task -> remaining_work_ns
  arrival_time_ns,     \* task -> arrival_time_ns
  current_task,        \* core -> running task or NoTask
  run_queue,           \* core -> sequence of tasks
  context_switches,    \* core -> context_switches
  core_busy_ns,        \* core -> _core_busy_ns
  gpu_queue,           \* gpu.queue: the tasks of the pending requests
  memory_used,         \* used MB of the weight and the workspace pool
  metrics,             \* EpisodeMetrics: counts of completions and deadlines
  total_switches,      \* metrics.total_context_switches
  recently_completed,  \* _recently_completed: completions not yet rewarded
  prev_obs,            \* whether run_episode holds a transition to log
  rewarded,            \* task -> number of transitions its completion counts in
  finish_time          \* task -> completion_time_ns of its last completion record

loopVars == <<pc, clock_ns, event_ts, event_queue, event_sequence>>
taskVars == <<state, effective_priority, assigned_cpu, remaining_work_ns,
              arrival_time_ns>>
coreVars == <<current_task, run_queue, context_switches, total_switches>>
accountVars == <<memory_used, metrics, recently_completed, finish_time>>
rewardVars == <<prev_obs, rewarded>>
vars == <<loopVars, taskVars, coreVars, core_busy_ns, gpu_queue, accountVars,
          rewardVars>>

(* Events.  An arrival names a task, a completion a task and the core it   *)
(* was started on, the end of a quantum the core only, and the periodic    *)
(* checks neither. *)
ArrivalEvent ==
  [ts : Nat, type : {TASK_ARRIVAL}, seq : Nat, task : Tasks, core : {NoCore}]
CompletionEvent ==
  [ts : Nat, type : {TASK_COMPLETION}, seq : Nat, task : Tasks, core : Cores]
QuantumEvent ==
  [ts : Nat, type : {QUANTUM_EXPIRED}, seq : Nat, task : {NoTask}, core : Cores]
PeriodicEvent ==
  [ts : Nat, type : {DEADLINE_CHECK, MIGRATION_CHECK}, seq : Nat, task : {NoTask},
   core : {NoCore}]
Event == ArrivalEvent \cup CompletionEvent \cup QuantumEvent \cup PeriodicEvent

NewEvent(ts, type, task, core) ==
  [ts |-> ts, type |-> type, seq |-> event_sequence, task |-> task, core |-> core]

(* The absolute deadline of a task that has arrived, 0 when it has none. *)
Deadline(t) ==
  IF RelDeadline[t] = 0 THEN 0 ELSE arrival_time_ns[t] + RelDeadline[t]

(* The tasks that have completed. *)
Terminated == {t \in Tasks : state[t] = "TERMINATED"}

-----------------------------------------------------------------------------
(* reset() and seed_all_events: the two periodic events, then one arrival  *)
(* per task at a time the workload chooses.                                *)
Arrivals(at) ==
  {[ts |-> at[t], type |-> TASK_ARRIVAL, seq |-> t + 1, task |-> t,
    core |-> NoCore] : t \in Tasks}

PeriodicEvents ==
  {[ts |-> DeadlineCheckInterval, type |-> DEADLINE_CHECK, seq |-> 0,
    task |-> NoTask, core |-> NoCore],
   [ts |-> MigrationCheckInterval, type |-> MIGRATION_CHECK, seq |-> 1,
    task |-> NoTask, core |-> NoCore]}

Init ==
  /\ pc = "event"
  /\ clock_ns = 0
  /\ event_ts = 0
  /\ \E at \in [Tasks -> ArrivalTimes] : event_queue = PeriodicEvents \cup Arrivals(at)
  /\ event_sequence = NTasks + 2
  /\ state = [t \in Tasks |-> "NONE"]
  /\ effective_priority = Priority
  /\ assigned_cpu = [t \in Tasks |-> NoCore]
  /\ remaining_work_ns = Work
  /\ arrival_time_ns = [t \in Tasks |-> 0]
  /\ current_task = [c \in Cores |-> NoTask]
  /\ run_queue = [c \in Cores |-> <<>>]
  /\ context_switches = [c \in Cores |-> 0]
  /\ core_busy_ns = [c \in Cores |-> 0]
  /\ gpu_queue = <<>>
  /\ memory_used = [weight |-> 0, workspace |-> 0]
  /\ metrics = [arrived |-> 0, completed |-> 0, met |-> 0, missed |-> 0]
  /\ total_switches = 0
  /\ recently_completed = <<>>
  /\ prev_obs = FALSE
  /\ rewarded = [t \in Tasks |-> 0]
  /\ finish_time = [t \in Tasks |-> 0]

(* reset() and seed_all_events for a later episode of the same engine, its *)
(* tasks arriving at the given times. *)
Restart(at) ==
  /\ pc' = "event"
  /\ clock_ns' = 0
  /\ event_ts' = 0
  /\ event_queue' = PeriodicEvents \cup Arrivals(at)
  /\ event_sequence' = NTasks + 2
  /\ state' = [t \in Tasks |-> "NONE"]
  /\ effective_priority' = Priority
  /\ assigned_cpu' = [t \in Tasks |-> NoCore]
  /\ remaining_work_ns' = Work
  /\ arrival_time_ns' = [t \in Tasks |-> 0]
  /\ current_task' = [c \in Cores |-> NoTask]
  /\ run_queue' = [c \in Cores |-> <<>>]
  /\ context_switches' = [c \in Cores |-> 0]
  /\ core_busy_ns' = [c \in Cores |-> 0]
  /\ gpu_queue' = <<>>
  /\ memory_used' = [weight |-> 0, workspace |-> 0]
  /\ metrics' = [arrived |-> 0, completed |-> 0, met |-> 0, missed |-> 0]
  /\ total_switches' = 0
  /\ recently_completed' = <<>>
  /\ finish_time' = [t \in Tasks |-> 0]
  /\ UNCHANGED rewardVars

-----------------------------------------------------------------------------
(* Helpers of the engine.                                                  *)

(* pop_event: e is the heap's minimum. *)
IsNextEvent(e) ==
  /\ e \in event_queue
  /\ \A f \in event_queue \ {e} : Before(e, f)

(* _update_core_busy_time: the time since the clock's last value counts    *)
(* for the cores that have a current task; a step back counts nothing.     *)
(* Mutation: a step back counts as time too. *)
CountTimeTwice(e) ==
  core_busy_ns' = [c \in Cores |->
    IF current_task[c] # NoTask
    THEN core_busy_ns[c] + Larger(e.ts - clock_ns, clock_ns - e.ts)
    ELSE core_busy_ns[c]]
UpdateCoreBusyTime(e) ==
  core_busy_ns' = [c \in Cores |->
    IF current_task[c] # NoTask /\ e.ts > clock_ns
    THEN core_busy_ns[c] + (e.ts - clock_ns) ELSE core_busy_ns[c]]

(* The head of the loop of run_episode: pop, leave when the event lies     *)
(* beyond the episode, otherwise account the busy time.                    *)
PopEvent(e, type) ==
  /\ pc = "event"
  /\ IsNextEvent(e)
  /\ e.type = type
  /\ e.ts <= EpisodeDuration
  /\ event_ts' = e.ts
  /\ UpdateCoreBusyTime(e)
  /\ UNCHANGED rewardVars

(* The tail of the loop: the agent is asked only when the handler wants a  *)
(* decision and some task is READY.                                        *)
(* Mutation: a task of priority IDLE never counts. *)
IgnoreIdlePriority ==
  pc' = IF \E t \in Tasks : state'[t] = "READY" /\ effective_priority'[t] > 0
        THEN "decide" ELSE "event"
NeedsDecision ==
  pc' = IF \E t \in Tasks : state'[t] = "READY" THEN "decide" ELSE "event"
NoDecision == pc' = "event"

Push(e, ev) ==
  /\ event_queue' = (event_queue \ {e}) \cup {ev}
  /\ event_sequence' = event_sequence + 1

PushNothing(e) ==
  /\ event_queue' = event_queue \ {e}
  /\ UNCHANGED event_sequence

(* A periodic event is pushed again while it still lies in the episode. *)
(* Mutation: the interval is not added. *)
PushAgainNow(e, interval) ==
  IF e.ts + interval <= EpisodeDuration
  THEN Push(e, NewEvent(e.ts, e.type, NoTask, NoCore))
  ELSE PushNothing(e)
PushAgain(e, interval) ==
  IF e.ts + interval <= EpisodeDuration
  THEN Push(e, NewEvent(e.ts + interval, e.type, NoTask, NoCore))
  ELSE PushNothing(e)

(* The duration of t's remaining work on core c (truncated division). *)
AdjustedDuration(work, c) == (work * RefFreq) \div Freq[c]

(* _schedule_completion_for_task at time now for a task RUNNING on core c  *)
(* with that much work left: its completion when the work fits in a        *)
(* quantum, else the end of the quantum, which names the core only.        *)
(* Mutation: the completion is counted from the arrival of the task. *)
RunEventFromArrival(t, c, now, work) ==
  NewEvent(arrival_time_ns[t] + AdjustedDuration(work, c), TASK_COMPLETION, t, c)
RunEvent(t, c, now, work) ==
  LET adjusted == AdjustedDuration(work, c)
  IN  IF adjusted <= Quantum
      THEN NewEvent(now + adjusted, TASK_COMPLETION, t, c)
      ELSE NewEvent(now + Quantum, QUANTUM_EXPIRED, NoTask, c)

(* Whether position i of the queue q holds its first task that is READY in *)
(* st. *)
(* Mutation: the head is started whatever its state is. *)
HeadOfQueue(i, q, st) == i = 1
IsFirstReady(i, q, st) ==
  /\ st[q[i]] = "READY"
  /\ \A j \in 1 .. i - 1 : st[q[j]] # "READY"

(* _start_next_from_queue on core c while handling e, when the task states *)
(* are st and the assignments asg: entries of tasks that are not READY are *)
(* dropped, the first READY one starts, and switched counts the context    *)
(* switches the caller made on c before.                                   *)
IdleCore(e, c, st, asg, switched) ==
  /\ \A i \in DOMAIN run_queue[c] : ~ IsFirstReady(i, run_queue[c], st)
  /\ state' = st
  /\ assigned_cpu' = asg
  /\ current_task' = [current_task EXCEPT ![c] = NoTask]
  /\ run_queue' = [run_queue EXCEPT ![c] = <<>>]
  /\ context_switches' = [context_switches EXCEPT ![c] = @ + switched]
  /\ total_switches' = total_switches + switched
  /\ PushNothing(e)

StartQueued(e, c, st, asg, switched, i) ==
  LET t == run_queue[c][i]
  IN  /\ IsFirstReady(i, run_queue[c], st)
      /\ state' = [st EXCEPT ![t] = "RUNNING"]
      /\ assigned_cpu' = [asg EXCEPT ![t] = c]
      /\ current_task' = [current_task EXCEPT ![c] = t]
      /\ run_queue' = [run_queue EXCEPT ![c] = SubSeq(@, i + 1, Len(@))]
      /\ context_switches' = [context_switches EXCEPT ![c] = @ + switched + 1]
      /\ total_switches' = total_switches + switched + 1
      /\ Push(e, RunEvent(t, c, clock_ns', remaining_work_ns'[t]))

StartNextFromQueue(e, c, st, asg, switched) ==
  \/ IdleCore(e, c, st, asg, switched)
  \/ \E i \in DOMAIN run_queue[c] : StartQueued(e, c, st, asg, switched, i)

(* The memory a finished task gives back, each pool clamped at zero.       *)
(* Mutation: the workspace is not given back. *)
FreeWeightsOnly(t) ==
  [memory_used EXCEPT !.weight = Larger(0, @ - ModelSize[t])]
FreeMemory(t) ==
  [weight |-> Larger(0, memory_used.weight - ModelSize[t]),
   workspace |-> Larger(0, memory_used.workspace - WorkingSet[t])]

(* The bookkeeping of a completion: metrics, the record the reward is      *)
(* computed from, and the memory pools.                                    *)
Count(condition) == IF condition THEN 1 ELSE 0
RecordCompletion(t) ==
  /\ metrics' = [arrived |-> metrics.arrived,
                 completed |-> metrics.completed + 1,
                 met |-> metrics.met + Count(Deadline(t) > 0 /\ clock_ns' <= Deadline(t)),
                 missed |-> metrics.missed + Count(Deadline(t) > 0 /\ clock_ns' > Deadline(t))]
  /\ recently_completed' = Append(recently_completed, t)
  /\ finish_time' = [finish_time EXCEPT ![t] = clock_ns']
  /\ memory_used' = FreeMemory(t)

-----------------------------------------------------------------------------
(* Event handlers.                                                         *)

(* _handle_task_arrival: the task becomes READY and takes its memory; no   *)
(* pool is checked against its size. *)
HandleTaskArrival(e) ==
  LET t == e.task
  IN  /\ PopEvent(e, TASK_ARRIVAL)
      /\ clock_ns' = e.ts
      /\ state' = [state EXCEPT ![t] = "READY"]
      /\ effective_priority' = [effective_priority EXCEPT ![t] = Priority[t]]
      /\ assigned_cpu' = [assigned_cpu EXCEPT ![t] = NoCore]
      /\ remaining_work_ns' = [remaining_work_ns EXCEPT ![t] = Work[t]]
      /\ arrival_time_ns' = [arrival_time_ns EXCEPT ![t] = e.ts]
      /\ metrics' = [arrived |-> metrics.arrived + 1, completed |-> metrics.completed,
                     met |-> metrics.met, missed |-> metrics.missed]
      /\ memory_used' = [weight |-> memory_used.weight + ModelSize[t],
                         workspace |-> memory_used.workspace + WorkingSet[t]]
      /\ PushNothing(e)
      /\ NeedsDecision
      /\ UNCHANGED <<coreVars, gpu_queue, recently_completed, finish_time>>

(* The early return of _handle_task_completion.                            *)
(* Mutation: the state of the task is not looked at. *)
CompletesAnyTask(t) == t \in Tasks
MayComplete(t) == state[t] = "RUNNING"

(* _handle_task_completion of a task that is RUNNING: it terminates, and   *)
(* the event's core is freed only when the task is still current there.    *)
HandleTaskCompletion(e) ==
  LET t == e.task
      ended == [state EXCEPT ![t] = "TERMINATED"]
  IN  /\ PopEvent(e, TASK_COMPLETION)
      /\ MayComplete(t)
      /\ clock_ns' = e.ts
      /\ UNCHANGED <<effective_priority, remaining_work_ns, arrival_time_ns, gpu_queue>>
      /\ RecordCompletion(t)
      /\ \/ /\ current_task[e.core] = t
            /\ StartNextFromQueue(e, e.core, ended, assigned_cpu, 0)
         \/ /\ current_task[e.core] # t
            /\ state' = ended
            /\ PushNothing(e)
            /\ UNCHANGED <<assigned_cpu, coreVars>>
      /\ NeedsDecision

(* _handle_task_completion of a task that is not RUNNING any more (it was  *)
(* preempted, or has already completed): the event is dropped.             *)
DropStaleCompletion(e) ==
  /\ PopEvent(e, TASK_COMPLETION)
  /\ ~ MayComplete(e.task)
  /\ clock_ns' = e.ts
  /\ PushNothing(e)
  /\ NoDecision
  /\ UNCHANGED <<taskVars, coreVars, gpu_queue, accountVars>>

(* _handle_quantum_expired when the core has no current task. *)
DropIdleQuantum(e) ==
  /\ PopEvent(e, QUANTUM_EXPIRED)
  /\ current_task[e.core] = NoTask
  /\ clock_ns' = e.ts
  /\ PushNothing(e)
  /\ NoDecision
  /\ UNCHANGED <<taskVars, coreVars, gpu_queue, accountVars>>

(* _handle_quantum_expired when the current task is not RUNNING: the core  *)
(* is freed, and its run queue is left as it is. *)
FreeCoreOfDeadTask(e) ==
  /\ PopEvent(e, QUANTUM_EXPIRED)
  /\ current_task[e.core] # NoTask
  /\ state[current_task[e.core]] # "RUNNING"
  /\ clock_ns' = e.ts
  /\ current_task' = [current_task EXCEPT ![e.core] = NoTask]
  /\ PushNothing(e)
  /\ UNCHANGED <<taskVars, run_queue, context_switches, total_switches, gpu_queue,
                 accountVars>>
  /\ NeedsDecision

(* _handle_quantum_expired when the quantum covers the remaining work: the *)
(* completion is pushed at the current time. *)
FinishInQuantum(e) ==
  LET t == current_task[e.core]
  IN  /\ PopEvent(e, QUANTUM_EXPIRED)
      /\ t # NoTask
      /\ state[t] = "RUNNING"
      /\ remaining_work_ns[t] <= Quantum
      /\ clock_ns' = e.ts
      /\ remaining_work_ns' = [remaining_work_ns EXCEPT ![t] = 0]
      /\ Push(e, NewEvent(e.ts, TASK_COMPLETION, t, e.core))
      /\ NoDecision
      /\ UNCHANGED <<state, effective_priority, assigned_cpu, arrival_time_ns,
                     coreVars, gpu_queue, accountVars>>

(* _handle_quantum_expired otherwise: the task loses the core, the clock   *)
(* moves by the context-switch cost, and the core's queue starts its next. *)
PreemptAtQuantum(e) ==
  LET t == current_task[e.core]
  IN  /\ PopEvent(e, QUANTUM_EXPIRED)
      /\ t # NoTask
      /\ state[t] = "RUNNING"
      /\ remaining_work_ns[t] > Quantum
      /\ \E cost \in CsMin .. CsMax : clock_ns' = e.ts + cost
      /\ remaining_work_ns' = [remaining_work_ns EXCEPT ![t] = @ - Quantum]
      /\ UNCHANGED <<effective_priority, arrival_time_ns, gpu_queue, accountVars>>
      /\ StartNextFromQueue(e, e.core, [state EXCEPT ![t] = "READY"],
                            [assigned_cpu EXCEPT ![t] = NoCore], 1)
      /\ NeedsDecision

(* The boost of one task's effective priority at the current time. *)
DeadlineBoost(t, now) ==
  LET left == Deadline(t) - now
      eff == effective_priority[t]
  IN  CASE left < NearDeadline -> PRIORITY_CRITICAL
        [] left >= NearDeadline /\ left < SoonDeadline -> Larger(eff, PRIORITY_HIGH)
        [] left >= SoonDeadline /\ left < CloseDeadline ->
             Larger(eff, Smaller(Priority[t] + 1, PRIORITY_CRITICAL))
        [] OTHER -> eff

(* _handle_deadline_check: boost every live task that has a deadline. *)
HandleDeadlineCheck(e) ==
  /\ PopEvent(e, DEADLINE_CHECK)
  /\ clock_ns' = e.ts
  /\ effective_priority' = [t \in Tasks |->
       IF state[t] \in {"READY", "RUNNING"} /\ Deadline(t) # 0
       THEN DeadlineBoost(t, e.ts) ELSE effective_priority[t]]
  /\ PushAgain(e, DeadlineCheckInterval)
  /\ NoDecision
  /\ UNCHANGED <<state, assigned_cpu, remaining_work_ns, arrival_time_ns, coreVars,
                 gpu_queue, accountVars>>

(* The first core with the longest (shortest) run queue among those that   *)
(* are not isolated. *)
Migratable == Cores \ Isolated
IsLongestQueue(c) ==
  \A d \in Migratable :
    \/ Len(run_queue[c]) > Len(run_queue[d])
    \/ Len(run_queue[c]) = Len(run_queue[d]) /\ c <= d
IsShortestQueue(c) ==
  \A d \in Migratable :
    \/ Len(run_queue[c]) < Len(run_queue[d])
    \/ Len(run_queue[c]) = Len(run_queue[d]) /\ c <= d

(* Whether the migration check moves a task between two cores: their       *)
(* queues are the longest and the shortest and differ by more than two.    *)
Imbalanced(from, to) ==
  /\ IsLongestQueue(from)
  /\ IsShortestQueue(to)
  /\ Len(run_queue[from]) - Len(run_queue[to]) > 2

(* _handle_migration_check that moves the last entry of the longest queue  *)
(* to the end of the shortest; neither the state of the task nor the       *)
(* target being idle is looked at. *)
MigrateTask(e, from, to) ==
  LET t == run_queue[from][Len(run_queue[from])]
  IN  /\ PopEvent(e, MIGRATION_CHECK)
      /\ Imbalanced(from, to)
      /\ clock_ns' = e.ts
      /\ run_queue' = [run_queue EXCEPT
           ![from] = SubSeq(@, 1, Len(@) - 1),
           ![to] = Append(@, t)]
      /\ assigned_cpu' = [assigned_cpu EXCEPT ![t] = to]
      /\ PushAgain(e, MigrationCheckInterval)
      /\ NoDecision
      /\ UNCHANGED <<state, effective_priority, remaining_work_ns, arrival_time_ns,
                     current_task, context_switches, total_switches, gpu_queue,
                     accountVars>>

(* _handle_migration_check that finds nothing to move. *)
SkipMigration(e) ==
  /\ PopEvent(e, MIGRATION_CHECK)
  /\ ~ \E from, to \in Migratable : Imbalanced(from, to)
  /\ clock_ns' = e.ts
  /\ PushAgain(e, MigrationCheckInterval)
  /\ NoDecision
  /\ UNCHANGED <<taskVars, coreVars, gpu_queue, accountVars>>

(* One turn of the loop of run_episode up to the decision: _process_event  *)
(* dispatches the event to its handler. *)
ProcessEvent ==
  \/ \E e \in event_queue : HandleTaskArrival(e)
  \/ \E e \in event_queue : HandleTaskCompletion(e)
  \/ \E e \in event_queue : DropStaleCompletion(e)
  \/ \E e \in event_queue : DropIdleQuantum(e)
  \/ \E e \in event_queue : FreeCoreOfDeadTask(e)
  \/ \E e \in event_queue : FinishInQuantum(e)
  \/ \E e \in event_queue : PreemptAtQuantum(e)
  \/ \E e \in event_queue : HandleDeadlineCheck(e)
  \/ \E e \in event_queue, from, to \in Migratable : MigrateTask(e, from, to)
  \/ \E e \in event_queue : SkipMigration(e)

-----------------------------------------------------------------------------
(* The scheduling decision.                                                *)

(* _pick_highest_priority_ready_task: highest effective priority, then the *)
(* earliest arrival, then the task registered first; a task waiting in a   *)
(* run queue is READY and is picked as well.                               *)
Better(t, u) ==
  \/ effective_priority[t] > effective_priority[u]
  \/ /\ effective_priority[t] = effective_priority[u]
     /\ \/ arrival_time_ns[t] < arrival_time_ns[u]
        \/ arrival_time_ns[t] = arrival_time_ns[u] /\ t < u

IsPicked(t) ==
  /\ t \in Tasks
  /\ state[t] = "READY"
  /\ \A u \in Tasks \ {t} : state[u] = "READY" => Better(t, u)

(* _find_least_loaded_core: the first non-isolated core with the least     *)
(* load; core 0 when every core is isolated. *)
Load(c) == Len(run_queue[c]) + (IF current_task[c] # NoTask THEN 1 ELSE 0)
IsLeastLoaded(c) ==
  IF Migratable = {} THEN c = 0
  ELSE /\ c \in Migratable
       /\ \A d \in Migratable : Load(c) < Load(d) \/ (Load(c) = Load(d) /\ c <= d)

GpuTarget(t, a) == a.core >= NCores /\ GpuAvailable /\ t \in CanUseGpu

(* Whether a CPU assignment resolves to core c. *)
Targets(a, c) ==
  IF a.core >= NCores \/ a.core \in Isolated THEN IsLeastLoaded(c) ELSE c = a.core

(* _insert_in_run_queue: t enters the queue of core c before the first     *)
(* entry of lower priority. *)
IsInsertionPoint(i, q, t) ==
  /\ i <= Len(q) => effective_priority'[q[i]] < effective_priority'[t]
  /\ \A j \in 1 .. i - 1 : effective_priority'[q[j]] >= effective_priority'[t]
InsertInRunQueue(c, t) ==
  \E i \in 1 .. Len(run_queue[c]) + 1 :
    /\ IsInsertionPoint(i, run_queue[c], t)
    /\ run_queue' = [run_queue EXCEPT ![c] =
         SubSeq(@, 1, i - 1) \o <<t>> \o SubSeq(@, i, Len(@))]

(* run_episode at a decision: the transition of the previous decision is   *)
(* logged with the reward of the tasks completed since, which are then     *)
(* forgotten, and the next transition is begun.                            *)
(* Mutation: the completions are not forgotten once they are rewarded. *)
Occurrences(t) == Cardinality({i \in DOMAIN recently_completed : recently_completed[i] = t})
LogAndKeep ==
  /\ prev_obs' = TRUE
  /\ IF prev_obs
     THEN /\ rewarded' = [t \in Tasks |-> rewarded[t] + Occurrences(t)]
          /\ UNCHANGED recently_completed
     ELSE UNCHANGED <<rewarded, recently_completed>>
LogTransition ==
  /\ prev_obs' = TRUE
  /\ IF prev_obs
     THEN /\ rewarded' = [t \in Tasks |-> rewarded[t] + Occurrences(t)]
          /\ recently_completed' = <<>>
     ELSE UNCHANGED <<rewarded, recently_completed>>

(* What every outcome of a decision shares: the priority of t is adjusted. *)
Decision(t, a) ==
  /\ pc = "decide"
  /\ pc' = "event"
  /\ effective_priority' =
       [effective_priority EXCEPT ![t] = AdjustPriority(@, a.adj)]
  /\ UNCHANGED <<clock_ns, event_ts, core_busy_ns, remaining_work_ns, arrival_time_ns,
                 memory_used, metrics, total_switches, finish_time>>

PushRunEvent(t, c) ==
  /\ event_queue' = event_queue \cup {RunEvent(t, c, clock_ns, remaining_work_ns[t])}
  /\ event_sequence' = event_sequence + 1

(* GPU assignment: the task is RUNNING from now on and waits in gpu.queue; *)
(* assigned_cpu is not reset, so a task that was queued on a core gets an  *)
(* event of that core as well. *)
AssignToGpu(t, a) ==
  /\ Decision(t, a)
  /\ GpuTarget(t, a)
  /\ state' = [state EXCEPT ![t] = "RUNNING"]
  /\ gpu_queue' = Append(gpu_queue, t)
  /\ IF assigned_cpu[t] = NoCore
     THEN UNCHANGED <<event_queue, event_sequence>>
     ELSE PushRunEvent(t, assigned_cpu[t])
  /\ UNCHANGED <<assigned_cpu, current_task, run_queue, context_switches>>

(* Whether decision a for t takes core c from its current task.            *)
(* Mutation: a higher priority is enough, the action need not say so. *)
PreemptsAlways(t, a, c) ==
  /\ current_task[c] # NoTask
  /\ state[current_task[c]] = "RUNNING"
  /\ effective_priority[current_task[c]] < effective_priority'[t]
(* Mutation: a current task that has finished may be put back. *)
PreemptsFinished(t, a, c) ==
  /\ a.preempt
  /\ current_task[c] # NoTask
  /\ effective_priority[current_task[c]] < effective_priority'[t]
Preempts(t, a, c) ==
  /\ a.preempt
  /\ current_task[c] # NoTask
  /\ state[current_task[c]] = "RUNNING"
  /\ effective_priority[current_task[c]] < effective_priority'[t]

(* Preemption: the current task goes back to the core's queue with the     *)
(* remaining work it had when it started, and its event stays in the heap. *)
PreemptCurrent(t, a, c) ==
  LET u == current_task[c]
  IN  /\ Decision(t, a)
      /\ ~ GpuTarget(t, a)
      /\ Targets(a, c)
      /\ Preempts(t, a, c)
      /\ state' = [state EXCEPT ![u] = "READY", ![t] = "RUNNING"]
      /\ assigned_cpu' = [assigned_cpu EXCEPT ![u] = NoCore, ![t] = c]
      /\ InsertInRunQueue(c, u)
      /\ current_task' = [current_task EXCEPT ![c] = t]
      /\ context_switches' = [context_switches EXCEPT ![c] = @ + 2]
      /\ PushRunEvent(t, c)
      /\ UNCHANGED gpu_queue

(* An idle core starts the task at once. *)
StartOnIdleCore(t, a, c) ==
  /\ Decision(t, a)
  /\ ~ GpuTarget(t, a)
  /\ Targets(a, c)
  /\ current_task[c] = NoTask
  /\ state' = [state EXCEPT ![t] = "RUNNING"]
  /\ assigned_cpu' = [assigned_cpu EXCEPT ![t] = c]
  /\ current_task' = [current_task EXCEPT ![c] = t]
  /\ PushRunEvent(t, c)
  /\ UNCHANGED <<run_queue, context_switches, gpu_queue>>

(* A busy core queues the task, which stays READY. *)
EnqueueOnBusyCore(t, a, c) ==
  /\ Decision(t, a)
  /\ ~ GpuTarget(t, a)
  /\ Targets(a, c)
  /\ ~ Preempts(t, a, c)
  /\ current_task[c] # NoTask
  /\ assigned_cpu' = [assigned_cpu EXCEPT ![t] = c]
  /\ InsertInRunQueue(c, t)
  /\ UNCHANGED <<event_queue, event_sequence, state, current_task,
                 context_switches, gpu_queue>>

ApplyAction(t, a) ==
  \/ AssignToGpu(t, a)
  \/ \E c \in Cores : PreemptCurrent(t, a, c)
  \/ \E c \in Cores : StartOnIdleCore(t, a, c)
  \/ \E c \in Cores : EnqueueOnBusyCore(t, a, c)

(* run_episode at a decision point: the agent decides about the task that  *)
(* the loop picked. *)
Decide(t, a) ==
  /\ IsPicked(t)
  /\ ApplyAction(t, a)
  /\ LogTransition

(* The loop ends when the heap is empty or the popped event lies beyond    *)
(* the episode. *)
LoopEnds ==
  \/ event_queue = {} /\ UNCHANGED event_queue
  \/ \E e \in event_queue : /\ IsNextEvent(e)
                            /\ e.ts > EpisodeDuration
                            /\ event_queue' = event_queue \ {e}

(* The last transition is logged with what completed since.                *)
EndEpisode ==
  /\ pc = "event"
  /\ pc' = "done"
  /\ LoopEnds
  /\ rewarded' = [t \in Tasks |->
       IF prev_obs THEN rewarded[t] + Occurrences(t) ELSE rewarded[t]]
  /\ UNCHANGED <<clock_ns, event_ts, event_sequence, taskVars, coreVars, core_busy_ns,
                 gpu_queue, accountVars, prev_obs>>

Next ==
  \/ ProcessEvent
  \/ \E t \in Tasks, a \in Actions : Decide(t, a)
  \/ EndEpisode

Spec == Init /\ [][Next]_vars

(* The loop is a single thread that never waits: it takes its next step.   *)
FairSpec == Spec /\ WF_vars(Next)

-----------------------------------------------------------------------------
LoopOK ==
  /\ pc \in {"event", "decide", "done"}
  /\ clock_ns \in Nat
  /\ event_ts \in Nat
  /\ event_queue \in SUBSET Event
  /\ event_sequence \in Nat
TasksOK ==
  /\ state \in [Tasks -> TaskState]
  /\ effective_priority \in [Tasks -> Priorities]
  /\ assigned_cpu \in [Tasks -> Cores \cup {NoCore}]
  /\ remaining_work_ns \in [Tasks -> Nat]
  /\ arrival_time_ns \in [Tasks -> Nat]
CoresOK ==
  /\ current_task \in [Cores -> Tasks \cup {NoTask}]
  /\ run_queue \in [Cores -> Seq(Tasks)]
  /\ context_switches \in [Cores -> Nat]
  /\ total_switches \in Nat
AccountsOK ==
  /\ core_busy_ns \in [Cores -> Nat]
  /\ gpu_queue \in Seq(Tasks)
  /\ memory_used \in [weight : Nat, workspace : Nat]
  /\ metrics \in [arrived : Nat, completed : Nat, met : Nat, missed : Nat]
  /\ recently_completed \in Seq(Tasks)
  /\ prev_obs \in BOOLEAN
  /\ rewarded \in [Tasks -> Nat]
  /\ finish_time \in [Tasks -> Nat]

TypeOK == LoopOK /\ TasksOK /\ CoresOK /\ AccountsOK
=============================================================================
