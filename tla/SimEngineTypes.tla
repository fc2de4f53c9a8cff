--------------------------- MODULE SimEngineTypes ---------------------------
(***************************************************************************)
(* Type correctness of SimEngine, for every workload, platform and agent.  *)
(* One lemma for each part of an action that several actions share, then   *)
(* one for each action of Next.                                            *)
(***************************************************************************)
EXTENDS SimEngine, SequenceTheorems, FiniteSetTheorems, TLAPS

-----------------------------------------------------------------------------
(* Operators without state.                                                *)

(* A priority stays in the kernel's range when it is adjusted. *)
LEMMA AdjustPriorityType ==
  ASSUME NEW p \in Priorities, NEW adj \in 0 .. 2
  PROVE  AdjustPriority(p, adj) \in Priorities
<1>1. /\ PRIORITY_LEVELS[1] = 0 /\ PRIORITY_LEVELS[2] = 2 /\ PRIORITY_LEVELS[3] = 4
      /\ PRIORITY_LEVELS[4] = 6 /\ PRIORITY_LEVELS[5] = 7
  BY DEF PRIORITY_LEVELS
<1>2. \A i \in 1 .. 5 : PRIORITY_LEVELS[i] \in Priorities
  BY <1>1 DEF Priorities, PRIORITY_CRITICAL
<1>3. \E i \in 1 .. 5 :
        /\ PRIORITY_LEVELS[i] <= p
        /\ \A j \in 1 .. 5 : PRIORITY_LEVELS[j] <= p => j <= i
  <2>1. CASE p \in {0, 1}
    BY <1>1, <2>1
  <2>2. CASE p \in {2, 3}
    BY <1>1, <2>2
  <2>3. CASE p \in {4, 5}
    BY <1>1, <2>3
  <2>4. CASE p = 6
    BY <1>1, <2>4
  <2>5. CASE p = 7
    BY <1>1, <2>5
  <2> QED
    BY <2>1, <2>2, <2>3, <2>4, <2>5 DEF Priorities, PRIORITY_CRITICAL
<1>4. LevelIndex(p) \in 1 .. 5
  BY <1>3 DEF LevelIndex
<1>5. /\ Larger(1, LevelIndex(p) - 1) \in 1 .. 5
      /\ Smaller(5, LevelIndex(p) + 1) \in 1 .. 5
  BY <1>4 DEF Larger, Smaller
<1>6. CASE adj = 0
  BY <1>2, <1>5, <1>6 DEF AdjustPriority
<1>7. CASE adj = 1
  BY <1>7 DEF AdjustPriority
<1>8. CASE adj = 2
  BY <1>2, <1>5, <1>8 DEF AdjustPriority
<1> QED
  BY <1>6, <1>7, <1>8

(* The scaled duration of a task is a time. *)
LEMMA AdjustedDurationType ==
  ASSUME NEW work \in Nat, NEW c \in Cores
  PROVE  AdjustedDuration(work, c) \in Nat
<1>1. Freq[c] \in Nat \ {0} /\ RefFreq \in Nat
  BY PlatformAssumption
<1>2. work * RefFreq \in Nat
  BY <1>1
<1>3. \A n \in Nat, d \in Nat \ {0} : n \div d \in Nat
  OBVIOUS
<1> QED
  BY <1>1, <1>2, <1>3 DEF AdjustedDuration

(* Inserting an element into a sequence, and what is left of one after a   *)
(* position, are sequences over the same set. *)
LEMMA InsertType ==
  ASSUME NEW S, NEW q \in Seq(S), NEW x \in S, NEW i \in 1 .. Len(q) + 1
  PROVE  SubSeq(q, 1, i - 1) \o <<x>> \o SubSeq(q, i, Len(q)) \in Seq(S)
<1>1. Len(q) \in Nat /\ \A k \in 1 .. Len(q) : q[k] \in S
  BY LenProperties, ElementOfSeq
<1>2. SubSeq(q, 1, i - 1) \in Seq(S)
  <2>1. \A k \in 1 .. i - 1 : q[k] \in S
    BY <1>1
  <2> QED
    BY <1>1, <2>1, SubSeqProperties
<1>3. SubSeq(q, i, Len(q)) \in Seq(S)
  <2>1. \A k \in i .. Len(q) : q[k] \in S
    BY <1>1
  <2> QED
    BY <1>1, <2>1, SubSeqProperties
<1>4. <<x>> \in Seq(S)
  OBVIOUS
<1>5. SubSeq(q, 1, i - 1) \o <<x>> \in Seq(S)
  BY <1>2, <1>4, ConcatProperties
<1> QED
  BY <1>3, <1>5, ConcatProperties

LEMMA RestType ==
  ASSUME NEW S, NEW q \in Seq(S), NEW m \in Nat \ {0}, NEW n \in 0 .. Len(q)
  PROVE  SubSeq(q, m, n) \in Seq(S)
<1>1. Len(q) \in Nat /\ \A k \in 1 .. Len(q) : q[k] \in S
  BY LenProperties, ElementOfSeq
<1>2. \A k \in m .. n : q[k] \in S
  BY <1>1
<1> QED
  BY <1>1, <1>2, SubSeqProperties

-----------------------------------------------------------------------------
(* The parts of the handlers.                                              *)

(* The heap's events after one is popped and one may be pushed. *)
LEMMA PushType ==
  ASSUME TypeOK, NEW e, NEW ev \in Event, Push(e, ev)
  PROVE  event_queue' \in SUBSET Event /\ event_sequence' \in Nat
BY DEF TypeOK, LoopOK, Push

LEMMA PushNothingType ==
  ASSUME TypeOK, NEW e, PushNothing(e)
  PROVE  event_queue' \in SUBSET Event /\ event_sequence' \in Nat
BY DEF TypeOK, LoopOK, PushNothing

LEMMA PopEventType ==
  ASSUME TypeOK, NEW e \in event_queue, NEW type, PopEvent(e, type)
  PROVE  /\ e \in Event
         /\ e.ts \in Nat
         /\ event_ts' \in Nat
         /\ core_busy_ns' \in [Cores -> Nat]
         /\ prev_obs' \in BOOLEAN
         /\ rewarded' \in [Tasks -> Nat]
<1>1. e \in Event /\ e.ts \in Nat
  BY DEF TypeOK, LoopOK, Event, ArrivalEvent, CompletionEvent, QuantumEvent, PeriodicEvent
<1>2. event_ts' \in Nat /\ prev_obs' \in BOOLEAN /\ rewarded' \in [Tasks -> Nat]
  BY <1>1 DEF TypeOK, AccountsOK, PopEvent, rewardVars
<1>3. core_busy_ns' \in [Cores -> Nat]
  <2>1. core_busy_ns \in [Cores -> Nat] /\ clock_ns \in Nat
    BY DEF TypeOK, LoopOK, AccountsOK
  <2>2. core_busy_ns' = [c \in Cores |->
          IF current_task[c] # NoTask /\ e.ts > clock_ns
          THEN core_busy_ns[c] + (e.ts - clock_ns) ELSE core_busy_ns[c]]
    BY DEF PopEvent, UpdateCoreBusyTime
  <2> QED
    BY <1>1, <2>1, <2>2
<1> QED
  BY <1>1, <1>2, <1>3

(* What the type of an event says of its fields. *)
LEMMA EventFields ==
  ASSUME NEW e \in Event
  PROVE  /\ e.type = TASK_ARRIVAL => e.task \in Tasks
         /\ e.type = TASK_COMPLETION => e.task \in Tasks /\ e.core \in Cores
         /\ e.type = QUANTUM_EXPIRED => e.core \in Cores
BY DEF Event, ArrivalEvent, CompletionEvent, QuantumEvent, PeriodicEvent, TASK_ARRIVAL,
       TASK_COMPLETION, QUANTUM_EXPIRED, DEADLINE_CHECK, MIGRATION_CHECK

(* The events the engine makes are events. *)
LEMMA NewEventType ==
  ASSUME event_sequence \in Nat, NEW ts \in Nat
  PROVE  /\ \A t \in Tasks, c \in Cores :
              NewEvent(ts, TASK_COMPLETION, t, c) \in CompletionEvent
         /\ \A c \in Cores : NewEvent(ts, QUANTUM_EXPIRED, NoTask, c) \in QuantumEvent
         /\ \A type \in {DEADLINE_CHECK, MIGRATION_CHECK} :
              NewEvent(ts, type, NoTask, NoCore) \in PeriodicEvent
BY DEF NewEvent, CompletionEvent, QuantumEvent, PeriodicEvent

LEMMA RunEventType ==
  ASSUME event_sequence \in Nat, NEW t \in Tasks, NEW c \in Cores, NEW now \in Nat,
         NEW work \in Nat
  PROVE  RunEvent(t, c, now, work) \in Event
<1> DEFINE d == AdjustedDuration(work, c)
<1>1. d \in Nat
  BY AdjustedDurationType
<1>2. Quantum \in Nat
  BY PlatformAssumption
<1> HIDE DEF d
<1>3. now + d \in Nat /\ now + Quantum \in Nat
  BY <1>1, <1>2
<1>4. NewEvent(now + d, TASK_COMPLETION, t, c) \in Event
  BY <1>3, NewEventType DEF Event
<1>5. NewEvent(now + Quantum, QUANTUM_EXPIRED, NoTask, c) \in Event
  BY <1>3, NewEventType DEF Event
<1> QED
  BY <1>4, <1>5 DEF RunEvent, d

LEMMA PushAgainType ==
  ASSUME TypeOK, NEW e \in Event, NEW interval \in Nat,
         e.type \in {DEADLINE_CHECK, MIGRATION_CHECK}, PushAgain(e, interval)
  PROVE  event_queue' \in SUBSET Event /\ event_sequence' \in Nat
<1>1. e.ts \in Nat
  BY DEF Event, ArrivalEvent, CompletionEvent, QuantumEvent, PeriodicEvent
<1>2. NewEvent(e.ts + interval, e.type, NoTask, NoCore) \in Event
  <2>1. e.ts + interval \in Nat
    BY <1>1
  <2> QED
    BY <2>1, NewEventType DEF Event, TypeOK, LoopOK
<1> QED
  BY <1>2, PushType, PushNothingType DEF PushAgain

(* Starting the next task of a queue. *)
LEMMA StartNextType ==
  ASSUME TypeOK, NEW e, NEW c \in Cores,
         NEW st \in [Tasks -> TaskState],
         NEW asg \in [Tasks -> Cores \cup {NoCore}],
         NEW switched \in Nat,
         remaining_work_ns' \in [Tasks -> Nat], clock_ns' \in Nat,
         StartNextFromQueue(e, c, st, asg, switched)
  PROVE  /\ state' \in [Tasks -> TaskState]
         /\ assigned_cpu' \in [Tasks -> Cores \cup {NoCore}]
         /\ current_task' \in [Cores -> Tasks \cup {NoTask}]
         /\ run_queue' \in [Cores -> Seq(Tasks)]
         /\ context_switches' \in [Cores -> Nat]
         /\ total_switches' \in Nat
         /\ event_queue' \in SUBSET Event
         /\ event_sequence' \in Nat
<1>1. CASE IdleCore(e, c, st, asg, switched)
  <2>1. PushNothing(e)
    BY <1>1 DEF IdleCore
  <2>2. <<>> \in Seq(Tasks)
    OBVIOUS
  <2>3. run_queue' \in [Cores -> Seq(Tasks)]
    BY <1>1, <2>2 DEF IdleCore, TypeOK, CoresOK
  <2>4. event_queue' \in SUBSET Event /\ event_sequence' \in Nat
    BY <2>1, PushNothingType
  <2>5. /\ context_switches' = [context_switches EXCEPT ![c] = @ + switched]
        /\ total_switches' = total_switches + switched
        /\ current_task' = [current_task EXCEPT ![c] = NoTask]
        /\ state' = st /\ assigned_cpu' = asg
    BY <1>1 DEF IdleCore
  <2> QED
    BY <2>3, <2>4, <2>5 DEF TypeOK, CoresOK
<1>2. ASSUME NEW i \in DOMAIN run_queue[c], StartQueued(e, c, st, asg, switched, i)
      PROVE  /\ state' \in [Tasks -> TaskState]
             /\ assigned_cpu' \in [Tasks -> Cores \cup {NoCore}]
             /\ current_task' \in [Cores -> Tasks \cup {NoTask}]
             /\ run_queue' \in [Cores -> Seq(Tasks)]
             /\ context_switches' \in [Cores -> Nat]
             /\ total_switches' \in Nat
             /\ event_queue' \in SUBSET Event
             /\ event_sequence' \in Nat
  <2> DEFINE t == run_queue[c][i]
  <2>1. run_queue[c] \in Seq(Tasks)
    BY DEF TypeOK, CoresOK
  <2>2. Len(run_queue[c]) \in Nat /\ i \in 1 .. Len(run_queue[c])
    BY <2>1, LenProperties
  <2>3. t \in Tasks
    BY <2>1, <2>2, ElementOfSeq
  <2>4. SubSeq(run_queue[c], i + 1, Len(run_queue[c])) \in Seq(Tasks)
    BY <2>1, <2>2, RestType
  <2>5. RunEvent(t, c, clock_ns', remaining_work_ns'[t]) \in Event
    <3>1. remaining_work_ns'[t] \in Nat
      BY <2>3
    <3>2. event_sequence \in Nat
      BY DEF TypeOK, LoopOK
    <3> QED
      BY <2>3, <3>1, <3>2, RunEventType
  <2>6. event_queue' \in SUBSET Event /\ event_sequence' \in Nat
    BY <1>2, <2>5, PushType DEF StartQueued
  <2>7. run_queue' \in [Cores -> Seq(Tasks)]
    BY <1>2, <2>4 DEF StartQueued, TypeOK, CoresOK
  <2>8. "RUNNING" \in TaskState
    BY DEF TaskState
  <2>9. /\ context_switches' = [context_switches EXCEPT ![c] = @ + switched + 1]
        /\ total_switches' = total_switches + switched + 1
        /\ current_task' = [current_task EXCEPT ![c] = t]
        /\ state' = [st EXCEPT ![t] = "RUNNING"]
        /\ assigned_cpu' = [asg EXCEPT ![t] = c]
    BY <1>2 DEF StartQueued
  <2>10. /\ context_switches' \in [Cores -> Nat]
         /\ total_switches' \in Nat
    <3>0. context_switches \in [Cores -> Nat] /\ total_switches \in Nat
      BY DEF TypeOK, CoresOK
    <3>1. context_switches[c] + switched + 1 \in Nat /\ total_switches + switched + 1 \in Nat
      BY <3>0
    <3>2. context_switches' = [context_switches EXCEPT ![c] = @ + switched + 1]
      BY <2>9
    <3>3. context_switches' \in [Cores -> Nat]
      BY <3>0, <3>1, <3>2
    <3>4. total_switches' = total_switches + switched + 1
      BY <2>9
    <3> QED
      BY <3>1, <3>3, <3>4
  <2>11. /\ current_task' \in [Cores -> Tasks \cup {NoTask}]
         /\ state' \in [Tasks -> TaskState]
         /\ assigned_cpu' \in [Tasks -> Cores \cup {NoCore}]
    BY <2>3, <2>8, <2>9 DEF TypeOK, CoresOK
  <2> QED
    BY <2>6, <2>7, <2>10, <2>11
<1> QED
  BY <1>1, <1>2 DEF StartNextFromQueue

(* A completion's bookkeeping. *)
LEMMA RecordCompletionType ==
  ASSUME TypeOK, NEW t \in Tasks, clock_ns' \in Nat, RecordCompletion(t)
  PROVE  /\ metrics' \in [arrived : Nat, completed : Nat, met : Nat, missed : Nat]
         /\ recently_completed' \in Seq(Tasks)
         /\ finish_time' \in [Tasks -> Nat]
         /\ memory_used' \in [weight : Nat, workspace : Nat]
<1>1. metrics' \in [arrived : Nat, completed : Nat, met : Nat, missed : Nat]
  <2>1. metrics.arrived \in Nat /\ metrics.completed \in Nat /\ metrics.met \in Nat
        /\ metrics.missed \in Nat
    BY DEF TypeOK, AccountsOK
  <2>2. metrics.met + Count(Deadline(t) > 0 /\ clock_ns' <= Deadline(t)) \in Nat
    BY <2>1 DEF Count
  <2>3. metrics.missed + Count(Deadline(t) > 0 /\ clock_ns' > Deadline(t)) \in Nat
    BY <2>1 DEF Count
  <2> QED
    BY <2>1, <2>2, <2>3 DEF RecordCompletion
<1>2. recently_completed' \in Seq(Tasks)
  BY DEF RecordCompletion, TypeOK, AccountsOK
<1>3. finish_time' \in [Tasks -> Nat]
  BY DEF RecordCompletion, TypeOK, AccountsOK
<1>4. memory_used' \in [weight : Nat, workspace : Nat]
  <2>1. memory_used' = FreeMemory(t)
    BY DEF RecordCompletion
  <2>2. memory_used.weight \in Nat /\ memory_used.workspace \in Nat
    BY DEF TypeOK, AccountsOK
  <2>3. ModelSize[t] \in Nat /\ WorkingSet[t] \in Nat
    BY TaskAssumption
  <2> QED
    BY <2>1, <2>2, <2>3 DEF FreeMemory, Larger
<1> QED
  BY <1>1, <1>2, <1>3, <1>4

LEMMA NeedsDecisionType ==
  ASSUME NeedsDecision \/ NoDecision
  PROVE  pc' \in {"event", "decide", "done"}
BY DEF NeedsDecision, NoDecision

-----------------------------------------------------------------------------
(* One lemma for each handler.                                             *)

LEMMA HandleTaskArrivalType ==
  ASSUME TypeOK, NEW e \in event_queue, HandleTaskArrival(e)
  PROVE  TypeOK'
<1>1. PopEvent(e, TASK_ARRIVAL) /\ PushNothing(e) /\ NeedsDecision
  BY DEF HandleTaskArrival
<1>2. /\ e.ts \in Nat /\ event_ts' \in Nat /\ core_busy_ns' \in [Cores -> Nat]
      /\ prev_obs' \in BOOLEAN /\ rewarded' \in [Tasks -> Nat]
  BY <1>1, PopEventType
<1>3. e.task \in Tasks
  BY <1>1, PopEventType, EventFields DEF PopEvent
<1>4. LoopOK'
  BY <1>1, <1>2, PushNothingType, NeedsDecisionType DEF HandleTaskArrival, LoopOK
<1>5. TasksOK'
  <2>1. "READY" \in TaskState
    BY DEF TaskState
  <2>2. \A t \in Tasks : Priority[t] \in Priorities /\ Work[t] \in Nat
    BY TaskAssumption DEF Priorities, PRIORITY_CRITICAL, Levels
  <2> QED
    BY <1>2, <1>3, <2>1, <2>2 DEF HandleTaskArrival, TypeOK, TasksOK
<1>6. CoresOK'
  BY DEF HandleTaskArrival, coreVars, TypeOK, CoresOK
<1>7. AccountsOK'
  <2>1. ModelSize[e.task] \in Nat /\ WorkingSet[e.task] \in Nat
    BY <1>3, TaskAssumption
  <2>2. memory_used.weight \in Nat /\ memory_used.workspace \in Nat
    BY DEF TypeOK, AccountsOK
  <2>3. memory_used' \in [weight : Nat, workspace : Nat]
    BY <2>1, <2>2 DEF HandleTaskArrival
  <2>4. metrics' \in [arrived : Nat, completed : Nat, met : Nat, missed : Nat]
    BY DEF HandleTaskArrival, TypeOK, AccountsOK
  <2> QED
    BY <1>2, <2>3, <2>4 DEF HandleTaskArrival, TypeOK, AccountsOK
<1> QED
  BY <1>4, <1>5, <1>6, <1>7 DEF TypeOK

LEMMA HandleTaskCompletionType ==
  ASSUME TypeOK, NEW e \in event_queue, HandleTaskCompletion(e)
  PROVE  TypeOK'
<1> DEFINE ended == [state EXCEPT ![e.task] = "TERMINATED"]
<1>1. /\ PopEvent(e, TASK_COMPLETION) /\ RecordCompletion(e.task) /\ NeedsDecision
      /\ clock_ns' = e.ts
      /\ UNCHANGED <<effective_priority, remaining_work_ns, arrival_time_ns, gpu_queue>>
  BY DEF HandleTaskCompletion
<1>2. /\ e.ts \in Nat /\ event_ts' \in Nat /\ core_busy_ns' \in [Cores -> Nat]
      /\ prev_obs' \in BOOLEAN /\ rewarded' \in [Tasks -> Nat]
  BY <1>1, PopEventType
<1>3. e.task \in Tasks /\ e.core \in Cores
  BY <1>1, PopEventType, EventFields DEF PopEvent
<1>4. clock_ns' \in Nat /\ remaining_work_ns' \in [Tasks -> Nat]
  BY <1>1, <1>2 DEF TypeOK, TasksOK
<1>5. AccountsOK'
  BY <1>1, <1>2, <1>3, <1>4, RecordCompletionType DEF TypeOK, AccountsOK
<1>6. /\ state' \in [Tasks -> TaskState]
      /\ assigned_cpu' \in [Tasks -> Cores \cup {NoCore}]
      /\ CoresOK'
      /\ event_queue' \in SUBSET Event
      /\ event_sequence' \in Nat
  <2>1. ended \in [Tasks -> TaskState]
    BY DEF TypeOK, TasksOK, TaskState
  <2>2. CASE StartNextFromQueue(e, e.core, ended, assigned_cpu, 0)
    <3>1. assigned_cpu \in [Tasks -> Cores \cup {NoCore}]
      BY DEF TypeOK, TasksOK
    <3> QED
      BY <1>3, <1>4, <2>1, <2>2, <3>1, StartNextType DEF CoresOK
  <2>3. CASE state' = ended /\ PushNothing(e) /\ UNCHANGED <<assigned_cpu, coreVars>>
    <3>1. CoresOK' /\ assigned_cpu' \in [Tasks -> Cores \cup {NoCore}]
      BY <2>3 DEF TypeOK, TasksOK, CoresOK, coreVars
    <3> QED
      BY <2>1, <2>3, <3>1, PushNothingType
  <2> QED
    BY <2>2, <2>3 DEF HandleTaskCompletion
<1>7. LoopOK'
  BY <1>1, <1>2, <1>4, <1>6, NeedsDecisionType DEF LoopOK
<1>8. TasksOK'
  BY <1>1, <1>6 DEF TypeOK, TasksOK
<1> QED
  BY <1>5, <1>6, <1>7, <1>8 DEF TypeOK

(* The handlers that drop their event. *)
LEMMA DropType ==
  ASSUME TypeOK, NEW e \in event_queue, NEW type, PopEvent(e, type), PushNothing(e),
         clock_ns' = e.ts, NoDecision,
         UNCHANGED <<taskVars, coreVars, gpu_queue, accountVars>>
  PROVE  TypeOK'
<1>1. /\ e.ts \in Nat /\ event_ts' \in Nat /\ core_busy_ns' \in [Cores -> Nat]
      /\ prev_obs' \in BOOLEAN /\ rewarded' \in [Tasks -> Nat]
  BY PopEventType
<1>2. LoopOK'
  BY <1>1, PushNothingType, NeedsDecisionType DEF LoopOK
<1>3. TasksOK' /\ CoresOK'
  BY DEF TypeOK, TasksOK, CoresOK, taskVars, coreVars
<1>4. AccountsOK'
  BY <1>1 DEF TypeOK, AccountsOK, accountVars
<1> QED
  BY <1>2, <1>3, <1>4 DEF TypeOK

LEMMA FreeCoreOfDeadTaskType ==
  ASSUME TypeOK, NEW e \in event_queue, FreeCoreOfDeadTask(e)
  PROVE  TypeOK'
<1>1. PopEvent(e, QUANTUM_EXPIRED) /\ PushNothing(e) /\ NeedsDecision
  BY DEF FreeCoreOfDeadTask
<1>2. /\ e.ts \in Nat /\ event_ts' \in Nat /\ core_busy_ns' \in [Cores -> Nat]
      /\ prev_obs' \in BOOLEAN /\ rewarded' \in [Tasks -> Nat]
  BY <1>1, PopEventType
<1>3. LoopOK'
  BY <1>1, <1>2, PushNothingType, NeedsDecisionType DEF FreeCoreOfDeadTask, LoopOK
<1>4. TasksOK'
  BY DEF FreeCoreOfDeadTask, TypeOK, TasksOK, taskVars
<1>5. CoresOK'
  BY DEF FreeCoreOfDeadTask, TypeOK, CoresOK
<1>6. AccountsOK'
  BY <1>2 DEF FreeCoreOfDeadTask, TypeOK, AccountsOK, accountVars
<1> QED
  BY <1>3, <1>4, <1>5, <1>6 DEF TypeOK

LEMMA FinishInQuantumType ==
  ASSUME TypeOK, NEW e \in event_queue, FinishInQuantum(e)
  PROVE  TypeOK'
<1> DEFINE t == current_task[e.core]
<1>1. PopEvent(e, QUANTUM_EXPIRED) /\ NoDecision /\ t # NoTask
  BY DEF FinishInQuantum
<1>2. /\ e.ts \in Nat /\ event_ts' \in Nat /\ core_busy_ns' \in [Cores -> Nat]
      /\ prev_obs' \in BOOLEAN /\ rewarded' \in [Tasks -> Nat]
  BY <1>1, PopEventType
<1>3. e.core \in Cores
  BY <1>1, PopEventType, EventFields DEF PopEvent
<1>4. t \in Tasks
  BY <1>1, <1>3 DEF TypeOK, CoresOK
<1>5. NewEvent(e.ts, TASK_COMPLETION, t, e.core) \in Event
  <2>1. event_sequence \in Nat
    BY DEF TypeOK, LoopOK
  <2> QED
    BY <1>2, <1>3, <1>4, <2>1, NewEventType DEF Event
<1>6. event_queue' \in SUBSET Event /\ event_sequence' \in Nat
  BY <1>5, PushType DEF FinishInQuantum
<1>7. LoopOK'
  BY <1>1, <1>2, <1>6, NeedsDecisionType DEF FinishInQuantum, LoopOK
<1>8. TasksOK'
  BY <1>4 DEF FinishInQuantum, TypeOK, TasksOK
<1>9. CoresOK'
  BY DEF FinishInQuantum, TypeOK, CoresOK, coreVars
<1>10. AccountsOK'
  BY <1>2 DEF FinishInQuantum, TypeOK, AccountsOK, accountVars
<1> QED
  BY <1>7, <1>8, <1>9, <1>10 DEF TypeOK

LEMMA PreemptAtQuantumType ==
  ASSUME TypeOK, NEW e \in event_queue, PreemptAtQuantum(e)
  PROVE  TypeOK'
<1> DEFINE t == current_task[e.core]
           st == [state EXCEPT ![t] = "READY"]
           asg == [assigned_cpu EXCEPT ![t] = NoCore]
<1>1. /\ PopEvent(e, QUANTUM_EXPIRED) /\ NeedsDecision /\ t # NoTask
      /\ remaining_work_ns[t] > Quantum
      /\ remaining_work_ns' = [remaining_work_ns EXCEPT ![t] = @ - Quantum]
      /\ UNCHANGED <<effective_priority, arrival_time_ns, gpu_queue, accountVars>>
      /\ StartNextFromQueue(e, e.core, st, asg, 1)
  BY DEF PreemptAtQuantum
<1>2. /\ e.ts \in Nat /\ event_ts' \in Nat /\ core_busy_ns' \in [Cores -> Nat]
      /\ prev_obs' \in BOOLEAN /\ rewarded' \in [Tasks -> Nat]
  BY <1>1, PopEventType
<1>3. e.core \in Cores
  BY <1>1, PopEventType, EventFields DEF PopEvent
<1>4. t \in Tasks
  BY <1>1, <1>3 DEF TypeOK, CoresOK
<1>5. clock_ns' \in Nat
  <2>1. PICK cost \in CsMin .. CsMax : clock_ns' = e.ts + cost
    BY DEF PreemptAtQuantum
  <2>2. cost \in Nat
    BY PlatformAssumption
  <2>3. e.ts + cost \in Nat
    BY <1>2, <2>2
  <2> QED
    BY <2>1, <2>3
<1>6. remaining_work_ns' \in [Tasks -> Nat]
  <2>1. remaining_work_ns \in [Tasks -> Nat] /\ Quantum \in Nat
    BY PlatformAssumption DEF TypeOK, TasksOK
  <2>2. remaining_work_ns[t] - Quantum \in Nat
    BY <1>1, <1>4, <2>1
  <2> QED
    BY <1>1, <2>1, <2>2
<1>7. /\ state' \in [Tasks -> TaskState]
      /\ assigned_cpu' \in [Tasks -> Cores \cup {NoCore}]
      /\ CoresOK'
      /\ event_queue' \in SUBSET Event
      /\ event_sequence' \in Nat
  <2>1. st \in [Tasks -> TaskState]
    BY DEF TypeOK, TasksOK, TaskState
  <2>2. asg \in [Tasks -> Cores \cup {NoCore}]
    BY DEF TypeOK, TasksOK
  <2> QED
    BY <1>1, <1>3, <1>5, <1>6, <2>1, <2>2, StartNextType DEF CoresOK
<1>8. LoopOK'
  BY <1>1, <1>2, <1>5, <1>7, NeedsDecisionType DEF LoopOK
<1>9. TasksOK'
  BY <1>1, <1>6, <1>7 DEF TypeOK, TasksOK
<1>10. AccountsOK'
  BY <1>1, <1>2 DEF TypeOK, AccountsOK, accountVars
<1> QED
  BY <1>7, <1>8, <1>9, <1>10 DEF TypeOK

LEMMA DeadlineBoostType ==
  ASSUME TypeOK, NEW t \in Tasks, NEW now \in Nat
  PROVE  DeadlineBoost(t, now) \in Priorities
<1>1. effective_priority[t] \in Priorities /\ Priority[t] \in Priorities
  BY TaskAssumption DEF TypeOK, TasksOK, Priorities, PRIORITY_CRITICAL, Levels
<1>2. PRIORITY_CRITICAL \in Priorities /\ PRIORITY_HIGH \in Priorities
  BY DEF Priorities, PRIORITY_CRITICAL, PRIORITY_HIGH
<1>3. Larger(effective_priority[t], PRIORITY_HIGH) \in Priorities
  BY <1>1, <1>2 DEF Larger
<1>4. Smaller(Priority[t] + 1, PRIORITY_CRITICAL) \in Priorities
  BY <1>1, <1>2 DEF Smaller, Priorities, PRIORITY_CRITICAL
<1>5. Larger(effective_priority[t], Smaller(Priority[t] + 1, PRIORITY_CRITICAL))
        \in Priorities
  BY <1>1, <1>4 DEF Larger
<1> QED
  BY <1>1, <1>2, <1>3, <1>5 DEF DeadlineBoost

LEMMA HandleDeadlineCheckType ==
  ASSUME TypeOK, NEW e \in event_queue, HandleDeadlineCheck(e)
  PROVE  TypeOK'
<1>1. /\ PopEvent(e, DEADLINE_CHECK) /\ NoDecision /\ clock_ns' = e.ts
      /\ PushAgain(e, DeadlineCheckInterval)
      /\ UNCHANGED <<state, assigned_cpu, remaining_work_ns, arrival_time_ns, coreVars,
                     gpu_queue, accountVars>>
  BY DEF HandleDeadlineCheck
<1>2. /\ e \in Event /\ e.ts \in Nat /\ event_ts' \in Nat
      /\ core_busy_ns' \in [Cores -> Nat] /\ prev_obs' \in BOOLEAN
      /\ rewarded' \in [Tasks -> Nat]
  BY <1>1, PopEventType
<1>3. event_queue' \in SUBSET Event /\ event_sequence' \in Nat
  <2>1. DeadlineCheckInterval \in Nat /\ e.type \in {DEADLINE_CHECK, MIGRATION_CHECK}
    BY <1>1, TimingAssumption DEF PopEvent
  <2> QED
    BY <1>1, <1>2, <2>1, PushAgainType
<1>4. LoopOK'
  BY <1>1, <1>2, <1>3, NeedsDecisionType DEF LoopOK
<1>5. effective_priority' \in [Tasks -> Priorities]
  <2>1. \A t \in Tasks :
          DeadlineBoost(t, e.ts) \in Priorities /\ effective_priority[t] \in Priorities
    BY <1>2, DeadlineBoostType DEF TypeOK, TasksOK
  <2> QED
    BY <2>1 DEF HandleDeadlineCheck
<1>6. TasksOK' /\ CoresOK'
  BY <1>1, <1>5 DEF TypeOK, TasksOK, CoresOK, coreVars
<1>7. AccountsOK'
  BY <1>1, <1>2 DEF TypeOK, AccountsOK, accountVars
<1> QED
  BY <1>4, <1>6, <1>7 DEF TypeOK

LEMMA MigrateTaskType ==
  ASSUME TypeOK, NEW e \in event_queue, NEW from \in Migratable, NEW to \in Migratable,
         MigrateTask(e, from, to)
  PROVE  TypeOK'
<1> DEFINE q == run_queue[from]
           t == q[Len(q)]
<1>1. /\ PopEvent(e, MIGRATION_CHECK) /\ NoDecision /\ clock_ns' = e.ts
      /\ Imbalanced(from, to)
      /\ PushAgain(e, MigrationCheckInterval)
      /\ UNCHANGED <<state, effective_priority, remaining_work_ns, arrival_time_ns,
                     current_task, context_switches, total_switches, gpu_queue,
                     accountVars>>
  BY DEF MigrateTask
<1>2. /\ e \in Event /\ e.ts \in Nat /\ event_ts' \in Nat
      /\ core_busy_ns' \in [Cores -> Nat] /\ prev_obs' \in BOOLEAN
      /\ rewarded' \in [Tasks -> Nat]
  BY <1>1, PopEventType
<1>3. event_queue' \in SUBSET Event /\ event_sequence' \in Nat
  <2>1. MigrationCheckInterval \in Nat /\ e.type \in {DEADLINE_CHECK, MIGRATION_CHECK}
    BY <1>1, TimingAssumption DEF PopEvent
  <2> QED
    BY <1>1, <1>2, <2>1, PushAgainType
<1>4. LoopOK'
  BY <1>1, <1>2, <1>3, NeedsDecisionType DEF LoopOK
<1>5. from \in Cores /\ to \in Cores
  BY DEF Migratable
<1>6. run_queue[from] \in Seq(Tasks) /\ run_queue[to] \in Seq(Tasks)
  BY <1>5 DEF TypeOK, CoresOK
<1>7. Len(q) \in Nat /\ Len(run_queue[to]) \in Nat
  BY <1>6, LenProperties
<1>8. Len(q) > 2 /\ from # to
  <2>1. Len(run_queue[from]) - Len(run_queue[to]) > 2
    BY <1>1 DEF Imbalanced
  <2>2. \A m, n \in Nat : m - n > 2 => m > 2 /\ m # n
    OBVIOUS
  <2> QED
    BY <1>7, <2>1, <2>2
<1>9. t \in Tasks
  BY <1>6, <1>7, <1>8, ElementOfSeq
<1>10. run_queue' \in [Cores -> Seq(Tasks)]
  <2>1. SubSeq(q, 1, Len(q) - 1) \in Seq(Tasks)
    BY <1>6, <1>7, <1>8, RestType
  <2>2. \A s \in Seq(Tasks) : Append(s, t) \in Seq(Tasks)
    BY <1>9
  <2>3. run_queue' = [run_queue EXCEPT ![from] = SubSeq(q, 1, Len(q) - 1),
                                       ![to] = Append(run_queue[to], t)]
    BY <1>8 DEF MigrateTask
  <2> QED
    BY <1>6, <2>1, <2>2, <2>3 DEF TypeOK, CoresOK
<1>11. assigned_cpu' \in [Tasks -> Cores \cup {NoCore}]
  BY <1>5, <1>9 DEF MigrateTask, TypeOK, TasksOK
<1>12. TasksOK' /\ CoresOK'
  BY <1>1, <1>10, <1>11 DEF TypeOK, TasksOK, CoresOK
<1>13. AccountsOK'
  BY <1>1, <1>2 DEF TypeOK, AccountsOK, accountVars
<1> QED
  BY <1>4, <1>12, <1>13 DEF TypeOK

LEMMA SkipMigrationType ==
  ASSUME TypeOK, NEW e \in event_queue, SkipMigration(e)
  PROVE  TypeOK'
<1>1. /\ PopEvent(e, MIGRATION_CHECK) /\ NoDecision /\ clock_ns' = e.ts
      /\ PushAgain(e, MigrationCheckInterval)
      /\ UNCHANGED <<taskVars, coreVars, gpu_queue, accountVars>>
  BY DEF SkipMigration
<1>2. /\ e \in Event /\ e.ts \in Nat /\ event_ts' \in Nat
      /\ core_busy_ns' \in [Cores -> Nat] /\ prev_obs' \in BOOLEAN
      /\ rewarded' \in [Tasks -> Nat]
  BY <1>1, PopEventType
<1>3. event_queue' \in SUBSET Event /\ event_sequence' \in Nat
  <2>1. MigrationCheckInterval \in Nat /\ e.type \in {DEADLINE_CHECK, MIGRATION_CHECK}
    BY <1>1, TimingAssumption DEF PopEvent
  <2> QED
    BY <1>1, <1>2, <2>1, PushAgainType
<1>4. LoopOK'
  BY <1>1, <1>2, <1>3, NeedsDecisionType DEF LoopOK
<1>5. TasksOK' /\ CoresOK'
  BY <1>1 DEF TypeOK, TasksOK, CoresOK, taskVars, coreVars
<1>6. AccountsOK'
  BY <1>1, <1>2 DEF TypeOK, AccountsOK, accountVars
<1> QED
  BY <1>4, <1>5, <1>6 DEF TypeOK

-----------------------------------------------------------------------------
(* The decision.                                                           *)

LEMMA OccurrencesType ==
  ASSUME TypeOK, NEW t
  PROVE  Occurrences(t) \in Nat
<1>1. Len(recently_completed) \in Nat
      /\ DOMAIN recently_completed = 1 .. Len(recently_completed)
  BY LenProperties DEF TypeOK, AccountsOK
<1>2. IsFiniteSet(DOMAIN recently_completed)
  BY <1>1, FS_Interval
<1>3. IsFiniteSet({i \in DOMAIN recently_completed : recently_completed[i] = t})
  BY <1>2, FS_Subset
<1> QED
  BY <1>3, FS_CardinalityType DEF Occurrences

(* What is logged of the completions, by run_episode or by another driver. *)
RewardsOK ==
  /\ recently_completed \in Seq(Tasks)
  /\ prev_obs \in BOOLEAN
  /\ rewarded \in [Tasks -> Nat]

(* What logging the transition of the previous decision does. *)
LEMMA LogTransitionType ==
  ASSUME TypeOK, LogTransition
  PROVE  RewardsOK'
<1>1. recently_completed \in Seq(Tasks) /\ rewarded \in [Tasks -> Nat]
  BY DEF TypeOK, AccountsOK
<1>2. \A u \in Tasks : rewarded[u] + Occurrences(u) \in Nat
  <2>1. \A u \in Tasks : Occurrences(u) \in Nat
    BY OccurrencesType
  <2> QED
    BY <1>1, <2>1
<1>3. <<>> \in Seq(Tasks)
  OBVIOUS
<1> QED
  BY <1>1, <1>2, <1>3 DEF LogTransition, RewardsOK

(* What every decision does. *)
LEMMA DecisionType ==
  ASSUME TypeOK, NEW t \in Tasks, NEW a \in SchedulingAction(NCores), Decision(t, a)
  PROVE  /\ pc' \in {"event", "decide", "done"} /\ clock_ns' \in Nat
         /\ event_ts' \in Nat
         /\ effective_priority' \in [Tasks -> Priorities]
         /\ UNCHANGED <<remaining_work_ns, arrival_time_ns, total_switches>>
         /\ UNCHANGED <<core_busy_ns, memory_used, metrics, finish_time>>
<1>1. effective_priority' \in [Tasks -> Priorities]
  <2>1. a.adj \in 0 .. 2
    BY DEF SchedulingAction
  <2>2. effective_priority \in [Tasks -> Priorities]
    BY DEF TypeOK, TasksOK
  <2>3. AdjustPriority(effective_priority[t], a.adj) \in Priorities
    BY <2>1, <2>2, AdjustPriorityType
  <2> QED
    BY <2>2, <2>3 DEF Decision
<1> QED
  BY <1>1 DEF Decision, TypeOK, LoopOK

LEMMA PushRunEventType ==
  ASSUME TypeOK, NEW t \in Tasks, NEW c \in Cores, PushRunEvent(t, c)
  PROVE  event_queue' \in SUBSET Event /\ event_sequence' \in Nat
<1>1. /\ event_queue \in SUBSET Event /\ event_sequence \in Nat /\ clock_ns \in Nat
      /\ remaining_work_ns[t] \in Nat
  BY DEF TypeOK, LoopOK, TasksOK
<1>2. RunEvent(t, c, clock_ns, remaining_work_ns[t]) \in Event
  BY <1>1, RunEventType
<1> QED
  BY <1>1, <1>2 DEF PushRunEvent

LEMMA InsertInRunQueueType ==
  ASSUME TypeOK, NEW c \in Cores, NEW t \in Tasks, InsertInRunQueue(c, t)
  PROVE  run_queue' \in [Cores -> Seq(Tasks)]
<1>1. PICK i \in 1 .. Len(run_queue[c]) + 1 :
        run_queue' = [run_queue EXCEPT ![c] =
          SubSeq(@, 1, i - 1) \o <<t>> \o SubSeq(@, i, Len(@))]
  BY DEF InsertInRunQueue
<1>2. run_queue \in [Cores -> Seq(Tasks)]
  BY DEF TypeOK, CoresOK
<1>3. SubSeq(run_queue[c], 1, i - 1) \o <<t>> \o SubSeq(run_queue[c], i, Len(run_queue[c]))
        \in Seq(Tasks)
  BY <1>2, InsertType
<1> QED
  BY <1>1, <1>2, <1>3

LEMMA AssignToGpuType ==
  ASSUME TypeOK, NEW t \in Tasks, NEW a \in SchedulingAction(NCores), AssignToGpu(t, a), RewardsOK'
  PROVE  TypeOK'
<1>1. Decision(t, a)
  BY DEF AssignToGpu
<1>2. event_queue' \in SUBSET Event /\ event_sequence' \in Nat
  <2>1. CASE assigned_cpu[t] = NoCore
    BY <2>1 DEF AssignToGpu, TypeOK, LoopOK
  <2>2. CASE assigned_cpu[t] # NoCore
    <3>1. assigned_cpu[t] \in Cores
      BY <2>2 DEF TypeOK, TasksOK
    <3> QED
      BY <2>2, <3>1, PushRunEventType DEF AssignToGpu
  <2> QED
    BY <2>1, <2>2
<1>3. state' \in [Tasks -> TaskState] /\ gpu_queue' \in Seq(Tasks)
  BY DEF AssignToGpu, TypeOK, TasksOK, TaskState, AccountsOK
<1>4. CoresOK'
  BY <1>1, DecisionType DEF AssignToGpu, TypeOK, CoresOK
<1>5. LoopOK'
  BY <1>1, <1>2, DecisionType DEF LoopOK
<1>6. TasksOK'
  BY <1>1, <1>3, DecisionType DEF AssignToGpu, TypeOK, TasksOK
<1>7. AccountsOK'
  BY <1>1, <1>3, DecisionType DEF RewardsOK, TypeOK, AccountsOK
<1> QED
  BY <1>4, <1>5, <1>6, <1>7 DEF TypeOK

LEMMA PreemptCurrentType ==
  ASSUME TypeOK, NEW t \in Tasks, NEW a \in SchedulingAction(NCores), NEW c \in Cores,
         PreemptCurrent(t, a, c), RewardsOK'
  PROVE  TypeOK'
<1> DEFINE u == current_task[c]
<1>1. Decision(t, a) /\ PushRunEvent(t, c) /\ InsertInRunQueue(c, u) /\ u # NoTask
  BY DEF PreemptCurrent, Preempts
<1>2. u \in Tasks
  BY <1>1 DEF TypeOK, CoresOK
<1>3. LoopOK'
  BY <1>1, DecisionType, PushRunEventType DEF LoopOK
<1>4. state' \in [Tasks -> TaskState] /\ assigned_cpu' \in [Tasks -> Cores \cup {NoCore}]
  BY <1>2 DEF PreemptCurrent, TypeOK, TasksOK, TaskState
<1>5. TasksOK'
  BY <1>1, <1>4, DecisionType DEF TypeOK, TasksOK
<1>6. CoresOK'
  <2>1. run_queue' \in [Cores -> Seq(Tasks)]
    BY <1>1, <1>2, InsertInRunQueueType
  <2>2. current_task' \in [Cores -> Tasks \cup {NoTask}]
        /\ context_switches' \in [Cores -> Nat]
    BY DEF PreemptCurrent, TypeOK, CoresOK
  <2>3. total_switches' = total_switches
    BY <1>1, DecisionType
  <2> QED
    BY <2>1, <2>2, <2>3 DEF TypeOK, CoresOK
<1>7. AccountsOK'
  BY <1>1, DecisionType DEF RewardsOK, PreemptCurrent, TypeOK, AccountsOK
<1> QED
  BY <1>3, <1>5, <1>6, <1>7 DEF TypeOK

LEMMA StartOnIdleCoreType ==
  ASSUME TypeOK, NEW t \in Tasks, NEW a \in SchedulingAction(NCores), NEW c \in Cores,
         StartOnIdleCore(t, a, c), RewardsOK'
  PROVE  TypeOK'
<1>1. Decision(t, a) /\ PushRunEvent(t, c)
  BY DEF StartOnIdleCore
<1>2. LoopOK'
  BY <1>1, DecisionType, PushRunEventType DEF LoopOK
<1>3. state' \in [Tasks -> TaskState] /\ assigned_cpu' \in [Tasks -> Cores \cup {NoCore}]
  BY DEF StartOnIdleCore, TypeOK, TasksOK, TaskState
<1>4. TasksOK'
  BY <1>1, <1>3, DecisionType DEF TypeOK, TasksOK
<1>5. CoresOK'
  BY <1>1, DecisionType DEF StartOnIdleCore, TypeOK, CoresOK
<1>6. AccountsOK'
  BY <1>1, DecisionType DEF RewardsOK, StartOnIdleCore, TypeOK, AccountsOK
<1> QED
  BY <1>2, <1>4, <1>5, <1>6 DEF TypeOK

LEMMA EnqueueOnBusyCoreType ==
  ASSUME TypeOK, NEW t \in Tasks, NEW a \in SchedulingAction(NCores), NEW c \in Cores,
         EnqueueOnBusyCore(t, a, c), RewardsOK'
  PROVE  TypeOK'
<1>1. Decision(t, a) /\ InsertInRunQueue(c, t)
  BY DEF EnqueueOnBusyCore
<1>2. LoopOK'
  BY <1>1, DecisionType DEF EnqueueOnBusyCore, TypeOK, LoopOK
<1>3. TasksOK'
  <2>1. assigned_cpu' \in [Tasks -> Cores \cup {NoCore}]
    BY DEF EnqueueOnBusyCore, TypeOK, TasksOK
  <2> QED
    BY <1>1, <2>1, DecisionType DEF EnqueueOnBusyCore, TypeOK, TasksOK
<1>4. CoresOK'
  BY <1>1, DecisionType, InsertInRunQueueType DEF EnqueueOnBusyCore, TypeOK, CoresOK
<1>5. AccountsOK'
  BY <1>1, DecisionType DEF RewardsOK, EnqueueOnBusyCore, TypeOK, AccountsOK
<1> QED
  BY <1>2, <1>3, <1>4, <1>5 DEF TypeOK

LEMMA EndEpisodeType ==
  ASSUME TypeOK, EndEpisode
  PROVE  TypeOK'
<1>1. LoopOK'
  BY DEF EndEpisode, LoopEnds, TypeOK, LoopOK
<1>2. TasksOK' /\ CoresOK'
  BY DEF EndEpisode, LoopEnds, TypeOK, TasksOK, CoresOK, taskVars, coreVars
<1>3. AccountsOK'
  <2>1. rewarded \in [Tasks -> Nat]
    BY DEF TypeOK, AccountsOK
  <2>2. \A u \in Tasks : Occurrences(u) \in Nat
    BY OccurrencesType
  <2>3. rewarded' \in [Tasks -> Nat]
    BY <2>1, <2>2 DEF EndEpisode, LoopEnds
  <2> QED
    BY <2>3 DEF EndEpisode, LoopEnds, TypeOK, AccountsOK, accountVars
<1> QED
  BY <1>1, <1>2, <1>3 DEF TypeOK

-----------------------------------------------------------------------------
(* The state in which every episode begins, whatever has been logged. *)
Fresh ==
  /\ pc = "event"
  /\ clock_ns = 0
  /\ event_ts = 0
  /\ \E at \in [Tasks -> ArrivalTimes] : event_queue = PeriodicEvents \cup Arrivals(at)
  /\ event_sequence = NTasks + 2
  /\ state = [t \in Tasks |-> "NONE"]
  /\ effective_priority = Priority
  /\ assigned_cpu = [t \in Tasks |-> NoCore]
  /\ remaining_work_ns = Work
  /\ arrival_time_ns = [t \in Tasks |-> 0]
  /\ current_task = [c \in Cores |-> NoTask]
  /\ run_queue = [c \in Cores |-> <<>>]
  /\ context_switches = [c \in Cores |-> 0]
  /\ core_busy_ns = [c \in Cores |-> 0]
  /\ gpu_queue = <<>>
  /\ memory_used = [weight |-> 0, workspace |-> 0]
  /\ metrics = [arrived |-> 0, completed |-> 0, met |-> 0, missed |-> 0]
  /\ total_switches = 0
  /\ recently_completed = <<>>
  /\ finish_time = [t \in Tasks |-> 0]

LEMMA InitFresh ==
  Init => /\ Fresh
          /\ prev_obs = FALSE
          /\ rewarded = [t \in Tasks |-> 0]
BY DEF Init, Fresh

LEMMA RestartFresh ==
  ASSUME NEW at \in [Tasks -> ArrivalTimes], Restart(at)
  PROVE  Fresh' /\ UNCHANGED rewardVars
BY DEF Restart, Fresh, PeriodicEvents, Arrivals

LEMMA FreshType == Fresh /\ RewardsOK => TypeOK
<1> SUFFICES ASSUME Fresh, RewardsOK PROVE TypeOK
  OBVIOUS
<1>1. LoopOK
  <2>1. PICK at \in [Tasks -> ArrivalTimes] : event_queue = PeriodicEvents \cup Arrivals(at)
    BY DEF Fresh
  <2>2. Arrivals(at) \subseteq Event
    <3>1. \A t \in Tasks : at[t] \in Nat
      BY TimingAssumption
    <3>2. \A t \in Tasks : t + 1 \in Nat
      BY SizeAssumption DEF Tasks
    <3> QED
      BY <3>1, <3>2 DEF Arrivals, Event, ArrivalEvent
  <2>3. PeriodicEvents \subseteq Event
    BY TimingAssumption DEF PeriodicEvents, Event, PeriodicEvent
  <2>4. NTasks + 2 \in Nat
    BY SizeAssumption
  <2> QED
    BY <2>1, <2>2, <2>3, <2>4 DEF Fresh, LoopOK
<1>2. TasksOK
  BY TaskAssumption DEF Fresh, TasksOK, TaskState, Levels, Priorities, PRIORITY_CRITICAL
<1>3. CoresOK
  BY DEF Fresh, CoresOK
<1>4. AccountsOK
  <2>1. <<>> \in Seq(Tasks)
    OBVIOUS
  <2>2. /\ memory_used \in [weight : Nat, workspace : Nat]
        /\ metrics \in [arrived : Nat, completed : Nat, met : Nat, missed : Nat]
    BY DEF Fresh
  <2> QED
    BY <2>1, <2>2 DEF Fresh, RewardsOK, AccountsOK
<1> QED
  BY <1>1, <1>2, <1>3, <1>4 DEF TypeOK

LEMMA InitType == Init => TypeOK
<1> SUFFICES ASSUME Init PROVE TypeOK
  OBVIOUS
<1>1. <<>> \in Seq(Tasks)
  OBVIOUS
<1>2. recently_completed = <<>> /\ prev_obs = FALSE /\ rewarded = [t \in Tasks |-> 0]
  BY DEF Init
<1>3. RewardsOK
  BY <1>1, <1>2 DEF RewardsOK
<1> QED
  BY <1>3, InitFresh, FreshType

(* Every step of the loop preserves the types. *)
LEMMA ProcessEventType ==
  ASSUME TypeOK, ProcessEvent
  PROVE  TypeOK'
<1>1. ASSUME NEW e \in event_queue, DropStaleCompletion(e) PROVE TypeOK'
  BY <1>1, DropType DEF DropStaleCompletion
<1>2. ASSUME NEW e \in event_queue, DropIdleQuantum(e) PROVE TypeOK'
  BY <1>2, DropType DEF DropIdleQuantum
<1> QED
  BY <1>1, <1>2, HandleTaskArrivalType, HandleTaskCompletionType,
     FreeCoreOfDeadTaskType, FinishInQuantumType, PreemptAtQuantumType,
     HandleDeadlineCheckType, MigrateTaskType, SkipMigrationType DEF ProcessEvent

LEMMA ApplyActionType ==
  ASSUME TypeOK, NEW t \in Tasks, NEW a \in SchedulingAction(NCores), ApplyAction(t, a), RewardsOK'
  PROVE  TypeOK'
BY AssignToGpuType, PreemptCurrentType, StartOnIdleCoreType, EnqueueOnBusyCoreType
   DEF ApplyAction

LEMMA NextType ==
  ASSUME TypeOK, [Next]_vars
  PROVE  TypeOK'
<1>1. CASE ProcessEvent
  BY <1>1, ProcessEventType
<1>2. ASSUME NEW t \in Tasks, NEW a \in Actions, Decide(t, a) PROVE TypeOK'
  BY <1>2, ActionAssumption, LogTransitionType, ApplyActionType DEF Decide
<1>3. ASSUME UNCHANGED vars PROVE TypeOK'
  BY <1>3 DEF vars, loopVars, taskVars, coreVars, accountVars, rewardVars, TypeOK, LoopOK,
              TasksOK, CoresOK, AccountsOK
<1> QED
  BY <1>1, <1>2, <1>3, EndEpisodeType DEF Next

(* Type correctness: whatever the agent decides, every counter stays a     *)
(* natural number (no remaining work, memory pool or busy time goes below  *)
(* zero), every priority stays in the kernel's range, and every event that *)
(* is pushed names an existing task and core (engine.py, actions.py).      *)
THEOREM TypeCorrect == Spec => []TypeOK
<1>1. TypeOK /\ [Next]_vars => TypeOK'
  BY NextType
<1> QED
  BY <1>1, InitType, PTL DEF Spec
=============================================================================
