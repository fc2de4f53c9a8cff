------------------------- MODULE SimEngineAccounts -------------------------
(***************************************************************************)
(* The accounts of SimEngine for every workload, platform and agent: each  *)
(* task is counted once and rewarded once, and no task waits on an idle    *)
(* platform that never used its GPU.                                       *)
(***************************************************************************)
EXTENDS SimEngineProofs, DataLemmas

Met == {t \in Terminated : Deadline(t) # 0 /\ finish_time[t] <= Deadline(t)}
Missed == {t \in Terminated : Deadline(t) # 0 /\ finish_time[t] > Deadline(t)}

-----------------------------------------------------------------------------
(* What a step may do to the accounts: leave them, or add one completion.  *)
SameTerminated ==
  \A u \in Tasks : state'[u] = "TERMINATED" <=> state[u] = "TERMINATED"

KeepsAccounts ==
  /\ SameTerminated
  /\ metrics'.completed = metrics.completed
  /\ metrics'.met = metrics.met /\ metrics'.missed = metrics.missed
  /\ finish_time' = finish_time
  /\ \A u \in Terminated : arrival_time_ns'[u] = arrival_time_ns[u]

Completes(t) ==
  /\ state[t] = "RUNNING"
  /\ \A u \in Tasks : state'[u] = "TERMINATED" <=> u = t \/ state[u] = "TERMINATED"
  /\ arrival_time_ns' = arrival_time_ns
  /\ RecordCompletion(t)

LEMMA ArrivalKeepsAccounts ==
  ASSUME TypeOK, ArrivesOnce, NEW e \in event_queue, HandleTaskArrival(e)
  PROVE  KeepsAccounts
<1>1. e.task \in Tasks /\ state[e.task] = "NONE" /\ state' = [state EXCEPT ![e.task] = "READY"]
  BY ArrivalIsMove DEF Arrives, HandleTaskArrival
<1>2. state \in [Tasks -> TaskState] /\ arrival_time_ns \in [Tasks -> Nat]
  BY DEF TypeOK, TasksOK
<1>3. SameTerminated
  BY <1>1, <1>2 DEF SameTerminated
<1>4. \A u \in Terminated : arrival_time_ns'[u] = arrival_time_ns[u]
  BY <1>1, <1>2 DEF Terminated, HandleTaskArrival
<1> QED
  BY <1>3, <1>4 DEF KeepsAccounts, HandleTaskArrival

LEMMA CompletionCompletes ==
  ASSUME TypeOK, NEW e \in event_queue, HandleTaskCompletion(e)
  PROVE  e.task \in Tasks /\ Completes(e.task)
<1> DEFINE t == e.task
           ended == [state EXCEPT ![t] = "TERMINATED"]
<1>1. e.type = TASK_COMPLETION /\ state[t] = "RUNNING" /\ RecordCompletion(t)
      /\ arrival_time_ns' = arrival_time_ns
  BY DEF HandleTaskCompletion, PopEvent, MayComplete
<1>2. t \in Tasks /\ e.core \in Cores
  BY <1>1, EventFields DEF TypeOK, LoopOK
<1>3. state \in [Tasks -> TaskState]
  BY DEF TypeOK, TasksOK
<1>4. \A u \in Tasks : state'[u] = "TERMINATED" <=> u = t \/ state[u] = "TERMINATED"
  <2>1. CASE state' = ended
    BY <1>2, <1>3, <2>1
  <2>2. CASE StartNextFromQueue(e, e.core, ended, assigned_cpu, 0)
    <3>1. CASE LeavesIdle(e.core, ended)
      BY <2>1, <3>1 DEF LeavesIdle
    <3>2. ASSUME NEW u \in Tasks, Launches(u, e.core, ended)
          PROVE  \A w \in Tasks : state'[w] = "TERMINATED" <=> w = t \/ state[w] = "TERMINATED"
      <4>1. u # t /\ state[u] = "READY" /\ state' = [ended EXCEPT ![u] = "RUNNING"]
        BY <1>2, <1>3, <3>2 DEF Launches
      <4> QED
        BY <1>2, <1>3, <4>1
    <3> QED
      BY <1>2, <2>2, <3>1, <3>2, StartNextOutcome
  <2> QED
    BY <2>1, <2>2 DEF HandleTaskCompletion
<1> QED
  BY <1>1, <1>2, <1>4 DEF Completes

LEMMA OthersKeepAccounts ==
  ASSUME TypeOK, NEW e \in event_queue, Handled(e),
         ~HandleTaskArrival(e), ~HandleTaskCompletion(e)
  PROVE  /\ KeepsAccounts /\ recently_completed' = recently_completed
         /\ state' = state \/ \E t \in Tasks : state[t] = "RUNNING"
<1>1. /\ state \in [Tasks -> TaskState]
      /\ current_task \in [Cores -> Tasks \cup {NoTask}]
  BY DEF TypeOK, TasksOK, CoresOK
<1>2. /\ UNCHANGED accountVars /\ arrival_time_ns' = arrival_time_ns
      /\ state' = state \/ PreemptAtQuantum(e)
  BY DEF Handled, DropStaleCompletion, DropIdleQuantum, FreeCoreOfDeadTask, FinishInQuantum,
         PreemptAtQuantum, HandleDeadlineCheck, MigrateTask, SkipMigration, taskVars
<1>3. SameTerminated /\ (state' = state \/ \E t \in Tasks : state[t] = "RUNNING")
  <2>1. CASE state' = state
    BY <2>1 DEF SameTerminated
  <2>2. CASE PreemptAtQuantum(e)
    <3> DEFINE t == current_task[e.core]
               st == [state EXCEPT ![t] = "READY"]
               asg == [assigned_cpu EXCEPT ![t] = NoCore]
    <3>1. /\ e.type = QUANTUM_EXPIRED /\ state[t] = "RUNNING" /\ t # NoTask
          /\ StartNextFromQueue(e, e.core, st, asg, 1)
      BY <2>2 DEF PreemptAtQuantum, PopEvent
    <3>2. e.core \in Cores /\ t \in Tasks
      BY <1>1, <3>1, EventFields DEF TypeOK, LoopOK
    <3>3. CASE LeavesIdle(e.core, st)
      BY <1>1, <3>1, <3>2, <3>3 DEF LeavesIdle, SameTerminated
    <3>4. ASSUME NEW u \in Tasks, Launches(u, e.core, st) PROVE SameTerminated
      BY <1>1, <3>1, <3>2, <3>4 DEF Launches, SameTerminated
    <3> QED
      BY <3>1, <3>2, <3>3, <3>4, StartNextOutcome
  <2> QED
    BY <1>2, <2>1, <2>2
<1> QED
  BY <1>2, <1>3 DEF KeepsAccounts, accountVars

LEMMA DecisionKeepsAccounts ==
  ASSUME TypeOK, NEW t \in Tasks, NEW a \in Actions, IsPicked(t), ApplyAction(t, a)
  PROVE  KeepsAccounts
<1>1. state \in [Tasks -> TaskState] /\ current_task \in [Cores -> Tasks \cup {NoTask}]
  BY DEF TypeOK, TasksOK, CoresOK
<1>2. state[t] = "READY"
  BY DEF IsPicked
<1>3. metrics' = metrics /\ finish_time' = finish_time /\ arrival_time_ns' = arrival_time_ns
  BY DEF ApplyAction, AssignToGpu, PreemptCurrent, StartOnIdleCore, EnqueueOnBusyCore, Decision
<1>4. SameTerminated
  <2>1. CASE AssignToGpu(t, a)
    BY <1>1, <1>2, <2>1 DEF AssignToGpu, SameTerminated
  <2>2. ASSUME NEW c \in Cores, PreemptCurrent(t, a, c) PROVE SameTerminated
    <3> DEFINE u == current_task[c]
    <3>1. /\ u \in Tasks /\ state[u] = "RUNNING"
          /\ state' = [state EXCEPT ![u] = "READY", ![t] = "RUNNING"]
      BY <1>1, <2>2 DEF PreemptCurrent, Preempts
    <3> QED
      BY <1>1, <1>2, <3>1 DEF SameTerminated
  <2>3. ASSUME NEW c \in Cores, StartOnIdleCore(t, a, c) PROVE SameTerminated
    BY <1>1, <1>2, <2>3 DEF StartOnIdleCore, SameTerminated
  <2>4. ASSUME NEW c \in Cores, EnqueueOnBusyCore(t, a, c) PROVE SameTerminated
    BY <2>4 DEF EnqueueOnBusyCore, SameTerminated
  <2> QED
    BY <2>1, <2>2, <2>3, <2>4 DEF ApplyAction
<1> QED
  BY <1>3, <1>4 DEF KeepsAccounts

LEMMA StepAccounts ==
  ASSUME TypeOK, SharingInv, [Next]_vars
  PROVE  KeepsAccounts \/ \E t \in Tasks : Completes(t)
<1>1. ASSUME NEW e \in event_queue, Handled(e)
      PROVE  KeepsAccounts \/ \E t \in Tasks : Completes(t)
  BY <1>1, ArrivalKeepsAccounts, CompletionCompletes, OthersKeepAccounts DEF SharingInv
<1>2. ASSUME NEW t \in Tasks, NEW a \in Actions, Decide(t, a)
      PROVE  KeepsAccounts
  BY <1>2, DecisionKeepsAccounts DEF Decide
<1>3. CASE EndEpisode \/ UNCHANGED vars
  BY <1>3 DEF EndEpisode, vars, taskVars, accountVars, KeepsAccounts, SameTerminated
<1> QED
  BY <1>1, <1>2, <1>3, ProcessEventHandles DEF Next

-----------------------------------------------------------------------------
(* Each task is counted once.                                              *)
LEMMA FiniteTerminated ==
  ASSUME NEW S \in SUBSET Tasks
  PROVE  IsFiniteSet(S)
<1>1. IsFiniteSet(1 .. NTasks)
  BY SizeAssumption, FS_Interval
<1> QED
  BY <1>1, FS_Subset DEF Tasks

LEMMA DeadlineType ==
  ASSUME TypeOK, NEW t \in Tasks
  PROVE  Deadline(t) \in Nat /\ finish_time[t] \in Nat
<1>1. /\ RelDeadline[t] \in Nat /\ arrival_time_ns[t] \in Nat /\ finish_time[t] \in Nat
  BY TaskAssumption DEF TypeOK, TasksOK, AccountsOK
<1> QED
  BY <1>1 DEF Deadline

LEMMA KeptCounts ==
  ASSUME KeepsAccounts
  PROVE  Terminated' = Terminated /\ Met' = Met /\ Missed' = Missed
<1>1. Terminated' = Terminated
  BY DEF KeepsAccounts, SameTerminated, Terminated
<1>2. \A t \in Terminated : Deadline(t)' = Deadline(t) /\ finish_time'[t] = finish_time[t]
  BY DEF KeepsAccounts, Deadline
<1> QED
  BY <1>1, <1>2 DEF Met, Missed

LEMMA CompletionCounts ==
  ASSUME TypeOK, TypeOK', NEW t \in Tasks, Completes(t)
  PROVE  /\ Terminated' = Terminated \cup {t} /\ t \notin Terminated
         /\ Met' = IF Deadline(t) > 0 /\ clock_ns' <= Deadline(t) THEN Met \cup {t} ELSE Met
         /\ Missed' = IF Deadline(t) > 0 /\ clock_ns' > Deadline(t) THEN Missed \cup {t} ELSE Missed
<1>1. Terminated' = Terminated \cup {t} /\ t \notin Terminated
  BY DEF Completes, Terminated
<1>2. \A u : Deadline(u)' = Deadline(u)
  BY DEF Completes, Deadline
<1>3. /\ finish_time'[t] = clock_ns'
      /\ \A u \in Terminated : finish_time'[u] = finish_time[u]
  BY <1>1 DEF Completes, RecordCompletion, TypeOK, AccountsOK, Terminated
<1>4. Deadline(t) \in Nat /\ (Deadline(t) # 0 <=> Deadline(t) > 0)
  BY DeadlineType
<1>5. PICK k : k = clock_ns'
  OBVIOUS
<1>6. Met' = {u \in Terminated \cup {t} : Deadline(u) # 0 /\ finish_time'[u] <= Deadline(u)}
  BY <1>1, <1>2 DEF Met
<1>7. Missed' = {u \in Terminated \cup {t} : Deadline(u) # 0 /\ finish_time'[u] > Deadline(u)}
  BY <1>1, <1>2 DEF Missed
<1>8. Met' = IF Deadline(t) > 0 /\ k <= Deadline(t) THEN Met \cup {t} ELSE Met
  BY <1>1, <1>3, <1>4, <1>5, <1>6 DEF Met
<1>9. Missed' = IF Deadline(t) > 0 /\ k > Deadline(t) THEN Missed \cup {t} ELSE Missed
  BY <1>1, <1>3, <1>4, <1>5, <1>7 DEF Missed
<1> QED
  BY <1>1, <1>5, <1>8, <1>9

LEMMA AddOne ==
  ASSUME NEW S \in SUBSET Tasks, NEW T, NEW t \in Tasks, t \notin S, NEW b \in BOOLEAN,
         T = IF b THEN S \cup {t} ELSE S
  PROVE  Cardinality(T) = Cardinality(S) + Count(b)
<1>1. IsFiniteSet(S) /\ Cardinality(S) \in Nat
  BY FiniteTerminated, FS_CardinalityType
<1>2. CASE b
  BY <1>1, <1>2, FS_AddElement DEF Count
<1>3. CASE ~b
  BY <1>1, <1>3 DEF Count
<1> QED
  BY <1>2, <1>3

LEMMA CompletedStep ==
  ASSUME TypeOK, TypeOK', CompletedOnce, SharingInv, [Next]_vars
  PROVE  CompletedOnce'
<1>0. /\ CompletedOnce <=> /\ metrics.completed = Cardinality(Terminated)
                           /\ metrics.met = Cardinality(Met)
                           /\ metrics.missed = Cardinality(Missed)
  BY DEF CompletedOnce, Met, Missed
<1>1. CASE KeepsAccounts
  <2>1. Terminated' = Terminated /\ Met' = Met /\ Missed' = Missed
    BY <1>1, KeptCounts
  <2>2. /\ metrics'.completed = metrics.completed
        /\ metrics'.met = metrics.met /\ metrics'.missed = metrics.missed
    BY <1>1 DEF KeepsAccounts
  <2>3. /\ metrics'.completed = Cardinality(Terminated')
        /\ metrics'.met = Cardinality(Met')
        /\ metrics'.missed = Cardinality(Missed')
    BY <1>0, <2>1, <2>2
  <2> QED
    BY <2>3 DEF CompletedOnce, Met, Missed
<1>2. ASSUME NEW t \in Tasks, Completes(t)
      PROVE  CompletedOnce'
  <2>1. PICK late \in BOOLEAN : late = (Deadline(t) > 0 /\ clock_ns' > Deadline(t))
    OBVIOUS
  <2>2. PICK timely \in BOOLEAN : timely = (Deadline(t) > 0 /\ clock_ns' <= Deadline(t))
    OBVIOUS
  <2>3. /\ Terminated' = IF TRUE THEN Terminated \cup {t} ELSE Terminated
        /\ Met' = IF timely THEN Met \cup {t} ELSE Met
        /\ Missed' = IF late THEN Missed \cup {t} ELSE Missed
        /\ t \notin Terminated
    BY <1>2, <2>1, <2>2, CompletionCounts
  <2>4. /\ Terminated \in SUBSET Tasks /\ Met \in SUBSET Tasks /\ Missed \in SUBSET Tasks
        /\ t \notin Met /\ t \notin Missed
    BY <2>3 DEF Terminated, Met, Missed
  <2>5. /\ Cardinality(Terminated') = Cardinality(Terminated) + 1
        /\ Cardinality(Met') = Cardinality(Met) + Count(timely)
        /\ Cardinality(Missed') = Cardinality(Missed) + Count(late)
    BY <2>3, <2>4, AddOne DEF Count
  <2>6. /\ metrics'.completed = metrics.completed + 1
        /\ metrics'.met = metrics.met + Count(timely)
        /\ metrics'.missed = metrics.missed + Count(late)
    BY <1>2, <2>1, <2>2 DEF Completes, RecordCompletion
  <2>7. /\ metrics'.completed = Cardinality(Terminated')
        /\ metrics'.met = Cardinality(Met')
        /\ metrics'.missed = Cardinality(Missed')
    BY <1>0, <2>5, <2>6
  <2> QED
    BY <2>7 DEF CompletedOnce, Met, Missed
<1> QED
  BY <1>1, <1>2, StepAccounts

LEMMA CompletedInit == Init => CompletedOnce
<1> SUFFICES ASSUME Init PROVE CompletedOnce
  OBVIOUS
<1>1. Terminated = {} /\ Met = {} /\ Missed = {}
  BY DEF Init, Terminated, Met, Missed
<1> QED
  BY <1>1, FS_EmptySet DEF Init, CompletedOnce, Met, Missed

(* Every task is counted once, and its deadline judged once, however many  *)
(* completion events it gets (_handle_task_completion). *)
THEOREM CountedOnce == Spec => []CompletedOnce
<1>1. TypeOK /\ TypeOK' /\ SharingInv /\ CompletedOnce /\ [Next]_vars => CompletedOnce'
  BY CompletedStep
<1> QED
  BY <1>1, CompletedInit, TypeCorrect, SharingInvariant, PTL DEF Spec

-----------------------------------------------------------------------------
(* The memory pools.                                                       *)

(* What a step may do to the live tasks and the memory they hold. *)
LEMMA MovesKeepArrived ==
  ASSUME TypeOK, Moves, NEW t \in Tasks, state[t] # "NONE"
  PROVE  state'[t] # "NONE"
<1>1. state \in [Tasks -> TaskState]
  BY DEF TypeOK, TasksOK
<1> QED
  BY <1>1 DEF Moves, Stays, Offloads, EndsElsewhere, Starts, Ends, Yields, EndsFor,
              YieldsFor, Forgets

KeepsMemory == Live' = Live /\ memory_used' = memory_used

TakesMemory(t) ==
  /\ t \notin Live /\ Live' = Live \cup {t}
  /\ memory_used'.weight = memory_used.weight + ModelSize[t]
  /\ memory_used'.workspace = memory_used.workspace + WorkingSet[t]

GivesMemory(t) ==
  /\ t \in Live /\ Live' = Live \ {t}
  /\ memory_used' = FreeMemory(t)

LEMMA KeptLive ==
  ASSUME TypeOK, TypeOK', Mutex, Moves, SameTerminated
  PROVE  Live' = Live
<1>1. \A t \in Tasks : state'[t] = "NONE" <=> state[t] = "NONE"
  BY MovesKeepArrived, MovesKeepNone
<1>2. \A t \in Tasks : state'[t] = "TERMINATED" <=> state[t] = "TERMINATED"
  BY DEF SameTerminated
<1>3. state \in [Tasks -> TaskState] /\ state' \in [Tasks -> TaskState]
  BY DEF TypeOK, TasksOK
<1> QED
  BY <1>1, <1>2, <1>3 DEF Live, TaskState

LEMMA StepMemory ==
  ASSUME TypeOK, TypeOK', SharingInv, [Next]_vars
  PROVE  KeepsMemory \/ \E t \in Tasks : TakesMemory(t) \/ GivesMemory(t)
<1>1. state \in [Tasks -> TaskState]
  BY DEF TypeOK, TasksOK
<1>2. ASSUME NEW e \in event_queue, Handled(e)
      PROVE  KeepsMemory \/ \E t \in Tasks : TakesMemory(t) \/ GivesMemory(t)
  <2>1. CASE HandleTaskArrival(e)
    <3>1. e.task \in Tasks /\ state[e.task] = "NONE" /\ state' = [state EXCEPT ![e.task] = "READY"]
      BY <2>1, ArrivalIsMove DEF Arrives, SharingInv
    <3>2. e.task \notin Live /\ Live' = Live \cup {e.task}
      BY <1>1, <3>1 DEF Live
    <3> QED
      BY <2>1, <3>1, <3>2 DEF HandleTaskArrival, TakesMemory
  <2>2. CASE HandleTaskCompletion(e)
    <3>1. e.task \in Tasks /\ Completes(e.task)
      BY <2>2, CompletionCompletes
    <3>2. Moves
      BY <1>2, <2>2, HandledMoves DEF HandleTaskCompletion, PopEvent, TASK_ARRIVAL, TASK_COMPLETION
    <3>3. \A t \in Tasks : state'[t] = "NONE" <=> state[t] = "NONE"
      BY <3>2, MovesKeepArrived, MovesKeepNone DEF SharingInv
    <3>4. state' \in [Tasks -> TaskState]
      BY DEF TypeOK, TasksOK
    <3>5. \A t \in Tasks : state'[t] = "TERMINATED" <=> t = e.task \/ state[t] = "TERMINATED"
      BY <3>1 DEF Completes
    <3>6. e.task \in Live
      BY <3>1 DEF Completes, Live
    <3>7. Live' = Live \ {e.task}
      BY <1>1, <3>3, <3>4, <3>5 DEF Live, TaskState
    <3> QED
      BY <3>1, <3>6, <3>7 DEF Completes, RecordCompletion, GivesMemory
  <2>3. CASE ~HandleTaskArrival(e) /\ ~HandleTaskCompletion(e)
    <3>1. SameTerminated /\ memory_used' = memory_used
      <4>1. UNCHANGED accountVars
        BY <1>2, <2>3 DEF Handled, DropStaleCompletion, DropIdleQuantum, FreeCoreOfDeadTask,
             FinishInQuantum, PreemptAtQuantum, HandleDeadlineCheck, MigrateTask, SkipMigration
      <4> QED
        BY <1>2, <2>3, <4>1, OthersKeepAccounts DEF KeepsAccounts, accountVars
    <3>2. Moves
      BY <1>2, <2>3, HandledMoves
    <3> QED
      BY <3>1, <3>2, KeptLive DEF SharingInv, KeepsMemory
  <2> QED
    BY <2>1, <2>2, <2>3
<1>3. ASSUME NEW t \in Tasks, NEW a \in Actions, Decide(t, a)
      PROVE  KeepsMemory
  <2>1. memory_used' = memory_used
    BY <1>3 DEF Decide, ApplyAction, AssignToGpu, PreemptCurrent, StartOnIdleCore,
                EnqueueOnBusyCore, Decision
  <2>2. Moves /\ SameTerminated
    BY <1>3, DecisionMoves, DecisionKeepsAccounts DEF Decide, KeepsAccounts
  <2> QED
    BY <2>1, <2>2, KeptLive DEF SharingInv, KeepsMemory
<1>4. CASE EndEpisode \/ UNCHANGED vars
  BY <1>4 DEF EndEpisode, vars, taskVars, accountVars, KeepsMemory, Live
<1> QED
  BY <1>2, <1>3, <1>4, ProcessEventHandles DEF Next

(* Taking a task's memory adds to the total of the live tasks, giving it   *)
(* back subtracts from it without reaching the clamp at zero. *)
LEMMA PoolStep ==
  ASSUME NEW size \in [Tasks -> Nat], NEW L \in SUBSET Tasks, NEW t \in Tasks
  PROVE  /\ TotalOf(size, L) \in Nat
         /\ t \notin L => TotalOf(size, L \cup {t}) = TotalOf(size, L) + size[t]
         /\ t \in L => Larger(0, TotalOf(size, L) - size[t]) = TotalOf(size, L \ {t})
<1>1. IsFiniteSet(L) /\ IsFiniteSet(L \cup {t}) /\ IsFiniteSet(L \ {t})
  BY FiniteTerminated
<1>2. /\ size[t] \in Nat /\ \A u \in L \cup {t} : size[u] \in Nat
      /\ TotalOf(size, L) \in Nat /\ TotalOf(size, L \ {t}) \in Nat
  BY <1>1, TotalType
<1>3. ASSUME t \notin L PROVE TotalOf(size, L \cup {t}) = TotalOf(size, L) + size[t]
  <2>1. (L \cup {t}) \ {t} = L
    BY <1>3
  <2>2. TotalOf(size, L \cup {t}) = size[t] + TotalOf(size, (L \cup {t}) \ {t})
    BY <1>1, <1>2, TotalTakeOut
  <2> QED
    BY <1>2, <2>1, <2>2
<1>4. ASSUME t \in L PROVE Larger(0, TotalOf(size, L) - size[t]) = TotalOf(size, L \ {t})
  <2>1. TotalOf(size, L) = size[t] + TotalOf(size, L \ {t})
    BY <1>1, <1>2, <1>4, TotalTakeOut
  <2> QED
    BY <1>2, <2>1 DEF Larger
<1> QED
  BY <1>2, <1>3, <1>4

LEMMA MemoryStep ==
  ASSUME TypeOK, TypeOK', SharingInv, MemoryBalanced, [Next]_vars
  PROVE  MemoryBalanced'
<1>1. /\ Live \in SUBSET Tasks
      /\ ModelSize \in [Tasks -> Nat] /\ WorkingSet \in [Tasks -> Nat]
      /\ memory_used.weight = TotalOf(ModelSize, Live)
      /\ memory_used.workspace = TotalOf(WorkingSet, Live)
  BY TaskAssumption DEF Live, MemoryBalanced
<1>2. SUFFICES /\ memory_used'.weight = TotalOf(ModelSize, Live')
               /\ memory_used'.workspace = TotalOf(WorkingSet, Live')
  BY DEF MemoryBalanced
<1>3. CASE KeepsMemory
  BY <1>1, <1>3 DEF KeepsMemory
<1>4. ASSUME NEW t \in Tasks, TakesMemory(t)
      PROVE  /\ memory_used'.weight = TotalOf(ModelSize, Live')
             /\ memory_used'.workspace = TotalOf(WorkingSet, Live')
  BY <1>1, <1>4, PoolStep DEF TakesMemory
<1>5. ASSUME NEW t \in Tasks, GivesMemory(t)
      PROVE  /\ memory_used'.weight = TotalOf(ModelSize, Live')
             /\ memory_used'.workspace = TotalOf(WorkingSet, Live')
  BY <1>1, <1>5, PoolStep DEF GivesMemory, FreeMemory
<1> QED
  BY <1>3, <1>4, <1>5, StepMemory

LEMMA MemoryInit == Init => MemoryBalanced
<1> SUFFICES ASSUME Init PROVE MemoryBalanced
  OBVIOUS
<1>1. Live = {}
  BY DEF Init, Live
<1> QED
  BY <1>1, FS_EmptySet, TotalSumsUp DEF Init, MemoryBalanced

(* The pools hold exactly the memory of the live tasks, however many       *)
(* arrivals, preemptions and stale completions there are: nothing leaks,   *)
(* nothing is freed twice, and the clamp of _free_memory at zero never     *)
(* acts (_handle_task_arrival, _handle_task_completion). *)
THEOREM MemoryIsBalanced == Spec => []MemoryBalanced
<1>1. TypeOK /\ TypeOK' /\ SharingInv /\ MemoryBalanced /\ [Next]_vars => MemoryBalanced'
  BY MemoryStep
<1> QED
  BY <1>1, MemoryInit, TypeCorrect, SharingInvariant, PTL DEF Spec

-----------------------------------------------------------------------------
(* Each completion is rewarded once.                                       *)
OccursIn(u, s) == Cardinality({i \in DOMAIN s : s[i] = u})

LEMMA OccursEmpty ==
  ASSUME NEW u
  PROVE  OccursIn(u, <<>>) = 0
<1>1. {i \in DOMAIN <<>> : <<>>[i] = u} = {}
  OBVIOUS
<1> QED
  BY <1>1, FS_EmptySet DEF OccursIn

LEMMA OccursAppend ==
  ASSUME NEW s \in Seq(Tasks), NEW t \in Tasks, NEW u \in Tasks
  PROVE  /\ OccursIn(u, s) \in Nat
         /\ OccursIn(u, Append(s, t)) = OccursIn(u, s) + (IF u = t THEN 1 ELSE 0)
<1> DEFINE At == {i \in DOMAIN s : s[i] = u}
           then == {i \in DOMAIN Append(s, t) : Append(s, t)[i] = u}
           n == Len(s)
<1>1. n \in Nat /\ DOMAIN s = 1 .. n
  BY LenProperties
<1>2. IsFiniteSet(1 .. n)
  BY <1>1, FS_Interval
<1>3. IsFiniteSet(At) /\ Cardinality(At) \in Nat
  BY <1>1, <1>2, FS_Subset, FS_CardinalityType
<1>4. /\ DOMAIN Append(s, t) = 1 .. n + 1
      /\ \A i \in 1 .. n : Append(s, t)[i] = s[i]
      /\ Append(s, t)[n + 1] = t
  BY <1>1, AppendProperties
<1>5. then = IF u = t THEN At \cup {n + 1} ELSE At
  BY <1>1, <1>4
<1>6. n + 1 \notin At
  BY <1>1
<1> HIDE DEF At, then, n
<1>7. Cardinality(At \cup {n + 1}) = Cardinality(At) + 1
  BY <1>3, <1>6, FS_AddElement
<1>8. Cardinality(then) = Cardinality(At) + (IF u = t THEN 1 ELSE 0)
  BY <1>3, <1>5, <1>7
<1> QED
  BY <1>3, <1>8 DEF OccursIn, At, then

(* Before the first decision nothing has started. *)
NothingStarted == ~prev_obs => \A t \in Tasks : state[t] \in {"NONE", "READY"}

RewardInv == RewardedOnce /\ NothingStarted

(* What RewardedOnce says of the state it is in. *)
Owed(t) == IF state[t] = "TERMINATED" THEN 1 ELSE 0

LEMMA RewardedMeans ==
  /\ RewardedOnce <=> \A t \in Tasks :
       rewarded[t] + (IF pc = "done" THEN 0 ELSE OccursIn(t, recently_completed)) = Owed(t)
  /\ RewardedOnce' <=> \A t \in Tasks :
       rewarded'[t] + (IF pc' = "done" THEN 0 ELSE OccursIn(t, recently_completed')) = Owed(t)'
BY DEF RewardedOnce, Occurrences, OccursIn, Terminated, Owed

LEMMA RewardOfEvent ==
  ASSUME TypeOK, TypeOK', SharingInv, RewardInv, NEW e \in event_queue, Handled(e)
  PROVE  RewardInv'
<1>1. pc = "event" /\ pc' # "done" /\ prev_obs' = prev_obs /\ rewarded' = rewarded
  BY DEF Handled, HandleTaskArrival, HandleTaskCompletion, DropStaleCompletion, DropIdleQuantum,
         FreeCoreOfDeadTask, FinishInQuantum, PreemptAtQuantum, HandleDeadlineCheck, MigrateTask,
         SkipMigration, PopEvent, NeedsDecision, NoDecision, rewardVars
<1>2. \A t \in Tasks : rewarded[t] + OccursIn(t, recently_completed) = Owed(t)
  BY <1>1, RewardedMeans DEF RewardInv
<1>3. state \in [Tasks -> TaskState] /\ rewarded \in [Tasks -> Nat] /\ recently_completed \in Seq(Tasks)
  BY DEF TypeOK, TasksOK, AccountsOK
<1>4. CASE ~HandleTaskCompletion(e)
  <2>1. /\ SameTerminated /\ recently_completed' = recently_completed
        /\ \/ state' = state \/ \E t \in Tasks : state[t] = "RUNNING"
           \/ e.task \in Tasks /\ state' = [state EXCEPT ![e.task] = "READY"]
    <3>1. CASE HandleTaskArrival(e)
      BY <3>1, ArrivalKeepsAccounts, ArrivalIsMove
         DEF SharingInv, KeepsAccounts, HandleTaskArrival
    <3>2. CASE ~HandleTaskArrival(e)
      BY <1>4, <3>2, OthersKeepAccounts DEF KeepsAccounts
    <3> QED
      BY <3>1, <3>2
  <2>2. \A t \in Tasks : Owed(t)' = Owed(t)
    BY <2>1 DEF Owed, SameTerminated
  <2>3. RewardedOnce'
    BY <1>1, <1>2, <2>1, <2>2, RewardedMeans
  <2>4. NothingStarted'
    BY <1>1, <1>3, <2>1 DEF NothingStarted, RewardInv
  <2> QED
    BY <2>3, <2>4 DEF RewardInv
<1>5. CASE HandleTaskCompletion(e)
  <2>1. PICK t \in Tasks : Completes(t)
    BY <1>5, CompletionCompletes
  <2>2. recently_completed' = Append(recently_completed, t)
    BY <2>1 DEF Completes, RecordCompletion
  <2>3. state[t] = "RUNNING" /\ \A u \in Tasks : Owed(u)' = Owed(u) + (IF u = t THEN 1 ELSE 0)
    BY <2>1 DEF Completes, Owed
  <2>4. ASSUME NEW u \in Tasks
        PROVE  rewarded'[u] + OccursIn(u, recently_completed') = Owed(u)'
    <3>1. PICK k \in Nat, m \in Nat : k = rewarded[u] /\ m = OccursIn(u, recently_completed)
      BY <1>3, OccursAppend
    <3>2. k + m = Owed(u) /\ OccursIn(u, recently_completed') = m + (IF u = t THEN 1 ELSE 0)
      BY <1>2, <1>3, <2>2, <3>1, OccursAppend
    <3> QED
      BY <1>1, <2>3, <3>1, <3>2 DEF Owed
  <2>5. RewardedOnce'
    BY <1>1, <2>4, RewardedMeans
  <2>6. prev_obs
    BY <2>3 DEF RewardInv, NothingStarted
  <2> QED
    BY <1>1, <2>5, <2>6 DEF RewardInv, NothingStarted
<1> QED
  BY <1>4, <1>5

LEMMA RewardOfDecision ==
  ASSUME TypeOK, TypeOK', RewardInv, NEW t \in Tasks, NEW a \in Actions, Decide(t, a)
  PROVE  RewardInv'
<1>1. pc # "done" /\ pc' # "done" /\ prev_obs'
  BY DEF Decide, ApplyAction, AssignToGpu, PreemptCurrent, StartOnIdleCore, EnqueueOnBusyCore,
         Decision, LogTransition
<1>2. \A u \in Tasks : Owed(u)' = Owed(u)
  BY DecisionKeepsAccounts DEF Decide, KeepsAccounts, SameTerminated, Owed
<1>3. \A u \in Tasks : rewarded[u] + OccursIn(u, recently_completed) = Owed(u)
  BY <1>1, RewardedMeans DEF RewardInv
<1>4. rewarded \in [Tasks -> Nat]
  BY DEF TypeOK, AccountsOK
<1>5. ASSUME NEW u \in Tasks
      PROVE  rewarded'[u] + OccursIn(u, recently_completed') = Owed(u)'
  <2>1. CASE prev_obs
    <3>1. /\ rewarded'[u] = rewarded[u] + OccursIn(u, recently_completed)
          /\ recently_completed' = <<>>
      BY <2>1 DEF Decide, LogTransition, Occurrences, OccursIn
    <3>2. rewarded'[u] = Owed(u)
      BY <1>3, <3>1
    <3>3. Owed(u) + 0 = Owed(u)
      BY DEF Owed
    <3> QED
      BY <1>2, <3>1, <3>2, <3>3, OccursEmpty
  <2>2. CASE ~prev_obs
    BY <1>2, <1>3, <2>2 DEF Decide, LogTransition
  <2> QED
    BY <2>1, <2>2
<1>6. RewardedOnce'
  BY <1>1, <1>5, RewardedMeans
<1> QED
  BY <1>1, <1>6 DEF RewardInv, NothingStarted

LEMMA RewardOfEnd ==
  ASSUME TypeOK, TypeOK', RewardInv, EndEpisode
  PROVE  RewardInv'
<1>1. /\ pc # "done" /\ pc' = "done" /\ prev_obs' = prev_obs /\ state' = state
  BY DEF EndEpisode, taskVars
<1>2. \A u \in Tasks : rewarded[u] + OccursIn(u, recently_completed) = Owed(u)
  BY <1>1, RewardedMeans DEF RewardInv
<1>3. rewarded \in [Tasks -> Nat] /\ recently_completed \in Seq(Tasks)
  BY DEF TypeOK, AccountsOK
<1>4. ASSUME NEW u \in Tasks
      PROVE  rewarded'[u] + 0 = Owed(u)'
  <2>1. PICK k \in Nat, m \in Nat : k = rewarded[u] /\ m = OccursIn(u, recently_completed)
    BY <1>3, OccursAppend
  <2>2. k + m = Owed(u)
    BY <1>2, <2>1
  <2>3. CASE prev_obs
    <3>1. rewarded'[u] = k + m
      BY <2>1, <2>3 DEF EndEpisode, Occurrences, OccursIn
    <3> QED
      BY <1>1, <2>2, <3>1 DEF Owed
  <2>4. CASE ~prev_obs
    <3>1. rewarded'[u] = k
      BY <2>1, <2>4 DEF EndEpisode
    <3>2. Owed(u) = 0
      BY <2>4 DEF RewardInv, NothingStarted, Owed
    <3> QED
      BY <1>1, <2>2, <3>1, <3>2 DEF Owed
  <2> QED
    BY <2>3, <2>4
<1>5. RewardedOnce'
  BY <1>1, <1>4, RewardedMeans
<1> QED
  BY <1>1, <1>5 DEF RewardInv, NothingStarted

LEMMA RewardStep ==
  ASSUME TypeOK, TypeOK', SharingInv, RewardInv, [Next]_vars
  PROVE  RewardInv'
<1>1. CASE UNCHANGED vars
  <2>1. /\ pc' = pc /\ state' = state /\ rewarded' = rewarded /\ prev_obs' = prev_obs
        /\ recently_completed' = recently_completed
    BY <1>1 DEF vars, loopVars, taskVars, accountVars, rewardVars
  <2> QED
    BY <2>1 DEF RewardInv, RewardedOnce, NothingStarted, Occurrences, Terminated
<1> QED
  BY <1>1, ProcessEventHandles, RewardOfEvent, RewardOfDecision, RewardOfEnd DEF Next

LEMMA RewardedInit == Init => RewardInv
<1> SUFFICES ASSUME Init PROVE RewardInv
  OBVIOUS
<1>1. \A t \in Tasks : OccursIn(t, recently_completed) = 0
  BY OccursEmpty DEF Init
<1>2. \A t \in Tasks : rewarded[t] + OccursIn(t, recently_completed) = Owed(t)
  BY <1>1 DEF Init, Owed
<1>3. TypeOK /\ pc # "done"
  BY InitType DEF Init
<1> QED
  BY <1>2, <1>3, RewardedMeans DEF Init, RewardInv, NothingStarted

(* Every completion is in the reward of exactly one transition, or of none *)
(* yet while it waits for the next decision (run_episode). *)
THEOREM RewardsAreWhole == Spec => []RewardedOnce
<1>1. TypeOK /\ TypeOK' /\ SharingInv /\ RewardInv /\ [Next]_vars => RewardInv'
  BY RewardStep
<1>2. RewardInv => RewardedOnce
  BY DEF RewardInv
<1> QED
  BY <1>1, <1>2, RewardedInit, TypeCorrect, SharingInvariant, PTL DEF Spec

-----------------------------------------------------------------------------
(* No task waits on an idle platform.                                      *)
LEMMA WorkOfEvent ==
  ASSUME WorkConserving, NEW e \in event_queue, Handled(e)
  PROVE  WorkConserving'
<1>1. CASE NeedsDecision
  BY <1>1 DEF NeedsDecision, WorkConserving
<1>2. CASE pc = "event" /\ UNCHANGED <<state, current_task, gpu_queue>>
  BY <1>2 DEF WorkConserving
<1>3. CASE HandleTaskArrival(e)
  BY <1>1, <1>2, <1>3 DEF HandleTaskArrival, PopEvent, taskVars, coreVars
<1>4. CASE HandleTaskCompletion(e)
  BY <1>1, <1>2, <1>4 DEF HandleTaskCompletion, PopEvent, taskVars, coreVars
<1>5. CASE DropStaleCompletion(e)
  BY <1>1, <1>2, <1>5 DEF DropStaleCompletion, PopEvent, taskVars, coreVars
<1>6. CASE DropIdleQuantum(e)
  BY <1>1, <1>2, <1>6 DEF DropIdleQuantum, PopEvent, taskVars, coreVars
<1>7. CASE FreeCoreOfDeadTask(e)
  BY <1>1, <1>2, <1>7 DEF FreeCoreOfDeadTask, PopEvent, taskVars, coreVars
<1>8. CASE FinishInQuantum(e)
  BY <1>1, <1>2, <1>8 DEF FinishInQuantum, PopEvent, taskVars, coreVars
<1>9. CASE PreemptAtQuantum(e)
  BY <1>1, <1>2, <1>9 DEF PreemptAtQuantum, PopEvent, taskVars, coreVars
<1>10. CASE HandleDeadlineCheck(e)
  BY <1>1, <1>2, <1>10 DEF HandleDeadlineCheck, PopEvent, taskVars, coreVars
<1>11. CASE SkipMigration(e)
  BY <1>1, <1>2, <1>11 DEF SkipMigration, PopEvent, taskVars, coreVars
<1>12. ASSUME NEW from \in Migratable, NEW to \in Migratable, MigrateTask(e, from, to)
       PROVE  WorkConserving'
  BY <1>1, <1>2, <1>12 DEF MigrateTask, PopEvent, taskVars, coreVars
<1> QED
  BY <1>3, <1>4, <1>5, <1>6, <1>7, <1>8, <1>9, <1>10, <1>11, <1>12 DEF Handled

LEMMA WorkOfDecision ==
  ASSUME TypeOK, NEW t \in Tasks, NEW a, ApplyAction(t, a)
  PROVE  WorkConserving'
<1>1. current_task \in [Cores -> Tasks \cup {NoTask}] /\ gpu_queue \in Seq(Tasks) /\ t # NoTask
  <2>1. current_task \in [Cores -> Tasks \cup {NoTask}]
    BY DEF TypeOK, CoresOK
  <2>2. gpu_queue \in Seq(Tasks)
    BY DEF TypeOK, AccountsOK, CoresOK
  <2>3. t # NoTask
    BY DEF NoTask, Tasks
  <2> QED
    BY <2>1, <2>2, <2>3
<1>2. CASE AssignToGpu(t, a)
  <2>1. gpu_queue' # <<>>
    BY <1>1, <1>2, AppendProperties DEF AssignToGpu
  <2> QED
    BY <2>1 DEF WorkConserving
<1>3. ASSUME NEW c \in Cores, current_task'[c] # NoTask PROVE WorkConserving'
  BY <1>3 DEF WorkConserving
<1>4. CASE \E c \in Cores : \/ PreemptCurrent(t, a, c) \/ StartOnIdleCore(t, a, c)
                            \/ EnqueueOnBusyCore(t, a, c)
  BY <1>1, <1>3, <1>4 DEF PreemptCurrent, StartOnIdleCore, EnqueueOnBusyCore
<1> QED
  BY <1>2, <1>4 DEF ApplyAction

LEMMA WorkStep ==
  ASSUME TypeOK, WorkConserving, [Next]_vars
  PROVE  WorkConserving'
<1>1. CASE UNCHANGED vars
  <2>1. UNCHANGED <<pc, state, current_task, gpu_queue>>
    BY <1>1 DEF vars, loopVars, taskVars, coreVars
  <2> QED
    BY <2>1 DEF WorkConserving
<1>2. CASE EndEpisode
  BY <1>2 DEF EndEpisode, WorkConserving
<1>3. ASSUME NEW t \in Tasks, NEW a \in Actions, Decide(t, a) PROVE WorkConserving'
  BY <1>3, WorkOfDecision DEF Decide
<1> QED
  BY <1>1, <1>2, <1>3, ProcessEventHandles, WorkOfEvent DEF Next

(* As long as no decision has used the GPU, no task waits between events   *)
(* while every core is without one (_process_event, apply_action). *)
THEOREM NeverIdle == Spec => []WorkConserving
<1>1. TypeOK /\ WorkConserving /\ [Next]_vars => WorkConserving'
  BY WorkStep
<1>2. Init => WorkConserving
  BY DEF Init, WorkConserving
<1> QED
  BY <1>1, <1>2, TypeCorrect, PTL DEF Spec

-----------------------------------------------------------------------------
(* Without preemption and GPU every event of a core is for its task.       *)

(* Core c may have changed, all others are as driven as they were. *)
OthersUntouched(c) ==
  \A d \in Cores \ {c} :
    /\ current_task'[d] = current_task[d]
    /\ CoreEvents(d)' = CoreEvents(d)
    /\ current_task[d] # NoTask => state'[current_task[d]] = state[current_task[d]]

LEMMA RunEventDrives ==
  ASSUME NEW u, NEW c \in Cores, NEW now, NEW work
  PROVE  /\ RunEvent(u, c, now, work).type \in {TASK_COMPLETION, QUANTUM_EXPIRED}
         /\ RunEvent(u, c, now, work).core = c
         /\ RunEvent(u, c, now, work).type = TASK_COMPLETION => RunEvent(u, c, now, work).task = u
BY DEF RunEvent, NewEvent, TASK_COMPLETION, QUANTUM_EXPIRED

(* A core that is left without a task and events, or given a task and the  *)
(* one event for it. *)
LEMMA CoreDriven ==
  ASSUME NEW c \in Cores, OthersUntouched(c), \A d \in Cores : CoreIsDriven(d),
         \/ current_task'[c] = NoTask /\ CoreEvents(c)' = {}
         \/ \E ev : /\ current_task'[c] # NoTask /\ state'[current_task'[c]] = "RUNNING"
                    /\ CoreEvents(c)' = {ev}
                    /\ ev.type = TASK_COMPLETION => ev.task = current_task'[c]
  PROVE  \A d \in Cores : CoreIsDriven(d)'
<1>1. CoreIsDriven(c)'
  BY DEF CoreIsDriven
<1>2. ASSUME NEW d \in Cores \ {c} PROVE CoreIsDriven(d)'
  BY <1>2 DEF OthersUntouched, CoreIsDriven
<1> QED
  BY <1>1, <1>2

(* The events of the cores when an event of core c is replaced. *)
LEMMA EventsAfterPop ==
  ASSUME NEW c \in Cores, NEW e \in event_queue, e.core = c, CoreEvents(c) = {e}
  PROVE  /\ event_queue' = event_queue \ {e} =>
              CoreEvents(c)' = {} /\ \A d \in Cores \ {c} : CoreEvents(d)' = CoreEvents(d)
         /\ \A ev : /\ event_queue' = (event_queue \ {e}) \cup {ev} /\ ev.core = c
                    /\ ev.type \in {TASK_COMPLETION, QUANTUM_EXPIRED}
              => CoreEvents(c)' = {ev} /\ \A d \in Cores \ {c} : CoreEvents(d)' = CoreEvents(d)
<1>1. \A f \in event_queue \ {e} : ~(f.type \in {TASK_COMPLETION, QUANTUM_EXPIRED} /\ f.core = c)
  BY DEF CoreEvents
<1> QED
  BY <1>1 DEF CoreEvents

(* The core's task t is put back or has ended, so that st are the states,  *)
(* and the queue's next is started. *)
LEMMA NextIsDriven ==
  ASSUME TypeOK, Mutex, \A d \in Cores : CoreIsDriven(d),
         NEW c \in Cores, NEW e \in event_queue, e.core = c, CoreEvents(c) = {e},
         current_task[c] # NoTask, NEW to \in {"READY", "TERMINATED"}, NEW asg, NEW switched,
         StartNextFromQueue(e, c, [state EXCEPT ![current_task[c]] = to], asg, switched)
  PROVE  \A d \in Cores : CoreIsDriven(d)'
<1> DEFINE t == current_task[c]
           st == [state EXCEPT ![t] = to]
<1>1. state \in [Tasks -> TaskState] /\ current_task \in [Cores -> Tasks \cup {NoTask}] /\ t \in Tasks
  BY DEF TypeOK, TasksOK, CoresOK
<1>2. \A d \in Cores \ {c} : current_task[d] # NoTask =>
        current_task[d] # t /\ state[current_task[d]] # "READY" /\ current_task[d] \in Tasks
  BY <1>1 DEF Mutex, OneCorePerTask, CurrentIsStarted
<1>3. CASE IdleCore(e, c, st, asg, switched)
  <2>1. /\ event_queue' = event_queue \ {e} /\ state' = st
        /\ current_task' = [current_task EXCEPT ![c] = NoTask]
    BY <1>3 DEF IdleCore, PushNothing
  <2>2. OthersUntouched(c) /\ CoreEvents(c)' = {}
    BY <1>1, <1>2, <2>1, EventsAfterPop DEF OthersUntouched
  <2> QED
    BY <1>1, <2>1, <2>2, CoreDriven
<1>4. ASSUME NEW i \in DOMAIN run_queue[c], StartQueued(e, c, st, asg, switched, i)
      PROVE  \A d \in Cores : CoreIsDriven(d)'
  <2>1. PICK u \in Tasks : u = run_queue[c][i]
    BY LenProperties, ElementOfSeq DEF TypeOK, CoresOK
  <2>2. PICK ev : ev = RunEvent(u, c, clock_ns', remaining_work_ns'[u])
    OBVIOUS
  <2>3. /\ st[u] = "READY" /\ state' = [st EXCEPT ![u] = "RUNNING"]
        /\ current_task' = [current_task EXCEPT ![c] = u]
        /\ event_queue' = (event_queue \ {e}) \cup {ev}
    BY <1>4, <2>1, <2>2 DEF StartQueued, IsFirstReady, Push
  <2>4. /\ ev.core = c /\ ev.type \in {TASK_COMPLETION, QUANTUM_EXPIRED}
        /\ ev.type = TASK_COMPLETION => ev.task = u
    BY <2>2, RunEventDrives
  <2>5. CoreEvents(c)' = {ev} /\ \A d \in Cores \ {c} : CoreEvents(d)' = CoreEvents(d)
    BY <2>3, <2>4, EventsAfterPop
  <2>6. \A d \in Cores \ {c} : current_task[d] # NoTask => current_task[d] # u
    BY <1>1, <1>2, <2>3
  <2>7. OthersUntouched(c)
    BY <1>1, <1>2, <2>3, <2>5, <2>6 DEF OthersUntouched
  <2>8. current_task'[c] = u /\ state'[u] = "RUNNING" /\ u # NoTask
    BY <1>1, <2>3, SizeAssumption DEF Tasks, NoTask
  <2> QED
    BY <2>4, <2>5, <2>7, <2>8, CoreDriven
<1> QED
  BY <1>3, <1>4 DEF StartNextFromQueue

(* The steps that concern no core. *)
LEMMA NoCoreConcerned ==
  ASSUME \A d \in Cores : CoreIsDriven(d), current_task' = current_task,
         \A d \in Cores : CoreEvents(d)' = CoreEvents(d),
         \A d \in Cores : current_task[d] # NoTask =>
           state'[current_task[d]] = state[current_task[d]]
  PROVE  \A d \in Cores : CoreIsDriven(d)'
BY DEF CoreIsDriven

LEMMA PeriodicConcernsNone ==
  ASSUME NEW e \in event_queue, e.type \in {DEADLINE_CHECK, MIGRATION_CHECK},
         NEW interval, PushAgain(e, interval)
  PROVE  \A d \in Cores : CoreEvents(d)' = CoreEvents(d)
<1>1. e.type \notin {TASK_COMPLETION, QUANTUM_EXPIRED}
  BY DEF TASK_COMPLETION, QUANTUM_EXPIRED, DEADLINE_CHECK, MIGRATION_CHECK
<1> QED
  BY <1>1 DEF PushAgain, Push, PushNothing, NewEvent, CoreEvents

(* What an event of a core finds. *)
LEMMA CoreEventFinds ==
  ASSUME TypeOK, \A d \in Cores : CoreIsDriven(d),
         NEW e \in event_queue, e.type \in {TASK_COMPLETION, QUANTUM_EXPIRED}
  PROVE  /\ e.core \in Cores /\ CoreEvents(e.core) = {e}
         /\ current_task[e.core] # NoTask /\ state[current_task[e.core]] = "RUNNING"
         /\ e.type = TASK_COMPLETION => e.task = current_task[e.core]
<1>1. e.core \in Cores
  BY EventFields DEF TypeOK, LoopOK
<1>2. e \in CoreEvents(e.core)
  BY DEF CoreEvents
<1> QED
  BY <1>1, <1>2 DEF CoreIsDriven

LEMMA EventDrives ==
  ASSUME TypeOK, SharingInv, \A d \in Cores : CoreIsDriven(d), NEW e \in event_queue, Handled(e)
  PROVE  \A d \in Cores : CoreIsDriven(d)'
<1>1. /\ TASK_ARRIVAL \notin {TASK_COMPLETION, QUANTUM_EXPIRED}
      /\ TASK_COMPLETION # QUANTUM_EXPIRED
  BY DEF TASK_ARRIVAL, TASK_COMPLETION, QUANTUM_EXPIRED
<1>2. CASE HandleTaskArrival(e)
  <2>1. /\ e.task \in Tasks /\ state[e.task] = "NONE" /\ state' = [state EXCEPT ![e.task] = "READY"]
        /\ current_task' = current_task
    BY <1>2, ArrivalIsMove DEF Arrives, SharingInv
  <2>2. e.type = TASK_ARRIVAL /\ event_queue' = event_queue \ {e}
    BY <1>2 DEF HandleTaskArrival, PopEvent, PushNothing
  <2>3. \A d \in Cores : CoreEvents(d)' = CoreEvents(d)
    BY <1>1, <2>2 DEF CoreEvents
  <2>4. \A d \in Cores : current_task[d] # NoTask => current_task[d] # e.task
    BY <2>1 DEF SharingInv, Mutex, CurrentIsStarted
  <2>5. state \in [Tasks -> TaskState]
    BY DEF TypeOK, TasksOK
  <2>6. \A d \in Cores : current_task[d] # NoTask =>
          state'[current_task[d]] = state[current_task[d]]
    BY <2>1, <2>4, <2>5
  <2> QED
    BY <2>1, <2>3, <2>6, NoCoreConcerned
<1>3. CASE HandleTaskCompletion(e)
  <2>1. /\ e.core \in Cores /\ CoreEvents(e.core) = {e} /\ current_task[e.core] # NoTask
        /\ e.task = current_task[e.core]
    BY <1>3, CoreEventFinds DEF HandleTaskCompletion, PopEvent
  <2>2. StartNextFromQueue(e, e.core, [state EXCEPT ![current_task[e.core]] = "TERMINATED"],
                           assigned_cpu, 0)
    BY <1>3, <2>1 DEF HandleTaskCompletion
  <2> QED
    BY <2>1, <2>2, NextIsDriven DEF SharingInv
<1>4. CASE DropStaleCompletion(e) \/ DropIdleQuantum(e) \/ FreeCoreOfDeadTask(e)
  BY <1>4, CoreEventFinds DEF DropStaleCompletion, DropIdleQuantum, FreeCoreOfDeadTask, PopEvent,
                              MayComplete
<1>5. CASE FinishInQuantum(e)
  <2> DEFINE c == e.core
             t == current_task[c]
  <2>1. /\ c \in Cores /\ CoreEvents(c) = {e} /\ t # NoTask /\ state[t] = "RUNNING"
    BY <1>5, CoreEventFinds DEF FinishInQuantum, PopEvent
  <2>2. PICK ev : ev = NewEvent(e.ts, TASK_COMPLETION, t, c)
    OBVIOUS
  <2>3. /\ event_queue' = (event_queue \ {e}) \cup {ev}
        /\ current_task' = current_task /\ state' = state
    BY <1>5, <2>2 DEF FinishInQuantum, Push, coreVars
  <2>4. ev.core = c /\ ev.type = TASK_COMPLETION /\ ev.task = t
    BY <2>2 DEF NewEvent
  <2>5. CoreEvents(c)' = {ev} /\ OthersUntouched(c)
    BY <2>1, <2>3, <2>4, EventsAfterPop DEF OthersUntouched
  <2> QED
    BY <2>1, <2>3, <2>4, <2>5, CoreDriven
<1>6. CASE PreemptAtQuantum(e)
  <2>1. /\ e.core \in Cores /\ CoreEvents(e.core) = {e} /\ current_task[e.core] # NoTask
    BY <1>6, CoreEventFinds DEF PreemptAtQuantum, PopEvent
  <2>2. StartNextFromQueue(e, e.core, [state EXCEPT ![current_task[e.core]] = "READY"],
                           [assigned_cpu EXCEPT ![current_task[e.core]] = NoCore], 1)
    BY <1>6 DEF PreemptAtQuantum
  <2> QED
    BY <2>1, <2>2, NextIsDriven DEF SharingInv
<1>7. CASE HandleDeadlineCheck(e)
  <2>1. current_task' = current_task /\ state' = state
    BY <1>7 DEF HandleDeadlineCheck, coreVars
  <2>2. \A d \in Cores : CoreEvents(d)' = CoreEvents(d)
    BY <1>7, PeriodicConcernsNone DEF HandleDeadlineCheck, PopEvent
  <2> QED
    BY <2>1, <2>2, NoCoreConcerned
<1>8. CASE SkipMigration(e) \/ \E from, to \in Migratable : MigrateTask(e, from, to)
  <2>1. current_task' = current_task /\ state' = state
    BY <1>8 DEF SkipMigration, MigrateTask, coreVars, taskVars
  <2>2. \A d \in Cores : CoreEvents(d)' = CoreEvents(d)
    BY <1>8, PeriodicConcernsNone DEF SkipMigration, MigrateTask, PopEvent
  <2> QED
    BY <2>1, <2>2, NoCoreConcerned
<1> QED
  BY <1>2, <1>3, <1>4, <1>5, <1>6, <1>7, <1>8 DEF Handled

NoPreemptionNoGpu == CanUseGpu = {} /\ \A a \in Actions : ~ a.preempt

LEMMA DecisionDrives ==
  ASSUME TypeOK, Mutex, \A d \in Cores : CoreIsDriven(d),
         NEW t \in Tasks, NEW a, ~a.preempt, ~GpuTarget(t, a), IsPicked(t), ApplyAction(t, a)
  PROVE  \A d \in Cores : CoreIsDriven(d)'
<1>1. /\ state \in [Tasks -> TaskState] /\ state[t] = "READY"
      /\ current_task \in [Cores -> Tasks \cup {NoTask}] /\ t # NoTask
  BY SizeAssumption DEF TypeOK, TasksOK, CoresOK, IsPicked, NoTask, Tasks
<1>2. ~AssignToGpu(t, a) /\ \A c \in Cores : ~PreemptCurrent(t, a, c)
  BY DEF AssignToGpu, PreemptCurrent, Preempts
<1>3. ASSUME NEW c \in Cores, StartOnIdleCore(t, a, c)
      PROVE  \A d \in Cores : CoreIsDriven(d)'
  <2>1. PICK ev : ev = RunEvent(t, c, clock_ns, remaining_work_ns[t])
    OBVIOUS
  <2>2. /\ current_task[c] = NoTask /\ current_task' = [current_task EXCEPT ![c] = t]
        /\ state' = [state EXCEPT ![t] = "RUNNING"] /\ event_queue' = event_queue \cup {ev}
    BY <1>3, <2>1 DEF StartOnIdleCore, PushRunEvent
  <2>3. /\ ev.core = c /\ ev.type \in {TASK_COMPLETION, QUANTUM_EXPIRED}
        /\ ev.type = TASK_COMPLETION => ev.task = t
    BY <2>1, RunEventDrives
  <2>4. CoreEvents(c) = {}
    BY <2>2 DEF CoreIsDriven
  <2>5. CoreEvents(c)' = {ev} /\ \A d \in Cores \ {c} : CoreEvents(d)' = CoreEvents(d)
    BY <2>2, <2>3, <2>4 DEF CoreEvents
  <2>6. \A d \in Cores : current_task[d] # NoTask => current_task[d] # t
    BY <1>1 DEF Mutex, CurrentIsStarted
  <2>7. OthersUntouched(c)
    BY <1>1, <2>2, <2>5, <2>6 DEF OthersUntouched
  <2> QED
    BY <1>1, <2>2, <2>3, <2>5, <2>7, CoreDriven
<1>4. ASSUME NEW c \in Cores, EnqueueOnBusyCore(t, a, c)
      PROVE  \A d \in Cores : CoreIsDriven(d)'
  <2>1. event_queue' = event_queue /\ current_task' = current_task /\ state' = state
    BY <1>4 DEF EnqueueOnBusyCore
  <2> QED
    BY <2>1, NoCoreConcerned DEF CoreEvents
<1> QED
  BY <1>2, <1>3, <1>4 DEF ApplyAction

LEMMA DrivenStep ==
  ASSUME TypeOK, SharingInv, OneEventPerBusyCore, NoPreemptionNoGpu, [Next]_vars
  PROVE  OneEventPerBusyCore'
<1>1. CASE UNCHANGED vars
  <2>1. UNCHANGED <<pc, state, current_task, event_queue>>
    BY <1>1 DEF vars, loopVars, taskVars, coreVars
  <2> QED
    BY <2>1 DEF OneEventPerBusyCore, CoreIsDriven, CoreEvents
<1>2. CASE EndEpisode
  BY <1>2 DEF EndEpisode, OneEventPerBusyCore
<1>3. ASSUME NEW t \in Tasks, NEW a \in Actions, Decide(t, a) PROVE OneEventPerBusyCore'
  <2>1. pc # "done"
    BY <1>3 DEF Decide, ApplyAction, AssignToGpu, PreemptCurrent, StartOnIdleCore,
                EnqueueOnBusyCore, Decision
  <2>2. ~a.preempt /\ ~GpuTarget(t, a)
    BY DEF NoPreemptionNoGpu, GpuTarget
  <2> QED
    BY <1>3, <2>1, <2>2, DecisionDrives DEF Decide, OneEventPerBusyCore, SharingInv
<1>4. ASSUME NEW e \in event_queue, Handled(e) PROVE OneEventPerBusyCore'
  <2>1. pc # "done"
    BY <1>4 DEF Handled, HandleTaskArrival, HandleTaskCompletion, DropStaleCompletion,
         DropIdleQuantum, FreeCoreOfDeadTask, FinishInQuantum, PreemptAtQuantum,
         HandleDeadlineCheck, MigrateTask, SkipMigration, PopEvent
  <2> QED
    BY <1>4, <2>1, EventDrives DEF OneEventPerBusyCore
<1> QED
  BY <1>1, <1>2, <1>3, <1>4, ProcessEventHandles DEF Next

LEMMA DrivenInit == Init => OneEventPerBusyCore
<1> SUFFICES ASSUME Init PROVE OneEventPerBusyCore
  OBVIOUS
<1>1. \A e \in event_queue : e.type \notin {TASK_COMPLETION, QUANTUM_EXPIRED}
  BY DEF Init, PeriodicEvents, Arrivals, TASK_ARRIVAL, TASK_COMPLETION, QUANTUM_EXPIRED,
         DEADLINE_CHECK, MIGRATION_CHECK
<1> QED
  BY <1>1 DEF Init, OneEventPerBusyCore, CoreIsDriven, CoreEvents

(* With an agent that neither preempts nor can use the GPU, a core has one *)
(* pending event when it is busy, for the task it runs, and none when it   *)
(* is idle (_schedule_completion_for_task, _start_next_from_queue). *)
THEOREM CoresAreDriven ==
  ASSUME NoPreemptionNoGpu
  PROVE  Spec => []OneEventPerBusyCore
<1>1. TypeOK /\ SharingInv /\ OneEventPerBusyCore /\ [Next]_vars => OneEventPerBusyCore'
  BY DrivenStep
<1> QED
  BY <1>1, DrivenInit, TypeCorrect, SharingInvariant, PTL DEF Spec

-----------------------------------------------------------------------------
(* The episode is finite: a rank that every step lowers.  Events leave the *)
(* heap in order and none is left beyond the episode; at one time a task   *)
(* arrives and completes once, no new end of a quantum is pushed, and what *)
(* a decision pushes is paid for by one of these.                          *)
Due == {e \in event_queue : e.ts = event_ts}
QuantaDue == {e \in event_queue : e.ts = event_ts /\ e.type = QUANTUM_EXPIRED}
Absent == {t \in Tasks : state[t] = "NONE"}
Unfinished == {t \in Tasks : state[t] # "TERMINATED"}

Rank ==
  <<Count(pc # "done"), EpisodeDuration - event_ts, Cardinality(Absent),
    Cardinality(Unfinished), Cardinality(QuantaDue), Count(pc = "decide"), Cardinality(Due)>>
Ranks == [1 .. 7 -> Nat]

(* The lexicographic order, which is well-founded on Ranks. *)
Below(r, s) == \E i \in 1 .. 7 : r[i] < s[i] /\ \A j \in 1 .. i - 1 : r[j] = s[j]

RankInv == IsFiniteSet(event_queue) /\ event_ts <= EpisodeDuration

LEMMA BelowWhen ==
  ASSUME NEW r \in Ranks, NEW s \in Ranks, NEW i \in 1 .. 7, r[i] < s[i],
         \A j \in 1 .. i - 1 : r[j] <= s[j]
  PROVE  Below(r, s)
<1> DEFINE K == {k \in 1 .. i : r[k] < s[k]}
<1>1. K \subseteq Nat /\ K # {}
  OBVIOUS
<1>2. PICK k \in K : \A j \in K : k <= j
  <2> HIDE DEF K
  <2> QED
    BY <1>1, SmallestNumber
<1>3. \A j \in 1 .. k - 1 : r[j] = s[j]
  <2> SUFFICES ASSUME NEW j \in 1 .. k - 1 PROVE r[j] = s[j]
    OBVIOUS
  <2>1. j \notin K /\ j \in 1 .. i - 1 /\ j \in 1 .. 7
    BY <1>2
  <2>2. r[j] \in Nat /\ s[j] \in Nat /\ ~(r[j] < s[j]) /\ r[j] <= s[j]
    BY <2>1 DEF Ranks
  <2> QED
    BY <2>2
<1> QED
  BY <1>2, <1>3 DEF Below

LEMMA TupleRank ==
  ASSUME NEW a \in Nat, NEW b \in Nat, NEW c \in Nat, NEW d \in Nat, NEW e \in Nat,
         NEW f \in Nat, NEW g \in Nat
  PROVE  /\ <<a, b, c, d, e, f, g>> \in Ranks
         /\ <<a, b, c, d, e, f, g>>[1] = a /\ <<a, b, c, d, e, f, g>>[2] = b
         /\ <<a, b, c, d, e, f, g>>[3] = c /\ <<a, b, c, d, e, f, g>>[4] = d
         /\ <<a, b, c, d, e, f, g>>[5] = e /\ <<a, b, c, d, e, f, g>>[6] = f
         /\ <<a, b, c, d, e, f, g>>[7] = g
BY DEF Ranks

RankParts ==
  /\ Rank \in Ranks
  /\ Rank[1] = Count(pc # "done") /\ Rank[2] = EpisodeDuration - event_ts
  /\ Rank[3] = Cardinality(Absent) /\ Rank[4] = Cardinality(Unfinished)
  /\ Rank[5] = Cardinality(QuantaDue) /\ Rank[6] = Count(pc = "decide")
  /\ Rank[7] = Cardinality(Due)

LEMMA RankHasParts == TypeOK /\ RankInv => RankParts
<1> SUFFICES ASSUME TypeOK, RankInv PROVE RankParts
  OBVIOUS
<1>1. EpisodeDuration - event_ts \in Nat
  BY TimingAssumption DEF TypeOK, LoopOK, RankInv
<1>2. Cardinality(Absent) \in Nat /\ Cardinality(Unfinished) \in Nat
  BY FiniteTerminated, FS_CardinalityType DEF Absent, Unfinished
<1>3. Cardinality(QuantaDue) \in Nat /\ Cardinality(Due) \in Nat
  <2>1. QuantaDue \subseteq event_queue /\ Due \subseteq event_queue
    BY DEF QuantaDue, Due
  <2> QED
    BY <2>1, FS_Subset, FS_CardinalityType DEF RankInv
<1>4. Count(pc # "done") \in Nat /\ Count(pc = "decide") \in Nat
  BY DEF Count
<1> QED
  BY <1>1, <1>2, <1>3, <1>4, TupleRank DEF RankParts, Rank

LEMMA RankHasPartsNext == TypeOK' /\ RankInv' => RankParts'
BY RankHasParts, PTL

LEMMA Fewer ==
  ASSUME NEW S, IsFiniteSet(S), NEW T \in SUBSET S
  PROVE  /\ Cardinality(T) <= Cardinality(S)
         /\ T # S => Cardinality(T) < Cardinality(S)
<1>1. /\ Cardinality(T) <= Cardinality(S)
      /\ Cardinality(S) = Cardinality(T) => S = T
  BY FS_Subset
<1>2. Cardinality(T) \in Nat /\ Cardinality(S) \in Nat
  BY FS_Subset, FS_CardinalityType
<1> QED
  BY <1>1, <1>2

(* It is enough that a component falls and none before it grows. *)
NotAbove(n) == \A j \in 1 .. n : Rank'[j] <= Rank[j]

LEMMA Lowered ==
  ASSUME RankParts, RankParts', NEW i \in 1 .. 7, NotAbove(i - 1), Rank'[i] < Rank[i]
  PROVE  Below(Rank', Rank)
BY BelowWhen DEF RankParts, NotAbove

(* The tasks only move on. *)
LEMMA MovesBringBackNone ==
  ASSUME TypeOK, Moves \/ \E t \in Tasks : Arrives(t), NEW t \in Tasks, state'[t] = "NONE"
  PROVE  state[t] = "NONE"
<1>1. state \in [Tasks -> TaskState]
  BY DEF TypeOK, TasksOK
<1> QED
  BY <1>1 DEF Moves, Stays, Arrives, Offloads, EndsElsewhere, Starts, Ends, Yields, EndsFor,
              YieldsFor, Forgets

LEMMA MovesKeepTerminated ==
  ASSUME TypeOK, Moves \/ \E t \in Tasks : Arrives(t), NEW t \in Tasks, state[t] = "TERMINATED"
  PROVE  state'[t] = "TERMINATED"
<1>1. state \in [Tasks -> TaskState]
  BY DEF TypeOK, TasksOK
<1> QED
  BY <1>1 DEF Moves, Stays, Arrives, Offloads, EndsElsewhere, Starts, Ends, Yields, EndsFor,
              YieldsFor, Forgets

LEMMA TasksMoveOn ==
  ASSUME TypeOK, Moves \/ \E t \in Tasks : Arrives(t)
  PROVE  /\ Absent' \subseteq Absent /\ Cardinality(Absent') <= Cardinality(Absent)
         /\ Unfinished' \subseteq Unfinished
         /\ Cardinality(Unfinished') <= Cardinality(Unfinished)
<1>1. Absent' \subseteq Absent
  BY MovesBringBackNone DEF Absent
<1>2. Unfinished' \subseteq Unfinished
  BY MovesKeepTerminated DEF Unfinished
<1>3. IsFiniteSet(Absent) /\ IsFiniteSet(Unfinished)
  BY FiniteTerminated DEF Absent, Unfinished
<1> QED
  BY <1>1, <1>2, <1>3, Fewer

(* A handler pushes one event at most, and the end of a quantum only for a *)
(* later time. *)
PushesOne(e) ==
  \E ev : /\ event_queue' \subseteq (event_queue \ {e}) \cup {ev}
          /\ ev.type = QUANTUM_EXPIRED => ev.ts > e.ts

LEMMA QuantumIsLater ==
  ASSUME NEW t, NEW c, NEW now \in Nat, NEW work
  PROVE  RunEvent(t, c, now, work).type = QUANTUM_EXPIRED => RunEvent(t, c, now, work).ts > now
<1>1. Quantum \in Nat \ {0}
  BY PlatformAssumption
<1>2. now + Quantum > now
  BY <1>1
<1> QED
  BY <1>2 DEF RunEvent, NewEvent, TASK_COMPLETION, QUANTUM_EXPIRED

LEMMA HandledPushesOne ==
  ASSUME TypeOK, TypeOK', NEW e \in event_queue, Handled(e)
  PROVE  PushesOne(e)
<1>1. /\ TASK_COMPLETION # QUANTUM_EXPIRED /\ DEADLINE_CHECK # QUANTUM_EXPIRED
      /\ MIGRATION_CHECK # QUANTUM_EXPIRED
  BY DEF TASK_COMPLETION, QUANTUM_EXPIRED, DEADLINE_CHECK, MIGRATION_CHECK
<1>2. clock_ns' \in Nat /\ e.ts <= clock_ns' /\ e.ts \in Nat
  BY HandledPopsInOrder DEF PopsInOrder, TypeOK, LoopOK, Event, ArrivalEvent, CompletionEvent,
                            QuantumEvent, PeriodicEvent
<1>3. ASSUME PushNothing(e) PROVE PushesOne(e)
  <2>1. PICK ev : ev = NewEvent(0, TASK_COMPLETION, NoTask, NoCore)
    OBVIOUS
  <2>2. ev.type # QUANTUM_EXPIRED
    BY <1>1, <2>1 DEF NewEvent
  <2> QED
    BY <1>3, <2>2 DEF PushNothing, PushesOne
<1>4. ASSUME NEW ev, Push(e, ev), ev.type = QUANTUM_EXPIRED => ev.ts > e.ts
      PROVE  PushesOne(e)
  BY <1>4 DEF Push, PushesOne
<1>5. ASSUME NEW interval, PushAgain(e, interval), e.type # QUANTUM_EXPIRED
      PROVE  PushesOne(e)
  BY <1>3, <1>4, <1>5 DEF PushAgain, NewEvent
<1>6. ASSUME NEW c, NEW st, NEW asg, NEW switched, StartNextFromQueue(e, c, st, asg, switched)
      PROVE  PushesOne(e)
  <2>1. CASE IdleCore(e, c, st, asg, switched)
    BY <1>3, <2>1 DEF IdleCore
  <2>2. ASSUME NEW i, StartQueued(e, c, st, asg, switched, i) PROVE PushesOne(e)
    <3>1. PICK ev : ev = RunEvent(run_queue[c][i], c, clock_ns',
                                  remaining_work_ns'[run_queue[c][i]])
      OBVIOUS
    <3>2. Push(e, ev)
      BY <2>2, <3>1 DEF StartQueued
    <3>3. ev.type = QUANTUM_EXPIRED => ev.ts > clock_ns'
      BY <1>2, <3>1, QuantumIsLater
    <3>4. ev.type = QUANTUM_EXPIRED => ev.ts > e.ts
      <4>1. ASSUME ev.type = QUANTUM_EXPIRED PROVE ev.ts > e.ts
        <5>1. ev.ts = clock_ns' + Quantum
          BY <1>1, <3>1, <4>1 DEF RunEvent, NewEvent
        <5> QED
          BY <1>2, <5>1, PlatformAssumption
      <4> QED
        BY <4>1
    <3> QED
      BY <1>4, <3>2, <3>4
  <2> QED
    BY <1>6, <2>1, <2>2 DEF StartNextFromQueue
<1>7. CASE HandleTaskArrival(e) \/ DropStaleCompletion(e) \/ DropIdleQuantum(e)
           \/ FreeCoreOfDeadTask(e)
  BY <1>3, <1>7 DEF HandleTaskArrival, DropStaleCompletion, DropIdleQuantum, FreeCoreOfDeadTask
<1>8. CASE HandleTaskCompletion(e)
  BY <1>3, <1>6, <1>8 DEF HandleTaskCompletion
<1>9. CASE FinishInQuantum(e)
  BY <1>1, <1>4, <1>9 DEF FinishInQuantum, NewEvent
<1>10. CASE PreemptAtQuantum(e)
  BY <1>6, <1>10 DEF PreemptAtQuantum
<1>11. CASE HandleDeadlineCheck(e)
  BY <1>1, <1>5, <1>11 DEF HandleDeadlineCheck, PopEvent
<1>12. CASE SkipMigration(e) \/ \E from, to \in Migratable : MigrateTask(e, from, to)
  BY <1>1, <1>5, <1>12 DEF SkipMigration, MigrateTask, PopEvent
<1> QED
  BY <1>7, <1>8, <1>9, <1>10, <1>11, <1>12 DEF Handled

LEMMA PushesKeepFinite ==
  ASSUME IsFiniteSet(event_queue), NEW e, PushesOne(e)
  PROVE  IsFiniteSet(event_queue')
<1>1. PICK ev : event_queue' \subseteq event_queue \cup {ev}
  BY DEF PushesOne
<1> QED
  BY <1>1, FS_AddElement, FS_Subset

(* The loop has not ended, and the event lies in the episode. *)
LEMMA HandledInEpisode ==
  ASSUME NEW e \in event_queue, Handled(e)
  PROVE  pc = "event" /\ pc' \in {"event", "decide"} /\ e.ts <= EpisodeDuration
BY DEF Handled, HandleTaskArrival, HandleTaskCompletion, DropStaleCompletion, DropIdleQuantum,
       FreeCoreOfDeadTask, FinishInQuantum, PreemptAtQuantum, HandleDeadlineCheck, MigrateTask,
       SkipMigration, PopEvent, NeedsDecision, NoDecision

(* What a handler does besides taking its event: a task arrives, one       *)
(* completes, a quantum ends, or nothing is decided and nothing else is    *)
(* due. *)
LEMMA HandledUsesUp ==
  ASSUME TypeOK, SharingInv, NEW e \in event_queue, Handled(e)
  PROVE  \/ \E t \in Absent : t \notin Absent'
         \/ \E t \in Unfinished : t \notin Unfinished'
         \/ e.type = QUANTUM_EXPIRED
         \/ pc' = "event" /\ \A f \in event_queue' : f \in event_queue \ {e} \/ f.ts # e.ts
<1>1. state \in [Tasks -> TaskState] /\ e \in Event
  BY DEF TypeOK, TasksOK, LoopOK
<1>2. e.ts \in Nat
  BY <1>1 DEF Event, ArrivalEvent, CompletionEvent, QuantumEvent, PeriodicEvent
<1>3. CASE HandleTaskArrival(e)
  <2>1. e.task \in Tasks /\ Arrives(e.task)
    BY <1>3, ArrivalIsMove DEF SharingInv
  <2>2. e.task \in Absent /\ e.task \notin Absent'
    BY <1>1, <2>1 DEF Arrives, Absent
  <2> QED
    BY <2>2
<1>4. CASE HandleTaskCompletion(e)
  <2>1. e.type = TASK_COMPLETION /\ state[e.task] = "RUNNING" /\ e.task \in Tasks
    BY <1>1, <1>4, EventFields DEF HandleTaskCompletion, PopEvent, MayComplete
  <2> DEFINE t == e.task
             ended == [state EXCEPT ![t] = "TERMINATED"]
  <2>2. e.core \in Cores
    BY <1>1, <2>1, EventFields
  <2>3. \/ StartNextFromQueue(e, e.core, ended, assigned_cpu, 0)
        \/ state' = ended
    BY <1>4 DEF HandleTaskCompletion
  <2>4. \/ state' = ended
        \/ \E u \in Tasks : ended[u] = "READY" /\ state' = [ended EXCEPT ![u] = "RUNNING"]
    <3>1. CASE StartNextFromQueue(e, e.core, ended, assigned_cpu, 0)
      <4>1. LeavesIdle(e.core, ended) \/ \E u \in Tasks : Launches(u, e.core, ended)
        BY <2>2, <3>1, StartNextOutcome
      <4> QED
        BY <4>1 DEF LeavesIdle, Launches
    <3> QED
      BY <2>3, <3>1
  <2>5. state'[t] = "TERMINATED"
    BY <1>1, <2>1, <2>4
  <2>6. t \in Unfinished /\ t \notin Unfinished'
    BY <2>1, <2>5 DEF Unfinished
  <2> QED
    BY <2>6
<1>5. ASSUME NEW interval \in Nat \ {0}, PushAgain(e, interval)
      PROVE  \A f \in event_queue' : f \in event_queue \ {e} \/ f.ts # e.ts
  <2>1. e.ts + interval # e.ts
    BY <1>2
  <2> QED
    BY <1>5, <2>1 DEF PushAgain, Push, PushNothing, NewEvent
<1>6. CASE DropStaleCompletion(e)
  BY <1>6 DEF DropStaleCompletion, NoDecision, PushNothing
<1>7. CASE DropIdleQuantum(e) \/ FreeCoreOfDeadTask(e) \/ FinishInQuantum(e) \/ PreemptAtQuantum(e)
  BY <1>7 DEF DropIdleQuantum, FreeCoreOfDeadTask, FinishInQuantum, PreemptAtQuantum, PopEvent
<1>8. CASE HandleDeadlineCheck(e)
  BY <1>5, <1>8, TimingAssumption DEF HandleDeadlineCheck, NoDecision
<1>9. CASE SkipMigration(e) \/ \E from, to \in Migratable : MigrateTask(e, from, to)
  BY <1>5, <1>9, TimingAssumption DEF SkipMigration, MigrateTask, NoDecision
<1> QED
  BY <1>3, <1>4, <1>6, <1>7, <1>8, <1>9 DEF Handled

(* An event of a later time lowers the second component, another one what  *)
(* its handler uses up. *)
LEMMA EventLowers ==
  ASSUME TypeOK, TypeOK', SharingInv, NothingInThePast, RankInv, NEW e \in event_queue, Handled(e)
  PROVE  RankInv' /\ Below(Rank', Rank)
<1>1. /\ event_ts' = e.ts /\ event_ts <= e.ts /\ e.ts <= EpisodeDuration
      /\ event_ts \in Nat /\ event_ts' \in Nat
  BY HandledPopsInOrder, HandledInEpisode DEF PopsInOrder, NothingInThePast, TypeOK, LoopOK
<1>2. PushesOne(e)
  BY HandledPushesOne
<1>3. RankInv'
  BY <1>1, <1>2, PushesKeepFinite DEF RankInv
<1>4. RankParts /\ RankParts'
  BY <1>3, RankHasParts, RankHasPartsNext
<1>5. /\ Rank'[1] <= Rank[1] /\ Rank'[2] <= Rank[2]
      /\ e.ts # event_ts => Rank'[2] < Rank[2]
  BY <1>1, <1>4, HandledInEpisode, TimingAssumption DEF RankParts, Count
<1>6. /\ Absent' \subseteq Absent /\ Unfinished' \subseteq Unfinished
      /\ Rank'[3] <= Rank[3] /\ Rank'[4] <= Rank[4]
  BY <1>4, EventMoves, TasksMoveOn DEF RankParts
<1>7. CASE e.ts # event_ts
  BY <1>3, <1>4, <1>5, <1>7, Lowered DEF NotAbove
<1>8. CASE \E t \in Absent : t \notin Absent'
  <2>1. Rank'[3] < Rank[3]
    BY <1>4, <1>6, <1>8, FiniteTerminated, Fewer DEF Absent, RankParts
  <2> QED
    BY <1>3, <1>4, <1>5, <2>1, Lowered DEF NotAbove
<1>9. CASE \E t \in Unfinished : t \notin Unfinished'
  <2>1. Rank'[4] < Rank[4]
    BY <1>4, <1>6, <1>9, FiniteTerminated, Fewer DEF Unfinished, RankParts
  <2> QED
    BY <1>3, <1>4, <1>5, <1>6, <2>1, Lowered DEF NotAbove
<1>10. ASSUME e.ts = event_ts
       PROVE  QuantaDue' \subseteq QuantaDue \ {e} /\ Rank'[5] <= Rank[5]
  <2>1. PICK ev : /\ event_queue' \subseteq (event_queue \ {e}) \cup {ev}
                  /\ ev.type = QUANTUM_EXPIRED => ev.ts > e.ts
    BY <1>2 DEF PushesOne
  <2>2. QuantaDue' \subseteq QuantaDue \ {e}
    BY <1>1, <1>10, <2>1 DEF QuantaDue
  <2>3. IsFiniteSet(QuantaDue)
    BY FS_Subset DEF RankInv, QuantaDue
  <2> QED
    BY <1>4, <2>2, <2>3, Fewer DEF RankParts
<1>11. CASE e.ts = event_ts /\ e.type = QUANTUM_EXPIRED
  <2>1. e \in QuantaDue /\ IsFiniteSet(QuantaDue)
    BY <1>11, FS_Subset DEF RankInv, QuantaDue
  <2>2. Rank'[5] < Rank[5]
    BY <1>4, <1>10, <1>11, <2>1, Fewer DEF RankParts
  <2> QED
    BY <1>3, <1>4, <1>5, <1>6, <2>2, Lowered DEF NotAbove
<1>12. CASE /\ e.ts = event_ts /\ pc' = "event"
            /\ \A f \in event_queue' : f \in event_queue \ {e} \/ f.ts # e.ts
  <2>1. Rank'[6] <= Rank[6]
    BY <1>4, <1>12 DEF RankParts, Count
  <2>2. Due' \subseteq Due /\ e \in Due /\ e \notin Due'
    BY <1>1, <1>12 DEF Due
  <2>3. IsFiniteSet(Due)
    BY FS_Subset DEF RankInv, Due
  <2>4. Rank'[7] < Rank[7]
    BY <1>4, <2>2, <2>3, Fewer DEF RankParts
  <2> QED
    BY <1>3, <1>4, <1>5, <1>6, <1>10, <1>12, <2>1, <2>4, Lowered DEF NotAbove
<1> QED
  BY <1>3, <1>7, <1>8, <1>9, <1>11, <1>12, HandledUsesUp

(* A decision uses up that one was wanted. *)
LEMMA DecisionLowers ==
  ASSUME TypeOK, TypeOK', SharingInv, NothingInThePast, RankInv,
         NEW t \in Tasks, NEW a, IsPicked(t), ApplyAction(t, a)
  PROVE  RankInv' /\ Below(Rank', Rank)
<1>1. pc = "decide" /\ pc' = "event" /\ event_ts' = event_ts
  BY DEF ApplyAction, AssignToGpu, PreemptCurrent, StartOnIdleCore, EnqueueOnBusyCore, Decision
<1>2. event_ts \in Nat /\ clock_ns \in Nat /\ event_ts <= clock_ns
  BY DEF TypeOK, LoopOK, NothingInThePast
<1>3. PICK ev : /\ event_queue' \subseteq event_queue \cup {ev}
                /\ ev.type = QUANTUM_EXPIRED => ev.ts # event_ts
  <2>1. ASSUME NEW c, PushRunEvent(t, c)
        PROVE  \E ev : /\ event_queue' \subseteq event_queue \cup {ev}
                       /\ ev.type = QUANTUM_EXPIRED => ev.ts # event_ts
    <3>1. PICK ev : ev = RunEvent(t, c, clock_ns, remaining_work_ns[t])
      OBVIOUS
    <3>2. ev.type = QUANTUM_EXPIRED => ev.ts = clock_ns + Quantum
      BY <3>1 DEF RunEvent, NewEvent, TASK_COMPLETION, QUANTUM_EXPIRED
    <3>3. clock_ns + Quantum # event_ts
      BY <1>2, PlatformAssumption
    <3>4. event_queue' \subseteq event_queue \cup {ev}
      BY <2>1, <3>1 DEF PushRunEvent
    <3> QED
      BY <3>2, <3>3, <3>4
  <2>2. ASSUME event_queue' = event_queue
        PROVE  \E ev : /\ event_queue' \subseteq event_queue \cup {ev}
                       /\ ev.type = QUANTUM_EXPIRED => ev.ts # event_ts
    <3>1. NewEvent(0, TASK_COMPLETION, NoTask, NoCore).type # QUANTUM_EXPIRED
      BY DEF NewEvent, TASK_COMPLETION, QUANTUM_EXPIRED
    <3> QED
      BY <2>2, <3>1
  <2>3. event_queue' = event_queue \/ \E c : PushRunEvent(t, c)
    BY DEF ApplyAction, AssignToGpu, PreemptCurrent, StartOnIdleCore, EnqueueOnBusyCore
  <2> QED
    BY <2>1, <2>2, <2>3
<1>4. RankInv'
  <2>1. IsFiniteSet(event_queue')
    BY <1>3, FS_AddElement, FS_Subset DEF RankInv
  <2> QED
    BY <1>1, <2>1 DEF RankInv
<1>5. RankParts /\ RankParts'
  BY <1>4, RankHasParts, RankHasPartsNext
<1>6. Rank'[1] <= Rank[1] /\ Rank'[2] <= Rank[2] /\ Rank'[6] < Rank[6]
  BY <1>1, <1>2, <1>5, TimingAssumption DEF RankParts, Count
<1>7. Rank'[3] <= Rank[3] /\ Rank'[4] <= Rank[4]
  BY <1>5, DecisionMoves, TasksMoveOn DEF RankParts
<1>8. Rank'[5] <= Rank[5]
  <2>1. QuantaDue' \subseteq QuantaDue
    BY <1>1, <1>3 DEF QuantaDue
  <2>2. IsFiniteSet(QuantaDue)
    BY FS_Subset DEF RankInv, QuantaDue
  <2> QED
    BY <1>5, <2>1, <2>2, Fewer DEF RankParts
<1> QED
  BY <1>4, <1>5, <1>6, <1>7, <1>8, Lowered DEF NotAbove

LEMMA EndLowers ==
  ASSUME TypeOK, TypeOK', RankInv, EndEpisode
  PROVE  RankInv' /\ Below(Rank', Rank)
<1>1. pc = "event" /\ pc' = "done" /\ event_ts' = event_ts /\ event_queue' \subseteq event_queue
  BY DEF EndEpisode, LoopEnds
<1>2. RankInv'
  BY <1>1, FS_Subset DEF RankInv
<1>3. RankParts /\ RankParts'
  BY <1>2, RankHasParts, RankHasPartsNext
<1>4. Rank'[1] < Rank[1]
  BY <1>1, <1>3 DEF RankParts, Count
<1> QED
  BY <1>2, <1>3, <1>4, Lowered DEF NotAbove

LEMMA RankInit == Init => RankInv
<1> SUFFICES ASSUME Init PROVE RankInv
  OBVIOUS
<1>1. PICK at \in [Tasks -> ArrivalTimes] : event_queue = PeriodicEvents \cup Arrivals(at)
  BY DEF Init
<1> DEFINE f == [t \in Tasks |-> [ts |-> at[t], type |-> TASK_ARRIVAL, seq |-> t + 1, task |-> t,
                                  core |-> NoCore]]
<1>2. f \in Surjection(Tasks, Arrivals(at))
  BY DEF Surjection, Arrivals
<1>3. IsFiniteSet(Arrivals(at))
  BY <1>2, FiniteTerminated, FS_Surjection
<1>4. IsFiniteSet(event_queue)
  <2>1. PICK x, y : PeriodicEvents = {x, y}
    BY DEF PeriodicEvents
  <2>2. event_queue = (Arrivals(at) \cup {x}) \cup {y}
    BY <1>1, <2>1
  <2> QED
    BY <1>3, <2>2, FS_AddElement
<1>5. event_ts <= EpisodeDuration
  BY TimingAssumption DEF Init
<1> QED
  BY <1>4, <1>5 DEF RankInv

(* The order on the ranks is well-founded: every set of ranks has a        *)
(* minimal one. *)
AreSmallest(T, S, i) ==
  /\ T \in SUBSET S /\ T # {}
  /\ \A r \in T, s \in S : r[i] <= s[i]
  /\ \A r \in S, s \in T : r[i] = s[i] => r \in T

LEMMA SmallestComponent ==
  ASSUME NEW S \in SUBSET Ranks, S # {}, NEW i \in 1 .. 7
  PROVE  \E T \in SUBSET Ranks : T # {} /\ AreSmallest(T, S, i)
<1> DEFINE V == {r[i] : r \in S}
<1>1. V \subseteq Nat /\ V # {}
  BY DEF Ranks
<1>2. PICK k \in V : \A y \in V : k <= y
  <2> HIDE DEF V
  <2> QED
    BY <1>1, SmallestNumber
<1> DEFINE T == {r \in S : r[i] = k}
<1>3. T # {} /\ \A r \in T, s \in S : r[i] <= s[i]
  BY <1>2
<1>4. AreSmallest(T, S, i)
  BY <1>3 DEF AreSmallest
<1> QED
  BY <1>3, <1>4

LEMMA RanksWellFounded ==
  ASSUME NEW S \in SUBSET Ranks, S # {}
  PROVE  \E m \in S : \A r \in S : ~Below(r, m)
<1>1. \A R \in SUBSET Ranks, i \in 1 .. 7 :
        R # {} => \E T \in SUBSET Ranks : T # {} /\ AreSmallest(T, R, i)
  BY SmallestComponent
<1>i. /\ 1 \in 1 .. 7 /\ 2 \in 1 .. 7 /\ 3 \in 1 .. 7 /\ 4 \in 1 .. 7
      /\ 5 \in 1 .. 7 /\ 6 \in 1 .. 7 /\ 7 \in 1 .. 7
  OBVIOUS
<1>2. PICK A \in SUBSET Ranks : A # {} /\ AreSmallest(A, S, 1)
  BY <1>1, <1>i
<1>3. PICK B \in SUBSET Ranks : B # {} /\ AreSmallest(B, A, 2)
  BY <1>1, <1>i, <1>2
<1>4. PICK C \in SUBSET Ranks : C # {} /\ AreSmallest(C, B, 3)
  BY <1>1, <1>i, <1>3
<1>5. PICK D \in SUBSET Ranks : D # {} /\ AreSmallest(D, C, 4)
  BY <1>1, <1>i, <1>4
<1>6. PICK E \in SUBSET Ranks : E # {} /\ AreSmallest(E, D, 5)
  BY <1>1, <1>i, <1>5
<1>7. PICK F \in SUBSET Ranks : F # {} /\ AreSmallest(F, E, 6)
  BY <1>1, <1>i, <1>6
<1>8. PICK G \in SUBSET Ranks : G # {} /\ AreSmallest(G, F, 7)
  BY <1>1, <1>i, <1>7
<1>9. PICK m \in G : TRUE
  BY <1>8
<1>10. m \in F /\ m \in E /\ m \in D /\ m \in C /\ m \in B /\ m \in A /\ m \in S
  BY <1>2, <1>3, <1>4, <1>5, <1>6, <1>7, <1>8 DEF AreSmallest
<1>11. ASSUME NEW r \in S, Below(r, m) PROVE FALSE
  <2>1. PICK i \in 1 .. 7 : r[i] < m[i] /\ \A j \in 1 .. i - 1 : r[j] = m[j]
    BY <1>11 DEF Below
  <2>2. \A j \in 1 .. 7 : r[j] \in Nat /\ m[j] \in Nat
    BY <1>8, <1>11 DEF Ranks
  <2>3. ~(m[i] <= r[i])
    BY <2>1, <2>2
  <2>4. i \in {1, 2, 3, 4, 5, 6, 7}
    OBVIOUS
  <2>5. (i > 1 => r[1] = m[1]) /\ (i > 2 => r[2] = m[2]) /\ (i > 3 => r[3] = m[3])
    BY <2>1
  <2>6. (i > 4 => r[4] = m[4]) /\ (i > 5 => r[5] = m[5]) /\ (i > 6 => r[6] = m[6])
    BY <2>1
  <2>7. i > 1 /\ r \in A
    BY <1>2, <1>10, <2>3, <2>4, <2>5 DEF AreSmallest
  <2>8. i > 2 /\ r \in B
    BY <1>3, <1>10, <2>3, <2>4, <2>5, <2>7 DEF AreSmallest
  <2>9. i > 3 /\ r \in C
    BY <1>4, <1>10, <2>3, <2>4, <2>5, <2>8 DEF AreSmallest
  <2>10. i > 4 /\ r \in D
    BY <1>5, <1>10, <2>3, <2>4, <2>6, <2>9 DEF AreSmallest
  <2>11. i > 5 /\ r \in E
    BY <1>6, <1>10, <2>3, <2>4, <2>6, <2>10 DEF AreSmallest
  <2>12. i > 6 /\ r \in F
    BY <1>7, <1>10, <2>3, <2>4, <2>6, <2>11 DEF AreSmallest
  <2> QED
    BY <1>8, <1>9, <2>3, <2>4, <2>12 DEF AreSmallest
<1> QED
  BY <1>10, <1>11

(* No episode goes on for ever: every step lowers the rank, seven natural  *)
(* numbers in lexicographic order, whatever the agent decides and however  *)
(* many events fall on one time (run_episode). *)
THEOREM EpisodeIsFinite == Spec => [](Rank \in Ranks) /\ [][Below(Rank', Rank)]_vars
<1> DEFINE Inv == TypeOK /\ SharingInv /\ TimeInv /\ RankInv
<1>1. Init => Inv
  BY InitType, SharingInit, TimeInit, RankInit
<1>2. Inv /\ Next => RankInv' /\ Below(Rank', Rank)
  <2> SUFFICES ASSUME Inv, Next PROVE RankInv' /\ Below(Rank', Rank)
    OBVIOUS
  <2>1. NothingInThePast /\ TypeOK'
    BY NextType DEF TimeInv
  <2>2. CASE ProcessEvent
    BY <2>1, <2>2, ProcessEventHandles, EventLowers
  <2>3. ASSUME NEW t \in Tasks, NEW a \in Actions, Decide(t, a)
        PROVE  RankInv' /\ Below(Rank', Rank)
    BY <2>1, <2>3, DecisionLowers DEF Decide
  <2>4. CASE EndEpisode
    BY <2>1, <2>4, EndLowers
  <2> QED
    BY <2>2, <2>3, <2>4 DEF Next
<1>3. Inv /\ [Next]_vars => Inv' /\ [Below(Rank', Rank)]_vars
  <2> SUFFICES ASSUME Inv, [Next]_vars PROVE Inv' /\ [Below(Rank', Rank)]_vars
    OBVIOUS
  <2>1. TypeOK' /\ SharingInv' /\ TimeInv'
    BY NextType, SharingStep, TimeStep
  <2>2. CASE UNCHANGED vars
    BY <2>1, <2>2 DEF RankInv, vars, loopVars
  <2> QED
    BY <1>2, <2>1, <2>2
<1>4. Inv => Rank \in Ranks
  BY RankHasParts DEF RankParts
<1> QED
  BY <1>1, <1>3, <1>4, PTL DEF Spec

-----------------------------------------------------------------------------
(* The heap never has to compare two events that are equal: the push order *)
(* tells them apart, so what pop_event returns is determined.              *)
PushOrderInv ==
  /\ \A e \in event_queue : e.seq < event_sequence
  /\ \A e, f \in event_queue : e.seq = f.seq => e = f

LEMMA PushOrderInit == Init => PushOrderInv
<1> SUFFICES ASSUME Init PROVE PushOrderInv
  OBVIOUS
<1>1. PICK at \in [Tasks -> ArrivalTimes] : event_queue = PeriodicEvents \cup Arrivals(at)
  BY DEF Init
<1>2. event_sequence = NTasks + 2 /\ NTasks \in Nat
  BY SizeAssumption DEF Init
<1>3. \A e \in PeriodicEvents : e.seq \in {0, 1}
  BY DEF PeriodicEvents
<1>4. \A e, f \in PeriodicEvents : e.seq = f.seq => e = f
  BY DEF PeriodicEvents
<1>5. ASSUME NEW e \in Arrivals(at)
      PROVE  /\ e.seq \in 2 .. NTasks + 1 /\ e.task \in Tasks /\ e.seq = e.task + 1
             /\ e = [ts |-> at[e.task], type |-> TASK_ARRIVAL, seq |-> e.task + 1,
                     task |-> e.task, core |-> NoCore]
  BY <1>2, <1>5 DEF Arrivals, Tasks
<1>6. \A e, f \in Arrivals(at) : e.seq = f.seq => e = f
  <2>1. \A e, f \in Arrivals(at) : e.seq = f.seq => e.task = f.task
    BY <1>5 DEF Tasks
  <2> QED
    BY <1>5, <2>1
<1>7. \A e \in PeriodicEvents, f \in Arrivals(at) : e.seq # f.seq
  BY <1>2, <1>3, <1>5
<1>8. \A e \in event_queue : e.seq < event_sequence
  BY <1>1, <1>2, <1>3, <1>5
<1> QED
  BY <1>1, <1>4, <1>6, <1>7, <1>8 DEF PushOrderInv

(* The new event, if any, has the next number. *)
Numbers ==
  \/ event_queue' \subseteq event_queue /\ event_sequence' = event_sequence
  \/ \E ts, type, task, core :
       /\ event_queue' \subseteq event_queue \cup {NewEvent(ts, type, task, core)}
       /\ event_sequence' = event_sequence + 1

LEMMA NumbersKeepOrder ==
  ASSUME TypeOK, PushOrderInv, Numbers
  PROVE  PushOrderInv'
<1>1. event_sequence \in Nat /\ \A e \in event_queue : e.seq \in Nat
  BY DEF TypeOK, LoopOK, Event, ArrivalEvent, CompletionEvent, QuantumEvent, PeriodicEvent
<1>2. CASE event_queue' \subseteq event_queue /\ event_sequence' = event_sequence
  BY <1>2 DEF PushOrderInv
<1>3. ASSUME NEW ev, ev.seq = event_sequence, event_queue' \subseteq event_queue \cup {ev},
             event_sequence' = event_sequence + 1
      PROVE  PushOrderInv'
  <2>1. \A e \in event_queue : e.seq # ev.seq /\ e.seq < event_sequence + 1
    BY <1>1, <1>3 DEF PushOrderInv
  <2>2. ev.seq < event_sequence + 1
    BY <1>1, <1>3
  <2> QED
    BY <1>3, <2>1, <2>2 DEF PushOrderInv
<1> QED
  BY <1>2, <1>3 DEF Numbers, NewEvent

LEMMA EventNumbers ==
  ASSUME NEW e \in event_queue, Handled(e)
  PROVE  Numbers
<1>1. ASSUME PushNothing(e) PROVE Numbers
  BY <1>1 DEF PushNothing, Numbers
<1>2. ASSUME NEW ts, NEW type, NEW task, NEW core, Push(e, NewEvent(ts, type, task, core))
      PROVE  Numbers
  BY <1>2 DEF Push, Numbers
<1>3. ASSUME NEW n, PushAgain(e, n) PROVE Numbers
  BY <1>1, <1>2, <1>3 DEF PushAgain
<1>4. ASSUME NEW c, NEW st, NEW asg, NEW switched, StartNextFromQueue(e, c, st, asg, switched)
      PROVE  Numbers
  <2>1. CASE IdleCore(e, c, st, asg, switched)
    BY <1>1, <2>1 DEF IdleCore
  <2>2. ASSUME NEW i, StartQueued(e, c, st, asg, switched, i) PROVE Numbers
    <3>1. PICK u, now, work : Push(e, RunEvent(u, c, now, work))
      BY <2>2 DEF StartQueued
    <3>2. \E ts, type, task, core : RunEvent(u, c, now, work) = NewEvent(ts, type, task, core)
      BY DEF RunEvent
    <3> QED
      BY <1>2, <3>1, <3>2
  <2> QED
    BY <1>4, <2>1, <2>2 DEF StartNextFromQueue
<1>5. CASE HandleTaskArrival(e) \/ DropStaleCompletion(e) \/ DropIdleQuantum(e)
           \/ FreeCoreOfDeadTask(e) \/ FinishInQuantum(e)
  BY <1>1, <1>2, <1>5 DEF HandleTaskArrival, DropStaleCompletion, DropIdleQuantum,
                          FreeCoreOfDeadTask, FinishInQuantum
<1>6. CASE HandleTaskCompletion(e) \/ PreemptAtQuantum(e)
  BY <1>1, <1>4, <1>6 DEF HandleTaskCompletion, PreemptAtQuantum
<1>7. CASE HandleDeadlineCheck(e) \/ SkipMigration(e)
           \/ \E from, to \in Migratable : MigrateTask(e, from, to)
  BY <1>3, <1>7 DEF HandleDeadlineCheck, SkipMigration, MigrateTask
<1> QED
  BY <1>5, <1>6, <1>7 DEF Handled

LEMMA DecisionNumbers ==
  ASSUME NEW t, NEW a, ApplyAction(t, a)
  PROVE  Numbers
<1>1. ASSUME NEW c, PushRunEvent(t, c) PROVE Numbers
  <2>1. \E ts, type, task, core :
          RunEvent(t, c, clock_ns, remaining_work_ns[t]) = NewEvent(ts, type, task, core)
    BY DEF RunEvent
  <2> QED
    BY <1>1, <2>1 DEF PushRunEvent, Numbers
<1>2. ASSUME UNCHANGED <<event_queue, event_sequence>> PROVE Numbers
  BY <1>2 DEF Numbers
<1> QED
  BY <1>1, <1>2 DEF ApplyAction, AssignToGpu, PreemptCurrent, StartOnIdleCore, EnqueueOnBusyCore

LEMMA PushOrderStep ==
  ASSUME TypeOK, PushOrderInv, [Next]_vars
  PROVE  PushOrderInv'
<1>1. Numbers
  <2>1. CASE EndEpisode \/ UNCHANGED vars
    BY <2>1 DEF EndEpisode, LoopEnds, vars, loopVars, Numbers
  <2> QED
    BY <2>1, ProcessEventHandles, EventNumbers, DecisionNumbers DEF Next, Decide
<1> QED
  BY <1>1, NumbersKeepOrder

LEMMA FirstEvent ==
  ASSUME TypeOK, PushOrderInv, event_queue # {}
  PROVE  \E e \in event_queue : \A f \in event_queue : IsNextEvent(f) <=> f = e
<1>1. ASSUME NEW e \in event_queue PROVE e.ts \in Nat /\ e.type \in Nat /\ e.seq \in Nat
  BY DEF TypeOK, LoopOK, Event, ArrivalEvent, CompletionEvent, QuantumEvent, PeriodicEvent,
         TASK_ARRIVAL, TASK_COMPLETION, QUANTUM_EXPIRED, DEADLINE_CHECK, MIGRATION_CHECK
<1>2. PICK ts : /\ \E e \in event_queue : e.ts = ts
                /\ \A f \in event_queue : ts <= f.ts
  <2> DEFINE V == {e.ts : e \in event_queue}
  <2>1. V \subseteq Nat /\ V # {}
    BY <1>1
  <2>2. \E k \in V : \A y \in V : k <= y
    <3> HIDE DEF V
    <3> QED
      BY <2>1, SmallestNumber
  <2> QED
    BY <2>2
<1>3. PICK type : /\ \E e \in event_queue : e.ts = ts /\ e.type = type
                  /\ \A f \in event_queue : f.ts = ts => type <= f.type
  <2> DEFINE V == {e.type : e \in {f \in event_queue : f.ts = ts}}
  <2>1. V \subseteq Nat /\ V # {}
    BY <1>1, <1>2
  <2>2. \E k \in V : \A y \in V : k <= y
    <3> HIDE DEF V
    <3> QED
      BY <2>1, SmallestNumber
  <2> QED
    BY <2>2
<1>4. PICK e \in event_queue : /\ e.ts = ts /\ e.type = type
                               /\ \A f \in event_queue : f.ts = ts /\ f.type = type => e.seq <= f.seq
  <2> DEFINE V == {g.seq : g \in {f \in event_queue : f.ts = ts /\ f.type = type}}
  <2>1. V \subseteq Nat /\ V # {}
    BY <1>1, <1>3
  <2>2. \E k \in V : \A y \in V : k <= y
    <3> HIDE DEF V
    <3> QED
      BY <2>1, SmallestNumber
  <2> QED
    BY <2>2
<1>5. ASSUME NEW f \in event_queue \ {e} PROVE Before(e, f)
  <2>1. e.seq # f.seq
    BY <1>5 DEF PushOrderInv
  <2>2. ts <= f.ts /\ (f.ts = ts => type <= f.type) /\ (f.ts = ts /\ f.type = type => e.seq <= f.seq)
    BY <1>2, <1>3, <1>4
  <2> QED
    BY <1>1, <1>4, <2>1, <2>2 DEF Before
<1>6. IsNextEvent(e)
  BY <1>5 DEF IsNextEvent
<1>7. ASSUME NEW f \in event_queue, IsNextEvent(f) PROVE f = e
  <2>1. CASE f # e
    <3>1. Before(e, f) /\ Before(f, e)
      BY <1>5, <1>7, <2>1 DEF IsNextEvent
    <3> QED
      BY <1>1, <3>1 DEF Before
  <2> QED
    BY <2>1
<1> QED
  BY <1>6, <1>7

(* Exactly one pending event is the next one: the order of the heap never  *)
(* ties, however many events fall on one time (SimEvent's comparison,      *)
(* push_event, pop_event). *)
OneNextEvent ==
  event_queue # {} => \E e \in event_queue : \A f \in event_queue : IsNextEvent(f) <=> f = e
THEOREM NextEventIsUnique == Spec => []OneNextEvent
<1>1. TypeOK /\ PushOrderInv /\ [Next]_vars => PushOrderInv'
  BY PushOrderStep
<1>2. TypeOK /\ PushOrderInv => OneNextEvent
  BY FirstEvent DEF OneNextEvent
<1> QED
  BY <1>1, <1>2, PushOrderInit, TypeCorrect, PTL DEF Spec
=============================================================================
