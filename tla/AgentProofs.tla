---------------------------- MODULE AgentProofs ----------------------------
(***************************************************************************)
(* What the engine promises the agents, for every workload and platform:   *)
(* the work of the tasks is measured right, the observation shows first    *)
(* what is decided about, the reward judges as the metrics do, and what    *)
(* the expert policies may do.                                             *)
(***************************************************************************)
EXTENDS SimEngineWork, Oracle, Reward, SimEngineAccounts

-----------------------------------------------------------------------------
(* The work of the tasks, on cores of the reference speed and without      *)
(* preemption by decisions.  Inductive, with OneEventPerBusyCore: what a   *)
(* current task has run and what it has left make up its duration, and the *)
(* one event of its core comes when the work is done, or a quantum is.     *)
ReferenceCores == \A c \in Cores : Freq[c] = RefFreq

Accounted(t) ==
  /\ state[t] = "NONE" => executed[t] = 0
  /\ state[t] = "READY" => executed[t] + remaining_work_ns[t] = Work[t]
  /\ state[t] = "TERMINATED" => executed[t] = Work[t]

OnTime(e, t, start, left) ==
  IF e.type = TASK_COMPLETION
  THEN e.ts = start + left
  ELSE left > Quantum /\ e.ts = start + Quantum

CoreOnTime(c) ==
  current_task[c] # NoTask =>
    LET t == current_task[c]
    IN  /\ executed[t] + remaining_work_ns[t] = Work[t]
        /\ \A e \in CoreEvents(c) : OnTime(e, t, since[c], remaining_work_ns[t])

WorkTypeOK == since \in [Cores -> Nat] /\ executed \in [Tasks -> Nat]

WorkInv ==
  /\ WorkTypeOK
  /\ \A t \in Tasks : Accounted(t)
  /\ pc # "done" => \A c \in Cores : CoreOnTime(c)

(* The two history variables. *)
Measured ==
  /\ since' = [c \in Cores |-> IF TakesOver(c) THEN clock_ns' ELSE since[c]]
  /\ executed' = [t \in Tasks |->
       executed[t] + TotalOf([c \in Cores |-> Stint(c)],
                             {c \in Cores : Leaves(c) /\ current_task[c] = t})]

LEMMA FiniteCores ==
  ASSUME NEW S \in SUBSET Cores
  PROVE  IsFiniteSet(S)
<1>1. IsFiniteSet(0 .. NCores - 1)
  BY SizeAssumption, FS_Interval
<1> QED
  BY <1>1, FS_Subset DEF Cores

LEMMA StintType ==
  ASSUME TypeOK, TypeOK', WorkTypeOK, NEW c \in Cores
  PROVE  Stint(c) \in Nat
<1>1. event_ts' \in Nat /\ clock_ns \in Nat /\ since[c] \in Nat
  BY DEF TypeOK, LoopOK, WorkTypeOK
<1> QED
  BY <1>1 DEF Stint, TakenAt, Larger

(* A task that leaves no core has run for as long as before. *)
LEMMA RunsOn ==
  ASSUME WorkTypeOK, Measured, NEW t \in Tasks,
         \A c \in Cores : current_task[c] = t => ~Leaves(c)
  PROVE  executed'[t] = executed[t]
<1>1. {c \in Cores : Leaves(c) /\ current_task[c] = t} = {}
  OBVIOUS
<1>2. TotalOf([c \in Cores |-> Stint(c)], {}) = 0
  BY FS_EmptySet, TotalSumsUp
<1> QED
  BY <1>1, <1>2 DEF Measured, WorkTypeOK

(* One that leaves its core has run for the stint as well. *)
LEMMA StintCounts ==
  ASSUME TypeOK, TypeOK', WorkTypeOK, Mutex, Measured, NEW c \in Cores, Leaves(c)
  PROVE  executed'[current_task[c]] = executed[current_task[c]] + Stint(c)
<1> DEFINE t == current_task[c]
           F == [d \in Cores |-> Stint(d)]
<1>1. t \in Tasks
  BY DEF Leaves, TypeOK, CoresOK
<1>2. {d \in Cores : Leaves(d) /\ current_task[d] = t} = {c}
  BY <1>1 DEF Mutex, OneCorePerTask, Leaves
<1>3. IsFiniteSet({c}) /\ \A x \in {c} : F[x] \in Nat
  BY StintType, FiniteCores
<1>4. TotalOf(F, {c}) = F[c] + TotalOf(F, {c} \ {c})
  <2> HIDE DEF F
  <2> QED
    BY <1>3, TotalTakeOut
<1>5. TotalOf(F, {c} \ {c}) = 0
  BY FS_EmptySet, TotalSumsUp
<1>6. TotalOf(F, {c}) = Stint(c)
  BY <1>3, <1>4, <1>5
<1> QED
  BY <1>1, <1>2, <1>6 DEF Measured

LEMMA WorkTypeKept ==
  ASSUME TypeOK, TypeOK', WorkTypeOK, Measured
  PROVE  WorkTypeOK'
<1>1. clock_ns' \in Nat
  BY DEF TypeOK, LoopOK
<1>2. ASSUME NEW t \in Tasks
      PROVE  TotalOf([c \in Cores |-> Stint(c)],
                     {c \in Cores : Leaves(c) /\ current_task[c] = t}) \in Nat
  <2> DEFINE F == [c \in Cores |-> Stint(c)]
             S == {c \in Cores : Leaves(c) /\ current_task[c] = t}
  <2>1. IsFiniteSet(S) /\ \A c \in S : F[c] \in Nat
    BY FiniteCores, StintType
  <2> HIDE DEF F, S
  <2> QED
    BY <2>1, TotalType DEF F, S
<1> QED
  BY <1>1, <1>2 DEF WorkTypeOK, Measured

(* The steps that start nothing and take no task from its core. *)
LEMMA NobodyLeaves ==
  ASSUME WorkTypeOK, TypeOK, Measured, current_task' = current_task,
         context_switches' = context_switches,
         \A c \in Cores : current_task[c] # NoTask =>
           state'[current_task[c]] = state[current_task[c]]
  PROVE  since' = since /\ executed' = executed
<1>1. \A c \in Cores : ~Leaves(c) /\ ~TakesOver(c)
  BY DEF Leaves, TakesOver
<1>2. \A t \in Tasks : executed'[t] = executed[t]
  BY <1>1, RunsOn
<1>3. since' = since
  BY <1>1 DEF Measured, WorkTypeOK
<1>4. executed' = [t \in Tasks |-> executed'[t]] /\ executed = [t \in Tasks |-> executed[t]]
  BY DEF Measured, WorkTypeOK
<1> QED
  BY <1>2, <1>3, <1>4

LEMMA QuietKeeps ==
  ASSUME TypeOK, WorkInv, Measured, pc # "done", current_task' = current_task,
         context_switches' = context_switches,
         \A c \in Cores : CoreEvents(c)' = CoreEvents(c),
         state' = state, remaining_work_ns' = remaining_work_ns
  PROVE  (\A t \in Tasks : Accounted(t)') /\ \A c \in Cores : CoreOnTime(c)'
<1>1. since' = since /\ executed' = executed
  BY NobodyLeaves DEF WorkInv
<1> QED
  BY <1>1 DEF WorkInv, Accounted, CoreOnTime

(* The run event of a task on a core of the reference speed. *)
LEMMA RunEventOnTime ==
  ASSUME ReferenceCores, NEW t, NEW c \in Cores, NEW now \in Nat, NEW work \in Nat
  PROVE  OnTime(RunEvent(t, c, now, work), t, now, work)
<1>1. RefFreq \in Nat \ {0} /\ Freq[c] = RefFreq /\ Quantum \in Nat
  BY PlatformAssumption DEF ReferenceCores
<1>2. \A n \in Nat, d \in Nat \ {0} : (n * d) \div d = n
  OBVIOUS
<1>3. AdjustedDuration(work, c) = work
  BY <1>1, <1>2 DEF AdjustedDuration
<1> QED
  BY <1>1, <1>3 DEF RunEvent, NewEvent, OnTime, TASK_COMPLETION, QUANTUM_EXPIRED

(* Core c may have changed; the others run their tasks on. *)
OthersRunOn(c) ==
  \A d \in Cores \ {c} :
    /\ context_switches'[d] = context_switches[d]
    /\ current_task[d] # NoTask =>
         remaining_work_ns'[current_task[d]] = remaining_work_ns[current_task[d]]

LEMMA OthersOnTime ==
  ASSUME TypeOK, Mutex, WorkTypeOK, Measured, NEW c \in Cores,
         OthersUntouched(c), OthersRunOn(c), \A d \in Cores \ {c} : CoreOnTime(d)
  PROVE  /\ \A d \in Cores \ {c} : CoreOnTime(d)' /\ ~Leaves(d)
         /\ \A d \in Cores \ {c} : current_task[d] # NoTask =>
              executed'[current_task[d]] = executed[current_task[d]]
<1> SUFFICES ASSUME NEW d \in Cores \ {c}
             PROVE  /\ CoreOnTime(d)' /\ ~Leaves(d)
                    /\ current_task[d] # NoTask =>
                         executed'[current_task[d]] = executed[current_task[d]]
  OBVIOUS
<1>1. ~Leaves(d) /\ since'[d] = since[d]
  BY DEF OthersUntouched, OthersRunOn, Leaves, TakesOver, Measured, WorkTypeOK
<1>2. ASSUME current_task[d] # NoTask
      PROVE  executed'[current_task[d]] = executed[current_task[d]]
  <2>1. current_task[d] \in Tasks
    BY <1>2 DEF TypeOK, CoresOK
  <2>2. \A b \in Cores : current_task[b] = current_task[d] => b = d
    BY <1>2 DEF Mutex, OneCorePerTask
  <2> QED
    BY <1>1, <2>1, <2>2, RunsOn
<1>3. CoreOnTime(d)'
  BY <1>1, <1>2 DEF CoreOnTime, OthersUntouched, OthersRunOn
<1> QED
  BY <1>1, <1>2, <1>3

(* Core c's event for its task t, which has run as long as it was meant to:*)
(* t is put back with the rest of its work, or ends without any. *)
LEMMA NextOnTime ==
  ASSUME TypeOK, TypeOK', Mutex, WorkInv, Measured, ReferenceCores, pc = "event",
         NEW c \in Cores, NEW e \in event_queue, e.core = c, CoreEvents(c) = {e},
         event_ts' = e.ts,
         current_task[c] # NoTask, state[current_task[c]] = "RUNNING",
         NEW ran \in Nat, e.ts = since[c] + ran, ran <= remaining_work_ns[current_task[c]],
         NEW to \in {"READY", "TERMINATED"}, NEW asg, NEW switched \in Nat,
         to = "TERMINATED" => ran = remaining_work_ns[current_task[c]],
         to = "READY" =>
           remaining_work_ns' = [remaining_work_ns EXCEPT ![current_task[c]] = @ - ran],
         to = "TERMINATED" => remaining_work_ns' = remaining_work_ns,
         StartNextFromQueue(e, c, [state EXCEPT ![current_task[c]] = to], asg, switched)
  PROVE  (\A u \in Tasks : Accounted(u)') /\ \A d \in Cores : CoreOnTime(d)'
<1> DEFINE t == current_task[c]
           st == [state EXCEPT ![t] = to]
<1>1. /\ state \in [Tasks -> TaskState] /\ current_task \in [Cores -> Tasks \cup {NoTask}] /\ t \in Tasks
      /\ remaining_work_ns \in [Tasks -> Nat] /\ remaining_work_ns' \in [Tasks -> Nat]
      /\ context_switches \in [Cores -> Nat] /\ clock_ns' \in Nat
      /\ since \in [Cores -> Nat] /\ executed \in [Tasks -> Nat] /\ WorkTypeOK
  BY DEF TypeOK, TasksOK, CoresOK, LoopOK, WorkInv, WorkTypeOK
<1>2. \A d \in Cores \ {c} : current_task[d] # NoTask =>
        current_task[d] # t /\ state[current_task[d]] # "READY" /\ current_task[d] \in Tasks
  BY <1>1 DEF Mutex, OneCorePerTask, CurrentIsStarted
<1>3. \A d \in Cores : CoreOnTime(d)
  BY DEF WorkInv
<1>4. OthersRunOn(c)
  <2>1. \A d \in Cores \ {c} : context_switches'[d] = context_switches[d]
    BY <1>1 DEF StartNextFromQueue, IdleCore, StartQueued
  <2>2. \A u \in Tasks \ {t} : remaining_work_ns'[u] = remaining_work_ns[u]
    BY <1>1
  <2> QED
    BY <1>2, <2>1, <2>2 DEF OthersRunOn
<1>5. Stint(c) = ran
  BY <1>1 DEF Stint, TakenAt, Larger
<1>6. ASSUME OthersUntouched(c), Leaves(c)
      PROVE  /\ \A d \in Cores \ {c} : CoreOnTime(d)'
             /\ executed'[t] = executed[t] + ran
             /\ \A u \in Tasks \ {t} : executed'[u] = executed[u]
  <2>1. \A d \in Cores \ {c} : CoreOnTime(d)' /\ ~Leaves(d)
    BY <1>1, <1>3, <1>4, <1>6, OthersOnTime
  <2>2. executed'[t] = executed[t] + ran
    BY <1>1, <1>5, <1>6, StintCounts
  <2>3. ASSUME NEW u \in Tasks \ {t} PROVE executed'[u] = executed[u]
    BY <1>1, <2>1, RunsOn
  <2> QED
    BY <2>1, <2>2, <2>3
<1>7. executed[t] + remaining_work_ns[t] = Work[t]
  BY <1>3 DEF CoreOnTime
<1>8. ASSUME OthersUntouched(c), Leaves(c)
      PROVE  /\ to = "READY" => executed'[t] + remaining_work_ns'[t] = Work[t]
             /\ to = "TERMINATED" => executed'[t] = Work[t]
  <2>1. to = "READY" => remaining_work_ns'[t] = remaining_work_ns[t] - ran
    BY <1>1
  <2> QED
    BY <1>1, <1>6, <1>7, <1>8, <2>1
<1>9. Work \in [Tasks -> Nat]
  BY TaskAssumption
<1>10. CASE IdleCore(e, c, st, asg, switched)
  <2>1. /\ event_queue' = event_queue \ {e} /\ state' = st
        /\ current_task' = [current_task EXCEPT ![c] = NoTask]
    BY <1>10 DEF IdleCore, PushNothing
  <2>2. OthersUntouched(c)
    BY <1>1, <1>2, <2>1, EventsAfterPop DEF OthersUntouched
  <2>3. Leaves(c)
    BY <1>1, <2>1 DEF Leaves
  <2>4. CoreOnTime(c)'
    BY <1>1, <2>1 DEF CoreOnTime
  <2>5. ASSUME NEW u \in Tasks PROVE Accounted(u)'
    <3>1. CASE u = t
      BY <1>1, <1>8, <2>1, <2>2, <2>3, <3>1 DEF Accounted
    <3>2. CASE u # t
      <4>1. /\ state'[u] = state[u] /\ executed'[u] = executed[u]
            /\ remaining_work_ns'[u] = remaining_work_ns[u]
        BY <1>1, <1>6, <2>1, <2>2, <2>3, <3>2
      <4> QED
        BY <4>1 DEF WorkInv, Accounted
    <3> QED
      BY <3>1, <3>2
  <2> QED
    BY <1>6, <2>2, <2>3, <2>4, <2>5
<1>11. ASSUME NEW i \in DOMAIN run_queue[c], StartQueued(e, c, st, asg, switched, i)
       PROVE  (\A u \in Tasks : Accounted(u)') /\ \A d \in Cores : CoreOnTime(d)'
  <2>1. PICK u \in Tasks : u = run_queue[c][i]
    BY LenProperties, ElementOfSeq DEF TypeOK, CoresOK
  <2>2. PICK ev : ev = RunEvent(u, c, clock_ns', remaining_work_ns'[u])
    OBVIOUS
  <2>3. /\ st[u] = "READY" /\ state' = [st EXCEPT ![u] = "RUNNING"]
        /\ current_task' = [current_task EXCEPT ![c] = u]
        /\ event_queue' = (event_queue \ {e}) \cup {ev}
        /\ context_switches' = [context_switches EXCEPT ![c] = @ + switched + 1]
    BY <1>11, <2>1, <2>2 DEF StartQueued, IsFirstReady, Push
  <2>4. ev.core = c /\ ev.type \in {TASK_COMPLETION, QUANTUM_EXPIRED}
    BY <2>2, RunEventDrives
  <2>5. CoreEvents(c)' = {ev} /\ \A d \in Cores \ {c} : CoreEvents(d)' = CoreEvents(d)
    BY <2>3, <2>4, EventsAfterPop
  <2>6. \A d \in Cores \ {c} : current_task[d] # NoTask => current_task[d] # u
    BY <1>1, <1>2, <2>3
  <2>7. OthersUntouched(c)
    BY <1>1, <1>2, <2>3, <2>5, <2>6 DEF OthersUntouched
  <2>8. current_task'[c] = u /\ state'[u] = "RUNNING" /\ u # NoTask
        /\ context_switches'[c] # context_switches[c]
    <3>1. current_task'[c] = u /\ state'[u] = "RUNNING" /\ u # NoTask
      BY <1>1, <2>3, SizeAssumption DEF Tasks, NoTask
    <3>2. context_switches'[c] = context_switches[c] + switched + 1 /\ context_switches[c] \in Nat
      BY <1>1, <2>3
    <3> QED
      BY <3>1, <3>2
  <2>9. Leaves(c) /\ since'[c] = clock_ns'
    BY <1>1, <2>8 DEF Leaves, TakesOver, Measured
  <2>10. executed'[u] + remaining_work_ns'[u] = Work[u]
    <3>1. CASE u = t
      <4>1. to = "READY"
        BY <1>1, <2>3, <3>1
      <4> QED
        BY <1>8, <2>7, <2>9, <3>1, <4>1
    <3>2. CASE u # t
      <4>1. state[u] = "READY" /\ executed'[u] = executed[u]
            /\ remaining_work_ns'[u] = remaining_work_ns[u]
        BY <1>1, <1>6, <2>3, <2>7, <2>9, <3>2
      <4> QED
        BY <4>1 DEF WorkInv, Accounted
    <3> QED
      BY <3>1, <3>2
  <2>11. OnTime(ev, u, clock_ns', remaining_work_ns'[u])
    BY <1>1, <2>2, RunEventOnTime
  <2>12. CoreOnTime(c)'
    BY <2>5, <2>8, <2>9, <2>10, <2>11 DEF CoreOnTime, OnTime
  <2>13. ASSUME NEW w \in Tasks PROVE Accounted(w)'
    <3>1. CASE w = u
      BY <2>8, <3>1 DEF Accounted
    <3>2. CASE w = t /\ w # u
      <4>1. state'[t] = to
        BY <1>1, <2>3, <3>2
      <4> QED
        BY <1>8, <2>7, <2>9, <3>2, <4>1 DEF Accounted
    <3>3. CASE w # t /\ w # u
      <4>1. /\ state'[w] = state[w] /\ executed'[w] = executed[w]
            /\ remaining_work_ns'[w] = remaining_work_ns[w]
        BY <1>1, <1>6, <2>3, <2>7, <2>9, <3>3
      <4> QED
        BY <4>1 DEF WorkInv, Accounted
    <3> QED
      BY <3>1, <3>2, <3>3
  <2> QED
    BY <1>6, <2>7, <2>9, <2>12, <2>13
<1> QED
  BY <1>10, <1>11 DEF StartNextFromQueue

(* What the event of a core finds on time. *)
LEMMA EventOnTime ==
  ASSUME TypeOK, TypeOK', SharingInv, OneEventPerBusyCore, WorkInv, Measured, ReferenceCores,
         pc = "event", NEW e \in event_queue, Handled(e)
  PROVE  (\A u \in Tasks : Accounted(u)') /\ \A d \in Cores : CoreOnTime(d)'
<1>1. /\ state \in [Tasks -> TaskState] /\ remaining_work_ns \in [Tasks -> Nat]
      /\ current_task \in [Cores -> Tasks \cup {NoTask}] /\ Quantum \in Nat
      /\ Mutex /\ \A d \in Cores : CoreIsDriven(d)
  BY PlatformAssumption DEF TypeOK, TasksOK, CoresOK, OneEventPerBusyCore, SharingInv
<1>2. TASK_COMPLETION # QUANTUM_EXPIRED /\ TASK_ARRIVAL \notin {TASK_COMPLETION, QUANTUM_EXPIRED}
  BY DEF TASK_COMPLETION, QUANTUM_EXPIRED, TASK_ARRIVAL
<1>3. ASSUME e.type \in {TASK_COMPLETION, QUANTUM_EXPIRED}
      PROVE  /\ e.core \in Cores /\ CoreEvents(e.core) = {e}
             /\ current_task[e.core] \in Tasks /\ current_task[e.core] # NoTask
             /\ state[current_task[e.core]] = "RUNNING"
             /\ OnTime(e, current_task[e.core], since[e.core], remaining_work_ns[current_task[e.core]])
             /\ e.type = TASK_COMPLETION => e.task = current_task[e.core]
  <2>1. /\ e.core \in Cores /\ CoreEvents(e.core) = {e} /\ current_task[e.core] # NoTask
        /\ state[current_task[e.core]] = "RUNNING"
        /\ e.type = TASK_COMPLETION => e.task = current_task[e.core]
    BY <1>1, <1>3, CoreEventFinds
  <2>2. CoreOnTime(e.core)
    BY <2>1 DEF WorkInv
  <2> QED
    BY <1>1, <2>1, <2>2 DEF CoreOnTime
<1>4. CASE HandleTaskArrival(e)
  <2>1. /\ e.task \in Tasks /\ state[e.task] = "NONE" /\ state' = [state EXCEPT ![e.task] = "READY"]
        /\ current_task' = current_task
    BY <1>4, ArrivalIsMove DEF Arrives, SharingInv
  <2>2. /\ e.type = TASK_ARRIVAL /\ event_queue' = event_queue \ {e}
        /\ remaining_work_ns' = [remaining_work_ns EXCEPT ![e.task] = Work[e.task]]
        /\ context_switches' = context_switches
    BY <1>4 DEF HandleTaskArrival, PopEvent, PushNothing, coreVars
  <2>3. \A d \in Cores : CoreEvents(d)' = CoreEvents(d)
    BY <1>2, <2>2 DEF CoreEvents
  <2>4. \A d \in Cores : current_task[d] # NoTask =>
          /\ current_task[d] # e.task
          /\ state'[current_task[d]] = state[current_task[d]]
          /\ remaining_work_ns'[current_task[d]] = remaining_work_ns[current_task[d]]
    BY <1>1, <2>1, <2>2 DEF Mutex, CurrentIsStarted
  <2>5. since' = since /\ executed' = executed
    BY <2>1, <2>2, <2>4, NobodyLeaves DEF WorkInv
  <2>6. \A d \in Cores : CoreOnTime(d)'
    BY <2>1, <2>3, <2>4, <2>5 DEF WorkInv, CoreOnTime
  <2>7. ASSUME NEW u \in Tasks PROVE Accounted(u)'
    <3>1. CASE u = e.task
      <4>1. executed[u] = 0 /\ Work[u] \in Nat
        BY <2>1, <3>1, TaskAssumption DEF WorkInv, Accounted
      <4>2. state'[u] = "READY" /\ executed'[u] = 0 /\ remaining_work_ns'[u] = Work[u]
        BY <1>1, <2>1, <2>2, <2>5, <3>1, <4>1
      <4> QED
        BY <4>1, <4>2 DEF Accounted
    <3>2. CASE u # e.task
      <4>1. state'[u] = state[u] /\ remaining_work_ns'[u] = remaining_work_ns[u]
        BY <1>1, <2>1, <2>2, <3>2
      <4> QED
        BY <2>5, <4>1 DEF WorkInv, Accounted
    <3> QED
      BY <3>1, <3>2
  <2> QED
    BY <2>6, <2>7
<1>5. CASE HandleTaskCompletion(e)
  <2> DEFINE t == current_task[e.core]
  <2>1. e.type = TASK_COMPLETION /\ event_ts' = e.ts /\ remaining_work_ns' = remaining_work_ns
    BY <1>5 DEF HandleTaskCompletion, PopEvent
  <2>2. /\ e.core \in Cores /\ CoreEvents(e.core) = {e} /\ t \in Tasks /\ t # NoTask
        /\ state[t] = "RUNNING" /\ e.task = t /\ e.ts = since[e.core] + remaining_work_ns[t]
    BY <1>3, <2>1 DEF OnTime
  <2>3. StartNextFromQueue(e, e.core, [state EXCEPT ![t] = "TERMINATED"], assigned_cpu, 0)
    BY <1>5, <2>2 DEF HandleTaskCompletion
  <2>4. remaining_work_ns[t] \in Nat /\ remaining_work_ns[t] <= remaining_work_ns[t]
    BY <1>1, <2>2
  <2> QED
    BY <1>1, <2>1, <2>2, <2>3, <2>4, NextOnTime
<1>6. CASE DropStaleCompletion(e) \/ DropIdleQuantum(e) \/ FreeCoreOfDeadTask(e) \/ FinishInQuantum(e)
  <2>1. e.type \in {TASK_COMPLETION, QUANTUM_EXPIRED}
    BY <1>6 DEF DropStaleCompletion, DropIdleQuantum, FreeCoreOfDeadTask, FinishInQuantum, PopEvent
  <2>2. ~DropStaleCompletion(e)
    BY <1>3, <2>1 DEF DropStaleCompletion, PopEvent, MayComplete
  <2>3. ~DropIdleQuantum(e) /\ ~FreeCoreOfDeadTask(e)
    BY <1>3, <2>1 DEF DropIdleQuantum, FreeCoreOfDeadTask
  <2>4. ~FinishInQuantum(e)
    BY <1>1, <1>2, <1>3, <2>1 DEF FinishInQuantum, PopEvent, OnTime
  <2> QED
    BY <1>6, <2>2, <2>3, <2>4
<1>7. CASE PreemptAtQuantum(e)
  <2> DEFINE t == current_task[e.core]
  <2>1. /\ e.type = QUANTUM_EXPIRED /\ event_ts' = e.ts /\ Quantum <= remaining_work_ns[t]
        /\ remaining_work_ns' = [remaining_work_ns EXCEPT ![t] = @ - Quantum]
        /\ StartNextFromQueue(e, e.core, [state EXCEPT ![t] = "READY"],
                              [assigned_cpu EXCEPT ![t] = NoCore], 1)
    <3>1. e.type = QUANTUM_EXPIRED /\ t # NoTask
      BY <1>7 DEF PreemptAtQuantum, PopEvent
    <3>2. remaining_work_ns[t] \in Nat
      BY <1>1, <1>3, <3>1
    <3> QED
      BY <1>1, <1>7, <3>1, <3>2 DEF PreemptAtQuantum, PopEvent
  <2>2. /\ e.core \in Cores /\ CoreEvents(e.core) = {e} /\ t \in Tasks /\ t # NoTask
        /\ state[t] = "RUNNING" /\ e.ts = since[e.core] + Quantum
    BY <1>2, <1>3, <2>1 DEF OnTime
  <2> QED
    BY <1>1, <2>1, <2>2, NextOnTime
<1>8. CASE HandleDeadlineCheck(e) \/ SkipMigration(e) \/ \E from, to \in Migratable : MigrateTask(e, from, to)
  <2>1. /\ current_task' = current_task /\ state' = state /\ context_switches' = context_switches
        /\ remaining_work_ns' = remaining_work_ns
    BY <1>8 DEF HandleDeadlineCheck, SkipMigration, MigrateTask, coreVars, taskVars
  <2>2. \A d \in Cores : CoreEvents(d)' = CoreEvents(d)
    BY <1>8, PeriodicConcernsNone DEF HandleDeadlineCheck, SkipMigration, MigrateTask, PopEvent
  <2> QED
    BY <2>1, <2>2, QuietKeeps
<1> QED
  BY <1>4, <1>5, <1>6, <1>7, <1>8 DEF Handled

LEMMA DecisionOnTime ==
  ASSUME TypeOK, TypeOK', SharingInv, OneEventPerBusyCore, WorkInv, Measured, ReferenceCores,
         NoPreemptionNoGpu, pc = "decide",
         NEW t \in Tasks, NEW a \in Actions, IsPicked(t), ApplyAction(t, a)
  PROVE  (\A u \in Tasks : Accounted(u)') /\ \A d \in Cores : CoreOnTime(d)'
<1>1. /\ state \in [Tasks -> TaskState] /\ state[t] = "READY" /\ remaining_work_ns \in [Tasks -> Nat]
      /\ current_task \in [Cores -> Tasks \cup {NoTask}] /\ t # NoTask /\ clock_ns \in Nat
      /\ Mutex /\ \A d \in Cores : CoreIsDriven(d)
  <2>1. t # NoTask
    BY SizeAssumption DEF NoTask, Tasks
  <2>2. Mutex /\ \A d \in Cores : CoreIsDriven(d)
    BY DEF SharingInv, OneEventPerBusyCore
  <2> QED
    BY <2>1, <2>2 DEF TypeOK, TasksOK, CoresOK, LoopOK, IsPicked
<1>2. ~AssignToGpu(t, a) /\ \A c \in Cores : ~PreemptCurrent(t, a, c)
  BY DEF NoPreemptionNoGpu, AssignToGpu, GpuTarget, PreemptCurrent, Preempts
<1>3. ASSUME NEW c \in Cores, StartOnIdleCore(t, a, c)
      PROVE  (\A u \in Tasks : Accounted(u)') /\ \A d \in Cores : CoreOnTime(d)'
  <2>1. PICK ev : ev = RunEvent(t, c, clock_ns, remaining_work_ns[t])
    OBVIOUS
  <2>2. /\ current_task[c] = NoTask /\ current_task' = [current_task EXCEPT ![c] = t]
        /\ state' = [state EXCEPT ![t] = "RUNNING"] /\ event_queue' = event_queue \cup {ev}
        /\ remaining_work_ns' = remaining_work_ns /\ context_switches' = context_switches
        /\ clock_ns' = clock_ns
    BY <1>3, <2>1 DEF StartOnIdleCore, PushRunEvent, Decision
  <2>3. ev.core = c /\ ev.type \in {TASK_COMPLETION, QUANTUM_EXPIRED}
    BY <2>1, RunEventDrives
  <2>4. CoreEvents(c) = {}
    BY <1>1, <2>2 DEF CoreIsDriven
  <2>5. CoreEvents(c)' = {ev} /\ \A d \in Cores \ {c} : CoreEvents(d)' = CoreEvents(d)
    BY <2>2, <2>3, <2>4 DEF CoreEvents
  <2>6. \A d \in Cores : current_task[d] # NoTask => current_task[d] # t
    BY <1>1 DEF Mutex, CurrentIsStarted
  <2>7. OthersUntouched(c) /\ OthersRunOn(c)
    BY <1>1, <2>2, <2>5, <2>6 DEF OthersUntouched, OthersRunOn
  <2>8. /\ \A d \in Cores \ {c} : CoreOnTime(d)' /\ ~Leaves(d)
        /\ ~Leaves(c)
    BY <1>1, <2>2, <2>7, OthersOnTime DEF WorkInv, Leaves
  <2>9. \A u \in Tasks : executed'[u] = executed[u]
    BY <2>8, RunsOn DEF WorkInv
  <2>10. current_task'[c] = t /\ since'[c] = clock_ns
    BY <1>1, <2>2 DEF Measured, TakesOver
  <2>11. OnTime(ev, t, clock_ns, remaining_work_ns[t])
    BY <1>1, <2>1, RunEventOnTime
  <2>12. CoreOnTime(c)'
    BY <1>1, <2>2, <2>5, <2>9, <2>10, <2>11 DEF CoreOnTime, OnTime, WorkInv, Accounted
  <2>13. \A u \in Tasks : Accounted(u)'
    BY <1>1, <2>2, <2>9 DEF WorkInv, Accounted
  <2> QED
    BY <2>8, <2>12, <2>13
<1>4. ASSUME NEW c \in Cores, EnqueueOnBusyCore(t, a, c)
      PROVE  (\A u \in Tasks : Accounted(u)') /\ \A d \in Cores : CoreOnTime(d)'
  <2>1. /\ event_queue' = event_queue /\ current_task' = current_task /\ state' = state
        /\ context_switches' = context_switches /\ remaining_work_ns' = remaining_work_ns
    BY <1>4 DEF EnqueueOnBusyCore, Decision
  <2> QED
    BY <2>1, QuietKeeps DEF CoreEvents
<1> QED
  BY <1>2, <1>3, <1>4 DEF ApplyAction

LEMMA WorkInvStep ==
  ASSUME TypeOK, TypeOK', SharingInv, OneEventPerBusyCore, WorkInv, ReferenceCores,
         NoPreemptionNoGpu, [WorkNext]_workVars
  PROVE  WorkInv'
<1>1. CASE UNCHANGED workVars
  <2>1. UNCHANGED <<pc, state, remaining_work_ns, current_task, event_queue, since, executed>>
    BY <1>1 DEF workVars, vars, loopVars, taskVars, coreVars
  <2> QED
    BY <2>1 DEF WorkInv, WorkTypeOK, Accounted, CoreOnTime, CoreEvents, OnTime
<1>2. CASE WorkNext
  <2>1. Next /\ Measured
    BY <1>2 DEF WorkNext, Measured
  <2>2. WorkTypeOK'
    BY <2>1, WorkTypeKept DEF WorkInv
  <2>3. CASE EndEpisode
    <3>1. /\ current_task' = current_task /\ state' = state /\ context_switches' = context_switches
          /\ remaining_work_ns' = remaining_work_ns /\ pc' = "done"
      BY <2>3 DEF EndEpisode, taskVars, coreVars
    <3>2. since' = since /\ executed' = executed
      BY <2>1, <3>1, NobodyLeaves DEF WorkInv
    <3> QED
      BY <2>2, <3>1, <3>2 DEF WorkInv, Accounted
  <2>4. ASSUME NEW t \in Tasks, NEW a \in Actions, Decide(t, a) PROVE WorkInv'
    <3>1. pc = "decide"
      BY <2>4 DEF Decide, ApplyAction, AssignToGpu, PreemptCurrent, StartOnIdleCore,
                  EnqueueOnBusyCore, Decision
    <3> QED
      BY <2>1, <2>2, <2>4, <3>1, DecisionOnTime DEF Decide, WorkInv
  <2>5. ASSUME NEW e \in event_queue, Handled(e) PROVE WorkInv'
    <3>1. pc = "event"
      BY <2>5 DEF Handled, HandleTaskArrival, HandleTaskCompletion, DropStaleCompletion,
           DropIdleQuantum, FreeCoreOfDeadTask, FinishInQuantum, PreemptAtQuantum,
           HandleDeadlineCheck, MigrateTask, SkipMigration, PopEvent
    <3> QED
      BY <2>1, <2>2, <2>5, <3>1, EventOnTime DEF WorkInv
  <2> QED
    BY <2>1, <2>3, <2>4, <2>5, ProcessEventHandles DEF Next
<1> QED
  BY <1>1, <1>2

LEMMA WorkInvInit == WorkInit => WorkInv
BY DEF WorkInit, Init, WorkInv, WorkTypeOK, Accounted, CoreOnTime

LEMMA WorkSpecRuns == WorkSpec => Spec
<1>1. WorkInit => Init
  BY DEF WorkInit
<1>2. [WorkNext]_workVars => [Next]_vars
  BY DEF WorkNext, workVars
<1> QED
  BY <1>1, <1>2, PTL DEF WorkSpec, Spec

LEMMA WorkInvariant ==
  ASSUME NoPreemptionNoGpu, ReferenceCores
  PROVE  WorkSpec => []WorkInv
<1>1. TypeOK /\ TypeOK' /\ SharingInv /\ OneEventPerBusyCore /\ WorkInv /\ [WorkNext]_workVars => WorkInv'
  BY WorkInvStep
<1>2. Spec => []OneEventPerBusyCore
  BY CoresAreDriven
<1> QED
  BY <1>1, <1>2, WorkInvInit, WorkSpecRuns, TypeCorrect, SharingInvariant, PTL DEF WorkSpec

(* On cores of the reference speed, and without preemption by decisions, a *)
(* finished task has run exactly for its inference_duration_ns, over all   *)
(* its quanta and cores (_schedule_completion_for_task). *)
THEOREM WorkIsDone ==
  ASSUME NoPreemptionNoGpu, ReferenceCores
  PROVE  WorkSpec => []WorkDone
<1>1. WorkInv => WorkDone
  BY DEF WorkInv, Accounted, WorkDone
<1> QED
  BY <1>1, WorkInvariant, PTL

(* There, a task that waits has run for what its remaining work is short   *)
(* of its duration (_handle_quantum_expired). *)
THEOREM ProgressIsKept ==
  ASSUME NoPreemptionNoGpu, ReferenceCores
  PROVE  WorkSpec => []ProgressKept
<1>1. WorkInv => ProgressKept
  BY DEF WorkInv, Accounted, ProgressKept
<1> QED
  BY <1>1, WorkInvariant, PTL

-----------------------------------------------------------------------------
(* The reward and the metrics.  A fraction of a reward has to be fine      *)
(* enough to show one tick of lateness of the longest deadline: the code   *)
(* computes in floating point. *)
ResolvesATick == \A t \in Tasks : RelDeadline[t] <= 2 * Unit

LEMMA PenaltyShows ==
  ASSUME NEW u \in Nat \ {0}, NEW late \in Nat \ {0}, NEW rel \in Nat \ {0}, rel <= 2 * u
  PROVE  -((2 * u * late) \div rel) < 0
<1>1. ASSUME NEW a \in Nat, NEW b \in Nat \ {0} PROVE a <= a * b
  OBVIOUS
<1>2. 2 * u <= (2 * u) * late /\ (2 * u) * late \in Nat
  BY <1>1
<1>3. rel <= 2 * u * late /\ 2 * u * late \in Nat
  BY <1>2
<1>4. ASSUME NEW n \in Nat, rel <= n PROVE n \div rel >= 1 /\ n \div rel \in Nat
  BY <1>4
<1>5. (2 * u * late) \div rel >= 1 /\ (2 * u * late) \div rel \in Nat
  BY <1>3, <1>4
<1> QED
  BY <1>5

LEMMA RewardOfDeadline ==
  ASSUME TypeOK, ResolvesATick, NEW t \in Tasks
  PROVE  /\ DeadlineReward(t) = Unit <=> Deadline(t) # 0 /\ finish_time[t] <= Deadline(t)
         /\ DeadlineReward(t) < 0 <=> Deadline(t) # 0 /\ finish_time[t] > Deadline(t)
<1>1. /\ Deadline(t) \in Nat /\ finish_time[t] \in Nat /\ Unit \in Nat \ {0}
      /\ RelDeadline[t] \in Nat /\ RelDeadline[t] <= 2 * Unit
  BY DeadlineType, StatsAssumption, TaskAssumption DEF ResolvesATick
<1>2. Deadline(t) # 0 => RelDeadline[t] # 0
  BY DEF Deadline
<1>3. CASE Deadline(t) = 0
  <2>1. DeadlineReward(t) = Unit \div 10
    BY <1>3 DEF DeadlineReward
  <2>2. Unit \div 10 < Unit /\ Unit \div 10 >= 0
    BY <1>1
  <2> QED
    BY <1>1, <1>3, <2>1, <2>2
<1>4. CASE Deadline(t) # 0 /\ finish_time[t] <= Deadline(t)
  <2>1. DeadlineReward(t) = Unit
    BY <1>1, <1>4 DEF DeadlineReward
  <2> QED
    BY <1>1, <1>4, <2>1
<1>5. CASE Deadline(t) # 0 /\ finish_time[t] > Deadline(t)
  <2> DEFINE late == finish_time[t] - Deadline(t)
             penalty == -((2 * Unit * late) \div RelDeadline[t])
  <2>1. late \in Nat \ {0} /\ ~(late <= 0)
    BY <1>1, <1>5
  <2>2. DeadlineReward(t) = Larger(-2 * Unit, penalty)
    BY <1>5, <2>1 DEF DeadlineReward
  <2>3. penalty < 0
    BY <1>1, <1>2, <1>5, <2>1, PenaltyShows
  <2>4. Larger(-2 * Unit, penalty) \in {-2 * Unit, penalty}
    BY DEF Larger
  <2>5. -2 * Unit < 0
    BY <1>1
  <2>6. DeadlineReward(t) < 0
    BY <2>2, <2>3, <2>4, <2>5
  <2>7. ~(finish_time[t] <= Deadline(t))
    BY <1>1, <1>5
  <2>8. DeadlineReward(t) # Unit
    <3>1. DeadlineReward(t) = -2 * Unit \/ DeadlineReward(t) = penalty
      BY <2>2, <2>4
    <3> HIDE DEF penalty
    <3> QED
      BY <1>1, <2>3, <3>1
  <2> QED
    BY <1>5, <2>6, <2>7, <2>8
<1>6. finish_time[t] <= Deadline(t) \/ finish_time[t] > Deadline(t)
  BY <1>1
<1> QED
  BY <1>3, <1>4, <1>5, <1>6

(* A completion earns the whole reward exactly when the metrics count it   *)
(* as met and a penalty exactly when they count it as missed (reward.py    *)
(* _compute_deadline_reward, engine.py _handle_task_completion). *)
THEOREM RewardsAgree ==
  ASSUME ResolvesATick
  PROVE  RewardSpec => []RewardAgreesWithMetrics
<1>1. TypeOK /\ CompletedOnce => RewardAgreesWithMetrics
  <2> SUFFICES ASSUME TypeOK, CompletedOnce PROVE RewardAgreesWithMetrics
    OBVIOUS
  <2>1. Terminated \subseteq Tasks
    BY DEF Terminated
  <2>2. {t \in Terminated : DeadlineReward(t) = Unit}
          = {t \in Terminated : Deadline(t) # 0 /\ finish_time[t] <= Deadline(t)}
    BY <2>1, RewardOfDeadline
  <2>3. {t \in Terminated : DeadlineReward(t) < 0}
          = {t \in Terminated : Deadline(t) # 0 /\ finish_time[t] > Deadline(t)}
    BY <2>1, RewardOfDeadline
  <2> QED
    BY <2>2, <2>3 DEF CompletedOnce, RewardAgreesWithMetrics
<1>2. RewardInit => Init
  BY DEF RewardInit
<1>3. [RewardNext]_rewardStateVars => [Next]_vars
  BY DEF RewardNext, rewardStateVars
<1>4. RewardSpec => Spec
  BY <1>2, <1>3, PTL DEF RewardSpec, Spec
<1> QED
  BY <1>1, <1>4, TypeCorrect, CountedOnce, PTL

-----------------------------------------------------------------------------
(* The task the agent is shown first.                                      *)

LEMMA ShownInOrder ==
  ASSUME TypeOK
  PROVE  /\ \A a, b \in Tasks : a # b => ShownBefore(a, b) \/ ShownBefore(b, a)
         /\ \A a, b \in Tasks : ~(ShownBefore(a, b) /\ ShownBefore(b, a))
         /\ \A a, b, d \in Tasks : ShownBefore(a, b) /\ ShownBefore(b, d) => ShownBefore(a, d)
<1>1. \A t \in Tasks : t \in Int /\ effective_priority[t] \in Int /\ arrival_time_ns[t] \in Int
  BY DEF TypeOK, TasksOK, Tasks, Priorities, PRIORITY_CRITICAL
<1> QED
  BY <1>1 DEF ShownBefore

(* Every set of waiting tasks that is not empty has a first one. *)
LEMMA SomeIsFirst ==
  ASSUME TypeOK, NEW S \in SUBSET Tasks, S # {}
  PROVE  \E t \in S : \A u \in S \ {t} : ShownBefore(t, u)
<1> DEFINE T == {A \in SUBSET S : A # {} /\ ~ \E t \in A : \A u \in A \ {t} : ShownBefore(t, u)}
<1>1. SUFFICES ASSUME T # {} PROVE FALSE
  OBVIOUS
<1>2. PICK A \in T : \A y \in T : ~ (y \subseteq A /\ y # A)
  <2>1. T \subseteq SUBSET S /\ IsFiniteSet(S)
    BY FiniteTerminated
  <2> HIDE DEF T
  <2> QED
    BY <1>1, <2>1, SmallestSet
<1>3. A \subseteq Tasks /\ A # {} /\ ~ \E t \in A : \A u \in A \ {t} : ShownBefore(t, u)
  OBVIOUS
<1>4. PICK x \in A : TRUE
  BY <1>3
<1>5. A \ {x} # {}
  BY <1>3
<1>6. PICK t \in A \ {x} : \A u \in (A \ {x}) \ {t} : ShownBefore(t, u)
  <2>1. A \ {x} \notin T
    BY <1>2, <1>4
  <2> QED
    BY <1>5, <2>1
<1> QED
  BY <1>3, <1>4, <1>6, ShownInOrder

LEMMA ShownIsPicked ==
  ASSUME TypeOK, ReadyTasks # {}
  PROVE  Len(Shown) > 0 /\ IsPicked(Shown[1])
<1> DEFINE before(t) == {u \in ReadyTasks : ShownBefore(u, t)}
<1>1. ReadyTasks \in SUBSET Tasks /\ IsFiniteSet(ReadyTasks)
  BY FiniteTerminated DEF ReadyTasks
<1>2. \A a, b \in Tasks : ~(ShownBefore(a, b) /\ ShownBefore(b, a))
  BY ShownInOrder
<1>3. PICK t \in ReadyTasks : \A u \in ReadyTasks \ {t} : ShownBefore(t, u)
  BY <1>1, SomeIsFirst
<1>4. before(t) = {}
  <2>1. ASSUME NEW u \in before(t) PROVE FALSE
    BY <1>1, <1>2, <1>3
  <2> QED
    BY <2>1
<1>5. Cardinality(before(t)) = 1 - 1
  BY <1>4, FS_EmptySet
<1>6. ShownAt(1) \in ReadyTasks /\ Cardinality(before(ShownAt(1))) = 0
  <2> DEFINE P(u) == Cardinality(before(u)) = 1 - 1
  <2>1. ShownAt(1) = CHOOSE u \in ReadyTasks : P(u)
    BY DEF ShownAt
  <2>2. P(t)
    BY <1>5
  <2>3. ShownAt(1) \in ReadyTasks /\ P(ShownAt(1))
    <3> HIDE DEF P
    <3> QED
      BY <2>1, <2>2
  <2> QED
    BY <2>3
<1>7. before(ShownAt(1)) = {}
  BY <1>1, <1>6, FS_Subset, FS_EmptySet
<1>8. IsPicked(ShownAt(1))
  <2>1. ShownAt(1) \in Tasks /\ state[ShownAt(1)] = "READY"
    BY <1>6 DEF ReadyTasks
  <2>2. ASSUME NEW u \in Tasks \ {ShownAt(1)}, state[u] = "READY"
        PROVE  Better(ShownAt(1), u)
    <3>1. ~ShownBefore(u, ShownAt(1))
      BY <1>7, <2>2 DEF ReadyTasks
    <3>2. \A a, b \in Tasks : a # b => Better(a, b) \/ ShownBefore(b, a)
      BY ShownInOrder DEF Better, ShownBefore
    <3> QED
      BY <2>1, <2>2, <3>1, <3>2
  <2> QED
    BY <2>1, <2>2 DEF IsPicked
<1>9. Cardinality(ReadyTasks) \in Nat \ {0} /\ Limit.pending \in Nat \ {0}
  BY <1>1, FS_CardinalityType, FS_EmptySet, ObservationAssumption
<1>10. Smaller(Cardinality(ReadyTasks), Limit.pending) \in Nat \ {0}
  BY <1>9 DEF Smaller
<1>11. Len(Shown) = Smaller(Cardinality(ReadyTasks), Limit.pending) /\ Shown[1] = ShownAt(1)
  BY <1>10 DEF Shown
<1> QED
  BY <1>8, <1>10, <1>11

(* A decision is asked for only when a task waits for one. *)
SomeoneWaits == pc = "decide" => ReadyTasks # {}

LEMMA SomeoneWaitsStep ==
  ASSUME SomeoneWaits, [Next]_vars
  PROVE  SomeoneWaits'
<1>1. ASSUME NEW e \in event_queue, Handled(e) PROVE SomeoneWaits'
  <2>1. NeedsDecision \/ NoDecision
    BY <1>1 DEF Handled, HandleTaskArrival, HandleTaskCompletion, DropStaleCompletion,
         DropIdleQuantum, FreeCoreOfDeadTask, FinishInQuantum, PreemptAtQuantum,
         HandleDeadlineCheck, MigrateTask, SkipMigration
  <2> QED
    BY <2>1 DEF NeedsDecision, NoDecision, SomeoneWaits, ReadyTasks
<1>2. ASSUME NEW t \in Tasks, NEW a \in Actions, Decide(t, a) PROVE SomeoneWaits'
  BY <1>2 DEF Decide, ApplyAction, AssignToGpu, PreemptCurrent, StartOnIdleCore,
              EnqueueOnBusyCore, Decision, SomeoneWaits
<1>3. CASE EndEpisode
  BY <1>3 DEF EndEpisode, SomeoneWaits
<1>4. CASE UNCHANGED vars
  <2>1. pc' = pc /\ state' = state
    BY <1>4 DEF vars, loopVars, taskVars
  <2> QED
    BY <2>1 DEF SomeoneWaits, ReadyTasks
<1> QED
  BY <1>1, <1>2, <1>3, <1>4, ProcessEventHandles DEF Next

(* At every decision the task it is about is in the first slot of the      *)
(* observation (observation.py _fill_task_features, engine.py              *)
(* _pick_highest_priority_ready_task). *)
THEOREM FirstSlotIsDecided == Spec => []PickedIsShownFirst
<1>1. Init => SomeoneWaits
  BY DEF Init, SomeoneWaits
<1>2. SomeoneWaits /\ [Next]_vars => SomeoneWaits'
  BY SomeoneWaitsStep
<1>3. TypeOK /\ SomeoneWaits => PickedIsShownFirst
  BY ShownIsPicked DEF SomeoneWaits, PickedIsShownFirst
<1> QED
  BY <1>1, <1>2, <1>3, TypeCorrect, PTL DEF Spec

-----------------------------------------------------------------------------
(* The experts.                                                            *)

(* Earliest deadline first: only preemption takes a core from its task.    *)
LEMMA DecisionDisplaces ==
  ASSUME TypeOK, NEW t \in Tasks, NEW a, ApplyAction(t, a),
         NEW c \in Cores, Displaced(c)
  PROVE  PreemptCurrent(t, a, c) /\ current_task'[c] = t
<1>1. current_task \in [Cores -> Tasks \cup {NoTask}]
  BY DEF TypeOK, CoresOK
<1>2. ~AssignToGpu(t, a)
  BY DEF AssignToGpu, Displaced
<1>3. ASSUME NEW d \in Cores, StartOnIdleCore(t, a, d) PROVE FALSE
  BY <1>1, <1>3 DEF StartOnIdleCore, Displaced
<1>4. ASSUME NEW d \in Cores, EnqueueOnBusyCore(t, a, d) PROVE FALSE
  BY <1>4 DEF EnqueueOnBusyCore, Displaced
<1>5. ASSUME NEW d \in Cores, PreemptCurrent(t, a, d) PROVE d = c /\ current_task'[c] = t
  BY <1>1, <1>5 DEF PreemptCurrent, Displaced
<1> QED
  BY <1>2, <1>3, <1>4, <1>5 DEF ApplyAction

(* A decision of a policy is an action of the platform. *)
LEMMA DecisionsAreActions ==
  ASSUME policy \in Policies, NEW t, NEW a \in Decisions(t)
  PROVE  a \in SchedulingAction(NCores)
<1>1. ASSUME NEW c \in Cores, NEW adj \in 0 .. 2, NEW preempt \in BOOLEAN
      PROVE  Choose(c, adj, preempt) \in SchedulingAction(NCores)
  BY <1>1, SizeAssumption DEF Choose, SchedulingAction, Cores
<1>2. CASE policy = "edf"
  <2>1. PICK c \in Cores : a = Choose(c, 1, ShouldPreempt(t, c))
    BY <1>2 DEF Decisions, Edf
  <2>2. ShouldPreempt(t, c) \in BOOLEAN
    BY DEF ShouldPreempt
  <2> QED
    BY <1>1, <2>1, <2>2
<1>3. CASE policy = "hybrid"
  <2>1. PICK c \in Cores : a = Choose(c, IF RaisesForDeadline(t) THEN 2 ELSE 1, FALSE)
    BY <1>3 DEF Decisions, Hybrid
  <2>2. (IF RaisesForDeadline(t) THEN 2 ELSE 1) \in 0 .. 2
    OBVIOUS
  <2> QED
    BY <1>1, <2>1, <2>2
<1>4. CASE policy = "weighted"
  <2>1. PICK c \in Cores, adj \in {1, 2}, preempt \in BOOLEAN : a = Choose(c, adj, preempt)
    BY <1>4 DEF Decisions, Weighted
  <2> QED
    BY <1>1, <2>1
<1> QED
  BY <1>2, <1>3, <1>4, PolicyAssumption

LEMMA ExpertDecides ==
  ASSUME TypeOK, ExpertNext, pc = "decide"
  PROVE  \E t \in Tasks : \E a \in Decisions(t) : Decide(t, a)
<1>1. ~ProcessEvent /\ ~EndEpisode
  BY DEF ProcessEvent, HandleTaskArrival, HandleTaskCompletion, DropStaleCompletion,
         DropIdleQuantum, FreeCoreOfDeadTask, FinishInQuantum, PreemptAtQuantum,
         HandleDeadlineCheck, MigrateTask, SkipMigration, PopEvent, EndEpisode
<1> QED
  BY <1>1 DEF ExpertNext

LEMMA EdfDisplaces ==
  ASSUME TypeOK, ExpertNext, policy = "edf", pc = "decide", NEW c \in Cores, Displaced(c)
  PROVE  /\ Deadline(current_task'[c]) # 0
         /\ Deadline(current_task[c]) # 0
              => Deadline(current_task'[c]) < Deadline(current_task[c])
<1>1. PICK t \in Tasks : \E b \in Decisions(t) : Decide(t, b)
  BY ExpertDecides
<1>2. PICK a \in Edf(t) : Decide(t, a)
  BY <1>1 DEF Decisions
<1>3. PICK d \in Cores : IsLeastLoaded(d) /\ a = Choose(d, 1, ShouldPreempt(t, d))
  BY <1>2 DEF Edf
<1>4. a.core = d /\ a.preempt = ShouldPreempt(t, d) /\ ~(a.core >= NCores)
  <2>1. \A n \in 0 .. NCores - 1 : ~(n >= NCores)
    BY SizeAssumption
  <2> QED
    BY <1>3, <2>1 DEF Choose, Cores
<1>5. PreemptCurrent(t, a, c) /\ current_task'[c] = t
  BY <1>2, DecisionDisplaces DEF Decide
<1>6. d = c
  <2>1. CASE a.core \in Isolated
    <3>1. Migratable = {}
      BY <1>3, <1>4, <2>1 DEF IsLeastLoaded, Migratable
    <3>2. IsLeastLoaded(c)
      BY <1>5, <2>1 DEF PreemptCurrent, Targets
    <3> QED
      BY <1>3, <3>1, <3>2 DEF IsLeastLoaded
  <2>2. CASE a.core \notin Isolated
    BY <1>4, <1>5, <2>2 DEF PreemptCurrent, Targets
  <2> QED
    BY <2>1, <2>2
<1>7. a.preempt
  BY <1>5 DEF PreemptCurrent, Preempts
<1>8. ShouldPreempt(t, c)
  BY <1>4, <1>6, <1>7
<1> QED
  BY <1>5, <1>8 DEF ShouldPreempt

-----------------------------------------------------------------------------
(* The episodes of the oracle.  OracleInv is inductive: the types of the   *)
(* engine hold in all of its phases; as long as decisions are left no task *)
(* waits on an idle platform, and afterwards nothing is left in the heap   *)
(* that the drain would process. *)
PhaseOK ==
  /\ phase \in {"baseline", "replay", "drain", "returned"}
  /\ phase = "baseline" => policy \in Policies
  /\ phase # "baseline" => policy = "oracle"
  /\ seeded \in [Tasks -> ArrivalTimes]
  /\ best_actions \in Seq(Actions)

NothingWaits ==
  gpu_queue = <<>> /\ (\A c \in Cores : current_task[c] = NoTask)
    => \A t \in Tasks : state[t] # "READY"

Drained ==
  /\ \A e \in event_queue : ~(e.ts <= EpisodeDuration)
  /\ NothingWaits
  /\ pc # "decide"

OracleInv ==
  /\ TypeOK
  /\ PhaseOK
  /\ phase \in {"baseline", "replay"} => WorkConserving
  /\ phase \in {"drain", "returned"} /\ MayDecide => Drained

(* What is left when the loop ends lies beyond the episode. *)
LEMMA EndLeavesLate ==
  ASSUME TypeOK, LoopEnds
  PROVE  \A e \in event_queue' : ~(e.ts <= EpisodeDuration)
<1>1. CASE event_queue = {} /\ UNCHANGED event_queue
  BY <1>1
<1>2. ASSUME NEW e \in event_queue, IsNextEvent(e), e.ts > EpisodeDuration,
             event_queue' = event_queue \ {e}
      PROVE  \A f \in event_queue' : ~(f.ts <= EpisodeDuration)
  <2> SUFFICES ASSUME NEW f \in event_queue' PROVE ~(f.ts <= EpisodeDuration)
    OBVIOUS
  <2>1. f \in event_queue \ {e}
    BY <1>2
  <2>2. e \in Event /\ f \in Event
    BY <2>1 DEF TypeOK, LoopOK
  <2>3. e.ts \in Nat /\ f.ts \in Nat /\ EpisodeDuration \in Nat
    BY <2>2, TimingAssumption DEF Event, ArrivalEvent, CompletionEvent, QuantumEvent, PeriodicEvent
  <2>4. e.ts < f.ts \/ e.ts = f.ts
    BY <1>2, <2>1 DEF IsNextEvent, Before
  <2> QED
    BY <1>2, <2>3, <2>4
<1> QED
  BY <1>1, <1>2 DEF LoopEnds

LEMMA OracleInvInit == OracleInit => OracleInv
<1> SUFFICES ASSUME OracleInit PROVE OracleInv
  OBVIOUS
<1>1. Init /\ policy \in Policies
  BY DEF OracleInit, ExpertInit
<1>2. TypeOK /\ WorkConserving
  <2>1. WorkConserving
    BY <1>1 DEF Init, WorkConserving
  <2> QED
    BY <1>1, <2>1, InitType
<1>3. PICK at \in [Tasks -> ArrivalTimes] : event_queue = PeriodicEvents \cup Arrivals(at)
  BY <1>1 DEF Init
<1>4. ASSUME NEW t \in Tasks
      PROVE  (CHOOSE e \in event_queue : e.task = t).ts \in ArrivalTimes
  <2>1. t # NoTask
    BY SizeAssumption DEF Tasks, NoTask
  <2>2. \E e \in event_queue : e.task = t
    <3> DEFINE e == [ts |-> at[t], type |-> TASK_ARRIVAL, seq |-> t + 1, task |-> t,
                     core |-> NoCore]
    <3>1. e \in event_queue /\ e.task = t
      BY <1>3 DEF Arrivals
    <3> QED
      BY <3>1
  <2>3. \A e \in event_queue : e.task = t => e.ts = at[t]
    BY <1>3, <2>1 DEF Arrivals, PeriodicEvents
  <2> QED
    BY <2>2, <2>3
<1>5. seeded \in [Tasks -> ArrivalTimes]
  BY <1>4 DEF OracleInit
<1>6. <<>> \in Seq(Actions)
  OBVIOUS
<1> QED
  BY <1>1, <1>2, <1>5, <1>6 DEF OracleInit, OracleInv, PhaseOK
----------------------------------------------------------------
(* The steps of the phases. *)
LEMMA BaselineKeeps ==
  ASSUME OracleInv, BaselineStep
  PROVE  OracleInv'
<1>1. TypeOK /\ PhaseOK /\ WorkConserving /\ policy \in Policies /\ phase = "baseline"
      /\ UNCHANGED oracleVars /\ policy' = policy
  BY DEF OracleInv, PhaseOK, BaselineStep, ExpertNext
<1>2. PhaseOK' /\ phase' = "baseline"
  BY <1>1 DEF PhaseOK, oracleVars
<1>3. CASE ProcessEvent
  BY <1>1, <1>2, <1>3, ProcessEventType, ProcessEventHandles, WorkOfEvent DEF OracleInv
<1>4. ASSUME NEW t \in Tasks, NEW a \in Decisions(t), Decide(t, a) PROVE OracleInv'
  <2>1. a \in SchedulingAction(NCores)
    BY <1>1, DecisionsAreActions
  <2>2. TypeOK'
    BY <1>1, <1>4, <2>1, LogTransitionType, ApplyActionType DEF Decide
  <2>3. WorkConserving'
    BY <1>1, <1>4, WorkOfDecision DEF Decide
  <2> QED
    BY <1>2, <2>2, <2>3 DEF OracleInv
<1>5. CASE EndEpisode
  BY <1>1, <1>2, <1>5, EndEpisodeType DEF OracleInv, EndEpisode, WorkConserving
<1> QED
  BY <1>3, <1>4, <1>5 DEF BaselineStep, ExpertNext

LEMMA StartReplayKeeps ==
  ASSUME OracleInv, StartReplay
  PROVE  OracleInv'
<1>1. TypeOK /\ PhaseOK /\ seeded \in [Tasks -> ArrivalTimes]
  BY DEF OracleInv, PhaseOK
<1>2. Fresh' /\ UNCHANGED rewardVars
  BY <1>1, RestartFresh DEF StartReplay
<1>3. RewardsOK'
  <2>1. recently_completed' = <<>> /\ <<>> \in Seq(Tasks)
    BY <1>2 DEF Fresh
  <2> QED
    BY <1>1, <1>2, <2>1 DEF TypeOK, AccountsOK, RewardsOK, rewardVars
<1>4. TypeOK'
  BY <1>2, <1>3, FreshNext
<1>5. WorkConserving'
  BY <1>2 DEF Fresh, WorkConserving
<1>6. PhaseOK' /\ phase' = "replay"
  BY <1>1 DEF StartReplay, PhaseOK
<1> QED
  BY <1>4, <1>5, <1>6 DEF OracleInv

LEMMA ReplayKeeps ==
  ASSUME OracleInv, ReplayEvent \/ \E t \in Tasks, a \in Actions : ReplayDecision(t, a)
  PROVE  OracleInv'
<1>1. TypeOK /\ PhaseOK /\ WorkConserving /\ phase = "replay"
  BY DEF OracleInv, ReplayEvent, ReplayDecision
<1>2. CASE ReplayEvent
  <2>1. PhaseOK' /\ phase' = "replay" /\ ProcessEvent
    BY <1>1, <1>2 DEF ReplayEvent, PhaseOK, oracleVars
  <2> QED
    BY <1>1, <2>1, ProcessEventType, ProcessEventHandles, WorkOfEvent DEF OracleInv
<1>3. ASSUME NEW t \in Tasks, NEW a \in Actions, ReplayDecision(t, a) PROVE OracleInv'
  <2>1. RewardsOK'
    BY <1>1, <1>3 DEF ReplayDecision, rewardVars, RewardsOK, TypeOK, AccountsOK
  <2>2. TypeOK'
    BY <1>1, <1>3, <2>1, ActionAssumption, ApplyActionType DEF ReplayDecision
  <2>3. WorkConserving'
    BY <1>1, <1>3, WorkOfDecision DEF ReplayDecision
  <2>4. best_actions' \in Seq(Actions) /\ Len(best_actions') = Len(best_actions) + 1
    BY <1>1, <1>3, AppendProperties DEF PhaseOK, ReplayDecision
  <2>5. phase' = phase /\ policy' = policy /\ seeded' = seeded
    BY <1>3 DEF ReplayDecision
  <2> QED
    BY <1>1, <2>2, <2>3, <2>4, <2>5 DEF OracleInv, PhaseOK
<1> QED
  BY <1>2, <1>3
----------------------------------------------------------------
LEMMA StopReplayKeeps ==
  ASSUME OracleInv, StopReplay
  PROVE  OracleInv'
<1>1. TypeOK /\ PhaseOK /\ WorkConserving /\ phase = "replay" /\ pc = "event"
  BY DEF OracleInv, StopReplay
<1>2. /\ UNCHANGED <<pc, clock_ns, event_ts, event_sequence, taskVars, coreVars, core_busy_ns>>
      /\ UNCHANGED <<gpu_queue, accountVars, rewardVars, policy, seeded, best_actions>>
      /\ phase' = "drain"
  BY DEF StopReplay
<1>3. event_queue' \subseteq event_queue
  BY DEF StopReplay, LoopEnds
<1>4. TypeOK'
  BY <1>1, <1>2, <1>3 DEF TypeOK, LoopOK, TasksOK, CoresOK, AccountsOK, taskVars, coreVars,
     accountVars, rewardVars
<1>5. PhaseOK'
  BY <1>1, <1>2 DEF PhaseOK
<1>6. ASSUME MayDecide' PROVE Drained'
  <2>1. MayDecide
    BY <1>2, <1>6 DEF MayDecide
  <2>2. \A e \in event_queue' : ~(e.ts <= EpisodeDuration)
    BY <1>1, <2>1, EndLeavesLate DEF StopReplay
  <2>3. NothingWaits'
    BY <1>1, <1>2 DEF WorkConserving, NothingWaits, coreVars, taskVars
  <2> QED
    BY <1>1, <1>2, <2>2, <2>3 DEF Drained
<1> QED
  BY <1>2, <1>4, <1>5, <1>6 DEF OracleInv

(* With decisions left the drain finds no event of the episode. *)
LEMMA DrainKeeps ==
  ASSUME OracleInv, DrainEvent
  PROVE  OracleInv'
<1>1. TypeOK /\ PhaseOK /\ phase = "drain" /\ ProcessEvent /\ UNCHANGED <<policy, oracleVars>>
  BY DEF OracleInv, DrainEvent
<1>2. PhaseOK' /\ phase' = "drain" /\ best_actions' = best_actions
  BY <1>1 DEF PhaseOK, oracleVars
<1>3. ~Drained
  <2>1. PICK e \in event_queue : Handled(e)
    BY <1>1, ProcessEventHandles
  <2>2. e.ts <= EpisodeDuration
    BY <2>1 DEF Handled, HandleTaskArrival, HandleTaskCompletion, DropStaleCompletion,
         DropIdleQuantum, FreeCoreOfDeadTask, FinishInQuantum, PreemptAtQuantum,
         HandleDeadlineCheck, MigrateTask, SkipMigration, PopEvent
  <2> QED
    BY <2>2 DEF Drained
<1>4. ~MayDecide /\ ~MayDecide'
  BY <1>1, <1>2, <1>3 DEF OracleInv, MayDecide
<1> QED
  BY <1>1, <1>2, <1>4, ProcessEventType DEF OracleInv

LEMMA RestKeeps ==
  ASSUME OracleInv, IgnoreDecision \/ Return \/ UNCHANGED allVars
  PROVE  OracleInv'
<1>1. TypeOK /\ PhaseOK
  BY DEF OracleInv
<1>2. CASE IgnoreDecision
  <2>1. /\ UNCHANGED <<clock_ns, event_ts, event_queue, event_sequence, taskVars, coreVars>>
        /\ UNCHANGED <<core_busy_ns, gpu_queue, accountVars, rewardVars, policy, oracleVars>>
        /\ pc = "decide" /\ pc' = "event" /\ phase = "drain"
    BY <1>2 DEF IgnoreDecision
  <2>2. TypeOK'
    BY <1>1, <2>1 DEF TypeOK, LoopOK, TasksOK, CoresOK, AccountsOK, taskVars, coreVars,
       accountVars, rewardVars
  <2>3. PhaseOK' /\ phase' = "drain" /\ best_actions' = best_actions
    BY <1>1, <2>1 DEF PhaseOK, oracleVars
  <2>4. ~MayDecide
    BY <2>1 DEF OracleInv, Drained
  <2> QED
    BY <2>2, <2>3, <2>4 DEF OracleInv, MayDecide
<1>3. CASE Return
  <2>1. /\ UNCHANGED <<clock_ns, event_ts, event_sequence, taskVars, coreVars, core_busy_ns>>
        /\ UNCHANGED <<gpu_queue, accountVars, rewardVars, policy, seeded, best_actions>>
        /\ pc' = "done" /\ phase = "drain" /\ phase' = "returned" /\ LoopEnds
    BY <1>3 DEF Return
  <2>2. event_queue' \subseteq event_queue
    BY <2>1 DEF LoopEnds
  <2>3. TypeOK'
    BY <1>1, <2>1, <2>2 DEF TypeOK, LoopOK, TasksOK, CoresOK, AccountsOK, taskVars, coreVars,
       accountVars, rewardVars
  <2>4. PhaseOK'
    BY <1>1, <2>1 DEF PhaseOK
  <2>5. MayDecide' => Drained'
    BY <2>1, <2>2 DEF MayDecide, OracleInv, Drained, NothingWaits, taskVars, coreVars
  <2> QED
    BY <2>1, <2>3, <2>4, <2>5 DEF OracleInv
<1>4. CASE UNCHANGED allVars
  <2>1. /\ UNCHANGED <<pc, clock_ns, event_ts, event_queue, event_sequence, taskVars, coreVars>>
        /\ UNCHANGED <<core_busy_ns, gpu_queue, accountVars, rewardVars, policy, phase, seeded>>
        /\ best_actions' = best_actions
    BY <1>4 DEF allVars, expertVars, vars, oracleVars, loopVars
  <2>2. TypeOK'
    BY <1>1, <2>1 DEF TypeOK, LoopOK, TasksOK, CoresOK, AccountsOK, taskVars, coreVars,
       accountVars, rewardVars
  <2>3. PhaseOK'
    BY <1>1, <2>1 DEF PhaseOK
  <2>4. (WorkConserving => WorkConserving') /\ (Drained => Drained') /\ MayDecide' = MayDecide
    BY <2>1 DEF WorkConserving, Drained, NothingWaits, MayDecide, taskVars, coreVars
  <2> QED
    BY <2>1, <2>2, <2>3, <2>4 DEF OracleInv
<1> QED
  BY <1>2, <1>3, <1>4

LEMMA OracleInvariant == OracleSpec => []OracleInv
<1>1. OracleInv /\ [OracleNext]_allVars => OracleInv'
  BY BaselineKeeps, StartReplayKeeps, ReplayKeeps, StopReplayKeeps, DrainKeeps, RestKeeps
     DEF OracleNext
<1> QED
  BY <1>1, OracleInvInit, PTL DEF OracleSpec

(* When the replay took fewer decisions than it may, no task waits at its  *)
(* end while every core is idle and the GPU has nothing queued (the loops  *)
(* of run_offline_episode). *)
THEOREM BoundStrands == OracleSpec => []OnlyBoundStrands
<1>1. OracleInv => OnlyBoundStrands
  BY DEF OracleInv, OnlyBoundStrands, MayDecide, Drained, NothingWaits
<1> QED
  BY <1>1, OracleInvariant, PTL

(* Under the earliest-deadline policy a decision takes a core only from a  *)
(* task whose deadline is later, or that has none (edf.py                  *)
(* _should_preempt with apply_action). *)
THEOREM EarlierDisplaces == OracleSpec => EarlierDeadlineDisplaces
<1>1. OracleInv /\ [OracleNext]_allVars =>
        [policy = "edf" /\ pc = "decide" => \A c \in Cores : Displaced(c) =>
           /\ Deadline(current_task'[c]) # 0
           /\ Deadline(current_task[c]) # 0
                => Deadline(current_task'[c]) < Deadline(current_task[c])]_expertVars
  <2> SUFFICES ASSUME OracleInv, [OracleNext]_allVars, ~UNCHANGED expertVars,
                      policy = "edf", pc = "decide", NEW c \in Cores, Displaced(c)
               PROVE  /\ Deadline(current_task'[c]) # 0
                      /\ Deadline(current_task[c]) # 0
                           => Deadline(current_task'[c]) < Deadline(current_task[c])
    OBVIOUS
  <2>1. TypeOK /\ phase = "baseline"
    BY DEF OracleInv, PhaseOK
  <2>2. ExpertNext
    BY <2>1 DEF OracleNext, BaselineStep, StartReplay, ReplayEvent, ReplayDecision, StopReplay,
                DrainEvent, IgnoreDecision, Return, allVars
  <2> QED
    BY <2>1, <2>2, EdfDisplaces
<1> QED
  BY <1>1, OracleInvariant, PTL DEF OracleSpec, EarlierDeadlineDisplaces

-----------------------------------------------------------------------------
(* Nobody is stranded.  Inductive, for an episode without the GPU, besides *)
(* SharingInv and WorkConserving: a task that has not arrived has its      *)
(* arrival pending, one that runs is current somewhere, and the core it is *)
(* current on has an event that will act on it - the event of a task that  *)
(* lost the core may come first, but it is never the only one.             *)
ArrivalPending(t) == \E e \in event_queue : e.type = TASK_ARRIVAL /\ e.task = t
WillBeServed(c) ==
  \E e \in CoreEvents(c) : e.type = QUANTUM_EXPIRED \/ e.task = current_task[c]

RunningIsCurrent == \A t \in Tasks : state[t] = "RUNNING" => \E c \in Cores : current_task[c] = t
NextIsPending ==
  pc # "done" => /\ \A t \in Tasks : state[t] = "NONE" => ArrivalPending(t)
                 /\ \A c \in Cores : Occupied(c) => WillBeServed(c)

ServedInv ==
  /\ SharingInv
  /\ gpu_queue = <<>>
  /\ RunningIsCurrent
  /\ NextIsPending
  /\ policy = "hybrid" => OneEventPerBusyCore

LEMMA ServedInit == Init => ServedInv
<1> SUFFICES ASSUME Init PROVE ServedInv
  OBVIOUS
<1>1. PICK at \in [Tasks -> ArrivalTimes] : event_queue = PeriodicEvents \cup Arrivals(at)
  BY DEF Init
<1>2. ASSUME NEW t \in Tasks PROVE ArrivalPending(t)
  <2> DEFINE e == [ts |-> at[t], type |-> TASK_ARRIVAL, seq |-> t + 1, task |-> t,
                   core |-> NoCore]
  <2>1. e \in event_queue /\ e.type = TASK_ARRIVAL /\ e.task = t
    BY <1>1 DEF Arrivals
  <2> QED
    BY <2>1 DEF ArrivalPending
<1>3. gpu_queue = <<>> /\ RunningIsCurrent /\ \A c \in Cores : ~Occupied(c)
  BY DEF Init, RunningIsCurrent, Occupied
<1> QED
  BY <1>2, <1>3, SharingInit, DrivenInit DEF ServedInv, NextIsPending

(* A handler takes only its own event out of the heap. *)
LEMMA HandledKeepsOthers ==
  ASSUME NEW e \in event_queue, Handled(e)
  PROVE  event_queue \ {e} \subseteq event_queue' /\ gpu_queue' = gpu_queue /\ pc = "event"
<1>1. ASSUME \/ PushNothing(e) \/ \E ev : Push(e, ev) \/ \E n : PushAgain(e, n)
             \/ \E c, st, asg, k : StartNextFromQueue(e, c, st, asg, k)
      PROVE  event_queue \ {e} \subseteq event_queue'
  BY <1>1 DEF PushNothing, Push, PushAgain, StartNextFromQueue, IdleCore, StartQueued
<1>2. \/ PushNothing(e) \/ \E ev : Push(e, ev) \/ \E n : PushAgain(e, n)
      \/ \E c, st, asg, k : StartNextFromQueue(e, c, st, asg, k)
  <2>1. CASE HandleTaskCompletion(e)
    BY <2>1 DEF HandleTaskCompletion
  <2>2. CASE PreemptAtQuantum(e)
    BY <2>2 DEF PreemptAtQuantum
  <2>3. CASE ~HandleTaskCompletion(e) /\ ~PreemptAtQuantum(e)
    BY <2>3 DEF Handled, HandleTaskArrival, DropStaleCompletion, DropIdleQuantum,
                FreeCoreOfDeadTask, FinishInQuantum, HandleDeadlineCheck, MigrateTask,
                SkipMigration
  <2> QED
    BY <2>1, <2>2, <2>3
<1>3. gpu_queue' = gpu_queue /\ pc = "event"
  BY DEF Handled, HandleTaskArrival, HandleTaskCompletion, DropStaleCompletion, DropIdleQuantum,
         FreeCoreOfDeadTask, FinishInQuantum, PreemptAtQuantum, HandleDeadlineCheck, MigrateTask,
         SkipMigration, PopEvent
<1> QED
  BY <1>1, <1>2, <1>3

(* Only the GPU lets a task run without being current on a core. *)
LEMMA MovesKeepRunning ==
  ASSUME TypeOK, Mutex, RunningIsCurrent, gpu_queue' = gpu_queue,
         Moves \/ \E t \in Tasks : Arrives(t)
  PROVE  RunningIsCurrent'
<1>1. state \in [Tasks -> TaskState] /\ current_task \in [Cores -> Tasks \cup {NoTask}]
  BY DEF TypeOK, TasksOK, CoresOK
<1>2. NoTask \notin Tasks
  BY SizeAssumption DEF NoTask, Tasks
<1>3. ASSUME Stays \/ \E t \in Tasks : EndsElsewhere(t) \/ Arrives(t) PROVE RunningIsCurrent'
  BY <1>1, <1>3 DEF Stays, EndsElsewhere, Arrives, RunningIsCurrent
<1>4. ASSUME NEW t \in Tasks, Offloads(t) PROVE RunningIsCurrent'
  BY <1>4 DEF Offloads
<1>5. ASSUME NEW t \in Tasks, NEW c \in Cores, Starts(t, c) PROVE RunningIsCurrent'
  BY <1>1, <1>2, <1>5 DEF Starts, RunningIsCurrent
<1>6. ASSUME NEW t \in Tasks, NEW c \in Cores, Ends(t, c) \/ Yields(t, c)
      PROVE  RunningIsCurrent'
  BY <1>1, <1>2, <1>6 DEF Ends, Yields, RunningIsCurrent
<1>7. ASSUME NEW t \in Tasks, NEW u \in Tasks, NEW c \in Cores,
             EndsFor(t, u, c) \/ YieldsFor(t, u, c)
      PROVE  RunningIsCurrent'
  BY <1>1, <1>2, <1>7 DEF EndsFor, YieldsFor, RunningIsCurrent
<1>8. ASSUME NEW c \in Cores, Forgets(c) PROVE RunningIsCurrent'
  BY <1>1, <1>8 DEF Forgets, RunningIsCurrent
<1> QED
  BY <1>3, <1>4, <1>5, <1>6, <1>7, <1>8 DEF Moves

(* The core that starts its queue's next task, or none, pushes the event   *)
(* for it. *)
LEMMA StartNextServes ==
  ASSUME TypeOK, NEW e, NEW c \in Cores, NEW st, NEW asg, NEW switched,
         StartNextFromQueue(e, c, st, asg, switched)
  PROVE  /\ Occupied(c)' => WillBeServed(c)'
         /\ \A d \in Cores \ {c} : current_task'[d] = current_task[d]
<1>1. current_task \in [Cores -> Tasks \cup {NoTask}]
  BY DEF TypeOK, CoresOK
<1>2. CASE IdleCore(e, c, st, asg, switched)
  BY <1>1, <1>2 DEF IdleCore, Occupied
<1>3. ASSUME NEW i \in DOMAIN run_queue[c], StartQueued(e, c, st, asg, switched, i)
      PROVE  /\ WillBeServed(c)'
             /\ \A d \in Cores \ {c} : current_task'[d] = current_task[d]
  <2>1. PICK u \in Tasks : u = run_queue[c][i]
    BY LenProperties, ElementOfSeq DEF TypeOK, CoresOK
  <2>2. PICK ev : ev = RunEvent(u, c, clock_ns', remaining_work_ns'[u])
    OBVIOUS
  <2>3. /\ current_task' = [current_task EXCEPT ![c] = u]
        /\ ev \in event_queue'
    BY <1>3, <2>1, <2>2 DEF StartQueued, Push
  <2>4. /\ ev.core = c /\ ev.type \in {TASK_COMPLETION, QUANTUM_EXPIRED}
        /\ ev.type = TASK_COMPLETION => ev.task = u
    BY <2>2, RunEventDrives
  <2> QED
    BY <1>1, <2>3, <2>4 DEF WillBeServed, CoreEvents
<1> QED
  BY <1>2, <1>3 DEF StartNextFromQueue

(* Another event than e still acts on core d. *)
LEMMA ServedOn ==
  ASSUME NEW e, event_queue \ {e} \subseteq event_queue', NEW d \in Cores, WillBeServed(d),
         current_task'[d] = current_task[d],
         e.core = d => e.type = TASK_COMPLETION /\ e.task # current_task[d]
  PROVE  WillBeServed(d)'
<1>1. PICK f \in CoreEvents(d) : f.type = QUANTUM_EXPIRED \/ f.task = current_task[d]
  BY DEF WillBeServed
<1>2. TASK_COMPLETION # QUANTUM_EXPIRED
  BY DEF TASK_COMPLETION, QUANTUM_EXPIRED
<1>3. f # e
  BY <1>1, <1>2 DEF CoreEvents
<1> QED
  BY <1>1, <1>3 DEF WillBeServed, CoreEvents

(* Task t leaves core c, whose queue starts its next. *)
LEMMA NextServes ==
  ASSUME TypeOK, Mutex', NEW c \in Cores, NEW e, e.core = c,
         event_queue \ {e} \subseteq event_queue',
         \A d \in Cores : Occupied(d) => WillBeServed(d),
         NEW t \in Tasks, NEW to \in {"READY", "TERMINATED"}, NEW asg, NEW switched,
         StartNextFromQueue(e, c, [state EXCEPT ![t] = to], asg, switched)
  PROVE  \A d \in Cores : Occupied(d)' => WillBeServed(d)'
<1> DEFINE st == [state EXCEPT ![t] = to]
<1>1. state \in [Tasks -> TaskState] /\ current_task \in [Cores -> Tasks \cup {NoTask}]
  BY DEF TypeOK, TasksOK, CoresOK
<1>2. /\ Occupied(c)' => WillBeServed(c)'
      /\ \A d \in Cores \ {c} : current_task'[d] = current_task[d]
  BY StartNextServes
<1>3. ASSUME NEW d \in Cores \ {c}, Occupied(d)' PROVE WillBeServed(d)'
  <2>1. current_task[d] \in Tasks /\ current_task'[d] = current_task[d]
    BY <1>1, <1>2, <1>3 DEF Occupied
  <2>2. state'[current_task[d]] = st[current_task[d]]
    <3>1. CASE LeavesIdle(c, st)
      BY <3>1 DEF LeavesIdle
    <3>2. ASSUME NEW u \in Tasks, Launches(u, c, st)
          PROVE  state'[current_task[d]] = st[current_task[d]]
      <4>1. current_task'[c] = u /\ state' = [st EXCEPT ![u] = "RUNNING"]
        BY <1>1, <3>2 DEF Launches
      <4>2. current_task[d] # u
        BY <1>3, <2>1, <4>1 DEF Mutex, OneCorePerTask, Occupied
      <4> QED
        BY <1>1, <2>1, <4>1, <4>2
    <3> QED
      BY <3>1, <3>2, StartNextOutcome
  <2>3. state[current_task[d]] = "RUNNING"
    BY <1>1, <1>3, <2>1, <2>2 DEF Occupied
  <2>4. WillBeServed(d)
    BY <1>3, <2>1, <2>3 DEF Occupied
  <2> QED
    BY <1>3, <2>1, <2>4, ServedOn
<1> QED
  BY <1>2, <1>3

(* Whatever a handler does, each occupied core has an event to come. *)
LEMMA EventServes ==
  ASSUME TypeOK, SharingInv, SharingInv', \A d \in Cores : Occupied(d) => WillBeServed(d),
         NEW e \in event_queue, Handled(e)
  PROVE  \A d \in Cores : Occupied(d)' => WillBeServed(d)'
<1>1. /\ {TASK_ARRIVAL, DEADLINE_CHECK, MIGRATION_CHECK} \cap {TASK_COMPLETION, QUANTUM_EXPIRED} = {}
      /\ TASK_COMPLETION # QUANTUM_EXPIRED
  BY DEF TASK_ARRIVAL, TASK_COMPLETION, QUANTUM_EXPIRED, DEADLINE_CHECK, MIGRATION_CHECK
<1>2. /\ state \in [Tasks -> TaskState] /\ current_task \in [Cores -> Tasks \cup {NoTask}]
      /\ event_queue \ {e} \subseteq event_queue' /\ e \in Event
  BY HandledKeepsOthers DEF TypeOK, LoopOK, TasksOK, CoresOK
<1>3. ASSUME current_task' = current_task,
             e.type = TASK_COMPLETION => state'[e.task] # "RUNNING",
             e.type = QUANTUM_EXPIRED => ~Occupied(e.core)',
             \A d \in Cores : Occupied(d)' => Occupied(d)
      PROVE  \A d \in Cores : Occupied(d)' => WillBeServed(d)'
  <2> SUFFICES ASSUME NEW d \in Cores, Occupied(d)' PROVE WillBeServed(d)'
    OBVIOUS
  <2>1. WillBeServed(d) /\ state'[current_task[d]] = "RUNNING"
    BY <1>3 DEF Occupied
  <2>2. PICK f \in CoreEvents(d) : f.type = QUANTUM_EXPIRED \/ f.task = current_task[d]
    BY <2>1 DEF WillBeServed
  <2>3. f # e
    BY <1>1, <1>3, <2>1, <2>2 DEF CoreEvents
  <2> QED
    BY <1>2, <1>3, <2>2, <2>3 DEF WillBeServed, CoreEvents
<1>4. CASE HandleTaskArrival(e)
  <2>1. /\ e.task \in Tasks /\ state' = [state EXCEPT ![e.task] = "READY"]
        /\ current_task' = current_task /\ e.type = TASK_ARRIVAL
    BY <1>4, ArrivalIsMove DEF Arrives, SharingInv, HandleTaskArrival, PopEvent
  <2>2. \A d \in Cores : Occupied(d)' => Occupied(d)
    BY <1>2, <2>1 DEF Occupied
  <2> QED
    BY <1>1, <1>3, <2>1, <2>2
<1>5. CASE HandleTaskCompletion(e)
  <2> DEFINE ended == [state EXCEPT ![e.task] = "TERMINATED"]
  <2>1. e.type = TASK_COMPLETION /\ e.task \in Tasks /\ e.core \in Cores
    BY <1>2, <1>5, EventFields DEF HandleTaskCompletion, PopEvent
  <2>2. CASE StartNextFromQueue(e, e.core, ended, assigned_cpu, 0)
    BY <1>2, <2>1, <2>2, NextServes DEF SharingInv
  <2>3. CASE state' = ended /\ UNCHANGED coreVars
    <3>1. current_task' = current_task /\ state'[e.task] = "TERMINATED"
      BY <1>2, <2>1, <2>3 DEF coreVars
    <3>2. \A d \in Cores : Occupied(d)' => Occupied(d)
      BY <1>2, <2>1, <2>3, <3>1 DEF Occupied
    <3> QED
      BY <1>1, <1>3, <2>1, <3>1, <3>2
  <2> QED
    BY <1>5, <2>2, <2>3 DEF HandleTaskCompletion
<1>6. CASE DropStaleCompletion(e) \/ DropIdleQuantum(e)
  <2>1. /\ state' = state /\ current_task' = current_task
        /\ \/ e.type = TASK_COMPLETION /\ state[e.task] # "RUNNING"
           \/ e.type = QUANTUM_EXPIRED /\ current_task[e.core] = NoTask
    BY <1>6 DEF DropStaleCompletion, DropIdleQuantum, PopEvent, MayComplete, taskVars, coreVars
  <2> QED
    BY <1>1, <1>3, <2>1 DEF Occupied
<1>7. CASE FreeCoreOfDeadTask(e)
  <2>1. /\ state' = state /\ current_task' = [current_task EXCEPT ![e.core] = NoTask]
        /\ e.type = QUANTUM_EXPIRED
    BY <1>7 DEF FreeCoreOfDeadTask, PopEvent, taskVars
  <2>2. e.core \in Cores
    BY <1>2, <2>1, EventFields
  <2>3. ~Occupied(e.core)' /\ \A d \in Cores \ {e.core} : current_task'[d] = current_task[d]
    BY <1>2, <2>1, <2>2 DEF Occupied
  <2>4. ASSUME NEW d \in Cores \ {e.core}, Occupied(d)' PROVE WillBeServed(d)'
    <3>1. WillBeServed(d)
      BY <2>1, <2>3, <2>4 DEF Occupied
    <3> QED
      BY <1>2, <2>3, <3>1, ServedOn
  <2> QED
    BY <2>3, <2>4
<1>8. CASE FinishInQuantum(e)
  <2>1. PICK ev : ev = NewEvent(e.ts, TASK_COMPLETION, current_task[e.core], e.core)
    OBVIOUS
  <2>2. /\ state' = state /\ current_task' = current_task /\ e.type = QUANTUM_EXPIRED
        /\ ev \in event_queue'
    BY <1>8, <2>1 DEF FinishInQuantum, PopEvent, Push, coreVars
  <2>3. ev.type = TASK_COMPLETION /\ ev.task = current_task[e.core] /\ ev.core = e.core
    BY <2>1 DEF NewEvent
  <2>4. WillBeServed(e.core)'
    BY <2>2, <2>3 DEF WillBeServed, CoreEvents
  <2>5. ASSUME NEW d \in Cores \ {e.core}, Occupied(d)' PROVE WillBeServed(d)'
    <3>1. WillBeServed(d)
      BY <2>2, <2>5 DEF Occupied
    <3> QED
      BY <1>2, <2>2, <3>1, ServedOn
  <2> QED
    BY <2>4, <2>5
<1>9. CASE PreemptAtQuantum(e)
  <2> DEFINE t == current_task[e.core]
  <2>1. /\ e.type = QUANTUM_EXPIRED /\ t # NoTask
        /\ StartNextFromQueue(e, e.core, [state EXCEPT ![t] = "READY"],
                              [assigned_cpu EXCEPT ![t] = NoCore], 1)
    BY <1>9 DEF PreemptAtQuantum, PopEvent
  <2>2. e.core \in Cores
    BY <1>2, <2>1, EventFields
  <2>3. t \in Tasks
    BY <1>2, <2>1, <2>2
  <2> QED
    BY <1>2, <2>1, <2>2, <2>3, NextServes DEF SharingInv
<1>10. CASE HandleDeadlineCheck(e) \/ SkipMigration(e)
            \/ \E from, to \in Migratable : MigrateTask(e, from, to)
  <2>1. /\ state' = state /\ current_task' = current_task
        /\ e.type \in {DEADLINE_CHECK, MIGRATION_CHECK}
    BY <1>10 DEF HandleDeadlineCheck, SkipMigration, MigrateTask, PopEvent, taskVars, coreVars
  <2> QED
    BY <1>1, <1>3, <2>1 DEF Occupied
<1> QED
  BY <1>4, <1>5, <1>6, <1>7, <1>8, <1>9, <1>10 DEF Handled

LEMMA ServedOfEvent ==
  ASSUME TypeOK, ServedInv, policy' = policy, NEW e \in event_queue, Handled(e)
  PROVE  ServedInv'
<1>1. /\ event_queue \ {e} \subseteq event_queue' /\ gpu_queue' = gpu_queue /\ pc = "event"
      /\ SharingInv' /\ (Moves \/ \E t \in Tasks : Arrives(t))
  BY HandledKeepsOthers, SharingOfEvent, EventMoves DEF ServedInv
<1>2. RunningIsCurrent'
  BY <1>1, MovesKeepRunning DEF ServedInv, SharingInv
<1>3. ASSUME NEW t \in Tasks, state'[t] = "NONE" PROVE ArrivalPending(t)'
  <2>1. state[t] = "NONE"
    BY <1>1, <1>3, MovesBringBackNone
  <2>2. PICK f \in event_queue : f.type = TASK_ARRIVAL /\ f.task = t
    BY <1>1, <2>1 DEF ServedInv, NextIsPending, ArrivalPending
  <2>3. f # e
    <3>1. e.type = TASK_ARRIVAL => state' = [state EXCEPT ![e.task] = "READY"]
      BY HandledMoves DEF HandleTaskArrival
    <3> QED
      BY <1>3, <2>2, <3>1 DEF TypeOK, TasksOK
  <2> QED
    BY <1>1, <2>2, <2>3 DEF ArrivalPending
<1>4. \A d \in Cores : Occupied(d)' => WillBeServed(d)'
  BY <1>1, EventServes DEF ServedInv, NextIsPending
<1>5. policy = "hybrid" => OneEventPerBusyCore'
  BY <1>1, EventDrives DEF ServedInv, OneEventPerBusyCore
<1> QED
  BY <1>1, <1>2, <1>3, <1>4, <1>5 DEF ServedInv, NextIsPending

(* A decision that does not use the GPU. *)
LEMMA DecisionServes ==
  ASSUME TypeOK, SharingInv, NEW t \in Tasks, NEW a, ~GpuTarget(t, a), IsPicked(t),
         ApplyAction(t, a), \A d \in Cores : Occupied(d) => WillBeServed(d)
  PROVE  /\ event_queue \subseteq event_queue' /\ gpu_queue' = gpu_queue /\ pc # "done"
         /\ \A d \in Cores : Occupied(d)' => WillBeServed(d)'
<1>1. /\ state \in [Tasks -> TaskState] /\ current_task \in [Cores -> Tasks \cup {NoTask}]
      /\ state[t] = "READY"
  BY DEF TypeOK, TasksOK, CoresOK, IsPicked
<1>2. pc # "done" /\ ~AssignToGpu(t, a)
  BY DEF ApplyAction, AssignToGpu, PreemptCurrent, StartOnIdleCore, EnqueueOnBusyCore, Decision
<1>3. \A d \in Cores : current_task[d] # NoTask => current_task[d] # t
  BY <1>1 DEF SharingInv, Mutex, CurrentIsStarted
<1>4. ASSUME NEW c \in Cores, PreemptCurrent(t, a, c) \/ StartOnIdleCore(t, a, c)
      PROVE  /\ event_queue \subseteq event_queue' /\ gpu_queue' = gpu_queue
             /\ \A d \in Cores : Occupied(d)' => WillBeServed(d)'
  <2>1. PICK ev : ev = RunEvent(t, c, clock_ns, remaining_work_ns[t])
    OBVIOUS
  <2>2. /\ current_task' = [current_task EXCEPT ![c] = t] /\ gpu_queue' = gpu_queue
        /\ event_queue' = event_queue \cup {ev}
        /\ \A u \in Tasks \ {t} : state'[u] = "RUNNING" => state[u] = "RUNNING"
    BY <1>1, <1>4, <2>1 DEF PreemptCurrent, Preempts, StartOnIdleCore, PushRunEvent
  <2>3. /\ ev.core = c /\ ev.type \in {TASK_COMPLETION, QUANTUM_EXPIRED}
        /\ ev.type = TASK_COMPLETION => ev.task = t
    BY <2>1, RunEventDrives
  <2>4. WillBeServed(c)'
    BY <1>1, <2>2, <2>3 DEF WillBeServed, CoreEvents
  <2>5. ASSUME NEW d \in Cores \ {c}, Occupied(d)' PROVE WillBeServed(d)'
    <3>1. current_task'[d] = current_task[d] /\ WillBeServed(d)
      BY <1>1, <1>3, <2>2, <2>5 DEF Occupied
    <3> QED
      BY <2>2, <3>1 DEF WillBeServed, CoreEvents
  <2> QED
    BY <2>2, <2>4, <2>5
<1>5. ASSUME NEW c \in Cores, EnqueueOnBusyCore(t, a, c)
      PROVE  /\ event_queue \subseteq event_queue' /\ gpu_queue' = gpu_queue
             /\ \A d \in Cores : Occupied(d)' => WillBeServed(d)'
  BY <1>5 DEF EnqueueOnBusyCore, Occupied, WillBeServed, CoreEvents
<1> QED
  BY <1>2, <1>4, <1>5 DEF ApplyAction

LEMMA ServedOfDecision ==
  ASSUME TypeOK, ServedInv, policy' = policy, NEW t \in Tasks, NEW a, ~GpuTarget(t, a),
         policy = "hybrid" => ~a.preempt, IsPicked(t), ApplyAction(t, a)
  PROVE  ServedInv'
<1>1. SharingInv' /\ Moves
  BY SharingOfDecision, DecisionMoves DEF ServedInv
<1>2. pc # "done"
  BY DEF ApplyAction, AssignToGpu, PreemptCurrent, StartOnIdleCore, EnqueueOnBusyCore, Decision
<1>3. /\ event_queue \subseteq event_queue' /\ gpu_queue' = gpu_queue
      /\ \A d \in Cores : Occupied(d)' => WillBeServed(d)'
  BY <1>2, DecisionServes DEF ServedInv, NextIsPending
<1>4. RunningIsCurrent'
  BY <1>1, <1>3, MovesKeepRunning DEF ServedInv, SharingInv
<1>5. ASSUME NEW u \in Tasks, state'[u] = "NONE" PROVE ArrivalPending(u)'
  <2>1. state[u] = "NONE"
    BY <1>1, <1>5, MovesBringBackNone
  <2> QED
    BY <1>2, <1>3, <2>1 DEF ServedInv, NextIsPending, ArrivalPending
<1>6. policy = "hybrid" => OneEventPerBusyCore'
  BY <1>2, DecisionDrives DEF ServedInv, SharingInv, OneEventPerBusyCore
<1> QED
  BY <1>1, <1>3, <1>4, <1>5, <1>6 DEF ServedInv, NextIsPending

(* The policies choose a core, so never the GPU, and hybrid never preempts. *)
LEMMA DecisionsAvoidGpu ==
  ASSUME policy \in Policies, NEW t, NEW a \in Decisions(t)
  PROVE  ~GpuTarget(t, a) /\ (policy = "hybrid" => ~a.preempt)
<1>1. PICK c \in Cores : a.core = c
  BY PolicyAssumption DEF Decisions, Edf, Hybrid, Weighted, Choose
<1>2. ~(a.core >= NCores)
  BY <1>1, SizeAssumption DEF Cores
<1>3. policy = "hybrid" => ~a.preempt
  BY DEF Decisions, Hybrid, Choose
<1> QED
  BY <1>2, <1>3 DEF GpuTarget

LEMMA BaselineServes ==
  ASSUME OracleInv, ServedInv, BaselineStep
  PROVE  ServedInv'
<1>1. TypeOK /\ policy \in Policies /\ policy' = policy /\ ExpertNext
  BY DEF OracleInv, PhaseOK, BaselineStep, ExpertNext
<1>2. CASE ProcessEvent
  BY <1>1, <1>2, ProcessEventHandles, ServedOfEvent
<1>3. ASSUME NEW t \in Tasks, NEW a \in Decisions(t), Decide(t, a) PROVE ServedInv'
  BY <1>1, <1>3, DecisionsAvoidGpu, ServedOfDecision DEF Decide
<1>4. CASE EndEpisode
  <2>1. /\ state' = state /\ current_task' = current_task /\ gpu_queue' = gpu_queue
        /\ event_queue' \subseteq event_queue /\ pc' = "done"
    BY <1>4 DEF EndEpisode, LoopEnds, taskVars, coreVars
  <2> QED
    BY <1>1, <2>1, SharingKept DEF ServedInv, RunningIsCurrent, NextIsPending, OneEventPerBusyCore
<1> QED
  BY <1>1, <1>2, <1>3, <1>4 DEF ExpertNext

LEMMA ServedInvariant == OracleSpec => [](OracleInv /\ (phase = "baseline" => ServedInv))
<1> DEFINE Inv == OracleInv /\ (phase = "baseline" => ServedInv)
<1>1. OracleInit => Inv
  BY OracleInvInit, ServedInit DEF OracleInit, ExpertInit
<1>2. Inv /\ [OracleNext]_allVars => Inv'
  <2> SUFFICES ASSUME Inv, [OracleNext]_allVars, OracleInv', phase' = "baseline" PROVE ServedInv'
    BY BaselineKeeps, StartReplayKeeps, ReplayKeeps, StopReplayKeeps, DrainKeeps, RestKeeps
       DEF OracleNext
  <2>1. CASE UNCHANGED allVars
    <3>1. /\ UNCHANGED <<pc, state, current_task, gpu_queue, event_queue, policy>>
          /\ phase = "baseline"
      BY <2>1 DEF allVars, expertVars, vars, oracleVars, loopVars, taskVars, coreVars
    <3> QED
      BY <3>1 DEF ServedInv, SharingInv, Mutex, OneCorePerTask, CurrentIsStarted, ArrivesOnce,
         RunningIsCurrent, NextIsPending, ArrivalPending, Occupied, WillBeServed, CoreEvents,
         OneEventPerBusyCore, CoreIsDriven
  <2>2. CASE OracleNext
    <3>1. BaselineStep
      BY <2>2 DEF OracleNext, StartReplay, ReplayEvent, ReplayDecision, StopReplay, DrainEvent,
                  IgnoreDecision, Return, oracleVars
    <3>2. phase = "baseline"
      BY <3>1 DEF BaselineStep
    <3> QED
      BY <3>1, <3>2, BaselineServes
  <2> QED
    BY <2>1, <2>2
<1> HIDE DEF Inv
<1>3. OracleSpec => []Inv
  BY <1>1, <1>2, PTL DEF OracleSpec
<1> QED
  BY <1>3 DEF Inv

(* No expert leaves a task behind: once no arrival and no event of a core  *)
(* is pending, every task has completed - or, under a policy that          *)
(* preempts, a core keeps a finished task (run_episode with the policies   *)
(* of slm_sim/experts, _handle_task_completion). *)
THEOREM NobodyIsStranded == OracleSpec => []NothingStranded
<1>1. OracleInv /\ (phase = "baseline" => ServedInv) => NothingStranded
  <2> SUFFICES ASSUME OracleInv, phase = "baseline" => ServedInv, policy \in Policies,
                      pc = "event", NothingPending,
                      ~(policy # "hybrid" /\ \E c \in Cores : KeepsFinished(c))
               PROVE  Terminated = Tasks
    BY DEF NothingStranded
  <2>1. TypeOK /\ ServedInv /\ WorkConserving
    BY PolicyAssumption DEF OracleInv, PhaseOK
  <2>2. /\ state \in [Tasks -> TaskState]
        /\ current_task \in [Cores -> Tasks \cup {NoTask}]
    BY <2>1 DEF TypeOK, TasksOK, CoresOK
  <2>3. (\A t \in Tasks : ~ArrivalPending(t)) /\ \A c \in Cores : CoreEvents(c) = {}
    BY DEF NothingPending, ArrivalPending, CoreEvents, TASK_ARRIVAL, TASK_COMPLETION,
           QUANTUM_EXPIRED, DEADLINE_CHECK, MIGRATION_CHECK
  <2>4. \A c \in Cores : current_task[c] = NoTask
    <3>1. CASE policy = "hybrid"
      BY <2>1, <2>3, <3>1 DEF ServedInv, OneEventPerBusyCore, CoreIsDriven
    <3>2. CASE policy # "hybrid"
      <4>1. \A c \in Cores : ~Occupied(c)
        BY <2>1, <2>3 DEF ServedInv, NextIsPending, WillBeServed
      <4> QED
        BY <2>1, <3>2, <4>1 DEF ServedInv, SharingInv, Mutex, CurrentIsStarted, Occupied,
                                KeepsFinished
    <3> QED
      BY <3>1, <3>2
  <2>5. \A t \in Tasks : state[t] \notin {"NONE", "READY", "RUNNING"}
    <3>1. \A t \in Tasks : state[t] # "NONE"
      BY <2>1, <2>3 DEF ServedInv, NextIsPending
    <3>2. \A t \in Tasks : state[t] # "READY"
      BY <2>1, <2>4 DEF ServedInv, WorkConserving
    <3>3. NoTask \notin Tasks
      BY SizeAssumption DEF NoTask, Tasks
    <3>4. \A t \in Tasks : state[t] # "RUNNING"
      BY <2>1, <2>4, <3>3 DEF ServedInv, RunningIsCurrent
    <3> QED
      BY <3>1, <3>2, <3>4
  <2> QED
    BY <2>2, <2>5 DEF Terminated, TaskState
<1> QED
  BY <1>1, ServedInvariant, PTL

-----------------------------------------------------------------------------
(* The oracle samples from all actions of a platform with a core that is   *)
(* not isolated. *)
SamplesThePlatform == Actions = SchedulingAction(NCores) /\ Migratable # {}

LEMMA DefaultExists ==
  ASSUME SamplesThePlatform
  PROVE  \E c \in Migratable : Choose(c, 1, FALSE) \in DefaultAction
<1>1. Migratable \subseteq Nat /\ Migratable # {}
  BY SizeAssumption DEF SamplesThePlatform, Migratable, Cores
<1>2. PICK c \in Migratable : \A d \in Migratable : c <= d
  BY <1>1, SmallestNumber
<1>3. Choose(c, 1, FALSE) \in Actions
  BY SizeAssumption DEF SamplesThePlatform, SchedulingAction, Choose, Migratable, Cores
<1> QED
  BY <1>2, <1>3 DEF DefaultAction, Choose

LEMMA DefaultScores ==
  ASSUME TypeOK, NEW t \in Tasks, NEW c \in Migratable
  PROVE  ImmediateScore(t, Choose(c, 1, FALSE)) \in Nat
<1> DEFINE d == Choose(c, 1, FALSE)
           load == Larger(0, 10 - 2 * Load(c))
           cache == IF WorkingSet[t] <= CacheSize[c] THEN 3 ELSE 0
           boost == IF d.adj = 2 /\ Urgent(t) THEN 2 ELSE 0
<1>1. d.core = c /\ d.adj = 1 /\ d.preempt = FALSE /\ c \in Cores /\ c \notin Isolated
  BY DEF Choose, Migratable
<1>2. ~(c >= NCores)
  BY <1>1, SizeAssumption DEF Cores
<1>3. Len(run_queue[c]) \in Nat
  BY <1>1, LenProperties DEF TypeOK, CoresOK
<1>4. Load(c) = Len(run_queue[c]) + 1 \/ Load(c) = Len(run_queue[c]) + 0
  BY DEF Load
<1>5. Load(c) \in Nat
  <2> DEFINE k == Len(run_queue[c])
  <2>1. k \in Nat /\ (Load(c) = k + 1 \/ Load(c) = k + 0)
    BY <1>3, <1>4
  <2> HIDE DEF k
  <2> QED
    BY <2>1
<1>6. load \in Nat
  BY <1>5 DEF Larger
<1>7. UrgencyBonus(t) \in {0, 10, 20} /\ PreemptionBonus(t, d) = 0
  BY <1>1 DEF UrgencyBonus, PreemptionBonus
<1>8. boost = 0
  <2> HIDE DEF d
  <2> QED
    BY <1>1
<1>9. cache \in {0, 3}
  OBVIOUS
<1>10. ImmediateScore(t, d) = load + UrgencyBonus(t) + cache + boost + PreemptionBonus(t, d)
  <2> HIDE DEF d
  <2> QED
    BY <1>1, <1>2 DEF ImmediateScore
<1> HIDE DEF d, load, cache, boost
<1>11. ImmediateScore(t, d) \in Nat
  BY <1>6, <1>7, <1>8, <1>9, <1>10
<1> QED
  BY <1>11 DEF d

LEMMA BestIsObeyed ==
  ASSUME TypeOK, SamplesThePlatform, NEW t \in Tasks, NEW a \in Actions, IsBestOfSample(t, a)
  PROVE  Targets(a, a.core) \/ GpuTarget(t, a)
<1>1. PICK c \in Migratable : Choose(c, 1, FALSE) \in DefaultAction
  BY DefaultExists
<1> DEFINE d == Choose(c, 1, FALSE)
<1>2. ImmediateScore(t, d) <= ImmediateScore(t, a)
  BY <1>1 DEF IsBestOfSample, NotBetter
<1>3. ImmediateScore(t, d) \in Nat
  BY DefaultScores
<1> HIDE DEF d
<1>4. CASE a.core >= NCores
  <2>1. CASE t \in CanUseGpu /\ GpuAvailable
    BY <1>4, <2>1 DEF GpuTarget
  <2>2. CASE ~(t \in CanUseGpu /\ GpuAvailable)
    <3>1. ImmediateScore(t, a) = -10
      BY <1>4, <2>2 DEF ImmediateScore
    <3> QED
      BY <1>2, <1>3, <3>1
  <2> QED
    BY <2>1, <2>2
<1>5. CASE ~(a.core >= NCores) /\ a.core \in Isolated
  <2>1. ImmediateScore(t, a) = -20
    BY <1>5 DEF ImmediateScore
  <2> QED
    BY <1>2, <1>3, <2>1
<1>6. CASE ~(a.core >= NCores) /\ a.core \notin Isolated
  BY <1>6 DEF Targets
<1> QED
  BY <1>4, <1>5, <1>6

(* The replay takes no action that apply_action carries out as another one *)
(* (_score_action, apply_action). *)
THEOREM ReplayIsObeyed ==
  ASSUME SamplesThePlatform
  PROVE  OracleSpec => ActionsAreObeyed
<1>1. OracleInv /\ [OracleNext]_allVars =>
        [\A t \in Tasks :
           phase = "replay" /\ IsPicked(t) /\ Len(best_actions') > Len(best_actions)
             => LET a == best_actions'[Len(best_actions')]
                IN  Targets(a, a.core) \/ GpuTarget(t, a)]_allVars
  <2> SUFFICES ASSUME OracleInv, OracleNext, NEW t \in Tasks, phase = "replay", IsPicked(t),
                      Len(best_actions') > Len(best_actions)
               PROVE  LET a == best_actions'[Len(best_actions')]
                      IN  Targets(a, a.core) \/ GpuTarget(t, a)
    OBVIOUS
  <2>1. TypeOK /\ best_actions \in Seq(Actions)
    BY DEF OracleInv, PhaseOK
  <2>2. PICK u \in Tasks, a \in Actions : ReplayDecision(u, a)
    <3>1. best_actions' # best_actions
      BY <2>1
    <3> QED
      BY <3>1 DEF OracleNext, BaselineStep, StartReplay, ReplayEvent, StopReplay, DrainEvent,
                  IgnoreDecision, Return, oracleVars
  <2>3. u = t
    <3>1. ~(Better(t, u) /\ Better(u, t))
      <4>1. /\ effective_priority \in [Tasks -> Priorities]
            /\ arrival_time_ns \in [Tasks -> Nat]
        BY <2>1 DEF TypeOK, TasksOK
      <4>2. ASSUME NEW x \in Tasks
            PROVE  x \in Int /\ effective_priority[x] \in Int /\ arrival_time_ns[x] \in Int
        <5>1. effective_priority[x] \in Priorities /\ arrival_time_ns[x] \in Nat
          BY <4>1
        <5> QED
          BY <5>1 DEF Tasks, Priorities, PRIORITY_CRITICAL
      <4> QED
        BY <4>2 DEF Better
    <3> QED
      BY <2>2, <3>1 DEF ReplayDecision, IsPicked
  <2>4. best_actions'[Len(best_actions')] = a
    BY <2>1, <2>2, AppendProperties DEF ReplayDecision
  <2>5. Targets(a, a.core) \/ GpuTarget(t, a)
    BY <2>1, <2>2, <2>3, BestIsObeyed DEF ReplayDecision
  <2> QED
    BY <2>4, <2>5
<1> QED
  BY <1>1, OracleInvariant, PTL DEF OracleSpec, ActionsAreObeyed
=============================================================================
