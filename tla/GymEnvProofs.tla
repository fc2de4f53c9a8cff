---------------------------- MODULE GymEnvProofs ----------------------------
(***************************************************************************)
(* The environment of GymEnv for every workload, platform and caller: each *)
(* completion is credited to one call of step, an episode that has been    *)
(* reported as terminated stays as it is until a reset, and the caller     *)
(* that stops there drives the engine as run_episode does.                 *)
(***************************************************************************)
EXTENDS GymEnv, SimEngineAccounts

GymTypeOK ==
  /\ pending \in Tasks \cup {NoTask}
  /\ stepping \in BOOLEAN
  /\ terminated \in BOOLEAN
  /\ credited \in [Tasks -> Nat]

(* Before the first call of step nothing has started, so that nothing has  *)
(* completed either. *)
NothingDone ==
  ~ stepping => /\ \A t \in Tasks : state[t] \in {"NONE", "READY"}
                /\ recently_completed = <<>>

(* When the caller is to decide, the pending task is the one to decide on. *)
PendingIsNext == pc = "decide" => IsPicked(pending)

(* After the end only events beyond the episode are left, and the          *)
(* completions have been paid for. *)
OnlyLateEvents ==
  /\ pc = "done" => terminated
  /\ terminated => /\ pc # "decide" /\ pending = NoTask
                   /\ \A e \in event_queue : e.ts > EpisodeDuration
                   /\ pc = "event" => recently_completed = <<>>

GymInv ==
  /\ TypeOK /\ GymTypeOK
  /\ SharingInv
  /\ NothingDone
  /\ PendingIsNext
  /\ OnlyLateEvents
  /\ CreditedOnce

-----------------------------------------------------------------------------
(* What the steps of the engine do to what the environment looks at.       *)

(* The loop's part of a handled event. *)
LEMMA EventLoop ==
  ASSUME NEW e \in event_queue, Handled(e)
  PROVE  /\ pc = "event" /\ pc' \in {"event", "decide"}
         /\ UNCHANGED rewardVars
         /\ e.ts <= EpisodeDuration
BY DEF Handled, HandleTaskArrival, HandleTaskCompletion, DropStaleCompletion, DropIdleQuantum,
       FreeCoreOfDeadTask, FinishInQuantum, PreemptAtQuantum, HandleDeadlineCheck, MigrateTask,
       SkipMigration, PopEvent, NeedsDecision, NoDecision

LEMMA DecisionLoop ==
  ASSUME NEW t, NEW a, ApplyAction(t, a)
  PROVE  pc = "decide" /\ pc' = "event" /\ UNCHANGED <<clock_ns, metrics>>
BY DEF ApplyAction, AssignToGpu, PreemptCurrent, StartOnIdleCore, EnqueueOnBusyCore, Decision

(* A handled event completes one task and records it, or none. *)
LEMMA EventCompletes ==
  ASSUME TypeOK, SharingInv, NEW e \in event_queue, Handled(e)
  PROVE  \/ \E t \in Tasks : Completes(t)
         \/ /\ SameTerminated /\ recently_completed' = recently_completed
            /\ \/ state' = state \/ \E t \in Tasks : state[t] = "RUNNING"
               \/ \E t \in Tasks : state' = [state EXCEPT ![t] = "READY"]
<1>1. CASE HandleTaskArrival(e)
  BY <1>1, ArrivalKeepsAccounts, ArrivalIsMove DEF SharingInv, KeepsAccounts, HandleTaskArrival
<1>2. CASE HandleTaskCompletion(e)
  BY <1>2, CompletionCompletes
<1>3. CASE ~ HandleTaskArrival(e) /\ ~ HandleTaskCompletion(e)
  BY <1>3, OthersKeepAccounts DEF KeepsAccounts
<1> QED
  BY <1>1, <1>2, <1>3

(* What is owed grows by what is recorded. *)
LEMMA OwedGrows ==
  ASSUME TypeOK, SharingInv, NEW e \in event_queue, Handled(e), NEW u \in Tasks
  PROVE  /\ OccursIn(u, recently_completed) \in Nat
         /\ OccursIn(u, recently_completed') \in Nat
         /\ Owed(u)' + OccursIn(u, recently_completed)
              = Owed(u) + OccursIn(u, recently_completed')
<1>1. recently_completed \in Seq(Tasks)
  BY DEF TypeOK, AccountsOK
<1>2. PICK m \in Nat : m = OccursIn(u, recently_completed)
  BY <1>1, OccursAppend
<1>3. CASE SameTerminated /\ recently_completed' = recently_completed
  BY <1>2, <1>3 DEF SameTerminated, Owed
<1>4. ASSUME NEW t \in Tasks, Completes(t)
      PROVE  /\ OccursIn(u, recently_completed') \in Nat
             /\ Owed(u)' + m = Owed(u) + OccursIn(u, recently_completed')
  <2>1. recently_completed' = Append(recently_completed, t)
    BY <1>4 DEF Completes, RecordCompletion
  <2>2. Owed(u)' = Owed(u) + (IF u = t THEN 1 ELSE 0) /\ Owed(u) \in Nat
    BY <1>4 DEF Completes, Owed
  <2>3. OccursIn(u, recently_completed') = m + (IF u = t THEN 1 ELSE 0)
    BY <1>1, <1>2, <2>1, OccursAppend
  <2> QED
    BY <2>2, <2>3
<1> QED
  BY <1>2, <1>3, <1>4, EventCompletes

(* What CreditedOnce says of the state it is in. *)
LEMMA CreditedMeans ==
  /\ CreditedOnce <=> \A t \in Tasks :
       credited[t] + (IF pc = "event" /\ ~ terminated THEN OccursIn(t, recently_completed) ELSE 0)
         = Owed(t)
  /\ CreditedOnce' <=> \A t \in Tasks :
       credited'[t] + (IF pc' = "event" /\ ~ terminated'
                       THEN OccursIn(t, recently_completed') ELSE 0)
         = Owed(t)'
BY DEF CreditedOnce, Uncredited, Occurrences, OccursIn, Owed

LEMMA EventTimes ==
  ASSUME TypeOK
  PROVE  \A e \in event_queue : e.ts \in Nat
BY DEF TypeOK, LoopOK, Event, ArrivalEvent, CompletionEvent, QuantumEvent, PeriodicEvent

-----------------------------------------------------------------------------
(* GymInv is inductive.                                                    *)
LEMMA GymInvInit == GymInit => GymInv
<1> SUFFICES ASSUME GymInit PROVE GymInv
  OBVIOUS
<1>1. TypeOK /\ SharingInv /\ Init
  BY InitType, SharingInit DEF GymInit
<1>2. GymTypeOK
  BY DEF GymInit, GymTypeOK
<1>3. NothingDone /\ PendingIsNext /\ OnlyLateEvents
  BY <1>1 DEF GymInit, Init, NothingDone, PendingIsNext, OnlyLateEvents
<1>4. \A t \in Tasks : OccursIn(t, recently_completed) = 0 /\ Owed(t) = 0 /\ credited[t] = 0
  BY <1>1, OccursEmpty DEF GymInit, Init, Owed
<1>5. CreditedOnce
  BY <1>4, CreditedMeans
<1> QED
  BY <1>1, <1>2, <1>3, <1>5 DEF GymInv

LEMMA TurnLoopKeeps ==
  ASSUME GymInv, TurnLoop
  PROVE  GymInv' /\ ~ terminated
<1>1. PICK e \in event_queue : Handled(e)
  BY ProcessEventHandles DEF TurnLoop
<1>2. /\ TypeOK /\ SharingInv /\ GymTypeOK
      /\ TypeOK' /\ SharingInv'
  BY <1>1, ProcessEventType, SharingOfEvent DEF GymInv, TurnLoop
<1>3. ~ terminated /\ terminated' = terminated /\ stepping' = stepping
  BY <1>1, <1>2, EventLoop, EventTimes, TimingAssumption DEF GymInv, OnlyLateEvents, TurnLoop
<1>4. pc = "event" /\ pc' \in {"event", "decide"}
  BY <1>1, EventLoop
<1>5. OnlyLateEvents'
  BY <1>3, <1>4 DEF OnlyLateEvents
<1>6. NothingDone'
  <2> SUFFICES ASSUME ~ stepping
               PROVE  /\ \A t \in Tasks : state'[t] \in {"NONE", "READY"}
                      /\ recently_completed' = <<>>
    BY <1>3 DEF NothingDone
  <2>1. (\A t \in Tasks : state[t] \in {"NONE", "READY"}) /\ recently_completed = <<>>
    BY DEF GymInv, NothingDone
  <2>2. /\ recently_completed' = recently_completed
        /\ state' = state \/ \E t \in Tasks : state' = [state EXCEPT ![t] = "READY"]
    BY <1>1, <1>2, <2>1, EventCompletes DEF Completes
  <2> QED
    BY <1>2, <2>1, <2>2 DEF TypeOK, TasksOK
<1>7. PendingIsNext'
  BY DEF TurnLoop, PendingIsPicked, PendingIsNext, IsPicked, Better
<1>8. ASSUME NEW t \in Tasks
      PROVE  /\ credited'[t] \in Nat
             /\ credited'[t] + (IF pc' = "event" /\ ~ terminated'
                                THEN OccursIn(t, recently_completed') ELSE 0) = Owed(t)'
  <2>1. PICK k \in Nat, m \in Nat, n \in Nat :
          /\ k = credited[t] /\ m = OccursIn(t, recently_completed)
          /\ n = OccursIn(t, recently_completed')
    BY <1>1, <1>2, OwedGrows DEF GymTypeOK
  <2>2. k + m = Owed(t) /\ Owed(t)' + m = Owed(t) + n /\ Owed(t)' \in Nat
    <3>1. k + m = Owed(t)
      BY <1>3, <1>4, <2>1, CreditedMeans DEF GymInv
    <3>2. Owed(t)' + m = Owed(t) + n
      BY <1>1, <1>2, <2>1, OwedGrows
    <3> QED
      BY <3>1, <3>2 DEF Owed
  <2>3. k + n = Owed(t)'
    BY <2>1, <2>2
  <2>4. CASE pc' = "event"
    BY <1>3, <2>1, <2>3, <2>4 DEF TurnLoop
  <2>5. CASE pc' = "decide" /\ stepping
    <3>1. credited'[t] = k + n
      BY <2>1, <2>5 DEF TurnLoop, ReturnReward, Occurrences, OccursIn
    <3> QED
      BY <2>1, <2>3, <2>5, <3>1
  <2>6. CASE pc' = "decide" /\ ~ stepping
    <3>1. credited'[t] = k /\ recently_completed' = <<>>
      BY <1>3, <1>6, <2>1, <2>6 DEF TurnLoop, ReturnReward, NothingDone
    <3> QED
      BY <2>1, <2>3, <2>6, <3>1, OccursEmpty
  <2> QED
    BY <1>4, <2>4, <2>5, <2>6
<1>9. CreditedOnce'
  BY <1>8, CreditedMeans
<1>10. GymTypeOK'
  <2>1. credited' = credited \/ credited' = [t \in Tasks |-> credited[t] + Occurrences(t)']
    BY DEF TurnLoop, ReturnReward
  <2>2. credited' \in [Tasks -> Nat]
    BY <1>2, <1>8, <2>1 DEF GymTypeOK
  <2>3. pending' \in Tasks \cup {NoTask}
    BY <1>2 DEF TurnLoop, GymTypeOK
  <2> QED
    BY <1>2, <1>3, <2>2, <2>3 DEF GymTypeOK
<1> QED
  BY <1>2, <1>3, <1>5, <1>6, <1>7, <1>9, <1>10 DEF GymInv

(* What is credited when the loop ends: what was still owed. *)
LEMMA EndCredits ==
  ASSUME GymInv, EndLoop
  PROVE  \A t \in Tasks :
           /\ credited'[t] = credited[t] + OccursIn(t, recently_completed)
           /\ credited'[t] = Owed(t)
           /\ terminated \/ ~ stepping => credited'[t] = credited[t]
<1> SUFFICES ASSUME NEW t \in Tasks
             PROVE  /\ credited'[t] = credited[t] + OccursIn(t, recently_completed)
                    /\ credited'[t] = Owed(t)
                    /\ terminated \/ ~ stepping => credited'[t] = credited[t]
  OBVIOUS
<1>1. recently_completed \in Seq(Tasks) /\ recently_completed' = recently_completed /\ pc = "event"
  BY DEF GymInv, TypeOK, AccountsOK, EndLoop, accountVars
<1>2. PICK k \in Nat, m \in Nat : k = credited[t] /\ m = OccursIn(t, recently_completed)
  BY <1>1, OccursAppend DEF GymInv, GymTypeOK
<1>3. terminated \/ ~ stepping => m = 0
  BY <1>1, <1>2, OccursEmpty DEF GymInv, NothingDone, OnlyLateEvents
<1>4. credited'[t] = k + m
  BY <1>1, <1>2, <1>3 DEF EndLoop, ReturnReward, Occurrences, OccursIn
<1>5. k + m = Owed(t)
  BY <1>1, <1>2, <1>3, CreditedMeans DEF GymInv
<1> QED
  BY <1>2, <1>3, <1>4, <1>5

LEMMA EndLoopKeeps ==
  ASSUME GymInv, EndLoop
  PROVE  GymInv'
<1>1. /\ pc' = "done" /\ pending' = NoTask /\ terminated' = TRUE
      /\ UNCHANGED <<clock_ns, event_ts, event_sequence, taskVars, coreVars, core_busy_ns,
                     gpu_queue, accountVars, rewardVars, stepping>>
  BY DEF EndLoop
<1>2. event_queue' \subseteq event_queue
  BY DEF EndLoop, LoopEnds
<1>3. TypeOK'
  BY <1>1, <1>2 DEF GymInv, TypeOK, LoopOK, TasksOK, CoresOK, AccountsOK, taskVars, coreVars,
                    accountVars, rewardVars
<1>4. SharingInv'
  BY <1>1, <1>2, SharingKept DEF GymInv, taskVars, coreVars
<1>5. NothingDone' /\ PendingIsNext'
  BY <1>1 DEF GymInv, NothingDone, PendingIsNext, taskVars, accountVars
<1>6. OnlyLateEvents'
  <2>1. \A f \in event_queue' : f.ts > EpisodeDuration
    <3>1. CASE event_queue = {}
      BY <1>2, <3>1
    <3>2. ASSUME NEW e \in event_queue, IsNextEvent(e), e.ts > EpisodeDuration,
                 event_queue' = event_queue \ {e}
          PROVE  \A f \in event_queue' : f.ts > EpisodeDuration
      BY <3>2, EventTimes, TimingAssumption DEF IsNextEvent, Before, GymInv
    <3> QED
      BY <3>1, <3>2 DEF EndLoop, LoopEnds
  <2> QED
    BY <1>1, <2>1 DEF OnlyLateEvents
<1>7. \A t \in Tasks : credited'[t] + 0 = Owed(t)' /\ credited'[t] \in Nat
  BY <1>1, EndCredits DEF Owed, taskVars
<1>8. CreditedOnce'
  BY <1>1, <1>7, CreditedMeans
<1>9. GymTypeOK'
  <2>1. credited' = credited \/ credited' = [t \in Tasks |-> credited[t] + Occurrences(t)']
    BY DEF EndLoop, ReturnReward
  <2>2. credited' \in [Tasks -> Nat]
    BY <1>7, <2>1 DEF GymInv, GymTypeOK
  <2> QED
    BY <1>1, <2>2 DEF GymInv, GymTypeOK
<1> QED
  BY <1>3, <1>4, <1>5, <1>6, <1>8, <1>9 DEF GymInv

(* A step of the caller is a decision on the task that the loop picked. *)
LEMMA StepDecides ==
  ASSUME GymInv, NEW a \in Actions, Step(a)
  PROVE  /\ ~ terminated /\ pc = "decide" /\ pc' = "event"
         /\ \E t \in Tasks : t = pending /\ IsPicked(t) /\ ApplyAction(t, a)
<1>1. PICK t \in Tasks : t = pending
  BY DEF GymInv, GymTypeOK, Step
<1>2. ApplyAction(t, a)
  BY <1>1 DEF Step
<1>3. pc = "decide" /\ pc' = "event"
  BY <1>2, DecisionLoop
<1>4. IsPicked(t)
  BY <1>1, <1>3 DEF GymInv, PendingIsNext
<1> QED
  BY <1>1, <1>2, <1>3, <1>4 DEF GymInv, OnlyLateEvents

LEMMA StepKeeps ==
  ASSUME GymInv, NEW a \in Actions, Step(a)
  PROVE  GymInv'
<1>1. /\ ~ terminated /\ pc = "decide" /\ pc' = "event"
      /\ recently_completed' = <<>> /\ stepping' = TRUE
      /\ UNCHANGED <<rewardVars, pending, terminated, credited>>
  BY StepDecides DEF Step
<1>2. PICK t \in Tasks : IsPicked(t) /\ ApplyAction(t, a)
  BY StepDecides
<1>3. TypeOK'
  <2>1. RewardsOK'
    BY <1>1 DEF RewardsOK, rewardVars, GymInv, TypeOK, AccountsOK
  <2> QED
    BY <1>2, <2>1, ActionAssumption, ApplyActionType DEF GymInv
<1>4. SharingInv' /\ KeepsAccounts
  BY <1>2, SharingOfDecision, DecisionKeepsAccounts DEF GymInv
<1>5. \A u \in Tasks : credited[u] + 0 = Owed(u) /\ Owed(u)' = Owed(u)
  BY <1>1, <1>4, CreditedMeans DEF GymInv, KeepsAccounts, SameTerminated, Owed
<1>6. CreditedOnce'
  BY <1>1, <1>5, CreditedMeans, OccursEmpty
<1>7. GymTypeOK' /\ NothingDone' /\ PendingIsNext' /\ OnlyLateEvents'
  BY <1>1 DEF GymInv, GymTypeOK, NothingDone, PendingIsNext, OnlyLateEvents
<1> QED
  BY <1>3, <1>4, <1>6, <1>7 DEF GymInv

LEMMA StepAfterEndKeeps ==
  ASSUME GymInv, StepAfterEnd
  PROVE  GymInv'
<1>1. /\ pc = "done" /\ pc' = "event" /\ recently_completed' = <<>> /\ stepping' = TRUE
      /\ UNCHANGED <<clock_ns, event_ts, event_queue, event_sequence, taskVars, coreVars,
                     core_busy_ns, gpu_queue, memory_used, metrics, finish_time, rewardVars,
                     pending, terminated, credited>>
  BY DEF StepAfterEnd
<1>2. TypeOK'
  <2>1. <<>> \in Seq(Tasks)
    OBVIOUS
  <2>2. LoopOK'
    BY <1>1 DEF GymInv, TypeOK, LoopOK
  <2>3. TasksOK' /\ CoresOK'
    BY <1>1 DEF GymInv, TypeOK, TasksOK, CoresOK, taskVars, coreVars
  <2>4. AccountsOK'
    BY <1>1, <2>1 DEF GymInv, TypeOK, AccountsOK, rewardVars
  <2> QED
    BY <2>2, <2>3, <2>4 DEF TypeOK
<1>3. SharingInv'
  BY <1>1, SharingKept DEF GymInv, taskVars, coreVars
<1>4. GymTypeOK' /\ NothingDone' /\ PendingIsNext' /\ OnlyLateEvents'
  BY <1>1 DEF GymInv, GymTypeOK, NothingDone, PendingIsNext, OnlyLateEvents
<1>5. \A u \in Tasks : credited[u] + 0 = Owed(u) /\ Owed(u)' = Owed(u)
  BY <1>1, CreditedMeans DEF GymInv, Owed, taskVars
<1>6. CreditedOnce'
  BY <1>1, <1>5, CreditedMeans, OccursEmpty
<1> QED
  BY <1>2, <1>3, <1>4, <1>6 DEF GymInv

LEMMA ResetKeeps ==
  ASSUME GymInv, Reset
  PROVE  GymInv'
<1>1. Fresh' /\ UNCHANGED <<rewardVars, pending>>
  BY RestartFresh DEF Reset
<1>2. /\ stepping' = FALSE /\ terminated' = FALSE
      /\ credited' = [t \in Tasks |-> 0]
  BY DEF Reset
<1>3. /\ pc' = "event" /\ recently_completed' = <<>>
      /\ state' = [t \in Tasks |-> "NONE"]
  BY <1>1 DEF Fresh
<1>4. RewardsOK'
  BY <1>1, <1>3 DEF RewardsOK, rewardVars, GymInv, TypeOK, AccountsOK
<1>5. TypeOK' /\ SharingInv'
  BY <1>1, <1>4, FreshNext
<1>6. GymTypeOK' /\ NothingDone' /\ PendingIsNext' /\ OnlyLateEvents'
  BY <1>1, <1>2, <1>3 DEF GymInv, GymTypeOK, NothingDone, PendingIsNext, OnlyLateEvents
<1>7. \A t \in Tasks : OccursIn(t, recently_completed') = 0 /\ Owed(t)' = 0 /\ credited'[t] = 0
  BY <1>2, <1>3, OccursEmpty DEF Owed
<1>8. CreditedOnce'
  BY <1>7, CreditedMeans
<1> QED
  BY <1>5, <1>6, <1>8 DEF GymInv

LEMMA StutterKeeps ==
  ASSUME GymInv, UNCHANGED envVars
  PROVE  GymInv'
<1> USE DEF envVars, gymVars, vars, loopVars, taskVars, coreVars, accountVars, rewardVars
<1>1. TypeOK' /\ GymTypeOK'
  BY DEF GymInv, TypeOK, LoopOK, TasksOK, CoresOK, AccountsOK, GymTypeOK
<1>2. SharingInv'
  BY SharingKept DEF GymInv
<1>3. NothingDone' /\ PendingIsNext' /\ OnlyLateEvents'
  BY DEF GymInv, NothingDone, PendingIsNext, IsPicked, Better, OnlyLateEvents
<1>4. CreditedOnce'
  BY CreditedMeans DEF GymInv, Owed
<1> QED
  BY <1>1, <1>2, <1>3, <1>4 DEF GymInv

LEMMA GymInvStep == GymInv /\ [GymNext]_envVars => GymInv'
BY TurnLoopKeeps, EndLoopKeeps, StepKeeps, StepAfterEndKeeps, ResetKeeps, StutterKeeps
   DEF GymNext, EpisodeNext

LEMMA GymInvariant == GymSpec => []GymInv
BY GymInvInit, GymInvStep, PTL DEF GymSpec
(* Every completion counts in the reward of exactly one call of step, also *)
(* that of the step that ends the episode, whoever calls step and reset    *)
(* and however often (gym_env.py step, _advance_to_next_decision). *)
THEOREM CreditsAreWhole == GymSpec => []CreditedOnce
<1>1. GymInv => CreditedOnce
  BY DEF GymInv
<1> QED
  BY <1>1, GymInvariant, PTL

LEMMA EndStaysEnded ==
  ASSUME GymInv, GymNext, terminated, terminated'
  PROVE  UNCHANGED <<taskVars, coreVars, clock_ns, metrics, credited, pending>>
<1>1. ~ TurnLoop /\ \A a \in Actions : ~ Step(a)
  BY TurnLoopKeeps, StepDecides
<1>2. CASE EndLoop
  <2>1. credited' = credited \/ credited' = [t \in Tasks |-> credited[t] + Occurrences(t)']
    BY <1>2 DEF EndLoop, ReturnReward
  <2>2. credited' = credited
    BY <1>2, <2>1, EndCredits DEF GymInv, GymTypeOK
  <2>3. pending' = pending
    BY <1>2 DEF EndLoop, GymInv, OnlyLateEvents
  <2> QED
    BY <1>2, <2>2, <2>3 DEF EndLoop, accountVars
<1>3. CASE StepAfterEnd
  BY <1>3 DEF StepAfterEnd
<1>4. CASE Reset
  BY <1>4 DEF Reset
<1> QED
  BY <1>1, <1>2, <1>3, <1>4 DEF GymNext, EpisodeNext

(* A caller that goes on after an episode was reported as terminated       *)
(* changes no task, core, clock or counter until it resets (step,          *)
(* _advance_to_next_decision). *)
THEOREM StaysTerminated == GymSpec => TerminatedForGood
<1>1. GymInv /\ [GymNext]_envVars
        => [terminated /\ terminated'
              => UNCHANGED <<taskVars, coreVars, clock_ns, metrics, credited, pending>>]_envVars
  BY EndStaysEnded
<1> QED
  BY <1>1, GymInvariant, PTL DEF GymSpec, TerminatedForGood

-----------------------------------------------------------------------------
(* The environment implements run_episode.  RunEpisode is SimEngine with   *)
(* another log, so that each of its operators is, once expanded, the one   *)
(* of SimEngine, but for what it says of the log.                          *)
LogStays == UNCHANGED <<stepping, [t \in Tasks |-> LoggedBy(t)]>>

LEMMA SamePop ==
  ASSUME NEW e, NEW type, PopEvent(e, type), LogStays
  PROVE  RunEpisode!PopEvent(e, type)
BY DEF PopEvent, RunEpisode!PopEvent, IsNextEvent, RunEpisode!IsNextEvent, UpdateCoreBusyTime,
       RunEpisode!UpdateCoreBusyTime, RunEpisode!rewardVars, LogStays, RunEpisode!Cores, Cores,
       RunEpisode!Before, Before, RunEpisode!Tasks, Tasks, RunEpisode!NoTask, NoTask

LEMMA SameStartNext ==
  ASSUME NEW e, NEW c, NEW st, NEW asg, NEW switched,
         StartNextFromQueue(e, c, st, asg, switched)
  PROVE  RunEpisode!StartNextFromQueue(e, c, st, asg, switched)
BY DEF RunEpisode!StartNextFromQueue, StartNextFromQueue, RunEpisode!IdleCore, IdleCore,
       RunEpisode!StartQueued, StartQueued, RunEpisode!IsFirstReady, IsFirstReady,
       RunEpisode!Push, Push, RunEpisode!PushNothing, PushNothing, RunEpisode!RunEvent, RunEvent,
       RunEpisode!NewEvent, NewEvent, RunEpisode!AdjustedDuration, AdjustedDuration,
       RunEpisode!NoTask, NoTask, RunEpisode!TASK_COMPLETION, TASK_COMPLETION,
       RunEpisode!QUANTUM_EXPIRED, QUANTUM_EXPIRED
LEMMA SameHandlers ==
  ASSUME NEW e, LogStays
  PROVE  /\ HandleTaskArrival(e) => RunEpisode!HandleTaskArrival(e)
         /\ HandleTaskCompletion(e) => RunEpisode!HandleTaskCompletion(e)
         /\ DropStaleCompletion(e) => RunEpisode!DropStaleCompletion(e)
         /\ DropIdleQuantum(e) => RunEpisode!DropIdleQuantum(e)
         /\ FreeCoreOfDeadTask(e) => RunEpisode!FreeCoreOfDeadTask(e)
         /\ FinishInQuantum(e) => RunEpisode!FinishInQuantum(e)
         /\ PreemptAtQuantum(e) => RunEpisode!PreemptAtQuantum(e)
         /\ HandleDeadlineCheck(e) => RunEpisode!HandleDeadlineCheck(e)
         /\ \A from, to \in Migratable :
              MigrateTask(e, from, to) => RunEpisode!MigrateTask(e, from, to)
         /\ SkipMigration(e) => RunEpisode!SkipMigration(e)
<1>1. HandleTaskArrival(e) => RunEpisode!HandleTaskArrival(e)
  BY SamePop DEF RunEpisode!HandleTaskArrival, HandleTaskArrival, RunEpisode!TASK_ARRIVAL,
     TASK_ARRIVAL, RunEpisode!PushNothing, PushNothing, RunEpisode!NeedsDecision, NeedsDecision,
     RunEpisode!coreVars, coreVars, RunEpisode!Tasks, Tasks, RunEpisode!NoCore, NoCore
<1>2. HandleTaskCompletion(e) => RunEpisode!HandleTaskCompletion(e)
  BY SamePop, SameStartNext DEF RunEpisode!HandleTaskCompletion, HandleTaskCompletion,
     RunEpisode!TASK_COMPLETION, TASK_COMPLETION, RunEpisode!MayComplete, MayComplete,
     RunEpisode!RecordCompletion, RecordCompletion, RunEpisode!Count, Count, RunEpisode!Deadline,
     Deadline, RunEpisode!FreeMemory, FreeMemory, RunEpisode!Larger, Larger,
     RunEpisode!PushNothing, PushNothing, RunEpisode!NeedsDecision, NeedsDecision,
     RunEpisode!coreVars, coreVars, RunEpisode!Tasks, Tasks
<1>3. DropStaleCompletion(e) => RunEpisode!DropStaleCompletion(e)
  BY SamePop DEF RunEpisode!DropStaleCompletion, DropStaleCompletion,
     RunEpisode!TASK_COMPLETION, TASK_COMPLETION, RunEpisode!MayComplete, MayComplete,
     RunEpisode!PushNothing, PushNothing, RunEpisode!NoDecision, NoDecision, RunEpisode!taskVars,
     taskVars, RunEpisode!coreVars, coreVars, RunEpisode!accountVars, accountVars
<1>4. DropIdleQuantum(e) => RunEpisode!DropIdleQuantum(e)
  BY SamePop DEF RunEpisode!DropIdleQuantum, DropIdleQuantum, RunEpisode!QUANTUM_EXPIRED,
     QUANTUM_EXPIRED, RunEpisode!NoTask, NoTask, RunEpisode!PushNothing, PushNothing,
     RunEpisode!NoDecision, NoDecision, RunEpisode!taskVars, taskVars, RunEpisode!coreVars,
     coreVars, RunEpisode!accountVars, accountVars
<1>5. FreeCoreOfDeadTask(e) => RunEpisode!FreeCoreOfDeadTask(e)
  BY SamePop DEF RunEpisode!FreeCoreOfDeadTask, FreeCoreOfDeadTask, RunEpisode!QUANTUM_EXPIRED,
     QUANTUM_EXPIRED, RunEpisode!NoTask, NoTask, RunEpisode!PushNothing, PushNothing,
     RunEpisode!NeedsDecision, NeedsDecision, RunEpisode!Tasks, Tasks, RunEpisode!taskVars,
     taskVars, RunEpisode!accountVars, accountVars
<1>6. FinishInQuantum(e) => RunEpisode!FinishInQuantum(e)
  BY SamePop DEF RunEpisode!FinishInQuantum, FinishInQuantum, RunEpisode!QUANTUM_EXPIRED,
     QUANTUM_EXPIRED, RunEpisode!TASK_COMPLETION, TASK_COMPLETION, RunEpisode!NoTask, NoTask,
     RunEpisode!Push, Push, RunEpisode!NewEvent, NewEvent, RunEpisode!NoDecision, NoDecision,
     RunEpisode!coreVars, coreVars, RunEpisode!accountVars, accountVars
<1>7. PreemptAtQuantum(e) => RunEpisode!PreemptAtQuantum(e)
  BY SamePop, SameStartNext DEF RunEpisode!PreemptAtQuantum, PreemptAtQuantum,
     RunEpisode!QUANTUM_EXPIRED, QUANTUM_EXPIRED, RunEpisode!NoTask, NoTask, RunEpisode!NoCore,
     NoCore, RunEpisode!NeedsDecision, NeedsDecision, RunEpisode!Tasks, Tasks,
     RunEpisode!accountVars, accountVars
<1>8. HandleDeadlineCheck(e) => RunEpisode!HandleDeadlineCheck(e)
  BY SamePop DEF RunEpisode!HandleDeadlineCheck, HandleDeadlineCheck, RunEpisode!DEADLINE_CHECK,
     DEADLINE_CHECK, RunEpisode!DeadlineBoost, DeadlineBoost, RunEpisode!Deadline, Deadline,
     RunEpisode!PRIORITY_CRITICAL, PRIORITY_CRITICAL, RunEpisode!PRIORITY_HIGH, PRIORITY_HIGH,
     RunEpisode!Larger, Larger, RunEpisode!Smaller, Smaller, RunEpisode!PushAgain, PushAgain,
     RunEpisode!Push, Push, RunEpisode!PushNothing, PushNothing, RunEpisode!NewEvent, NewEvent,
     RunEpisode!NoTask, NoTask, RunEpisode!NoCore, NoCore, RunEpisode!NoDecision, NoDecision,
     RunEpisode!Tasks, Tasks, RunEpisode!coreVars, coreVars, RunEpisode!accountVars, accountVars
<1>9. \A from, to \in Migratable :
       MigrateTask(e, from, to) => RunEpisode!MigrateTask(e, from, to)
  <2> SUFFICES ASSUME NEW from \in Migratable, NEW to \in Migratable, MigrateTask(e, from, to)
               PROVE  RunEpisode!MigrateTask(e, from, to)
    OBVIOUS
  <2>1. RunEpisode!Imbalanced(from, to)
    BY DEF MigrateTask, RunEpisode!Imbalanced, Imbalanced, RunEpisode!IsLongestQueue,
       IsLongestQueue, RunEpisode!IsShortestQueue, IsShortestQueue, RunEpisode!Migratable,
       Migratable, RunEpisode!Cores, Cores
  <2>2. RunEpisode!PushAgain(e, MigrationCheckInterval) /\ RunEpisode!NoDecision
    BY DEF MigrateTask, RunEpisode!PushAgain, PushAgain, RunEpisode!Push, Push,
       RunEpisode!PushNothing, PushNothing, RunEpisode!NewEvent, NewEvent, RunEpisode!NoTask,
       NoTask, RunEpisode!NoCore, NoCore, RunEpisode!NoDecision, NoDecision
  <2>3. RunEpisode!PopEvent(e, MIGRATION_CHECK)
    BY SamePop DEF MigrateTask
  <2> QED
    BY <2>1, <2>2, <2>3 DEF RunEpisode!MigrateTask, MigrateTask, RunEpisode!MIGRATION_CHECK,
       MIGRATION_CHECK, RunEpisode!accountVars, accountVars
<1>10. SkipMigration(e) => RunEpisode!SkipMigration(e)
  BY SamePop DEF RunEpisode!SkipMigration, SkipMigration, RunEpisode!MIGRATION_CHECK,
     MIGRATION_CHECK, RunEpisode!Imbalanced, Imbalanced, RunEpisode!IsLongestQueue, IsLongestQueue,
     RunEpisode!IsShortestQueue, IsShortestQueue, RunEpisode!Migratable, Migratable,
     RunEpisode!Cores, Cores, RunEpisode!PushAgain, PushAgain, RunEpisode!Push, Push,
     RunEpisode!PushNothing, PushNothing, RunEpisode!NewEvent, NewEvent, RunEpisode!NoTask, NoTask,
     RunEpisode!NoCore, NoCore, RunEpisode!NoDecision, NoDecision, RunEpisode!taskVars, taskVars,
     RunEpisode!coreVars, coreVars, RunEpisode!accountVars, accountVars
<1> QED
  BY <1>1, <1>2, <1>3, <1>4, <1>5, <1>6, <1>7, <1>8, <1>9, <1>10

LEMMA SameProcessEvent ==
  ASSUME ProcessEvent, LogStays
  PROVE  RunEpisode!ProcessEvent
<1>1. RunEpisode!Migratable = Migratable
  BY DEF RunEpisode!Migratable, Migratable, RunEpisode!Cores, Cores
<1> QED
  BY <1>1, SameHandlers DEF ProcessEvent, RunEpisode!ProcessEvent

LEMMA SameDecision ==
  ASSUME NEW t, NEW a
  PROVE  /\ IsPicked(t) => RunEpisode!IsPicked(t)
         /\ ApplyAction(t, a) => RunEpisode!ApplyAction(t, a)
<1>1. IsPicked(t) => RunEpisode!IsPicked(t)
  BY DEF RunEpisode!IsPicked, IsPicked, RunEpisode!Better, Better, RunEpisode!Tasks, Tasks
<1>2. ApplyAction(t, a) => RunEpisode!ApplyAction(t, a)
  BY DEF RunEpisode!ApplyAction, ApplyAction, RunEpisode!AssignToGpu, AssignToGpu,
     RunEpisode!PreemptCurrent, PreemptCurrent, RunEpisode!StartOnIdleCore, StartOnIdleCore,
     RunEpisode!EnqueueOnBusyCore, EnqueueOnBusyCore, RunEpisode!Decision, Decision,
     RunEpisode!GpuTarget, GpuTarget, RunEpisode!Targets, Targets, RunEpisode!IsLeastLoaded,
     IsLeastLoaded, RunEpisode!Load, Load, RunEpisode!Migratable, Migratable, RunEpisode!Preempts,
     Preempts, RunEpisode!InsertInRunQueue, InsertInRunQueue, RunEpisode!IsInsertionPoint,
     IsInsertionPoint, RunEpisode!PushRunEvent, PushRunEvent, RunEpisode!RunEvent, RunEvent,
     RunEpisode!NewEvent, NewEvent, RunEpisode!AdjustedDuration, AdjustedDuration,
     RunEpisode!AdjustPriority, AdjustPriority, RunEpisode!LevelIndex, LevelIndex,
     RunEpisode!PRIORITY_LEVELS, PRIORITY_LEVELS, RunEpisode!Larger, Larger, RunEpisode!Smaller,
     Smaller, RunEpisode!Cores, Cores, RunEpisode!NoTask, NoTask, RunEpisode!NoCore, NoCore,
     RunEpisode!TASK_COMPLETION, TASK_COMPLETION, RunEpisode!QUANTUM_EXPIRED, QUANTUM_EXPIRED
<1> QED
  BY <1>1, <1>2

(* The first state, and each action of the caller, is one of run_episode. *)
LEMMA LogStart ==
  ASSUME GymInit
  PROVE  RunEpisode!Init
<1>1. Init /\ stepping = FALSE /\ [t \in Tasks |-> LoggedBy(t)] = [t \in Tasks |-> 0]
  BY DEF GymInit, Init, LoggedBy
<1> QED
  BY <1>1 DEF Init, RunEpisode!Init, RunEpisode!PeriodicEvents, PeriodicEvents,
              RunEpisode!Arrivals, Arrivals, RunEpisode!Tasks, Tasks, RunEpisode!Cores, Cores,
              RunEpisode!NoTask, NoTask, RunEpisode!NoCore, NoCore,
              RunEpisode!TASK_ARRIVAL, TASK_ARRIVAL, RunEpisode!DEADLINE_CHECK, DEADLINE_CHECK,
              RunEpisode!MIGRATION_CHECK, MIGRATION_CHECK

LEMMA TurnImplements ==
  ASSUME GymInv, TurnLoop
  PROVE  RunEpisode!Next
<1>1. PICK e \in event_queue : Handled(e)
  BY ProcessEventHandles DEF TurnLoop
<1>2. pc = "event" /\ pc' \in {"event", "decide"} /\ stepping' = stepping
  BY <1>1, EventLoop DEF TurnLoop
<1>3. ASSUME NEW t \in Tasks
      PROVE  LoggedBy(t)' = LoggedBy(t)
  <2>1. PICK k \in Nat, n \in Nat : k = credited[t] /\ n = OccursIn(t, recently_completed')
    BY <1>1, OwedGrows DEF GymInv, GymTypeOK
  <2>2. n = Occurrences(t)' /\ LoggedBy(t) = k
    BY <1>2, <2>1 DEF Occurrences, OccursIn, LoggedBy
  <2>3. CASE pc' = "event"
    BY <1>2, <2>1, <2>2, <2>3 DEF TurnLoop, LoggedBy
  <2>4. CASE pc' = "decide"
    BY <1>2, <2>1, <2>2, <2>4 DEF TurnLoop, LoggedBy, ReturnReward
  <2> QED
    BY <1>2, <2>3, <2>4
<1>4. LogStays
  BY <1>2, <1>3 DEF LogStays
<1>5. RunEpisode!ProcessEvent
  BY <1>4, SameProcessEvent DEF TurnLoop
<1> QED
  BY <1>5 DEF RunEpisode!Next

LEMMA SameOccurrences == \A t : RunEpisode!Occurrences(t) = Occurrences(t)
BY DEF RunEpisode!Occurrences, Occurrences, RunEpisode!Cardinality, Cardinality

LEMMA EndImplements ==
  ASSUME GymInv, EndLoop
  PROVE  RunEpisode!Next
<1>1. /\ pc = "event" /\ pc' = "done" /\ stepping' = stepping
      /\ recently_completed' = recently_completed
  BY DEF EndLoop, accountVars
<1>2. ASSUME NEW t \in Tasks
      PROVE  LoggedBy(t)' = IF stepping THEN LoggedBy(t) + Occurrences(t) ELSE LoggedBy(t)
  <2>1. PICK k \in Nat, n \in Nat : k = credited[t] /\ n = OccursIn(t, recently_completed)
    BY OccursAppend DEF GymInv, GymTypeOK, TypeOK, AccountsOK
  <2>2. n = Occurrences(t) /\ LoggedBy(t) = k
    BY <1>1, <2>1 DEF Occurrences, OccursIn, LoggedBy
  <2>3. credited'[t] = k + n /\ (~ stepping => credited'[t] = k)
    BY <2>1, EndCredits
  <2>4. LoggedBy(t)' = credited'[t]
    BY <1>1, <2>1, <2>3 DEF LoggedBy
  <2> QED
    BY <2>2, <2>3, <2>4
<1>3. RunEpisode!EndEpisode
  <2>1. [t \in Tasks |-> LoggedBy(t)]' =
          [t \in Tasks |-> IF stepping THEN LoggedBy(t) + Occurrences(t) ELSE LoggedBy(t)]
    BY <1>2
  <2> QED
    BY <1>1, <2>1, SameOccurrences
       DEF EndLoop, RunEpisode!EndEpisode, LoopEnds, RunEpisode!LoopEnds, RunEpisode!IsNextEvent,
           IsNextEvent, RunEpisode!Before, Before, RunEpisode!Tasks, Tasks, RunEpisode!taskVars, taskVars, RunEpisode!coreVars, coreVars,
           RunEpisode!accountVars, accountVars
<1> QED
  BY <1>3 DEF RunEpisode!Next

LEMMA StepImplements ==
  ASSUME GymInv, NEW a \in Actions, Step(a)
  PROVE  RunEpisode!Next
<1>1. /\ pc = "decide" /\ pc' = "event" /\ stepping' = TRUE /\ recently_completed' = <<>>
      /\ credited' = credited
  BY StepDecides DEF Step
<1>2. PICK t \in Tasks : IsPicked(t) /\ ApplyAction(t, a)
  BY StepDecides
<1>3. ASSUME NEW u \in Tasks
      PROVE  LoggedBy(u)' = IF stepping THEN LoggedBy(u) + Occurrences(u) ELSE LoggedBy(u)
  <2>1. PICK k \in Nat, n \in Nat : k = credited[u] /\ n = OccursIn(u, recently_completed)
    BY OccursAppend DEF GymInv, GymTypeOK, TypeOK, AccountsOK
  <2>2. n = Occurrences(u)
    BY <2>1 DEF Occurrences, OccursIn
  <2>3. LoggedBy(u)' = k /\ LoggedBy(u) = IF stepping THEN k - n ELSE k
    BY <1>1, <2>1, <2>2 DEF LoggedBy
  <2> QED
    BY <2>1, <2>2, <2>3
<1>4. RunEpisode!LogTransition
  <2>1. CASE stepping
    <3>1. [u \in Tasks |-> LoggedBy(u)]' = [u \in Tasks |-> LoggedBy(u) + Occurrences(u)]
      BY <1>3, <2>1
    <3> QED
      BY <1>1, <2>1, <3>1, SameOccurrences
         DEF RunEpisode!LogTransition, RunEpisode!Tasks, Tasks
  <2>2. CASE ~ stepping
    <3>1. [u \in Tasks |-> LoggedBy(u)]' = [u \in Tasks |-> LoggedBy(u)]
      BY <1>3, <2>2
    <3>2. recently_completed' = recently_completed
      BY <1>1, <2>2 DEF GymInv, NothingDone
    <3> QED
      BY <1>1, <2>2, <3>1, <3>2 DEF RunEpisode!LogTransition
  <2> QED
    BY <2>1, <2>2
<1>5. RunEpisode!Decide(t, a)
  BY <1>2, <1>4, SameDecision DEF RunEpisode!Decide
<1> QED
  BY <1>2, <1>5 DEF RunEpisode!Next, RunEpisode!Tasks, Tasks

LEMMA GymImplements ==
  ASSUME GymInv, [GymNext]_envVars, ~ terminated, ~ CallerResets
  PROVE  RunEpisode!Next \/ UNCHANGED RunEpisode!vars
<1>1. CASE StepAfterEnd
  BY <1>1 DEF StepAfterEnd, GymInv, OnlyLateEvents
<1>2. CASE Reset
  BY <1>2 DEF Reset, CallerResets
<1>3. CASE UNCHANGED envVars
  BY <1>3 DEF envVars, vars, gymVars, loopVars, taskVars, coreVars, accountVars, rewardVars,
              RunEpisode!vars, RunEpisode!loopVars, RunEpisode!taskVars, RunEpisode!coreVars,
              RunEpisode!accountVars, RunEpisode!rewardVars, LoggedBy, Occurrences
<1> QED
  BY <1>1, <1>2, <1>3, TurnImplements, EndImplements, StepImplements DEF GymNext, EpisodeNext

(* The environment drives the engine as run_episode does, and returns the  *)
(* rewards that run_episode logs, until the end of the episode or a reset  *)
(* (gym_env.py step, engine.py run_episode). *)
THEOREM GymIsRunEpisode == GymSpec => DrivesLikeRunEpisode
<1>1. GymInit => RunEpisode!Init
  BY LogStart
<1>2. GymInv /\ [GymNext]_envVars
        => [~ terminated /\ ~ CallerResets
              => RunEpisode!Next \/ UNCHANGED RunEpisode!vars]_envVars
  BY GymImplements
<1> QED
  BY <1>1, <1>2, GymInvariant, PTL DEF GymSpec, DrivesLikeRunEpisode
=============================================================================
