---------------------------- MODULE Observation ----------------------------
(***************************************************************************)
(* extract_observation of slm_sim/observation.py: what an agent is shown   *)
(* at a decision.  Six numbers for every core slot, eight for every task   *)
(* slot, eight for the whole system, each a fraction in units of Unit.     *)
(* The agent is not told which task it decides about; it is meant to be    *)
(* the one in the first slot.                                              *)
(***************************************************************************)
EXTENDS CoreStats

CONSTANTS
  ComponentType,   \* task -> component_type, 0 .. 4
  Limit            \* the normalisation constants and the sizes of the pools

ASSUME ObservationAssumption ==
  /\ ComponentType \in [Tasks -> 0 .. 4]
  /\ {"cores", "pending", "run_queue", "cache", "working_set", "model", "infer", "wait",
      "ready", "gpu_queue", "deadline", "latency", "weight_pool", "workspace_pool"}
       \subseteq DOMAIN Limit
  /\ \A f \in DOMAIN Limit : Limit[f] \in Nat \ {0}

(* _clamp01 of the fraction x / limit. *)
Clamped(x, limit) == Smaller(Unit, Larger(0, (x * Unit) \div limit))

-----------------------------------------------------------------------------
(* _fill_core_features: the slots beyond the last core stay empty, and the *)
(* cores beyond the last slot are not shown. *)
CoreFeatures(c) ==
  [utilization |-> Clamped(utilization_pct[c], Unit),
   run_queue_depth |-> Clamped(Len(run_queue[c]), Limit.run_queue),
   cache_pressure |-> Clamped(cached[c], Limit.cache * CacheSize[c]),
   core_type |-> IF c \in Performance THEN Unit ELSE 0,
   isolated |-> IF c \in Isolated THEN Unit ELSE 0,
   priority |-> IF current_task[c] = NoTask THEN 0
                ELSE (effective_priority[current_task[c]] * Unit) \div PRIORITY_CRITICAL]
CoreSlots == [i \in 1 .. Smaller(NCores, Limit.cores) |-> CoreFeatures(i - 1)]

-----------------------------------------------------------------------------
(* _fill_task_features: the READY tasks by priority, then by arrival, those*)
(* registered first before the others, as many as there are slots. *)
(* Mutation: tasks of equal priority stay in the order of registration. *)
ShownByPriority(t, u) ==
  \/ effective_priority[t] > effective_priority[u]
  \/ effective_priority[t] = effective_priority[u] /\ t < u
ShownBefore(t, u) ==
  \/ effective_priority[t] > effective_priority[u]
  \/ /\ effective_priority[t] = effective_priority[u]
     /\ \/ arrival_time_ns[t] < arrival_time_ns[u]
        \/ arrival_time_ns[t] = arrival_time_ns[u] /\ t < u

ReadyTasks == {t \in Tasks : state[t] = "READY"}
ShownAt(i) ==
  CHOOSE t \in ReadyTasks : Cardinality({u \in ReadyTasks : ShownBefore(u, t)}) = i - 1
Shown == [i \in 1 .. Smaller(Cardinality(ReadyTasks), Limit.pending) |-> ShownAt(i)]

DeadlineUrgency(t) ==
  IF Deadline(t) = 0 THEN 0
  ELSE IF Deadline(t) <= clock_ns THEN Unit
  ELSE Smaller(Unit, Larger(0, Unit - ((Deadline(t) - clock_ns) * Unit) \div Limit.deadline))

TaskFeatures(t) ==
  [priority |-> (effective_priority[t] * Unit) \div PRIORITY_CRITICAL,
   deadline_urgency |-> DeadlineUrgency(t),
   working_set |-> Clamped(WorkingSet[t], Limit.working_set),
   model_size |-> Clamped(ModelSize[t], Limit.model),
   inference_duration |-> Clamped(Work[t], Limit.infer),
   can_use_gpu |-> IF t \in CanUseGpu THEN Unit ELSE 0,
   wait_time |-> Clamped(clock_ns - arrival_time_ns[t], Limit.wait),
   component_type |-> Clamped(ComponentType[t], 4)]
TaskSlots == [i \in DOMAIN Shown |-> TaskFeatures(Shown[i])]

-----------------------------------------------------------------------------
(* _fill_global_features *)
Fraction(a, b) == IF b = 0 THEN 0 ELSE (a * Unit) \div b
MissRate == Fraction(metrics.missed, metrics.met + metrics.missed)
AverageLatency ==
  IF metrics.completed = 0 THEN 0
  ELSE MapThenSumSet(LAMBDA t : finish_time[t] - arrival_time_ns[t], Terminated)
         \div metrics.completed

(* The coefficient of variation of the cores' utilizations: the root of    *)
(* n * (sum of the squares) - (square of the sum), over the sum. *)
Root(x) == CHOOSE r \in 0 .. x : r * r <= x /\ x < (r + 1) * (r + 1)
SumOfUse == MapThenSumSet(LAMBDA c : utilization_pct[c], Cores)
Spread ==
  NCores * MapThenSumSet(LAMBDA c : utilization_pct[c] * utilization_pct[c], Cores)
    - SumOfUse * SumOfUse
Variation == Root(Spread * Unit * Unit) \div SumOfUse

GlobalFeatures ==
  [ready_count |-> Clamped(Cardinality(ReadyTasks), Limit.ready),
   miss_rate |-> MissRate,
   avg_latency |-> Clamped(AverageLatency, Limit.latency),
   weight_pool |-> Clamped(memory_used.weight, Limit.weight_pool),
   workspace_pool |-> Clamped(memory_used.workspace, Limit.workspace_pool),
   gpu_depth |-> Clamped(Len(gpu_queue), Limit.gpu_queue),
   imbalance |-> IF SumOfUse = 0 THEN 0 ELSE Smaller(Unit, Variation),
   progress |-> Clamped(clock_ns, Larger(1, EpisodeDuration))]

extract_observation ==
  [cores |-> CoreSlots, tasks |-> TaskSlots, system |-> GlobalFeatures]

-----------------------------------------------------------------------------
(* The task the decision is about is the one in the first slot, although   *)
(* the engine and the observation each pick it by a code of their own:     *)
(* trained models learn and act by that slot (observation.py               *)
(* _fill_task_features, engine.py _pick_highest_priority_ready_task). *)
PickedIsShownFirst == pc = "decide" => Len(Shown) > 0 /\ IsPicked(Shown[1])
=============================================================================
